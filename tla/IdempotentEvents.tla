-------------------------- MODULE IdempotentEvents --------------------------
(***************************************************************************)
(* What the consumer of the order events promises about one event, whatever *)
(* the broker does with its copies: an event is taken up only while it is    *)
(* fresh, by one worker at a time, takes effect at most once each time it is *)
(* taken up, and is fresh again only when its 24-hour key is forgotten.      *)
(***************************************************************************)
EXTENDS Naturals

CONSTANT Messages

VARIABLES
    phase,    \* "fresh", "working" or "over", for each event
    effects   \* how many times each event has taken effect

vars == <<phase, effects>>

TypeOK ==
    /\ phase \in [Messages -> {"fresh", "working", "over"}]
    /\ effects \in [Messages -> Nat]

Init ==
    /\ phase = [m \in Messages |-> "fresh"]
    /\ effects = [m \in Messages |-> 0]

Move(m, from, to) ==
    /\ phase[m] = from
    /\ phase' = [phase EXCEPT ![m] = to]

TakeUp(m) == Move(m, "fresh", "working") /\ UNCHANGED effects

\* The event takes effect, and the worker has nothing left that could repeat it.
TakeEffect(m) ==
    /\ Move(m, "working", "over")
    /\ effects' = [effects EXCEPT ![m] = @ + 1]

\* The worker gives up before the effect.
GiveUp(m) == Move(m, "working", "over") /\ UNCHANGED effects

\* Every worker is stopped at once.
StopAll ==
    /\ phase' = [m \in Messages |-> IF phase[m] = "working" THEN "over" ELSE phase[m]]
    /\ UNCHANGED effects

Forget(m) == Move(m, "over", "fresh") /\ UNCHANGED effects

Next ==
    \/ StopAll
    \/ \E m \in Messages : TakeUp(m) \/ TakeEffect(m) \/ GiveUp(m) \/ Forget(m)

Spec == Init /\ [][Next]_vars

=============================================================================
