------------------------- MODULE OrderEventsProofs -------------------------
(***************************************************************************)
(* The inductive invariant of OrderEvents, the safety of the consumer for   *)
(* any number of events and copies, and the proof that consumer, queues and *)
(* replay implement IdempotentEvents.                                       *)
(***************************************************************************)
EXTENDS OrderEvents, TLAPS

\* A copy in use is a copy of a message.
CopiesInv == \A k \in Copies : copy[k].msg \in Messages \/ copy[k] = NoCopy

\* A message being worked on has its key set, and only one of its copies is.
WorkInv ==
    \A k \in Copies :
        copy[k].at = "working" =>
            /\ copy[k].msg \in seen
            /\ \A j \in Copies : copy[j] = copy[k] => j = k

\* Every effect, done or under way, has used up a setting of the key.
CountInv ==
    \A m \in Messages :
        applied[m] + (IF Underway(m) THEN 1 ELSE 0)
            <= forgotten[m] + (IF m \in seen THEN 1 ELSE 0)

\* What NothingLost leaves out: the copy that is left is not one that a replay
\* has sent on already and is about to drop.
KeptInv ==
    \A m \in Messages :
        "sent" \in fate[m] =>
            \/ "acked" \in fate[m]
            \/ \E k \in Copies : copy[k].msg = m /\ copy[k].at # "resent"

\* The consumer has set the key of m at least once.
TakenUp(m) == m \in seen \/ forgotten[m] > 0

\* Whatever was taken up is under way, or ended in a way the history records.
ExplainedInv ==
    \A m \in Messages :
        TakenUp(m) => \/ Underway(m)
                      \/ applied[m] > 0
                      \/ fate[m] \cap {"unassigned", "cutOff"} # {}

\* Only what was taken up is settled or acknowledged.
AckedInv ==
    /\ \A m \in Messages : "acked" \in fate[m] => TakenUp(m)
    /\ \A k \in Copies : copy[k].at = "settled" => TakenUp(copy[k].msg)

IInv ==
    /\ TypeOK
    /\ CopiesInv
    /\ WorkInv
    /\ CountInv
    /\ KeptInv
    /\ ExplainedInv
    /\ AckedInv

-----------------------------------------------------------------------------
\* Steps at which no work begins or ends

Calm ==
    /\ \A k \in Copies :
          copy[k].at = "working" \/ copy'[k].at = "working" => copy'[k] = copy[k]
    /\ UNCHANGED <<seen, applied, forgotten>>
    /\ \A m \in Messages : fate[m] \subseteq fate'[m]

LEMMA CalmUnderway ==
    ASSUME IInv, TypeOK', Calm
    PROVE  \A m \in Messages : Underway(m)' <=> Underway(m)
<1>1. ASSUME NEW m \in Messages, Underway(m)
      PROVE  Underway(m)'
  <2>1. PICK k \in Copies : copy[k] = [msg |-> m, at |-> "working"]
    BY <1>1 DEF Underway
  <2>2. copy'[k] = copy[k]
    BY <2>1 DEF Calm
  <2> QED BY <2>1, <2>2 DEF Underway
<1>2. ASSUME NEW m \in Messages, Underway(m)'
      PROVE  Underway(m)
  <2>1. PICK k \in Copies : copy'[k] = [msg |-> m, at |-> "working"]
    BY <1>2 DEF Underway
  <2>2. copy'[k] = copy[k]
    BY <2>1 DEF Calm
  <2> QED BY <2>1, <2>2 DEF Underway
<1> QED BY <1>1, <1>2

LEMMA CalmStep ==
    ASSUME IInv, TypeOK', Calm
    PROVE  WorkInv' /\ CountInv' /\ ExplainedInv'
<1>1. \A m \in Messages : Underway(m)' <=> Underway(m)
  BY CalmUnderway
<1>2. WorkInv'
  BY DEF IInv, WorkInv, Calm
<1>3. CountInv'
  BY <1>1 DEF IInv, CountInv, Calm
<1>4. ExplainedInv'
  <2> SUFFICES ASSUME NEW m \in Messages, TakenUp(m)'
               PROVE  \/ Underway(m)'
                      \/ applied'[m] > 0
                      \/ fate'[m] \cap {"unassigned", "cutOff"} # {}
    BY DEF ExplainedInv
  <2>1. TakenUp(m)
    BY DEF TakenUp, Calm
  <2>2. Underway(m) \/ applied[m] > 0 \/ fate[m] \cap {"unassigned", "cutOff"} # {}
    BY <2>1 DEF IInv, ExplainedInv
  <2> QED BY <1>1, <2>2 DEF Calm
<1> QED BY <1>2, <1>3, <1>4

\* The calm steps of one copy.
CalmAction(k) ==
    \/ \E m \in Messages : Publish(m, k)
    \/ Deliver(k)
    \/ SkipDuplicate(k)
    \/ Ack(k)
    \/ Reject(k) /\ copy[k].at # "working"
    \/ ReplayGet(k)
    \/ \E new \in Copies : ReplaySend(k, new)
    \/ ReplayAck(k)
    \/ ReplayCutOff(k)

LEMMA CalmActionsType ==
    ASSUME IInv, NEW k \in Copies, CalmAction(k)
    PROVE  TypeOK'
<1>1. CASE \E m \in Messages : Publish(m, k)
  BY <1>1 DEF Publish, Record, IInv, TypeOK, Place
<1>2. CASE Deliver(k) \/ ReplayGet(k)
  BY <1>2 DEF Deliver, ReplayGet, Move, IInv, TypeOK, Place, AtConsumer, AtReplay
<1>3. CASE SkipDuplicate(k) \/ Ack(k)
  BY <1>3 DEF SkipDuplicate, Ack, Drop, Record, NoCopy, IInv, TypeOK, Place
<1>4. CASE Reject(k) /\ copy[k].at # "working"
  BY <1>4 DEF Reject, IInv, TypeOK, Place
<1>5. ASSUME NEW new \in Copies, ReplaySend(k, new)
      PROVE  TypeOK'
  BY <1>5 DEF ReplaySend, IInv, TypeOK, Place, AtReplay
<1>6. CASE ReplayAck(k)
  BY <1>6 DEF ReplayAck, Drop, NoCopy, IInv, TypeOK, Place
<1>7. CASE ReplayCutOff(k)
  BY <1>7, EventConstants DEF ReplayCutOff, IInv, TypeOK, Place
<1> QED BY <1>1, <1>2, <1>3, <1>4, <1>5, <1>6, <1>7 DEF CalmAction

LEMMA CalmActionsCalm ==
    ASSUME IInv, NEW k \in Copies, CalmAction(k)
    PROVE  Calm
<1>1. CASE \E m \in Messages : Publish(m, k)
  BY <1>1 DEF Publish, Record, NoCopy, IInv, TypeOK, Calm
<1>2. CASE Deliver(k) \/ ReplayGet(k)
  BY <1>2 DEF Deliver, ReplayGet, Move, IInv, TypeOK, Calm
<1>3. CASE SkipDuplicate(k) \/ Ack(k)
  BY <1>3 DEF SkipDuplicate, Ack, Drop, Record, NoCopy, IInv, TypeOK, Calm
<1>4. CASE Reject(k) /\ copy[k].at # "working"
  BY <1>4 DEF Reject, IInv, TypeOK, Calm
<1>5. ASSUME NEW new \in Copies, ReplaySend(k, new)
      PROVE  Calm
  BY <1>5 DEF ReplaySend, NoCopy, IInv, TypeOK, Calm
<1>6. CASE ReplayAck(k)
  BY <1>6 DEF ReplayAck, Drop, NoCopy, IInv, TypeOK, Calm
<1>7. CASE ReplayCutOff(k)
  BY <1>7 DEF ReplayCutOff, AtReplay, IInv, TypeOK, Calm
<1> QED BY <1>1, <1>2, <1>3, <1>4, <1>5, <1>6, <1>7 DEF CalmAction

LEMMA CalmActionsKeep ==
    ASSUME IInv, NEW k \in Copies, CalmAction(k)
    PROVE  CopiesInv' /\ KeptInv' /\ AckedInv'
<1>1. CASE \E m \in Messages : Publish(m, k)
  <2>1. PICK m \in Messages : Publish(m, k)
    BY <1>1
  <2>2. /\ copy' = [copy EXCEPT ![k] = [msg |-> m, at |-> "main"]] /\ copy[k] = NoCopy
        /\ fate' = [fate EXCEPT ![m] = @ \cup {"sent"}]
        /\ UNCHANGED <<seen, forgotten>>
    BY <2>1 DEF Publish, Record
  <2>3. CopiesInv'
    BY <2>2 DEF IInv, TypeOK, CopiesInv
  <2>4. KeptInv'
    <3> SUFFICES ASSUME NEW n \in Messages, "sent" \in fate'[n], "acked" \notin fate'[n]
                 PROVE  \E j \in Copies : copy'[j].msg = n /\ copy'[j].at # "resent"
      BY DEF KeptInv
    <3>1. CASE n = m
      BY <2>2, <3>1 DEF IInv, TypeOK
    <3>2. CASE n # m
      <4>1. PICK j \in Copies : copy[j].msg = n /\ copy[j].at # "resent"
        BY <2>2, <3>2 DEF IInv, TypeOK, KeptInv
      <4>2. j # k
        BY <2>2, <4>1, EventConstants DEF NoCopy
      <4> QED BY <2>2, <4>1, <4>2 DEF IInv, TypeOK
    <3> QED BY <3>1, <3>2
  <2>5. AckedInv'
    BY <2>2 DEF IInv, TypeOK, AckedInv, TakenUp
  <2> QED BY <2>3, <2>4, <2>5
<1>2. CASE Deliver(k) \/ ReplayGet(k)
  BY <1>2 DEF Deliver, ReplayGet, Move, NoCopy,
              IInv, TypeOK, CopiesInv, KeptInv, AckedInv, TakenUp
<1>3. CASE SkipDuplicate(k) \/ Ack(k)
  BY <1>3 DEF SkipDuplicate, Ack, Drop, Record, NoCopy,
              IInv, TypeOK, CopiesInv, KeptInv, AckedInv, TakenUp
<1>4. CASE Reject(k) /\ copy[k].at # "working"
  BY <1>4 DEF Reject, AtConsumer, NoCopy,
              IInv, TypeOK, CopiesInv, KeptInv, AckedInv, TakenUp
<1>5. ASSUME NEW new \in Copies, ReplaySend(k, new)
      PROVE  CopiesInv' /\ KeptInv' /\ AckedInv'
  <2>1. /\ copy[k].at = "taken" /\ copy[new] = NoCopy /\ new # k
        /\ copy' = [copy EXCEPT ![k].at = "resent",
                                ![new] = [msg |-> copy[k].msg, at |-> "main"]]
        /\ UNCHANGED <<seen, forgotten, fate>>
    BY <1>5 DEF ReplaySend, NoCopy
  <2>2. /\ copy'[new] = [msg |-> copy[k].msg, at |-> "main"]
        /\ copy'[k] = [copy[k] EXCEPT !.at = "resent"]
        /\ \A j \in Copies \ {k, new} : copy'[j] = copy[j]
    BY <2>1 DEF IInv, TypeOK
  <2>3. CopiesInv'
    BY <2>1, <2>2 DEF IInv, TypeOK, CopiesInv, NoCopy
  <2>4. KeptInv'
    <3> SUFFICES ASSUME NEW n \in Messages, "sent" \in fate[n], "acked" \notin fate[n]
                 PROVE  \E j \in Copies : copy'[j].msg = n /\ copy'[j].at # "resent"
      BY <2>1 DEF KeptInv
    <3>1. PICK j \in Copies : copy[j].msg = n /\ copy[j].at # "resent"
      BY DEF IInv, KeptInv
    <3>2. j # new
      BY <2>1, <3>1, EventConstants DEF NoCopy
    <3>3. CASE j = k
      BY <2>2, <3>1, <3>3
    <3>4. CASE j # k
      BY <2>2, <3>1, <3>2, <3>4
    <3> QED BY <3>3, <3>4
  <2>5. AckedInv'
    BY <2>1, <2>2 DEF IInv, TypeOK, AckedInv, TakenUp
  <2> QED BY <2>3, <2>4, <2>5
<1>6. CASE ReplayAck(k)
  BY <1>6 DEF ReplayAck, Drop, NoCopy,
              IInv, TypeOK, CopiesInv, KeptInv, AckedInv, TakenUp
<1>7. CASE ReplayCutOff(k)
  BY <1>7 DEF ReplayCutOff, AtReplay, NoCopy,
              IInv, TypeOK, CopiesInv, KeptInv, AckedInv, TakenUp
<1> QED BY <1>1, <1>2, <1>3, <1>4, <1>5, <1>6, <1>7 DEF CalmAction

LEMMA CalmActionsKeepIInv ==
    ASSUME IInv, NEW k \in Copies, CalmAction(k)
    PROVE  IInv'
BY CalmActionsType, CalmActionsCalm, CalmActionsKeep, CalmStep DEF IInv

-----------------------------------------------------------------------------
\* Steps at which work begins

LEMMA MarkSeenUnderway ==
    ASSUME IInv, NEW k \in Copies, NEW m \in Messages, copy[k].msg = m, MarkSeen(k)
    PROVE  /\ ~Underway(m) /\ Underway(m)'
           /\ \A n \in Messages \ {m} : Underway(n)' <=> Underway(n)
<1>1. /\ m \notin seen /\ copy[k].at = "received"
      /\ copy' = [copy EXCEPT ![k].at = "working"]
  BY DEF MarkSeen, Move
<1>3. ~Underway(m)
  BY <1>1 DEF IInv, WorkInv, Underway
<1>4. Underway(m)'
  BY <1>1 DEF IInv, TypeOK, Underway
<1>5. ASSUME NEW n \in Messages, n # m
      PROVE  Underway(n)' <=> Underway(n)
  BY <1>1, <1>5 DEF IInv, TypeOK, Underway
<1> QED BY <1>3, <1>4, <1>5

LEMMA MarkSeenKeepsIInv ==
    ASSUME IInv, NEW k \in Copies, MarkSeen(k)
    PROVE  IInv'
<1>0. PICK m \in Messages : copy[k].msg = m
  BY DEF MarkSeen, Move, IInv, CopiesInv, NoCopy
<1>1. /\ m \notin seen /\ copy[k].at = "received"
      /\ copy' = [copy EXCEPT ![k].at = "working"]
      /\ seen' = seen \cup {m}
      /\ UNCHANGED <<failures, applied, forgotten, fate>>
  BY <1>0 DEF MarkSeen, Move
<1>2. /\ ~Underway(m) /\ Underway(m)'
      /\ \A n \in Messages \ {m} : Underway(n)' <=> Underway(n)
  BY <1>0, MarkSeenUnderway
<1>3. TypeOK'
  BY <1>1, <1>2 DEF IInv, TypeOK, Place, AtConsumer
<1>4. CopiesInv' /\ KeptInv'
  BY <1>1 DEF IInv, TypeOK, CopiesInv, KeptInv, NoCopy
<1>5. WorkInv'
  BY <1>0, <1>1 DEF IInv, TypeOK, WorkInv
<1>6. CountInv'
  BY <1>1, <1>2 DEF IInv, TypeOK, CountInv
<1>7. ExplainedInv'
  <2> SUFFICES ASSUME NEW n \in Messages, TakenUp(n)', n # m
               PROVE  Underway(n)' \/ applied'[n] > 0
                          \/ fate'[n] \cap {"unassigned", "cutOff"} # {}
    BY <1>2 DEF ExplainedInv
  <2>1. TakenUp(n)
    BY <1>1 DEF TakenUp
  <2> QED BY <1>1, <1>2, <2>1 DEF IInv, ExplainedInv
<1>8. AckedInv'
  BY <1>1 DEF IInv, TypeOK, AckedInv, TakenUp
<1> QED BY <1>3, <1>4, <1>5, <1>6, <1>7, <1>8 DEF IInv

-----------------------------------------------------------------------------
\* Steps at which the work on a copy ends

WorkEnds(k) ==
    \/ Apply(k)
    \/ LeaveUnassigned(k)
    \/ Reject(k) /\ copy[k].at = "working"

LEMMA WorkEndsUnderway ==
    ASSUME IInv, NEW k \in Copies, NEW m \in Messages, copy[k].msg = m, WorkEnds(k)
    PROVE  /\ m \in seen
           /\ Underway(m) /\ ~Underway(m)'
           /\ \A n \in Messages \ {m} : Underway(n)' <=> Underway(n)
<1>1. PICK to \in {"settled", "dead"} :
          copy[k].at = "working" /\ copy' = [copy EXCEPT ![k].at = to]
  BY DEF WorkEnds, Apply, LeaveUnassigned, Reject, Move
<1>2. m \in seen
  BY <1>1 DEF IInv, WorkInv
<1>3. copy[k] = [msg |-> m, at |-> "working"]
  BY <1>1 DEF IInv, TypeOK
<1>4. Underway(m)
  BY <1>3 DEF Underway
<1>5. ~Underway(m)'
  <2> SUFFICES ASSUME NEW j \in Copies, copy'[j] = [msg |-> m, at |-> "working"]
               PROVE  FALSE
    BY DEF Underway
  <2>1. j # k
    BY <1>1 DEF IInv, TypeOK
  <2>2. copy[j] = copy[k]
    BY <1>1, <1>3, <2>1 DEF IInv, TypeOK
  <2> QED BY <1>1, <2>1, <2>2 DEF IInv, WorkInv
<1>6. ASSUME NEW n \in Messages, n # m
      PROVE  Underway(n)' <=> Underway(n)
  BY <1>1, <1>6 DEF IInv, TypeOK, Underway
<1> QED BY <1>2, <1>4, <1>5, <1>6

LEMMA WorkEndsKeepsIInv ==
    ASSUME IInv, NEW k \in Copies, WorkEnds(k)
    PROVE  IInv'
<1>0. PICK m \in Messages : copy[k].msg = m
  BY DEF WorkEnds, Apply, LeaveUnassigned, Reject, Move, IInv, CopiesInv, NoCopy
<1>1. /\ m \in seen /\ Underway(m) /\ ~Underway(m)'
      /\ \A n \in Messages \ {m} : Underway(n)' <=> Underway(n)
  BY <1>0, WorkEndsUnderway
<1>2. PICK to \in {"settled", "dead"} :
          copy[k].at = "working" /\ copy' = [copy EXCEPT ![k].at = to]
  BY DEF WorkEnds, Apply, LeaveUnassigned, Reject, Move
<1>3. /\ UNCHANGED <<seen, failures, forgotten>>
      /\ \/ applied' = [applied EXCEPT ![m] = @ + 1] /\ UNCHANGED fate
         \/ /\ UNCHANGED applied
            /\ \E what \in {"unassigned", "cutOff"} :
                  fate' = [fate EXCEPT ![m] = @ \cup {what}]
  BY <1>0 DEF WorkEnds, Apply, LeaveUnassigned, Reject, Record
<1>4. TypeOK'
  <2>1. copy' \in [Copies -> [msg: Messages \cup {None}, at: Place]]
    BY <1>2 DEF IInv, TypeOK, Place, AtConsumer
  <2>2. applied' \in [Messages -> Nat]
    BY <1>1, <1>3 DEF IInv, TypeOK
  <2>3. fate' \in [Messages -> SUBSET {"sent", "acked", "unassigned", "cutOff"}]
    BY <1>1, <1>3 DEF IInv, TypeOK
  <2> QED BY <1>3, <2>1, <2>2, <2>3 DEF IInv, TypeOK
<1>5. CopiesInv'
  BY <1>2 DEF IInv, TypeOK, CopiesInv, NoCopy
<1>6. KeptInv'
  BY <1>2, <1>3 DEF IInv, TypeOK, KeptInv
<1>7. WorkInv'
  BY <1>2, <1>3 DEF IInv, TypeOK, WorkInv
<1>8. CountInv'
  <2> SUFFICES ASSUME NEW n \in Messages
               PROVE  applied'[n] + (IF Underway(n)' THEN 1 ELSE 0)
                          <= forgotten'[n] + (IF n \in seen' THEN 1 ELSE 0)
    BY DEF CountInv
  <2>1. applied[n] + (IF Underway(n) THEN 1 ELSE 0)
            <= forgotten[n] + (IF n \in seen THEN 1 ELSE 0)
    BY DEF IInv, CountInv
  <2> QED BY <1>1, <1>3, <2>1 DEF IInv, TypeOK
<1>9. ExplainedInv'
  <2> SUFFICES ASSUME NEW n \in Messages, TakenUp(n)'
               PROVE  Underway(n)' \/ applied'[n] > 0
                          \/ fate'[n] \cap {"unassigned", "cutOff"} # {}
    BY DEF ExplainedInv
  <2>1. CASE n = m
    BY <1>1, <1>3, <2>1 DEF IInv, TypeOK
  <2>2. CASE n # m
    BY <1>1, <1>3, <2>2 DEF IInv, TypeOK, ExplainedInv, TakenUp
  <2> QED BY <2>1, <2>2
<1>10. AckedInv'
  BY <1>0, <1>1, <1>2, <1>3 DEF IInv, TypeOK, AckedInv, TakenUp
<1> QED BY <1>4, <1>5, <1>6, <1>7, <1>8, <1>9, <1>10 DEF IInv

-----------------------------------------------------------------------------
\* The crash, which ends all work, and the expiry of a key

LEMMA CrashUnderway ==
    ASSUME IInv, Crash
    PROVE  \A m \in Messages : ~Underway(m)'
BY DEF Crash, Underway, AtConsumer

LEMMA CrashKeepsIInv ==
    ASSUME IInv, Crash
    PROVE  IInv'
<1> DEFINE After(p) == IF p \in AtConsumer THEN "main"
                       ELSE IF p \in AtReplay THEN "dead" ELSE p
<1>1. /\ copy' = [k \in Copies |-> [copy[k] EXCEPT !.at = After(copy[k].at)]]
      /\ fate' = [m \in Messages |->
                     IF Underway(m) THEN fate[m] \cup {"cutOff"} ELSE fate[m]]
      /\ failures < MaxFailures /\ failures' = failures + 1
      /\ UNCHANGED <<seen, applied, forgotten>>
  BY DEF Crash
<1>2. \A k \in Copies : /\ copy'[k].msg = copy[k].msg
                        /\ copy'[k].at = After(copy[k].at)
                        /\ copy'[k].at \notin AtConsumer \cup AtReplay
                        /\ copy[k] = NoCopy => copy'[k] = NoCopy
  BY <1>1 DEF IInv, TypeOK, AtConsumer, AtReplay, NoCopy
<1>3. \A m \in Messages : ~Underway(m)'
  BY CrashUnderway
<1>4. TypeOK'
  BY <1>1, EventConstants DEF IInv, TypeOK, Place
<1>5. CopiesInv' /\ WorkInv'
  BY <1>2 DEF IInv, CopiesInv, WorkInv, AtConsumer
<1>6. CountInv'
  BY <1>1, <1>3 DEF IInv, TypeOK, CountInv
<1>7. KeptInv'
  BY <1>1, <1>2 DEF IInv, TypeOK, KeptInv, AtReplay
<1>8. ExplainedInv'
  BY <1>1 DEF IInv, TypeOK, ExplainedInv, TakenUp
<1>9. AckedInv'
  BY <1>1, <1>2 DEF IInv, TypeOK, AckedInv, TakenUp, AtConsumer
<1> QED BY <1>4, <1>5, <1>6, <1>7, <1>8, <1>9 DEF IInv

LEMMA ForgetKeepsIInv ==
    ASSUME IInv, NEW m \in Messages, Forget(m)
    PROVE  IInv'
<1>1. /\ m \in seen /\ ~Underway(m)
      /\ seen' = seen \ {m} /\ forgotten' = [forgotten EXCEPT ![m] = @ + 1]
      /\ UNCHANGED <<copy, failures, applied, fate>>
  BY DEF Forget
<1>2. \A n \in Messages : Underway(n)' <=> Underway(n)
  BY <1>1 DEF Underway
<1>3. TypeOK' /\ CopiesInv' /\ KeptInv'
  BY <1>1 DEF IInv, TypeOK, CopiesInv, KeptInv, Place
<1>4. WorkInv'
  <2>1. \A k \in Copies : copy[k].at = "working" => copy[k].msg # m
    BY <1>1 DEF IInv, TypeOK, Underway
  <2> QED BY <1>1, <2>1 DEF IInv, WorkInv
<1>5. CountInv'
  BY <1>1, <1>2 DEF IInv, TypeOK, CountInv
<1>6. \A n \in Messages : TakenUp(n)' <=> TakenUp(n)
  BY <1>1 DEF IInv, TypeOK, TakenUp
<1>7. ExplainedInv'
  BY <1>1, <1>2, <1>6 DEF IInv, ExplainedInv
<1>8. AckedInv'
  BY <1>1 DEF IInv, TypeOK, AckedInv, TakenUp
<1> QED BY <1>3, <1>4, <1>5, <1>7, <1>8 DEF IInv

-----------------------------------------------------------------------------
\* The invariant

LEMMA InitIInv == Init => IInv
<1> SUFFICES ASSUME Init PROVE IInv
  OBVIOUS
<1>1. TypeOK /\ CopiesInv /\ KeptInv /\ AckedInv
  BY EventConstants DEF Init, TypeOK, CopiesInv, KeptInv, AckedInv, NoCopy, Place
<1>2. \A m \in Messages : ~Underway(m)
  BY DEF Init, Underway, NoCopy
<1>3. WorkInv /\ CountInv /\ ExplainedInv
  BY <1>2 DEF Init, WorkInv, CountInv, ExplainedInv, TakenUp, NoCopy
<1> QED BY <1>1, <1>3 DEF IInv

\* Every step is calm, begins work, ends work, is a crash or an expiry.
LEMMA StepKinds ==
    ASSUME Next
    PROVE  \/ \E k \in Copies : CalmAction(k) \/ MarkSeen(k) \/ WorkEnds(k)
           \/ Crash
           \/ \E m \in Messages : Forget(m)
BY DEF Next, Consume, ReplayStep, CalmAction, WorkEnds

LEMMA StepIInv == IInv /\ [Next]_vars => IInv'
<1> SUFFICES ASSUME IInv, [Next]_vars PROVE IInv'
  OBVIOUS
<1>1. CASE UNCHANGED vars
  <2>1. \A m \in Messages : Underway(m)' <=> Underway(m)
    BY <1>1 DEF vars, Underway
  <2> QED
    BY <1>1, <2>1 DEF vars, IInv, TypeOK, CopiesInv, WorkInv, CountInv, KeptInv,
                      ExplainedInv, AckedInv, TakenUp
<1>2. CASE Next
  BY <1>2, StepKinds, CalmActionsKeepIInv, MarkSeenKeepsIInv, WorkEndsKeepsIInv,
     CrashKeepsIInv, ForgetKeepsIInv
<1> QED BY <1>1, <1>2

\* The strengthened invariant holds of every reachable state: the work under
\* way, the keys and the histories agree.
THEOREM Invariance == Spec => []IInv
BY InitIInv, StepIInv, PTL DEF Spec

\* Every copy is at a place the code knows.
THEOREM TypeCorrect == Spec => []TypeOK
<1>1. IInv => TypeOK
  BY DEF IInv
<1> QED BY <1>1, Invariance, PTL

\* For any number of copies, redeliveries and replays, an event sets a courier
\* once, and once more for each expiry of its key (onOrderReadyForDelivery).
THEOREM AtMostOnceTheorem == Spec => []AtMostOncePerKey
<1>1. IInv => AtMostOncePerKey
  <2> SUFFICES ASSUME IInv, NEW m \in Messages
               PROVE  applied[m] <= 1 + forgotten[m]
    BY DEF AtMostOncePerKey
  <2>1. applied[m] + (IF Underway(m) THEN 1 ELSE 0)
            <= forgotten[m] + (IF m \in seen THEN 1 ELSE 0)
    BY DEF IInv, CountInv
  <2>2. applied[m] \in Nat /\ forgotten[m] \in Nat
    BY DEF IInv, TypeOK
  <2> QED BY <2>1, <2>2
<1> QED BY <1>1, Invariance, PTL

\* No order of acks, nacks, replays and crashes loses an event that was never
\* acknowledged by the consumer (replayAll sends before it acknowledges).
THEOREM NothingLostTheorem == Spec => []NothingLost
<1>1. IInv => NothingLost
  BY DEF IInv, KeptInv, NothingLost
<1> QED BY <1>1, Invariance, PTL

\* An event acknowledged without a courier has a recorded reason
\* (onOrderReadyForDelivery).
THEOREM ExplainedTheorem == Spec => []UnappliedIsExplained
<1>1. IInv => UnappliedIsExplained
  BY DEF IInv, TypeOK, ExplainedInv, AckedInv, UnappliedIsExplained
<1> QED BY <1>1, Invariance, PTL

-----------------------------------------------------------------------------
\* The refinement

LEMMA InitRefines == Init => Once!Init
<1> SUFFICES ASSUME Init PROVE Once!Init
  OBVIOUS
<1>1. \A m \in Messages : ~Underway(m) /\ m \notin seen
  BY DEF Init, Underway, NoCopy
<1> QED BY <1>1 DEF Init, Once!Init, phase

\* A step that leaves the work under way, the keys and the effects as they are
\* is no step of IdempotentEvents.
LEMMA CalmRefines ==
    ASSUME UNCHANGED <<seen, applied>>, \A m \in Messages : Underway(m)' <=> Underway(m)
    PROVE  UNCHANGED Once!vars
BY DEF Once!vars, phase

LEMMA MarkSeenRefines ==
    ASSUME IInv, NEW k \in Copies, MarkSeen(k)
    PROVE  \E m \in Messages : Once!TakeUp(m)
<1>1. PICK m \in Messages : copy[k].msg = m
  BY DEF MarkSeen, Move, IInv, CopiesInv, NoCopy
<1>2. /\ ~Underway(m) /\ Underway(m)'
      /\ \A n \in Messages \ {m} : Underway(n)' <=> Underway(n)
  BY <1>1, MarkSeenUnderway
<1>3. m \notin seen /\ seen' = seen \cup {m} /\ UNCHANGED applied
  BY <1>1 DEF MarkSeen
<1> QED BY <1>2, <1>3 DEF Once!TakeUp, Once!Move, phase

LEMMA WorkEndsRefines ==
    ASSUME IInv, NEW k \in Copies, WorkEnds(k)
    PROVE  \E m \in Messages : Once!TakeEffect(m) \/ Once!GiveUp(m)
<1>1. PICK m \in Messages : copy[k].msg = m
  BY DEF WorkEnds, Apply, LeaveUnassigned, Reject, Move, IInv, CopiesInv, NoCopy
<1>2. /\ m \in seen /\ Underway(m) /\ ~Underway(m)'
      /\ \A n \in Messages \ {m} : Underway(n)' <=> Underway(n)
  BY <1>1, WorkEndsUnderway
<1>3. /\ UNCHANGED seen
      /\ applied' = [applied EXCEPT ![m] = @ + 1] \/ UNCHANGED applied
  BY <1>1 DEF WorkEnds, Apply, LeaveUnassigned, Reject
<1>4. phase[m] = "working" /\ phase' = [phase EXCEPT ![m] = "over"]
  BY <1>2, <1>3 DEF phase
<1> QED BY <1>3, <1>4 DEF Once!TakeEffect, Once!GiveUp, Once!Move

LEMMA CrashRefines ==
    ASSUME IInv, Crash
    PROVE  Once!StopAll
<1>1. \A m \in Messages : ~Underway(m)'
  BY CrashUnderway
<1>2. UNCHANGED <<seen, applied>>
  BY DEF Crash
<1>3. \A m \in Messages : Underway(m) => m \in seen
  BY DEF IInv, WorkInv, Underway
<1> QED BY <1>1, <1>2, <1>3 DEF Once!StopAll, phase

LEMMA ForgetRefines ==
    ASSUME IInv, NEW m \in Messages, Forget(m)
    PROVE  Once!Forget(m)
<1>1. /\ m \in seen /\ ~Underway(m) /\ seen' = seen \ {m} /\ UNCHANGED applied
      /\ \A n \in Messages : Underway(n)' <=> Underway(n)
  BY DEF Forget, Underway
<1> QED BY <1>1 DEF Once!Forget, Once!Move, phase

LEMMA StepRefines == IInv /\ [Next]_vars => [Once!Next]_(Once!vars)
<1> SUFFICES ASSUME IInv, [Next]_vars PROVE [Once!Next]_(Once!vars)
  OBVIOUS
<1>1. CASE UNCHANGED vars
  BY <1>1, CalmRefines DEF vars, Underway
<1>2. ASSUME NEW k \in Copies, CalmAction(k)
      PROVE  UNCHANGED Once!vars
  <2>1. TypeOK' /\ Calm
    BY <1>2, CalmActionsType, CalmActionsCalm
  <2>2. \A m \in Messages : Underway(m)' <=> Underway(m)
    BY <2>1, CalmUnderway
  <2> QED BY <2>1, <2>2, CalmRefines DEF Calm
<1>3. CASE Next
  BY <1>2, <1>3, StepKinds, MarkSeenRefines, WorkEndsRefines, CrashRefines,
     ForgetRefines DEF Once!Next
<1> QED BY <1>1, <1>3

\* Consumer, queues and replay implement IdempotentEvents: whatever the broker
\* does, an event is worked on by one delivery at a time, takes effect at most
\* once each time it is taken up, and is fresh again only when its key expires.
THEOREM RefinementTheorem == Spec => ImplementsIdempotentEvents
BY InitRefines, StepRefines, Invariance, PTL DEF Spec, Once!Spec, ImplementsIdempotentEvents

=============================================================================
