---------------------------- MODULE OrderEvents ----------------------------
(***************************************************************************)
(* The READY_FOR_DELIVERY events between publisher and courier assignment: *)
(* the main queue and its dead-letter queue in RabbitMQ, the consumer       *)
(* (courier-assignment/order-events.consumer.ts) with its Redis             *)
(* idempotency key, and the administrator's replay of the dead letters      *)
(* (messaging/dlq.service.ts).                                              *)
(*                                                                         *)
(* The broker keeps copies of a message, each at one place at a time.  What *)
(* is unacknowledged when the backend stops goes back to the queue it came  *)
(* from, and a replay cut off between send and acknowledgement leaves a     *)
(* copy in both queues.  The consumer sets no prefetch limit, so any number *)
(* of copies is processed at once and a queue has no order worth keeping.   *)
(***************************************************************************)
EXTENDS Naturals

CONSTANTS
    Messages,     \* the messageIds
    Copies,       \* bound: the copies the broker holds at once, at most
    None,
    MaxFailures,  \* bound: crashes of the backend and cut-off replays
    MaxForgotten  \* bound: times the key of a message expires

ASSUME EventConstants ==
    /\ None \notin Messages
    /\ MaxFailures \in Nat
    /\ MaxForgotten \in Nat

VARIABLES
    copy,       \* the message of each copy, and the place the copy is at
    seen,       \* the messages whose event:seen:<messageId> key is in Redis
    failures,   \* how many crashes and cut-off replays there have been
    applied,    \* history: how many times each message has set a courier
    forgotten,  \* history: how many times each key has expired
    fate        \* history: what has happened to each message

vars == <<copy, seen, failures, applied, forgotten, fate>>

-----------------------------------------------------------------------------

AtConsumer == {"received",  \* delivered, the SET NX not answered yet
               "working",   \* marked, and its assignment is under way
               "settled"}   \* nothing is left to do but the ack

AtReplay == {"taken",   \* got from the dead letters by a replay
             "resent"}  \* sent to the main queue, not acknowledged to the dead one

Place == {"unused", "main", "dead"} \cup AtConsumer \cup AtReplay

NoCopy == [msg |-> None, at |-> "unused"]

TypeOK ==
    /\ copy \in [Copies -> [msg: Messages \cup {None}, at: Place]]
    /\ seen \subseteq Messages
    /\ failures \in 0..MaxFailures
    /\ applied \in [Messages -> Nat]
    /\ forgotten \in [Messages -> Nat]
    /\ fate \in [Messages -> SUBSET {"sent", "acked", "unassigned", "cutOff"}]

Init ==
    /\ copy = [k \in Copies |-> NoCopy]
    /\ seen = {}
    /\ failures = 0
    /\ applied = [m \in Messages |-> 0]
    /\ forgotten = [m \in Messages |-> 0]
    /\ fate = [m \in Messages |-> {}]

\* Copy k goes from one place to another.
Move(k, from, to) ==
    /\ copy[k].at = from
    /\ copy' = [copy EXCEPT ![k].at = to]

\* Copy k is acknowledged: the broker drops it.
Drop(k) == copy' = [copy EXCEPT ![k] = NoCopy]

Record(m, what) == fate' = [fate EXCEPT ![m] = @ \cup {what}]

Underway(m) == \E k \in Copies : copy[k] = [msg |-> m, at |-> "working"]

-----------------------------------------------------------------------------
\* OrderEventsPublisher.publishReadyForDelivery: every event gets a new
\* random messageId.
Publish(m, k) ==
    /\ "sent" \notin fate[m]
    /\ copy[k] = NoCopy
    /\ copy' = [copy EXCEPT ![k] = [msg |-> m, at |-> "main"]]
    /\ Record(m, "sent")
    /\ UNCHANGED <<seen, failures, applied, forgotten>>

-----------------------------------------------------------------------------
\* OrderEventsConsumer.onOrderReadyForDelivery

Deliver(k) ==
    /\ Move(k, "main", "received")
    /\ UNCHANGED <<seen, failures, applied, forgotten, fate>>

\* Mutant: the key is set whether it is there or not, and the work goes on.
MarkAnyway(k) ==
    /\ Move(k, "received", "working")
    /\ seen' = seen \cup {copy[k].msg}
    /\ UNCHANGED <<failures, applied, forgotten, fate>>

\* setIfNotExists answers OK: the key is there before any work is done.
MarkSeen(k) ==
    /\ copy[k].msg \notin seen
    /\ Move(k, "received", "working")
    /\ seen' = seen \cup {copy[k].msg}
    /\ UNCHANGED <<failures, applied, forgotten, fate>>

\* The key is there: the delivery is taken for a duplicate and acknowledged.
SkipDuplicate(k) ==
    /\ copy[k].at = "received"
    /\ copy[k].msg \in seen
    /\ Drop(k)
    /\ Record(copy[k].msg, "acked")
    /\ UNCHANGED <<seen, failures, applied, forgotten>>

\* Mutant: an UPDATE whose answer is lost is tried again.
ApplyAndRetry(k) ==
    /\ copy[k].at = "working"
    /\ applied' = [applied EXCEPT ![copy[k].msg] = @ + 1]
    /\ applied[copy[k].msg] < 3
    /\ UNCHANGED <<copy, seen, failures, forgotten, fate>>

\* assignCourierForOrder writes the courier it has chosen.
Apply(k) ==
    /\ Move(k, "working", "settled")
    /\ applied' = [applied EXCEPT ![copy[k].msg] = @ + 1]
    /\ UNCHANGED <<seen, failures, forgotten, fate>>

\* assignCourierForOrder returns early: no courier at all, or none on shift.
LeaveUnassigned(k) ==
    /\ Move(k, "working", "settled")
    /\ Record(copy[k].msg, "unassigned")
    /\ UNCHANGED <<seen, failures, applied, forgotten>>

\* Mutant: the ack does not wait for the assignment.
AckAtOnce(k) ==
    /\ copy[k].at \in {"working", "settled"}
    /\ Drop(k)
    /\ Record(copy[k].msg, "acked")
    /\ UNCHANGED <<seen, failures, applied, forgotten>>

Ack(k) ==
    /\ copy[k].at = "settled"
    /\ Drop(k)
    /\ Record(copy[k].msg, "acked")
    /\ UNCHANGED <<seen, failures, applied, forgotten>>

\* Mutant: the queue has no dead-letter arguments, and a nack discards.
Discard(k) ==
    /\ copy[k].at \in AtConsumer
    /\ Drop(k)
    /\ IF copy[k].at = "working" THEN Record(copy[k].msg, "cutOff") ELSE UNCHANGED fate
    /\ UNCHANGED <<seen, failures, applied, forgotten>>

\* Mutant: the nack asks the broker to requeue.
RejectAndRequeue(k) ==
    /\ copy[k].at \in AtConsumer
    /\ copy' = [copy EXCEPT ![k].at = "main"]
    /\ IF copy[k].at = "working" THEN Record(copy[k].msg, "cutOff") ELSE UNCHANGED fate
    /\ UNCHANGED <<seen, failures, applied, forgotten>>

\* Anything throws, before the mark, before the effect or after it: nack
\* without requeue, and the broker dead-letters the copy.  The key stays.
Reject(k) ==
    /\ copy[k].at \in AtConsumer
    /\ copy' = [copy EXCEPT ![k].at = "dead"]
    /\ IF copy[k].at = "working" THEN Record(copy[k].msg, "cutOff") ELSE UNCHANGED fate
    /\ UNCHANGED <<seen, failures, applied, forgotten>>

-----------------------------------------------------------------------------
\* DlqService.replayAll, one or several at once: get, send, ack

ReplayGet(k) ==
    /\ Move(k, "dead", "taken")
    /\ UNCHANGED <<seen, failures, applied, forgotten, fate>>

\* The content, and with it the messageId, is sent as it was.
ReplaySend(k, new) ==
    /\ copy[k].at = "taken"
    /\ copy[new] = NoCopy
    /\ copy' = [copy EXCEPT ![k].at = "resent",
                            ![new] = [msg |-> copy[k].msg, at |-> "main"]]
    /\ UNCHANGED <<seen, failures, applied, forgotten, fate>>

ReplayAck(k) ==
    /\ copy[k].at = "resent"
    /\ Drop(k)
    /\ UNCHANGED <<seen, failures, applied, forgotten, fate>>

\* The connection of the replay breaks: the broker takes back what it had got.
ReplayCutOff(k) ==
    /\ failures < MaxFailures
    /\ copy[k].at \in AtReplay
    /\ copy' = [copy EXCEPT ![k].at = "dead"]
    /\ failures' = failures + 1
    /\ UNCHANGED <<seen, applied, forgotten, fate>>

-----------------------------------------------------------------------------
\* The backend stops and starts again.  Redis and RabbitMQ keep running.
Crash ==
    /\ failures < MaxFailures
    /\ failures' = failures + 1
    /\ copy' = [k \in Copies |->
                   [copy[k] EXCEPT !.at = IF @ \in AtConsumer THEN "main"
                                          ELSE IF @ \in AtReplay THEN "dead"
                                          ELSE @]]
    /\ fate' = [m \in Messages |->
                   IF Underway(m) THEN fate[m] \cup {"cutOff"} ELSE fate[m]]
    /\ UNCHANGED <<seen, applied, forgotten>>

\* The key expires 24 hours after it was set, long after the delivery that set
\* it is over.
Forget(m) ==
    /\ forgotten[m] < MaxForgotten
    /\ m \in seen
    /\ ~Underway(m)
    /\ seen' = seen \ {m}
    /\ forgotten' = [forgotten EXCEPT ![m] = @ + 1]
    /\ UNCHANGED <<copy, failures, applied, fate>>

Consume(k) ==
    \/ Deliver(k)
    \/ MarkSeen(k)
    \/ SkipDuplicate(k)
    \/ Apply(k)
    \/ LeaveUnassigned(k)
    \/ Ack(k)
    \/ Reject(k)

ReplayStep(k) ==
    \/ ReplayGet(k)
    \/ \E new \in Copies : ReplaySend(k, new)
    \/ ReplayAck(k)
    \/ ReplayCutOff(k)

Next ==
    \/ \E m \in Messages, k \in Copies : Publish(m, k)
    \/ \E k \in Copies : Consume(k) \/ ReplayStep(k)
    \/ Crash
    \/ \E m \in Messages : Forget(m)

Spec == Init /\ [][Next]_vars

\* The broker pushes what is queued to the consumer, and a handler that has
\* started runs until it acknowledges or rejects.  Nobody has to publish or to
\* ask for a replay, and nothing has to fail.
FairSpec == Spec /\ \A k \in Copies : WF_vars(Consume(k))

-----------------------------------------------------------------------------
\* Properties

\* No event sets a courier more often than its idempotency key allows, however
\* often it is redelivered, dead-lettered and replayed: once, and once more for
\* each time the key has expired.
AtMostOncePerKey == \A m \in Messages : applied[m] <= 1 + forgotten[m]

\* A published event is never lost without a trace: until one of its copies is
\* acknowledged, a copy is in a queue, at the consumer or at the replay.
NothingLost ==
    \A m \in Messages :
        "sent" \in fate[m] =>
            \/ "acked" \in fate[m]
            \/ \E k \in Copies : copy[k].msg = m

\* An event is acknowledged without having set a courier only when no courier
\* was there to set, when another copy of it is being worked on, or when an
\* earlier delivery of it was cut off after it had set the key.
UnappliedIsExplained ==
    \A m \in Messages :
        "acked" \in fate[m] /\ applied[m] = 0 =>
            \/ Underway(m)
            \/ fate[m] \cap {"unassigned", "cutOff"} # {}

\* What the consumer's log line says of a delivery it skips ("Duplicate
\* event"): an event that is acknowledged has been handled, or is being handled
\* by another delivery.
SkippedWasHandled ==
    \A m \in Messages :
        "acked" \in fate[m] =>
            \/ applied[m] > 0
            \/ "unassigned" \in fate[m]
            \/ Underway(m)

\* Crashes, failures and duplicates never keep an event with the consumer for
\* ever: it comes to be acknowledged, or left to the administrator, as a dead
\* letter or in a replay that has taken it up.
EventuallySettled ==
    \A m \in Messages :
        "sent" \in fate[m] ~>
            \/ "acked" \in fate[m]
            \/ \E k \in Copies : /\ copy[k].msg = m
                                  /\ copy[k].at \in {"dead"} \cup AtReplay

\* Consumer, queues and replay together implement IdempotentEvents.
phase == [m \in Messages |-> IF Underway(m) THEN "working"
                             ELSE IF m \in seen THEN "over" ELSE "fresh"]

Once == INSTANCE IdempotentEvents WITH effects <- applied

ImplementsIdempotentEvents == Once!Spec

=============================================================================
