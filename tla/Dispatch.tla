------------------------------ MODULE Dispatch ------------------------------
(***************************************************************************)
(* OrderLifecycle and OrderEvents composed with the automatic assignment   *)
(* that stands between them: CourierAssignmentService.assignCourierForOrder *)
(* (src/backend/src/modules/courier-assignment).                            *)
(*                                                                         *)
(* The n-th READY_FOR_DELIVERY event of order o is the message <<o, n>>.    *)
(* Which couriers are on shift and which of them has the best score is the  *)
(* clock's and the data's choice, so any courier may be the best.           *)
(***************************************************************************)
EXTENDS OrderLifecycle, FiniteSets

CONSTANTS Copies, MaxFailures, MaxForgotten  \* of OrderEvents

VARIABLES
    copy, seen, failures, applied, forgotten, fate,  \* of OrderEvents
    best    \* the courier the delivery of each copy has chosen, until the
            \* cached route of that courier is cleared

Messages == OrderIds \X (1..MaxEvents)

ASSUME DispatchConstants ==
    /\ IsFiniteSet(Handlers)
    /\ None \notin Messages
    /\ MaxFailures \in Nat
    /\ MaxForgotten \in Nat

Events == INSTANCE OrderEvents

eventVars == <<copy, seen, failures, applied, forgotten, fate>>

dispatchVars == <<vars, eventVars, best>>

DispatchInit ==
    /\ Init
    /\ Events!Init
    /\ best = [k \in Copies |-> None]

-----------------------------------------------------------------------------
\* The requests.  emit answers before the broker has the message: an event may
\* be lost between the two.

Lost(m) == m[2] <= published[m[1]] /\ "sent" \notin fate[m]

\* Mutant: the event leaves when the request is accepted, before the UPDATE.
PublishBeforeWrite(h) ==
    LET m == <<handler[h].order, published[handler[h].order] + 1>> IN
    /\ handler[h].op = "updateStatus"
    /\ handler[h].pc = "write"
    /\ published[handler[h].order] < MaxEvents
    /\ published' = [published EXCEPT ![handler[h].order] = @ + 1]
    /\ \E k \in Copies : Events!Publish(m, k)
    /\ UNCHANGED <<rows, handler, located, cachedRoute, shown, best>>

EmitAndPublish(h) ==
    LET m == <<handler[h].order, published[handler[h].order] + 1>> IN
    /\ EmitUpdated(h)
    /\ Publishes(handler[h])
    /\ (\E k \in Copies : Events!Publish(m, k)) \/ UNCHANGED eventVars
    /\ UNCHANGED best

\* Bound: the events published and those the requests in flight will publish.
WithinBound ==
    \A o \in OrderIds :
        published[o] + Cardinality({h \in Handlers : Publishes(handler[h])
                                                    /\ handler[h].order = o}) <= MaxEvents

Serve(h) ==
    /\ Request(h) \/ Continue(h)
    /\ WithinBound'
    /\ published' = published
    /\ UNCHANGED <<eventVars, best>>

-----------------------------------------------------------------------------
\* assignCourierForOrder

\* The best of the couriers on shift, by what the reads have found.
Choose(k, c) ==
    /\ copy[k].at = "working"
    /\ best[k] = None
    /\ best' = [best EXCEPT ![k] = c]
    /\ UNCHANGED <<vars, eventVars>>

\* Mutant: the UPDATE names the status too, and its row count is not looked at.
SetBestOfReady(k) ==
    LET o == copy[k].msg[1] IN
    /\ best[k] # None
    /\ Events!Apply(k)
    /\ IF orders[o].status = "READY_FOR_DELIVERY" THEN SetCourier(o, best[k])
       ELSE UNCHANGED rows
    /\ UNCHANGED <<handler, located, published, cachedRoute, shown, best>>

\* Mutant: the UPDATE became an upsert.
UpsertCourier(k) ==
    /\ best[k] # None
    /\ Events!Apply(k)
    /\ orders' = [orders EXCEPT ![copy[k].msg[1]] =
                      [status |-> "READY_FOR_DELIVERY", courier |-> best[k]]]
    /\ UNCHANGED <<held, served, handler, located, published, cachedRoute, shown, best>>

\* UPDATE orders SET courier_id: neither the status nor the courier the order
\* has by now is looked at, and nobody but the new courier is told.
SetBest(k) ==
    LET o == copy[k].msg[1] IN
    /\ best[k] # None
    /\ Events!Apply(k)
    /\ IF Present(o) THEN SetCourier(o, best[k]) ELSE UNCHANGED rows
    /\ UNCHANGED <<handler, located, published, cachedRoute, shown, best>>

ClearBest(k) ==
    /\ copy[k].at = "settled"
    /\ best[k] # None
    /\ Invalidate(best[k])
    /\ best' = [best EXCEPT ![k] = None]
    /\ UNCHANGED <<rows, handler, located, published, shown, eventVars>>

\* Mutant: the application never starts its microservice.
HandleUnsubscribed(k) ==
    /\ \/ Events!MarkSeen(k)
       \/ Events!SkipDuplicate(k)
       \/ best[k] = None /\ (Events!LeaveUnassigned(k) \/ Events!Ack(k))
    /\ best' = [best EXCEPT ![k] = None]
    /\ UNCHANGED vars

\* Mutant: the handler of an error deletes the idempotency key as well.
HandleUnmark(k) ==
    /\ \/ Events!Deliver(k)
       \/ Events!MarkSeen(k)
       \/ best[k] = None /\ Events!Ack(k)
       \/ /\ copy[k].at \in {"working", "settled"}
          /\ copy' = [copy EXCEPT ![k].at = "dead"]
          /\ seen' = seen \ {copy[k].msg}
          /\ UNCHANGED <<failures, applied, forgotten, fate>>
    /\ best' = [best EXCEPT ![k] = None]
    /\ UNCHANGED vars

\* The steps of the consumer that touch no order.  Nothing can throw between
\* the UPDATE and the end of the DEL.
Handle(k) ==
    /\ \/ Events!Deliver(k)
       \/ Events!MarkSeen(k)
       \/ Events!SkipDuplicate(k)
       \/ best[k] = None /\ Events!LeaveUnassigned(k)
       \/ best[k] = None /\ Events!Ack(k)
       \/ (copy[k].at = "settled" => best[k] = None) /\ Events!Reject(k)
    /\ best' = [best EXCEPT ![k] = None]
    /\ UNCHANGED vars

Assign(k) ==
    \/ Handle(k)
    \/ \E c \in Couriers : Choose(k, c)
    \/ SetBest(k)
    \/ ClearBest(k)

-----------------------------------------------------------------------------

\* One process: requests, consumer and replay stop together.
Stop ==
    /\ Crash
    /\ Events!Crash
    /\ best' = [k \in Copies |-> None]

DispatchNext ==
    \/ \E h \in Handlers : Serve(h) \/ EmitAndPublish(h)
    \/ \E k \in Copies : Assign(k)
    \/ \E k \in Copies : Events!ReplayStep(k) /\ UNCHANGED <<vars, best>>
    \/ \E m \in Messages : Events!Forget(m) /\ UNCHANGED <<vars, best>>
    \/ \E g \in Orgs : SetCoordinates(g) /\ UNCHANGED <<eventVars, best>>
    \/ Stop

DispatchSpec == DispatchInit /\ [][DispatchNext]_dispatchVars

\* The broker pushes what is queued, and a consumer that has started goes on.
FairDispatch == DispatchSpec /\ \A k \in Copies : WF_dispatchVars(Assign(k))

-----------------------------------------------------------------------------
\* Properties (CourierOnlyAfterReady and DeletedStaysDeleted hold here too)

\* An order whose event was published is without a courier only while a copy of
\* the event is in a queue or at work, or when the event was lost before the
\* broker had it, found no courier on shift, or was cut off after it had set
\* its idempotency key.
NoReadyOrderForgotten ==
    \A m \in Messages :
        m[2] <= published[m[1]] /\ Present(m[1]) /\ orders[m[1]].courier = None =>
            \/ Lost(m)
            \/ fate[m] \cap {"unassigned", "cutOff"} # {}
            \/ \E k \in Copies : copy[k].msg = m

\* An event the broker has leads to a courier, unless the order is cancelled,
\* nobody is on shift, the delivery is cut off, or the event ends as a dead
\* letter.
EventuallyDispatched ==
    \A m \in Messages :
        "sent" \in fate[m] ~>
            \/ orders[m[1]].courier # None
            \/ ~Present(m[1])
            \/ fate[m] \cap {"unassigned", "cutOff"} # {}
            \/ \E k \in Copies : /\ copy[k].msg = m
                                  /\ copy[k].at \in {"dead"} \cup Events!AtReplay

\* What is not a request changes the courier of an order for an event of that order
\* only, and for no event twice, unless its key has expired in between: a delivery
\* that throws after its UPDATE, and is replayed from the dead letters, does not
\* take the order from the courier it has given it to.
AssignedOncePerKey ==
    [][\A o \in OrderIds :
          UNCHANGED handler /\ orders'[o].courier \notin {orders[o].courier, None} =>
              \E m \in Messages : /\ m[1] = o
                                  /\ applied'[m] = applied[m] + 1
                                  /\ applied[m] <= forgotten[m]]_dispatchVars

\* orders.service.ts: "Courier can only be assigned to orders with status
\* READY_FOR_DELIVERY".
CourierChangesOnlyWhenReady ==
    [][\A o \in OrderIds :
          orders'[o].courier \notin {orders[o].courier, None} =>
              orders[o].status = "READY_FOR_DELIVERY"]_dispatchVars

=============================================================================
