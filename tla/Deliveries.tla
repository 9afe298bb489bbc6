----------------------------- MODULE Deliveries -----------------------------
(***************************************************************************)
(* The deliveries that a courier sees:                                      *)
(* src/backend/src/modules/courier-gateway/courier.gateway.ts, which tells  *)
(* a connected courier of an order that comes or goes, and                  *)
(* src/frontend/src/composables/useCourierSocket.ts with                    *)
(* views/courier/MyDeliveriesView.vue, which fetch the list again whenever  *)
(* something is told or done.  A delivery waits five seconds for an undo.   *)
(***************************************************************************)
EXTENDS Integers, Sequences, SequencesExt

CONSTANTS
    Parcels,     \* orders
    MaxSteps     \* bound: requests, changes made by others and broken connections

VARIABLES
    job,         \* the row of each order as it concerns the courier
    online,      \* the client has a connection
    closing,     \* older connections of which the gateway has not seen the end
    entry,       \* clients.get(courier): "current", "old" or "none"
    notices,     \* how many messages are on their way to the client
    opened,      \* the view is open
    shown,       \* orders.value: "none" for an order that is not in the list
    waiting, failed,   \* loading and error of the store
    asked,       \* the requests under way: [kind, id, state, rows, own]
    delivering,  \* optimisticDelivered
    pendingDeliver,
    steps,
    overlapped,  \* history: an older connection was open when this one was made
    unseen       \* history: the orders that changed with nothing to tell the client

deliveryVars == <<job, online, closing, entry, notices, opened, shown, waiting, failed, asked,
                  delivering, pendingDeliver, steps, overlapped, unseen>>

NoParcel == "no parcel"

\* What stands for no order is none.
ASSUME ParcelsAssumption == NoParcel \notin Parcels

DeliveriesInit ==
    /\ job \in [Parcels -> {"none", "ready", "picked"}]
    /\ online = FALSE /\ closing = 0 /\ entry = "none" /\ notices = 0
    /\ opened = FALSE /\ shown = [o \in Parcels |-> "none"]
    /\ waiting = FALSE /\ failed = FALSE /\ asked = <<>>
    /\ delivering = {} /\ pendingDeliver = NoParcel
    /\ steps = 0 /\ overlapped = FALSE /\ unseen = Parcels

Count == steps < MaxSteps /\ steps' = steps + 1

-----------------------------------------------------------------------------
\* The gateway

handleConnection ==
    /\ ~online /\ online' = TRUE
    /\ entry' = "current"
    /\ overlapped' = (closing > 0)
    /\ UNCHANGED <<job, closing, notices, opened, shown, waiting, failed, asked, delivering,
                   pendingDeliver, steps, unseen>>

\* The client loses its connection before the gateway does.
LoseConnection ==
    /\ online /\ online' = FALSE /\ Count
    /\ closing' = closing + 1
    /\ entry' = IF entry = "current" THEN "old" ELSE entry
    /\ unseen' = IF notices > 0 THEN Parcels ELSE unseen
    /\ notices' = 0
    /\ UNCHANGED <<job, opened, shown, waiting, failed, asked, delivering, pendingDeliver,
                   overlapped>>

\* The entry goes, whichever connection it holds.
handleDisconnect ==
    /\ closing > 0
    /\ closing' = closing - 1
    /\ entry' = "none"
    /\ UNCHANGED <<job, online, notices, opened, shown, waiting, failed, asked, delivering,
                   pendingDeliver, steps, overlapped, unseen>>

\* notifyCourier and notifyReassignedAway: who is not in the map is not told.
Notify(o) ==
    /\ notices' = IF entry = "current" THEN notices + 1 ELSE notices
    /\ unseen' = IF online /\ ~overlapped THEN unseen ELSE unseen \cup {o}

\* The automatic assignment and the batch give an order and take it away; a supplier
\* does so by hand, and the courier is not told.
Reassign(o) ==
    /\ job[o] \in {"none", "ready"} /\ Count
    /\ job' = [job EXCEPT ![o] = IF @ = "none" THEN "ready" ELSE "none"]
    /\ \/ Notify(o)
       \/ notices' = notices /\ unseen' = unseen \cup {o}
    /\ UNCHANGED <<online, closing, entry, opened, shown, waiting, failed, asked, delivering,
                   pendingDeliver, overlapped>>

-----------------------------------------------------------------------------
\* The requests

Req(kind, o) ==
    [kind |-> kind, id |-> o, state |-> "sent", rows |-> <<>>, own |-> TRUE]

\* fetchCourier, in place of the request that brought it about, if any.
fetchCourier(rest) ==
    /\ Count
    /\ asked' = Append(rest, Req("fetch", NoParcel))
    /\ waiting' = TRUE /\ failed' = FALSE

ActiveRows == [o \in Parcels |-> IF job[o] \in {"ready", "picked"} THEN job[o] ELSE "none"]

Fetches == {i \in DOMAIN asked : asked[i].kind = "fetch"}

\* findCourierOrders.  The fetches that have been read stand in the order in which
\* they were.
ReadRows(i) ==
    /\ i \in Fetches /\ asked[i].state = "sent"
    /\ asked' = Append(RemoveAt(asked, i),
                       [asked[i] EXCEPT !.state = "ok", !.rows = ActiveRows])
    /\ unseen' = IF \E j \in Fetches : asked[j].state = "ok" THEN unseen ELSE {}
    /\ UNCHANGED <<job, online, closing, entry, notices, opened, shown, waiting, failed,
                   delivering, pendingDeliver, steps, overlapped>>

After(kind) == IF kind = "pickup" THEN <<"ready", "picked">> ELSE <<"picked", "delivered">>

\* transitionCourierStatus
Transition(i) ==
    LET r == asked[i] IN
    /\ i \notin Fetches /\ r.state = "sent"
    /\ job[r.id] = After(r.kind)[1]
    /\ job' = [job EXCEPT ![r.id] = After(r.kind)[2]]
    /\ asked' = [asked EXCEPT ![i].state = "ok"]
    /\ UNCHANGED <<online, closing, entry, notices, opened, shown, waiting, failed, delivering,
                   pendingDeliver, steps, overlapped, unseen>>

Fetched(i) ==
    /\ i \in Fetches /\ asked[i].state = "ok"
    /\ asked' = RemoveAt(asked, i)
    /\ shown' = asked[i].rows /\ waiting' = FALSE
    /\ unseen' = IF \E j \in Fetches : j < i /\ asked[j].state = "ok" THEN Parcels ELSE unseen
    /\ UNCHANGED <<job, online, closing, entry, notices, opened, failed, delivering,
                   pendingDeliver, steps, overlapped>>

Transitioned(i) ==
    /\ i \notin Fetches /\ asked[i].state = "ok"
    /\ fetchCourier(RemoveAt(asked, i))
    /\ UNCHANGED <<job, online, closing, entry, notices, opened, shown, delivering,
                   pendingDeliver, overlapped, unseen>>

\* The server refuses, or the connection breaks before or after it has answered:
\* the list is not fetched then.
RequestFails(i) ==
    LET r == asked[i] IN
    /\ asked' = RemoveAt(asked, i)
    /\ IF i \in Fetches THEN waiting' = FALSE /\ failed' = TRUE
       ELSE UNCHANGED <<waiting, failed>>
    /\ delivering' = IF r.kind = "deliver" /\ r.own THEN delivering \ {r.id} ELSE delivering
    /\ unseen' = IF r.state = "ok" /\ i \notin Fetches THEN unseen \cup {r.id} ELSE unseen
    /\ UNCHANGED <<job, online, closing, entry, notices, opened, shown, pendingDeliver, steps,
                   overlapped>>

-----------------------------------------------------------------------------
\* useCourierSocket.ts: whatever is told, the list is fetched.
OrderNotice ==
    /\ notices > 0 /\ notices' = notices - 1
    /\ fetchCourier(asked)
    /\ UNCHANGED <<job, online, closing, entry, opened, shown, delivering, pendingDeliver,
                   overlapped, unseen>>

-----------------------------------------------------------------------------
\* MyDeliveriesView.vue

OpenDeliveries ==
    /\ ~opened /\ opened' = TRUE
    /\ delivering' = {}
    /\ fetchCourier(asked)
    /\ UNCHANGED <<job, online, closing, entry, notices, shown, pendingDeliver, overlapped,
                   unseen>>

FetchAgain ==
    /\ opened /\ failed /\ ~waiting
    /\ fetchCourier(asked)
    /\ UNCHANGED <<job, online, closing, entry, notices, opened, shown, delivering,
                   pendingDeliver, overlapped, unseen>>

Listed == opened /\ ~waiting /\ ~failed

handlePickup(o) ==
    /\ Listed /\ shown[o] = "ready" /\ Count
    /\ asked' = Append(asked, Req("pickup", o))
    /\ UNCHANGED <<job, online, closing, entry, notices, opened, shown, waiting, failed,
                   delivering, pendingDeliver, overlapped, unseen>>

Sends(o) == Count /\ asked' = Append(asked, Req("deliver", o))

\* Mutant: the delivery before this one is forgotten.
ForgetDelivery == UNCHANGED <<asked, steps>>

flushPendingDeliver ==
    IF pendingDeliver = NoParcel THEN UNCHANGED <<asked, steps>> ELSE Sends(pendingDeliver)

handleDeliver(o) ==
    /\ Listed /\ shown[o] = "picked" /\ o \notin delivering
    /\ flushPendingDeliver
    /\ delivering' = delivering \cup {o}
    /\ pendingDeliver' = o
    /\ UNCHANGED <<job, online, closing, entry, notices, opened, shown, waiting, failed,
                   overlapped, unseen>>

UndoDeliver ==
    /\ pendingDeliver # NoParcel
    /\ delivering' = delivering \ {pendingDeliver}
    /\ pendingDeliver' = NoParcel
    /\ UNCHANGED <<job, online, closing, entry, notices, opened, shown, waiting, failed, asked,
                   steps, overlapped, unseen>>

DeliverTimer ==
    /\ pendingDeliver # NoParcel
    /\ Sends(pendingDeliver)
    /\ pendingDeliver' = NoParcel
    /\ UNCHANGED <<job, online, closing, entry, notices, opened, shown, waiting, failed,
                   delivering, overlapped, unseen>>

\* The requests go on, but the set they would change is no longer shown.
CloseDeliveries ==
    LET disowned(s) == [i \in DOMAIN s |-> [s[i] EXCEPT !.own = FALSE]] IN
    /\ opened /\ opened' = FALSE
    /\ IF pendingDeliver = NoParcel THEN asked' = disowned(asked) /\ steps' = steps
       ELSE Count /\ asked' = disowned(Append(asked, Req("deliver", pendingDeliver)))
    /\ pendingDeliver' = NoParcel
    /\ UNCHANGED <<job, online, closing, entry, notices, shown, waiting, failed, delivering,
                   overlapped, unseen>>

DeliveriesNext ==
    \/ handleConnection \/ LoseConnection \/ handleDisconnect \/ OrderNotice
    \/ OpenDeliveries \/ FetchAgain \/ UndoDeliver \/ DeliverTimer \/ CloseDeliveries
    \/ \E o \in Parcels : Reassign(o) \/ handlePickup(o) \/ handleDeliver(o)
    \/ \E i \in DOMAIN asked :
          ReadRows(i) \/ Transition(i) \/ Fetched(i) \/ Transitioned(i) \/ RequestFails(i)

DeliveriesSpec == DeliveriesInit /\ [][DeliveriesNext]_deliveryVars

-----------------------------------------------------------------------------
\* When nothing is under way any more, a connected courier sees the orders that are
\* to be delivered as they are in the database, and none of them is shown as being
\* delivered.  An order is excepted when nothing told of its change: the supplier
\* made it by hand, an answer was lost or overtaken, or the entry of this connection
\* went with an older one that was still open.
DeliveriesSettle ==
    (Listed /\ online /\ notices = 0 /\ asked = <<>> /\ pendingDeliver = NoParcel) =>
        \A o \in Parcels \ unseen :
            shown[o] = ActiveRows[o] /\ (shown[o] # "none" => o \notin delivering)

=============================================================================
