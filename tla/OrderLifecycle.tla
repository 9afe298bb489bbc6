--------------------------- MODULE OrderLifecycle ---------------------------
(***************************************************************************)
(* The order rows and the HTTP requests that move them: OrdersService of   *)
(* src/backend/src/modules/orders/orders.service.ts.                       *)
(*                                                                         *)
(* Every operation of the service reads the row, checks it, and then, after *)
(* an await, writes it with an UPDATE or DELETE that names the id and       *)
(* nothing else.  Each await is a place where the other requests run, so a  *)
(* request is a record (a Job) that is carried through one action per       *)
(* stretch of code between two awaits.  A request whose check fails answers *)
(* with an error and changes nothing: it is a stuttering step.              *)
(***************************************************************************)
EXTENDS OrderStatus, Naturals

CONSTANTS
    OrderIds,      \* the ids the orders table can hand out
    Couriers,      \* the users with role COURIER
    Orgs,          \* the organizations
    OrgOf,         \* the organization each order is placed with
    Handlers,      \* the requests the server has in flight at once, at most
    None,          \* SQL NULL, and the absence of a value
    MaxEvents      \* bound: no new READY_FOR_DELIVERY request once an order
                   \* has published this many events

ASSUME ConstantsAssumption ==
    /\ OrgOf \in [OrderIds -> Orgs]
    /\ None \notin OrderIds \cup Couriers
    /\ MaxEvents \in Nat

VARIABLES
    orders,       \* the orders table: the row of each id, or NoRow
    located,      \* the organizations that have both coordinates
    handler,      \* the request each handler is serving, or Idle
    published,    \* how many READY_FOR_DELIVERY events each order has published
    cachedRoute,  \* Redis courier:route:<id>, as the orders it lists; {} is no key
    shown,        \* what the socket feed has left in an open order list
    held,         \* history: the statuses each order has had
    served        \* history: the couriers each order has had

vars == <<orders, located, handler, published, cachedRoute, shown, held, served>>

-----------------------------------------------------------------------------
\* The rows and the requests

Absent == "ABSENT"

Row == [status: Status \cup {Absent}, courier: Couriers \cup {None}]

NoRow == [status |-> Absent, courier |-> None]

Present(o) == orders[o].status # Absent

Job == [op:       {"none", "create", "updateStatus", "assignCourier", "cancel",
                   "courierStatus"},
        pc:       {"idle", "reread", "write", "clear", "clearPrevious", "emit"},
        order:    OrderIds \cup {None},
        from:     Status \cup {Absent},    \* the status the check has seen
        to:       Status \cup {Absent},    \* the status to write
        courier:  Couriers \cup {None},    \* to assign, calling, or to clear
        previous: Couriers \cup {None},    \* previousCourierId of the first read
        located:  BOOLEAN,                 \* org.lat && org.lng of the first read
        updated:  Row]                     \* the row RETURNING gave, NoRow if none

Idle == [op |-> "none", pc |-> "idle", order |-> None, from |-> Absent,
         to |-> Absent, courier |-> None, previous |-> None,
         located |-> FALSE, updated |-> NoRow]

TypeOK ==
    /\ orders \in [OrderIds -> Row]
    /\ located \subseteq Orgs
    /\ handler \in [Handlers -> Job]
    /\ published \in [OrderIds -> Nat]
    /\ cachedRoute \in [Couriers -> SUBSET OrderIds]
    /\ shown \in [OrderIds -> Row]
    /\ held \in [OrderIds -> SUBSET Status]
    /\ served \in [OrderIds -> SUBSET Couriers]

Init ==
    /\ orders = [o \in OrderIds |-> NoRow]
    /\ located \in SUBSET Orgs
    /\ handler = [h \in Handlers |-> Idle]
    /\ published = [o \in OrderIds |-> 0]
    /\ cachedRoute = [c \in Couriers |-> {}]
    /\ shown = [o \in OrderIds |-> NoRow]
    /\ held = [o \in OrderIds |-> {}]
    /\ served = [o \in OrderIds |-> {}]

-----------------------------------------------------------------------------
\* What the requests are made of

Begin(h, job) ==
    /\ handler[h] = Idle
    /\ handler' = [handler EXCEPT ![h] = job]

Finish(h) == handler' = [handler EXCEPT ![h] = Idle]

\* UPDATE orders SET status = s WHERE id = o, on a row that is there.
SetStatus(o, s) ==
    /\ orders' = [orders EXCEPT ![o].status = s]
    /\ held' = [held EXCEPT ![o] = @ \cup {s}]
    /\ UNCHANGED served

\* UPDATE orders SET courier_id = c WHERE id = o, on a row that is there.
SetCourier(o, c) ==
    /\ orders' = [orders EXCEPT ![o].courier = c]
    /\ served' = [served EXCEPT ![o] = @ \cup {c}]
    /\ UNCHANGED held

\* RoutingService.invalidateCourierRoute: a DEL whose failure is only logged.
Invalidate(c) ==
    \/ cachedRoute' = [cachedRoute EXCEPT ![c] = {}]
    \/ UNCHANGED cachedRoute

rows == <<orders, held, served>>

-----------------------------------------------------------------------------
\* POST /orders.  The id is a fresh serial.  The reply does not wait for
\* emitCreated, which reads the row again before it emits order:created.

CreateOrder(h, o) ==
    /\ ~Present(o)
    /\ held[o] = {}
    /\ Begin(h, [Idle EXCEPT !.op = "create", !.pc = "reread", !.order = o])
    /\ orders' = [orders EXCEPT ![o].status = "PENDING"]
    /\ held' = [held EXCEPT ![o] = {"PENDING"}]
    /\ UNCHANGED <<served, located, published, cachedRoute, shown>>

RereadCreated(h) ==
    LET o == handler[h].order IN
    /\ handler[h].pc = "reread"
    /\ IF Present(o)
       THEN handler' = [handler EXCEPT ![h].pc = "emit", ![h].updated = orders[o]]
       ELSE Finish(h)
    /\ UNCHANGED <<rows, located, published, cachedRoute, shown>>

\* order:created: the list takes the order unless it is there already.
EmitCreated(h) ==
    LET o == handler[h].order IN
    /\ handler[h].op = "create"
    /\ handler[h].pc = "emit"
    /\ shown' = IF shown[o] = NoRow
                THEN [shown EXCEPT ![o] = handler[h].updated]
                ELSE shown
    /\ Finish(h)
    /\ UNCHANGED <<rows, located, published, cachedRoute>>

-----------------------------------------------------------------------------
\* PATCH /orders/:id/status by the supplier who owns the organization

\* Mutant: any status of the DTO is accepted.
UpdateStatusUnchecked(h, o, s) ==
    /\ Present(o)
    /\ s = "READY_FOR_DELIVERY" => published[o] < MaxEvents
    /\ Begin(h, [Idle EXCEPT !.op = "updateStatus", !.pc = "write", !.order = o,
                             !.from = orders[o].status, !.to = s,
                             !.located = OrgOf[o] \in located])
    /\ UNCHANGED <<rows, located, published, cachedRoute, shown>>

BeginUpdateStatus(h, o, s) ==
    /\ Present(o)
    /\ s \in Transitions[orders[o].status]
    /\ s = "READY_FOR_DELIVERY" => published[o] < MaxEvents
    /\ Begin(h, [Idle EXCEPT !.op = "updateStatus", !.pc = "write", !.order = o,
                             !.from = orders[o].status, !.to = s,
                             !.located = OrgOf[o] \in located])
    /\ UNCHANGED <<rows, located, published, cachedRoute, shown>>

\* POST /orders/:id/pickup and /deliver
CourierMove(from, to) ==
    \/ from = "READY_FOR_DELIVERY" /\ to = "PICKED_UP"
    \/ from = "PICKED_UP" /\ to = "DELIVERED"

\* Mutant: the courier's request checks who calls and not the status.
CourierStatusUnchecked(h, o, c, from, to) ==
    /\ CourierMove(from, to)
    /\ orders[o].courier = c
    /\ Begin(h, [Idle EXCEPT !.op = "courierStatus", !.pc = "write", !.order = o,
                             !.from = orders[o].status, !.to = to, !.courier = c])
    /\ UNCHANGED <<rows, located, published, cachedRoute, shown>>

\* transitionCourierStatus, by the courier the order has
BeginCourierStatus(h, o, c, from, to) ==
    /\ CourierMove(from, to)
    /\ orders[o] = [status |-> from, courier |-> c]
    /\ Begin(h, [Idle EXCEPT !.op = "courierStatus", !.pc = "write", !.order = o,
                             !.from = from, !.to = to, !.courier = c])
    /\ UNCHANGED <<rows, located, published, cachedRoute, shown>>

\* Mutant: the write is an upsert, which brings a deleted row back.
UpsertStatus(h) ==
    /\ handler[h].op \in {"updateStatus", "courierStatus"}
    /\ handler[h].pc = "write"
    /\ SetStatus(handler[h].order, handler[h].to)
    /\ handler' = [handler EXCEPT ![h].updated = orders'[handler[h].order],
                                  ![h].pc = "emit"]
    /\ UNCHANGED <<located, published, cachedRoute, shown>>

\* The supplier's write is followed by the DEL of the route of the courier the
\* row has now, if it has one; the courier's by the DEL of the caller's route.
WriteStatus(h) ==
    LET job     == handler[h]
        o       == job.order
        updated == [orders[o] EXCEPT !.status = job.to]
        clears  == IF job.op = "courierStatus" THEN job.courier
                   ELSE updated.courier
    IN
    /\ job.op \in {"updateStatus", "courierStatus"}
    /\ job.pc = "write"
    /\ Present(o)
    /\ SetStatus(o, job.to)
    /\ handler' = [handler EXCEPT ![h].updated = updated, ![h].courier = clears,
                      ![h].pc = IF clears = None THEN "emit" ELSE "clear"]
    /\ UNCHANGED <<located, published, cachedRoute, shown>>

\* Mutant: order:updated is made from the request, not from the returned row.
AnswerFromRequest(h) ==
    /\ handler[h].op \in {"updateStatus", "courierStatus"}
    /\ handler[h].pc = "write"
    /\ ~Present(handler[h].order)
    /\ handler' = [handler EXCEPT ![h].pc = "emit",
                      ![h].updated = [status |-> handler[h].to, courier |-> None]]
    /\ UNCHANGED <<rows, located, published, cachedRoute, shown>>

\* The row was deleted meanwhile and the UPDATE matched nothing.  The supplier's
\* request dies at updated.courierId; the courier's first clears the route.
WriteStatusOfDeleted(h) ==
    /\ handler[h].op \in {"updateStatus", "courierStatus"}
    /\ handler[h].pc = "write"
    /\ ~Present(handler[h].order)
    /\ IF handler[h].op = "updateStatus"
       THEN Finish(h)
       ELSE handler' = [handler EXCEPT ![h].pc = "clear"]
    /\ UNCHANGED <<rows, located, published, cachedRoute, shown>>

-----------------------------------------------------------------------------
\* PATCH /orders/:id/assign-courier by the supplier

\* Mutant: a courier can be assigned whatever the status.
AssignCourierUnchecked(h, o, c) ==
    /\ Present(o)
    /\ Begin(h, [Idle EXCEPT !.op = "assignCourier", !.pc = "write", !.order = o,
                             !.from = orders[o].status, !.courier = c,
                             !.previous = orders[o].courier])
    /\ UNCHANGED <<rows, located, published, cachedRoute, shown>>

BeginAssignCourier(h, o, c) ==
    /\ orders[o].status = "READY_FOR_DELIVERY"
    /\ Begin(h, [Idle EXCEPT !.op = "assignCourier", !.pc = "write", !.order = o,
                             !.from = orders[o].status, !.courier = c,
                             !.previous = orders[o].courier])
    /\ UNCHANGED <<rows, located, published, cachedRoute, shown>>

WriteCourier(h) ==
    LET job == handler[h]
        o   == job.order
    IN
    /\ job.op = "assignCourier"
    /\ job.pc = "write"
    /\ IF Present(o) THEN SetCourier(o, job.courier) ELSE UNCHANGED rows
    /\ handler' = [handler EXCEPT ![h].pc = "clear", ![h].updated = orders'[o]]
    /\ UNCHANGED <<located, published, cachedRoute, shown>>

\* Mutant: the route of the courier who had the order is forgotten.
ClearOnlyNew(h) ==
    /\ handler[h].pc = "clear"
    /\ Invalidate(handler[h].courier)
    /\ handler' = [handler EXCEPT ![h].pc = "emit"]
    /\ UNCHANGED <<rows, located, published, shown>>

ClearRoute(h) ==
    LET job == handler[h] IN
    /\ job.pc = "clear"
    /\ Invalidate(job.courier)
    /\ handler' = [handler EXCEPT ![h].pc =
                      IF job.previous \in {None, job.courier} THEN "emit"
                      ELSE "clearPrevious"]
    /\ UNCHANGED <<rows, located, published, shown>>

ClearPreviousRoute(h) ==
    /\ handler[h].pc = "clearPrevious"
    /\ Invalidate(handler[h].previous)
    /\ handler' = [handler EXCEPT ![h].pc = "emit"]
    /\ UNCHANGED <<rows, located, published, shown>>

-----------------------------------------------------------------------------
\* The end of updateStatus, assignCourier and transitionCourierStatus.  A
\* request that made an order of a located organization READY_FOR_DELIVERY
\* publishes the event.  order:updated carries the row as this request's own
\* UPDATE returned it, and patches the list only if the order is in it; without
\* a row emitUpdated throws.

\* Mutant: the event is published without a look at the coordinates.
PublishesUnlocated(job) ==
    /\ job.op = "updateStatus"
    /\ job.to = "READY_FOR_DELIVERY"

Publishes(job) ==
    /\ job.op = "updateStatus"
    /\ job.to = "READY_FOR_DELIVERY"
    /\ job.located

EmitUpdated(h) ==
    LET job == handler[h]
        o   == job.order
    IN
    /\ job.op \in {"updateStatus", "assignCourier", "courierStatus"}
    /\ job.pc = "emit"
    /\ published' = IF Publishes(job) THEN [published EXCEPT ![o] = @ + 1]
                    ELSE published
    /\ shown' = IF job.updated # NoRow /\ shown[o] # NoRow
                THEN [shown EXCEPT ![o] = job.updated]
                ELSE shown
    /\ Finish(h)
    /\ UNCHANGED <<rows, located, cachedRoute>>

-----------------------------------------------------------------------------
\* DELETE /orders/:id by the client: one transaction removes items and row

BeginCancel(h, o) ==
    /\ orders[o].status = "PENDING"
    /\ Begin(h, [Idle EXCEPT !.op = "cancel", !.pc = "write", !.order = o,
                             !.from = orders[o].status])
    /\ UNCHANGED <<rows, located, published, cachedRoute, shown>>

\* Mutant: a soft delete, by a status the enum does not have.
MarkCancelled(h) ==
    /\ handler[h].op = "cancel"
    /\ handler[h].pc = "write"
    /\ orders' = [orders EXCEPT ![handler[h].order].status = "CANCELLED"]
    /\ handler' = [handler EXCEPT ![h].pc = "emit"]
    /\ UNCHANGED <<held, served, located, published, cachedRoute, shown>>

DeleteOrder(h) ==
    /\ handler[h].op = "cancel"
    /\ handler[h].pc = "write"
    /\ orders' = [orders EXCEPT ![handler[h].order] = NoRow]
    /\ handler' = [handler EXCEPT ![h].pc = "emit"]
    /\ UNCHANGED <<held, served, located, published, cachedRoute, shown>>

EmitRemoved(h) ==
    /\ handler[h].op = "cancel"
    /\ handler[h].pc = "emit"
    /\ shown' = [shown EXCEPT ![handler[h].order] = NoRow]
    /\ Finish(h)
    /\ UNCHANGED <<rows, located, published, cachedRoute>>

-----------------------------------------------------------------------------
\* PATCH /organizations/:id can add the missing coordinates and never removes
\* them.
SetCoordinates(g) ==
    /\ g \notin located
    /\ located' = located \cup {g}
    /\ UNCHANGED <<rows, handler, published, cachedRoute, shown>>

\* The backend process stops: what its requests had left to do is never done.
Crash ==
    /\ handler' = [h \in Handlers |-> Idle]
    /\ UNCHANGED <<rows, located, published, cachedRoute, shown>>

Request(h) ==
    \E o \in OrderIds :
        \/ CreateOrder(h, o)
        \/ BeginCancel(h, o)
        \/ \E s \in Status : BeginUpdateStatus(h, o, s)
        \/ \E c \in Couriers : BeginAssignCourier(h, o, c)
        \/ \E c \in Couriers, from, to \in Status : BeginCourierStatus(h, o, c, from, to)

Continue(h) ==
    \/ RereadCreated(h)
    \/ EmitCreated(h)
    \/ WriteStatus(h)
    \/ WriteStatusOfDeleted(h)
    \/ WriteCourier(h)
    \/ ClearRoute(h)
    \/ ClearPreviousRoute(h)
    \/ EmitUpdated(h)
    \/ DeleteOrder(h)
    \/ EmitRemoved(h)

Next ==
    \/ \E h \in Handlers : Request(h) \/ Continue(h)
    \/ \E g \in Orgs : SetCoordinates(g)
    \/ Crash

Spec == Init /\ [][Next]_vars

-----------------------------------------------------------------------------
\* Properties

\* However the requests on an order overlap, its statuses form the chain of
\* ORDER_STATUS_TRANSITIONS: no order has ever had a status without having had
\* the one the table puts before it.
ChainRespected ==
    \A o \in OrderIds, s \in Status :
        held[o] \cap Transitions[s] # {} => s \in held[o]

\* A courier is only ever given an order that has been READY_FOR_DELIVERY.
CourierOnlyAfterReady ==
    \A o \in OrderIds : served[o] # {} => "READY_FOR_DELIVERY" \in held[o]

\* An event is only ever published for an order that has become
\* READY_FOR_DELIVERY at an organization that has its coordinates, which the
\* auto-assignment reads from it.
PublishedOnlyWhenReady ==
    \A o \in OrderIds :
        published[o] > 0 => "READY_FOR_DELIVERY" \in held[o] /\ OrgOf[o] \in located

\* The list never shows a status or a courier the order has not had.
ShownWasReal ==
    \A o \in OrderIds :
        shown[o] # NoRow =>
            /\ shown[o].status \in held[o]
            /\ shown[o].courier \in served[o] \cup {None}

\* The moves the checks of the service allow: a step of the table, a new order,
\* a cancelled PENDING order.
AllowedMove(from, to) ==
    \/ from = to
    \/ from \in Status /\ to \in Transitions[from]
    \/ from = Absent /\ to = "PENDING"
    \/ from = "PENDING" /\ to = Absent

\* Request h writes to order o in this step, and the status its check has seen
\* is no longer the status of the row.
Overtaken(h, o) ==
    /\ handler[h].order = o
    /\ handler[h].pc = "write"
    /\ handler[h].from # orders[o].status
    /\ handler'[h] # handler[h]

\* The status of an order makes a move the checks forbid, or its courier changes
\* outside READY_FOR_DELIVERY, only by the hand of a request that another one
\* has overtaken between its check and its write.
OnlyOvertakenWritesBreakTheRules ==
    [][\A o \in OrderIds :
          \/ \E h \in Handlers : Overtaken(h, o)
          \/ /\ AllowedMove(orders[o].status, orders'[o].status)
             /\ orders'[o].courier \notin {orders[o].courier, None} =>
                    orders[o].status = "READY_FOR_DELIVERY"]_vars

\* A cancelled order never comes back: a request that read the row before the
\* DELETE and writes after it finds nothing to write to.
DeletedStaysDeleted ==
    [][\A o \in OrderIds : held[o] # {} /\ ~Present(o) => ~Present(o)']_vars

\* README: the courier "marks pickups and deliveries".  An order on its way has
\* a courier.
UnderwayHasCourier ==
    \A o \in OrderIds :
        orders[o].status \in {"PICKED_UP", "DELIVERED"} => orders[o].courier # None

\* OrdersService.cancel: "Only pending orders can be cancelled".
OnlyPendingCancelled ==
    [][\A o \in OrderIds :
          Present(o) /\ ~Present(o)' => orders[o].status = "PENDING"]_vars

=============================================================================
