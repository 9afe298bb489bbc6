----------------------------- MODULE Rebalance -----------------------------
(***************************************************************************)
(* BatchAssignmentService.rebalance() (src/backend/src/modules/            *)
(* courier-assignment/batch-assignment.service.ts) against the requests and *)
(* the route cache of CourierRoute.  A run reads the orders, then the       *)
(* couriers, decides without another look at either, and works its moves    *)
(* off one UPDATE at a time.  Once an UPDATE has returned the couriers of the *)
(* move are told, those whose socket the gateway has (courier.gateway.ts);  *)
(* the routes are deleted after the last of them.                           *)
(***************************************************************************)
EXTENDS CourierRoute, BatchPlan

CONSTANTS
    Batches,    \* the runs in progress at once, at most
    Distances   \* kilometres a courier can be from a pickup

ASSUME DistancesAssumption == Distances \subseteq Nat

Offline == 0 - 1   \* no key courier:location:<id>

VARIABLES
    position,   \* courier:location:<id>, as the distance to every pickup
    batch,      \* the run each slot is at work on
    clients,    \* the couriers whose socket the gateway has
    announced,  \* the couriers whose last notice about each order gave it to them
    missed,     \* history: those who should have heard that it is gone, and did not
    disturbed   \* history: the orders whose courier was changed other than by a
                \* run that knew the courier they had

notices == <<announced, missed, disturbed>>

batchVars == <<routeVars, position, batch, clients, notices>>

NoBatch == [pc |-> "idle", loaded |-> {}, moves |-> {}, written |-> {}, touched |-> {}]

Move == [order: OrderIds, from: Couriers \cup {None}, to: Couriers]

BatchInit ==
    /\ RouteInit
    /\ position \in [Couriers -> Distances \cup {Offline}]
    /\ batch = [b \in Batches |-> NoBatch]
    /\ clients = {}
    /\ announced = [o \in OrderIds |-> {}]
    /\ missed = [o \in OrderIds |-> {}]
    /\ disturbed = {}

-----------------------------------------------------------------------------
\* A run

\* loadEligibleOrders: READY_FOR_DELIVERY at an organization with coordinates.
LoadOrders(b) ==
    LET ready == {o \in OrderIds : /\ orders[o].status = "READY_FOR_DELIVERY"
                                   /\ OrgOf[o] \in located}
    IN
    /\ batch[b] = NoBatch
    /\ ready # {}
    /\ batch' = [batch EXCEPT ![b].pc = "couriers",
           ![b].loaded = {[id |-> o, courier |-> orders[o].courier, km |-> 0] : o \in ready}]
    /\ UNCHANGED <<routeVars, position, clients, notices>>

\* The rows of a SELECT, which names no order.
RowsOf(S) == {s \in [1..Cardinality(S) -> S] : \A x \in S : \E i \in DOMAIN s : s[i] = x}

\* loadAvailableCouriers: those who report a location, or have active orders.
Available ==
    {[id |-> c, online |-> position[c] # Offline, active |-> Cardinality(ActiveOrders(c)),
      km |-> [o \in OrderIds |-> position[c]]] :
        c \in {x \in Couriers : position[x] # Offline \/ ActiveOrders(x) # {}}}

LoadCouriers(b) ==
    /\ batch[b].pc = "couriers"
    /\ \E os \in RowsOf(batch[b].loaded), cs \in RowsOf(Available) :
          LET moves == Moves(os, cs) IN
          batch' = [batch EXCEPT ![b] = IF moves = {} THEN NoBatch
                       ELSE [@ EXCEPT !.pc = "write", !.loaded = {}, !.moves = moves]]
    /\ UNCHANGED <<routeVars, position, clients, notices>>

\* Mutant: the courier who loses the order is forgotten.
TouchesNew(m) == {m.to}

\* touchedCouriers
Touches(m) == {m.from, m.to} \ {None}

\* Mutant: only the new courier is told.
ToldNewOnly(m) == announced[m.order] \cup ({m.to} \cap clients)

\* notifyReassignedAway and notifyCourier emit to a socket, if there is one.
Told(m) == (announced[m.order] \ ({m.from} \cap clients)) \cup ({m.to} \cap clients)

\* The moves a run has written and told nobody of.
Untold == UNION {batch[b].written : b \in Batches}

\* UPDATE orders SET courier_id by the id.
WriteMove(b, m) ==
    LET o     == m.order
        known == m.from = orders[o].courier /\ \A w \in Untold : w.order # o
        changed == {c \in Couriers : ActiveOrders(c) # ActiveOrders(c)'}
    IN
    /\ batch[b].pc = "write"
    /\ m \in batch[b].moves
    /\ IF Present(o) THEN SetCourier(o, m.to) ELSE UNCHANGED rows
    /\ batch' = [batch EXCEPT ![b].moves = @ \ {m}, ![b].written = {m}, ![b].pc = "tell"]
    /\ disturbed' = IF known THEN disturbed ELSE disturbed \cup {o}
    /\ Overtake(changed)
    /\ causes' = [c \in Couriers |-> IF c \in changed \ {m.from, m.to}
                                     THEN causes[c] \cup {"overtaken"} ELSE causes[c]]
    /\ UNCHANGED <<handler, located, published, cachedRoute, shown, position, clients,
                   announced, missed>>

\* The UPDATE has returned: the courier the order had when it was read hears that
\* it is gone, the new one that it is there.
TellMove(b, m) ==
    /\ batch[b].pc = "tell"
    /\ m \in batch[b].written
    /\ announced' = [announced EXCEPT ![m.order] = Told(m)]
    /\ missed' = [missed EXCEPT ![m.order] =
                     (@ \cup ({m.from} \ (clients \cup {None}))) \ ({m.from, m.to} \cap clients)]
    /\ batch' = [batch EXCEPT ![b].written = {},
                              ![b].touched = @ \cup Touches(m),
                              ![b].pc = IF batch[b].moves = {} THEN "clear" ELSE "write"]
    /\ UNCHANGED <<routeVars, position, clients, disturbed>>

\* A run that ends between the UPDATE and the notices has still to tell its couriers.
CutOff(ws) ==
    missed' = [o \in OrderIds |->
                 missed[o] \cup ({w.from : w \in {x \in ws : x.order = o}} \ {None})]

\* The routes a run owes a deletion.
Owed(b) == batch[b].touched \cup UNION {Touches(w) : w \in batch[b].written}

\* The UPDATE throws, written or not, and with it the run: the routes stay.
FailMove(b) ==
    /\ batch[b].pc \in {"write", "tell"}
    /\ causes' = [c \in Couriers |-> IF c \in Owed(b)
                                     THEN causes[c] \cup {"failed"} ELSE causes[c]]
    /\ batch' = [batch EXCEPT ![b] = NoBatch]
    /\ CutOff(batch[b].written)
    /\ UNCHANGED <<vars, query, position, clients, announced, disturbed>>

ClearTouched(b, c) ==
    LET rest == batch[b].touched \ {c} IN
    /\ batch[b].pc = "clear"
    /\ c \in batch[b].touched
    /\ Invalidate(c)
    /\ causes' = [causes EXCEPT ![c] = IF cachedRoute'[c] = {} THEN {} ELSE @ \cup {"failed"}]
    /\ batch' = [batch EXCEPT ![b] = IF rest = {} THEN NoBatch
                                     ELSE [@ EXCEPT !.touched = rest]]
    /\ UNCHANGED <<rows, handler, located, published, shown, query, position,
                   clients, notices>>

Run(b) ==
    \/ LoadOrders(b)
    \/ LoadCouriers(b)
    \/ \E m \in Move : WriteMove(b, m) \/ TellMove(b, m)
    \/ FailMove(b)
    \/ \E c \in Couriers : ClearTouched(b, c)

-----------------------------------------------------------------------------
\* The rest of the system

\* A location report, or the expiry of the last one.
Report(c, d) ==
    /\ position[c] # d
    /\ position' = [position EXCEPT ![c] = d]
    /\ UNCHANGED <<routeVars, batch, clients, notices>>

\* handleConnection; handleDisconnect, which forgets the courier whichever of
\* their sockets it was.
Connect(c) ==
    /\ clients' = clients \cup {c}
    /\ UNCHANGED <<routeVars, position, batch, notices>>

Disconnect(c) ==
    /\ clients' = clients \ {c}
    /\ UNCHANGED <<routeVars, position, batch, notices>>

\* The requests change couriers too, and tell none of them.
ServeBeside(h) ==
    /\ Serve(h)
    /\ disturbed' = disturbed \cup {o \in OrderIds : orders'[o].courier # orders[o].courier}
    /\ UNCHANGED <<position, batch, clients, announced, missed>>

StopAll ==
    /\ Crash
    /\ query' = [q \in Queries |-> NoQuery]
    /\ batch' = [b \in Batches |-> NoBatch]
    /\ causes' = [c \in Couriers |->
                     IF c \in ToBeCleared \cup UNION {Owed(b) : b \in Batches}
                     THEN causes[c] \cup {"stopped"} ELSE causes[c]]
    /\ clients' = {}
    /\ CutOff(Untold)
    /\ UNCHANGED <<position, announced, disturbed>>

BatchNext ==
    \/ \E b \in Batches : Run(b)
    \/ \E c \in Couriers, d \in Distances \cup {Offline} : Report(c, d)
    \/ \E c \in Couriers : Connect(c) \/ Disconnect(c)
    \/ \E h \in Handlers : ServeBeside(h)
    \/ /\ \/ \E q \in Queries : Compute(q)
          \/ \E c \in Couriers : Expire(c)
          \/ \E g \in Orgs : SetCoordinates(g) /\ UNCHANGED <<query, causes>>
       /\ UNCHANGED <<position, batch, clients, notices>>
    \/ StopAll

BatchSpec == BatchInit /\ [][BatchNext]_batchVars

-----------------------------------------------------------------------------
\* Properties

\* As StaleRouteHasCause, with the runs: a cached route is wrong only while a
\* run has moved an order and not yet deleted the route, or for one of the
\* causes, of which a run that fails or moves an order it has read too long ago
\* are two more.
RouteStaleDuringRunOnly ==
    \A c \in Couriers :
        cachedRoute[c] \notin {{}, ActiveOrders(c)} =>
            \/ c \in ToBeCleared
            \/ \E b \in Batches : c \in Owed(b)
            \/ causes[c] # {}

\* A courier whose last notice gave them an order has it, unless it was taken by
\* a request, which tells nobody, or by a run that had read another courier or
\* did not wait for the notices of the run before; or unless the run that took it
\* has still to tell them, or could not: they had no socket, or it was cut off.
AnnouncedIsMine ==
    \A o \in OrderIds, c \in Couriers :
        Present(o) /\ o \notin disturbed /\ c \in announced[o] =>
            \/ orders[o].courier = c
            \/ c \in missed[o]
            \/ \E w \in Untold : w.order = o /\ w.from = c

=============================================================================
