---------------------------- MODULE CourierRoute ----------------------------
(***************************************************************************)
(* The cached route of each courier: RoutingService.getOptimizedRoute       *)
(* (src/backend/src/modules/routing/routing.service.ts) against the         *)
(* requests of OrderLifecycle, which change what a route has to list and    *)
(* delete the cached one afterwards.  A route is the set of orders it       *)
(* lists: the courier's active ones at the time of the SELECT.  An empty    *)
(* route is never cached, so {} stands for no key.                          *)
(***************************************************************************)
EXTENDS OrderLifecycle

CONSTANT Queries   \* the route computations in progress at once, at most

VARIABLES
    query,   \* the route each computation is at work on
    causes   \* history: what can have made each cached route stale since it
             \* was last written or deleted

routeVars == <<vars, query, causes>>

ActiveOrders(c) == {o \in OrderIds : /\ orders[o].courier = c
                                     /\ orders[o].status \in ActiveStatus}

NoQuery == [pc |-> "idle", courier |-> None, found |-> {}, late |-> FALSE]

RouteInit ==
    /\ Init
    /\ query = [q \in Queries |-> NoQuery]
    /\ causes = [c \in Couriers |-> {}]

-----------------------------------------------------------------------------
\* getOptimizedRoute: GET, perhaps DEL, SELECT, the computation, SET.  A cached
\* route that is served as it is changes nothing.

\* GET finds nothing, or a route without geometry for a courier whose location
\* is known by now.
BeginRoute(q, c) ==
    /\ query[q] = NoQuery
    /\ query' = [query EXCEPT ![q].courier = c,
                    ![q].pc = IF cachedRoute[c] = {} THEN "read" ELSE "drop"]
    /\ UNCHANGED <<vars, causes>>

\* The DEL of the route found; when it throws, the computation goes on.
DropRoute(q) ==
    LET c == query[q].courier IN
    /\ query[q].pc = "drop"
    /\ query' = [query EXCEPT ![q].pc = "read"]
    /\ \/ /\ cachedRoute' = [cachedRoute EXCEPT ![c] = {}]
          /\ causes' = [causes EXCEPT ![c] = {}]
       \/ UNCHANGED <<cachedRoute, causes>>
    /\ UNCHANGED <<rows, located, handler, published, shown>>

\* The SELECT of the active orders of the courier.
ReadOrders(q) ==
    /\ query[q].pc = "read"
    /\ ActiveOrders(query[q].courier) # {}
    /\ query' = [query EXCEPT ![q].found = ActiveOrders(query[q].courier),
                              ![q].pc = "store"]
    /\ UNCHANGED <<vars, causes>>

\* No active order, missing coordinates, or no location of the courier: the
\* route, if there is one, is answered and not cached.
EndWithoutRoute(q) ==
    /\ query[q].pc \in {"read", "store"}
    /\ query' = [query EXCEPT ![q] = NoQuery]
    /\ UNCHANGED <<vars, causes>>

\* SET, with what the SELECT found, whatever has happened since.
StoreRoute(q) ==
    LET c == query[q].courier IN
    /\ query[q].pc = "store"
    /\ query' = [query EXCEPT ![q] = NoQuery]
    /\ cachedRoute' = [cachedRoute EXCEPT ![c] = query[q].found]
    /\ causes' = [causes EXCEPT ![c] = IF query[q].late THEN {"late"} ELSE {}]
    /\ UNCHANGED <<rows, located, handler, published, shown>>

\* The key expires after an hour.
Expire(c) ==
    /\ cachedRoute[c] # {}
    /\ cachedRoute' = [cachedRoute EXCEPT ![c] = {}]
    /\ causes' = [causes EXCEPT ![c] = {}]
    /\ UNCHANGED <<rows, located, handler, published, shown, query>>

-----------------------------------------------------------------------------
\* The requests of OrderLifecycle, with what they mean for the routes

\* The courier whose route the next step of request h deletes.
Clearing(h) ==
    CASE handler[h].pc = "clear"         -> {handler[h].courier}
      [] handler[h].pc = "clearPrevious" -> {handler[h].previous}
      [] OTHER                           -> {}

\* The couriers whose route request h has still to delete.
Clears(h) ==
    Clearing(h) \cup
    (IF handler[h].pc = "clear" THEN {handler[h].previous} \ {None} ELSE {})

ToBeCleared == UNION {Clears(h) : h \in Handlers}

\* Request h is at its write, and the row is not the one it has read.
ActsOnOldRow(h) ==
    LET job == handler[h] IN
    /\ job.pc = "write"
    /\ \/ job.from # orders[job.order].status
       \/ job.op = "assignCourier" /\ job.previous # orders[job.order].courier
       \/ job.op = "courierStatus" /\ job.courier # orders[job.order].courier

\* A computation that has read the orders of a courier whose orders change.
Overtake(changed) ==
    query' = [q \in Queries |->
                 [query[q] EXCEPT !.late = @ \/ /\ query[q].pc = "store"
                                                /\ query[q].courier \in changed]]

Serve(h) ==
    LET changed == {c \in Couriers : ActiveOrders(c) # ActiveOrders(c)'} IN
    /\ Request(h) \/ Continue(h)
    /\ Overtake(changed)
    /\ causes' = [c \in Couriers |->
                     CASE c \in Clearing(h) /\ cachedRoute'[c] = {} -> {}
                       [] c \in Clearing(h) /\ cachedRoute'[c] # {} ->
                              causes[c] \cup {"failed"}
                       [] c \in changed /\ ActsOnOldRow(h) -> causes[c] \cup {"overtaken"}
                       [] OTHER -> causes[c]]

\* The process stops with its requests and its route computations.
Stop ==
    /\ Crash
    /\ query' = [q \in Queries |-> NoQuery]
    /\ causes' = [c \in Couriers |-> IF c \in ToBeCleared THEN causes[c] \cup {"stopped"}
                                     ELSE causes[c]]

Compute(q) ==
    \/ \E c \in Couriers : BeginRoute(q, c)
    \/ DropRoute(q)
    \/ ReadOrders(q)
    \/ EndWithoutRoute(q)
    \/ StoreRoute(q)

RouteNext ==
    \/ \E h \in Handlers : Serve(h)
    \/ \E q \in Queries : Compute(q)
    \/ \E c \in Couriers : Expire(c)
    \/ \E g \in Orgs : SetCoordinates(g) /\ UNCHANGED <<query, causes>>
    \/ Stop

RouteSpec == RouteInit /\ [][RouteNext]_routeVars

-----------------------------------------------------------------------------
\* Properties

\* The cached route of a courier lists exactly the active orders of the courier,
\* unless a request is about to delete it, or one of four things has happened
\* since it was last written or deleted: a request wrote to a row that was no
\* longer the one it had read, its deletion failed, the process stopped before
\* it, or the route was stored by a computation that had read the orders before
\* they changed.
StaleRouteHasCause ==
    \A c \in Couriers :
        cachedRoute[c] \notin {{}, ActiveOrders(c)} =>
            c \in ToBeCleared \/ causes[c] # {}

=============================================================================
