--------------------------- MODULE RebalanceProofs ---------------------------
(***************************************************************************)
(* The cached routes of the couriers beside requests and route              *)
(* computations, and then beside the batch job and its stops too, for every *)
(* number of orders, couriers, computations and runs: routes and notices    *)
(* are wrong for the recorded causes only.                                  *)
(*                                                                         *)
(* StaleRouteHasCause is not inductive: a computation stores what it has    *)
(* read long ago.  The invariant says of every computation that it holds    *)
(* the orders of now, or is marked as late.  A run of the batch job decides *)
(* from what it has read and works its moves off much later; of its reads   *)
(* the invariant keeps that every order it moves has been                   *)
(* READY_FOR_DELIVERY, and nothing of which courier the plan picks.         *)
(***************************************************************************)
EXTENDS Rebalance, OrderLifecycleProofs

-----------------------------------------------------------------------------
\* The cached routes

Query == [pc:      {"idle", "drop", "read", "store"},
          courier: Couriers \cup {None},
          found:   SUBSET OrderIds,
          late:    BOOLEAN]

Cause == {"late", "failed", "overtaken", "stopped"}

RouteTypeOK ==
    /\ query \in [Queries -> Query]
    /\ causes \in [Couriers -> SUBSET Cause]

\* What a computation has read is what the courier has, or it is late.
QueryInv ==
    \A q \in Queries :
        /\ query[q].pc # "idle" => query[q].courier \in Couriers
        /\ query[q].pc = "store" /\ ~query[q].late =>
               query[q].found = ActiveOrders(query[q].courier)

Stale(c) == cachedRoute[c] \notin {{}, ActiveOrders(c)}

Excused(c) == c \in ToBeCleared \/ causes[c] # {}

\* A route is not made wrong without an excuse, and no excuse is lost.
Kept(c) == Stale(c)' => Excused(c)' \/ (Stale(c) /\ ~Excused(c))

Sound == IInv /\ RouteTypeOK /\ QueryInv

RouteInv == Sound /\ StaleRouteHasCause

-----------------------------------------------------------------------------
\* The requests and the routes

\* A step of request h keeps in mind which routes the request has to delete.
LEMMA ClearsStay ==
    ASSUME IInv, NEW h \in Handlers, Request(h) \/ Continue(h)
    PROVE  /\ \A g \in Handlers \ {h} : Clears(g)' = Clears(g)
           /\ Clears(h) \subseteq Clearing(h) \cup Clears(h)'
<1>0. handler \in [Handlers -> Job] /\ JobOK(handler[h], held, served, located)
  BY DEF IInv, TypeOK, HandlersInv
<1>1. \A g \in Handlers \ {h} : handler'[g] = handler[g]
  BY <1>0 DEF Request, CreateOrder, BeginCancel, BeginUpdateStatus, BeginAssignCourier,
     BeginCourierStatus, Begin, Continue, RereadCreated, EmitCreated, WriteStatus,
     WriteStatusOfDeleted, WriteCourier, ClearRoute, ClearPreviousRoute, EmitUpdated,
     DeleteOrder, EmitRemoved, Finish
<1>2. \A g \in Handlers \ {h} : Clears(g)' = Clears(g)
  BY <1>1 DEF Clears, Clearing
<1>3. CASE ClearRoute(h)
  <2>1. handler[h].pc = "clear" /\ Clears(h) = {handler[h].courier} \cup ({handler[h].previous} \ {None})
    BY <1>3 DEF ClearRoute, Clears, Clearing
  <2>2. handler[h].previous \notin {None, handler[h].courier} =>
            handler'[h].pc = "clearPrevious" /\ handler'[h].previous = handler[h].previous
    BY <1>0, <1>3 DEF ClearRoute, Job
  <2>3. handler[h].previous \notin {None, handler[h].courier} =>
            handler[h].previous \in Clears(h)'
    BY <2>2 DEF Clears, Clearing
  <2>4. handler[h].courier \in Clearing(h)
    BY <2>1 DEF Clearing
  <2> QED BY <1>2, <2>1, <2>3, <2>4
<1>4. CASE ClearPreviousRoute(h)
  BY <1>2, <1>4 DEF ClearPreviousRoute, Clears, Clearing
<1>5. CASE ~ClearRoute(h) /\ ~ClearPreviousRoute(h)
  <2>1. CASE Request(h)
    <3>1. handler[h] = Idle
      BY <2>1 DEF Request, CreateOrder, BeginCancel, BeginUpdateStatus,
         BeginAssignCourier, BeginCourierStatus, Begin
    <3> QED BY <1>2, <3>1 DEF Clears, Clearing, Idle
  <2>2. CASE Continue(h)
    <3>1. handler[h].pc \in {"reread", "write", "emit"}
      BY <1>5, <2>2 DEF Continue, RereadCreated, EmitCreated, WriteStatus,
         WriteStatusOfDeleted, WriteCourier, EmitUpdated, DeleteOrder, EmitRemoved
    <3> QED BY <1>2, <3>1 DEF Clears, Clearing
  <2> QED BY <2>1, <2>2
<1> QED BY <1>3, <1>4, <1>5

\* A request that changes what courier c has to deliver is at its write, and has
\* the route of c to delete then, unless the row is no longer the one it has read.
LEMMA ChangeIsCleared ==
    ASSUME IInv, NEW h \in Handlers, Request(h) \/ Continue(h),
           NEW c \in Couriers, ActiveOrders(c)' # ActiveOrders(c)
    PROVE  /\ handler[h].pc = "write"
           /\ ActsOnOldRow(h) \/ c \in Clears(h)'
<1> DEFINE job == handler[h]
           o   == handler[h].order
<1>0. /\ handler \in [Handlers -> Job] /\ orders \in [OrderIds -> Row]
      /\ JobOK(handler[h], held, served, located)
  BY DEF IInv, TypeOK, HandlersInv
<1>1. c # None
  BY ConstantsAssumption
<1>2. ~UNCHANGED orders
  BY DEF ActiveOrders
<1>3. ASSUME NEW p \in OrderIds, CreateOrder(h, p)
      PROVE  FALSE
  BY <1>0, <1>1, <1>3 DEF CreateOrder, ActiveOrders, ActiveStatus, Row, IInv, RowsInv, NoRow
<1>4. CASE WriteStatus(h)
  <2>1. /\ job.op \in {"updateStatus", "courierStatus"} /\ job.pc = "write"
        /\ orders' = [orders EXCEPT ![o].status = job.to]
        /\ o \in OrderIds
    BY <1>0, <1>4 DEF WriteStatus, SetStatus, JobOK, Idle
  <2>2. orders[o].courier = c
    BY <1>0, <2>1 DEF ActiveOrders, Row
  <2>3. CASE job.op = "updateStatus"
    <3> DEFINE row == [orders[o] EXCEPT !.status = job.to]
    <3>1. row.courier = c
      BY <1>0, <2>1, <2>2 DEF Row
    <3>2. handler' = [handler EXCEPT ![h].updated = row, ![h].courier = c, ![h].pc = "clear"]
      BY <1>1, <1>4, <2>1, <2>3, <3>1 DEF WriteStatus
    <3> HIDE DEF row
    <3>3. handler'[h].pc = "clear" /\ handler'[h].courier = c
      BY <1>0, <3>2 DEF Job
    <3> QED BY <2>1, <3>3 DEF Clears, Clearing
  <2>4. CASE job.op = "courierStatus" /\ job.courier = c
    <3> DEFINE row == [orders[o] EXCEPT !.status = job.to]
    <3>1. handler' = [handler EXCEPT ![h].updated = row, ![h].courier = c, ![h].pc = "clear"]
      BY <1>1, <1>4, <2>1, <2>4 DEF WriteStatus
    <3> HIDE DEF row
    <3>2. handler'[h].pc = "clear" /\ handler'[h].courier = c
      BY <1>0, <3>1 DEF Job
    <3> QED BY <2>1, <3>2 DEF Clears, Clearing
  <2>5. CASE job.op = "courierStatus" /\ job.courier # c
    BY <2>1, <2>2, <2>5 DEF ActsOnOldRow
  <2> QED BY <2>1, <2>3, <2>4, <2>5
<1>5. CASE WriteCourier(h)
  <2>1. job.op = "assignCourier" /\ job.pc = "write" /\ o \in OrderIds
    BY <1>0, <1>5 DEF WriteCourier, JobOK, Idle
  <2>2. orders' = [orders EXCEPT ![o].courier = job.courier]
    BY <1>2, <1>5 DEF WriteCourier, SetCourier, rows
  <2>3. c \in {orders[o].courier, job.courier}
    BY <1>0, <2>1, <2>2 DEF ActiveOrders, Row
  <2>4. handler'[h].pc = "clear" /\ handler'[h].courier = job.courier
        /\ handler'[h].previous = job.previous
    BY <1>0, <1>5 DEF WriteCourier, Job
  <2>5. CASE job.previous = orders[o].courier
    BY <1>1, <2>1, <2>3, <2>4, <2>5 DEF Clears, Clearing
  <2>6. CASE job.previous # orders[o].courier
    BY <2>1, <2>6 DEF ActsOnOldRow
  <2> QED BY <2>1, <2>5, <2>6
<1>6. CASE DeleteOrder(h)
  <2>1. job.op = "cancel" /\ job.pc = "write" /\ job.from = "PENDING" /\ o \in OrderIds
    BY <1>0, <1>6 DEF DeleteOrder, JobOK, Idle
  <2>2. orders[o].status # "PENDING"
    BY <1>0, <1>1, <1>6, <2>1 DEF DeleteOrder, ActiveOrders, ActiveStatus, NoRow, Row, Absent
  <2> QED BY <2>1, <2>2 DEF ActsOnOldRow
<1>7. ~Request(h)
  BY <1>2, <1>3 DEF Request, BeginCancel, BeginUpdateStatus, BeginAssignCourier,
     BeginCourierStatus, rows
<1> QED
  BY <1>2, <1>4, <1>5, <1>6, <1>7 DEF Continue, RereadCreated, EmitCreated,
     WriteStatusOfDeleted, ClearRoute, ClearPreviousRoute, EmitUpdated, EmitRemoved, rows

-----------------------------------------------------------------------------
\* The computations

\* Those that have read the orders of a courier whose orders change become late.
LEMMA OvertakeKeeps ==
    ASSUME RouteTypeOK, QueryInv, NEW changed,
           \A c \in Couriers : ActiveOrders(c)' # ActiveOrders(c) => c \in changed,
           Overtake(changed)
    PROVE  query' \in [Queries -> Query] /\ QueryInv'
<1> DEFINE Late(q) == query[q].late \/ (query[q].pc = "store" /\ query[q].courier \in changed)
<1>1. \A q \in Queries : query'[q] = [query[q] EXCEPT !.late = Late(q)]
  BY DEF Overtake
<1>2. \A q \in Queries : query[q] \in Query /\ Late(q) \in BOOLEAN
  BY DEF RouteTypeOK, Query
<1>3. query' \in [Queries -> Query]
  <2>1. query' = [q \in Queries |-> [query[q] EXCEPT !.late = Late(q)]]
    BY DEF Overtake
  <2> HIDE DEF Late
  <2>2. \A q \in Queries : [query[q] EXCEPT !.late = Late(q)] \in Query
    BY <1>2 DEF Query
  <2> QED BY <2>1, <2>2
<1>4. ASSUME NEW q \in Queries
      PROVE  /\ query'[q].pc = query[q].pc /\ query'[q].courier = query[q].courier
             /\ query'[q].found = query[q].found /\ query'[q].late = Late(q)
  <2> HIDE DEF Late
  <2> QED BY <1>1, <1>2 DEF Query
<1>5. ASSUME NEW q \in Queries, query'[q].pc = "store", ~query'[q].late
      PROVE  (query[q].found = ActiveOrders(query[q].courier))'
  <2>1. query[q].pc = "store" /\ ~query[q].late /\ query[q].courier \notin changed
    BY <1>4, <1>5
  <2>2. PICK c \in Couriers : c = query[q].courier
    BY <2>1 DEF QueryInv
  <2>3. query[q].found = ActiveOrders(c) /\ query'[q].courier = c
    BY <1>4, <2>1, <2>2 DEF QueryInv
  <2>4. ActiveOrders(c)' = ActiveOrders(c)
    BY <2>1, <2>2
  <2> QED BY <1>4, <2>3, <2>4 DEF ActiveOrders
<1> HIDE DEF Late
<1>6. \A q \in Queries : query'[q].pc # "idle" => query'[q].courier \in Couriers
  BY <1>4 DEF QueryInv
<1>7. QueryInv'
  BY <1>5, <1>6 DEF QueryInv
<1> QED BY <1>3, <1>7

-----------------------------------------------------------------------------
\* The steps

LEMMA ServeKeeps ==
    ASSUME Sound, NEW h \in Handlers, Serve(h)
    PROVE  Sound' /\ \A c \in Couriers : Kept(c)
<1> DEFINE changed == {c \in Couriers : ActiveOrders(c) # ActiveOrders(c)'}
<1>1. /\ IInv /\ IInv'
      /\ Request(h) \/ Continue(h)
  BY StepIInv DEF Sound, Serve, Next
<1>2. Overtake(changed)
  BY DEF Serve
<1>3. query' \in [Queries -> Query] /\ QueryInv'
  <2> HIDE DEF changed
  <2>1. \A c \in Couriers : ActiveOrders(c)' # ActiveOrders(c) => c \in changed
    BY DEF changed
  <2> QED BY <1>2, <2>1, OvertakeKeeps DEF Sound
<1>4. /\ causes' \in [Couriers -> SUBSET Cause]
      /\ \A c \in Couriers :
            /\ c \in Clearing(h) => cachedRoute'[c] = {} \/ "failed" \in causes'[c]
            /\ c \notin Clearing(h) => causes[c] \subseteq causes'[c]
            /\ c \notin Clearing(h) /\ c \in changed /\ ActsOnOldRow(h) =>
                   "overtaken" \in causes'[c]
  <2> HIDE DEF changed
  <2>1. causes' = [c \in Couriers |->
                     CASE c \in Clearing(h) /\ cachedRoute'[c] = {} -> {}
                       [] c \in Clearing(h) /\ cachedRoute'[c] # {} ->
                              causes[c] \cup {"failed"}
                       [] c \in changed /\ ActsOnOldRow(h) -> causes[c] \cup {"overtaken"}
                       [] OTHER -> causes[c]]
    BY DEF Serve, changed
  <2>2. \A c \in Couriers :
            /\ c \in Clearing(h) /\ cachedRoute'[c] = {} => causes'[c] = {}
            /\ c \in Clearing(h) /\ cachedRoute'[c] # {} =>
                   causes'[c] = causes[c] \cup {"failed"}
            /\ c \notin Clearing(h) /\ c \in changed /\ ActsOnOldRow(h) =>
                   causes'[c] \in {causes[c] \cup {"overtaken"}}
            /\ c \notin Clearing(h) /\ ~(c \in changed /\ ActsOnOldRow(h)) =>
                   causes'[c] = causes[c]
    <3>1. ASSUME NEW c \in Couriers
          PROVE  causes'[c] =
                   (CASE c \in Clearing(h) /\ cachedRoute'[c] = {} -> {}
                       [] c \in Clearing(h) /\ cachedRoute'[c] # {} ->
                              causes[c] \cup {"failed"}
                       [] c \in changed /\ ActsOnOldRow(h) -> causes[c] \cup {"overtaken"}
                       [] OTHER -> causes[c])
      BY <2>1
    <3>2. handler[h].pc # "write" \/ Clearing(h) = {}
      BY DEF Clearing
    <3> QED BY <3>1, <3>2 DEF ActsOnOldRow
  <2>3. \A c \in Couriers : causes'[c] \in SUBSET Cause
    BY <2>2 DEF Sound, RouteTypeOK, Cause
  <2>4. causes' \in [Couriers -> SUBSET Cause]
    BY <2>1, <2>3
  <2> QED BY <2>2, <2>4
<1>5. ASSUME NEW c \in Couriers, Stale(c)', ~Excused(c)'
      PROVE  Stale(c) /\ ~Excused(c)
  <2>1. c \notin Clearing(h)
    BY <1>4, <1>5 DEF Excused, Stale
  <2>2. causes[c] = {} /\ c \notin changed
    BY <1>1, <1>4, <1>5, <2>1, ChangeIsCleared DEF Excused, ToBeCleared
  <2>3. c \notin ToBeCleared
    BY <1>1, <1>5, <2>1, ClearsStay DEF Excused, ToBeCleared
  <2>4. cachedRoute'[c] = cachedRoute[c]
    BY <1>1, <2>1 DEF Request, CreateOrder, BeginCancel, BeginUpdateStatus, BeginAssignCourier,
       BeginCourierStatus, Continue, RereadCreated, EmitCreated, WriteStatus,
       WriteStatusOfDeleted, WriteCourier, ClearRoute, ClearPreviousRoute, Clearing,
       Invalidate, EmitUpdated, DeleteOrder, EmitRemoved, IInv, TypeOK
  <2> QED BY <1>5, <2>2, <2>3, <2>4 DEF Stale, Excused
<1> QED BY <1>1, <1>3, <1>4, <1>5 DEF Sound, RouteTypeOK, Kept

\* A step that leaves the orders and the requests alone, and marks what it stores.
LEMMA RoutesOnly ==
    ASSUME Sound, UNCHANGED <<rows, handler, located, published, shown>>,
           cachedRoute' \in [Couriers -> SUBSET OrderIds],
           causes' \in [Couriers -> SUBSET Cause],
           query' \in [Queries -> Query],
           \A q \in Queries :
              \/ query'[q] = query[q]
              \/ query'[q].pc \in {"drop", "read"} /\ query'[q].courier \in Couriers
              \/ query'[q].pc = "idle"
              \/ /\ query'[q].pc = "store" /\ query'[q].courier \in Couriers
                 /\ query'[q].found = ActiveOrders(query'[q].courier),
           \A c \in Couriers :
              \/ cachedRoute'[c] = cachedRoute[c] /\ causes'[c] = causes[c]
              \/ cachedRoute'[c] \in {{}, ActiveOrders(c)}
              \/ causes'[c] # {}
    PROVE  Sound' /\ \A c \in Couriers : Kept(c)
<1>1. IInv'
  BY CacheStep DEF Sound
<1>2. \A c : ActiveOrders(c)' = ActiveOrders(c) /\ ToBeCleared' = ToBeCleared
  BY DEF ActiveOrders, rows, ToBeCleared, Clears, Clearing
<1>3. QueryInv'
  <2> SUFFICES ASSUME NEW q \in Queries
               PROVE  /\ query'[q].pc # "idle" => query'[q].courier \in Couriers
                      /\ query'[q].pc = "store" /\ ~query'[q].late =>
                             query'[q].found = ActiveOrders(query[q].courier)'
    BY DEF QueryInv
  <2>1. ActiveOrders(query[q].courier)' = ActiveOrders(query'[q].courier)
    BY DEF ActiveOrders, rows
  <2> QED BY <2>1 DEF Sound, QueryInv
<1>4. \A c \in Couriers : Kept(c)
  BY <1>2 DEF Kept, Stale, Excused
<1> QED BY <1>1, <1>3, <1>4 DEF Sound, RouteTypeOK

LEMMA ComputeKeeps ==
    ASSUME Sound, NEW q \in Queries, Compute(q)
    PROVE  Sound' /\ \A c \in Couriers : Kept(c)
<1>0. /\ query \in [Queries -> Query] /\ causes \in [Couriers -> SUBSET Cause]
      /\ cachedRoute \in [Couriers -> SUBSET OrderIds]
      /\ query[q].pc # "idle" => query[q].courier \in Couriers
      /\ query[q].pc = "store" /\ ~query[q].late =>
               query[q].found = ActiveOrders(query[q].courier)
      /\ query[q] \in Query
  BY DEF Sound, RouteTypeOK, QueryInv, IInv, TypeOK
<1>1. NoQuery \in Query /\ NoQuery.pc = "idle"
  BY DEF NoQuery, Query
<1>2. ASSUME NEW c \in Couriers, BeginRoute(q, c)
      PROVE  Sound' /\ \A d \in Couriers : Kept(d)
  <2> DEFINE at == IF cachedRoute[c] = {} THEN "read" ELSE "drop"
             new == [query[q] EXCEPT !.courier = c, !.pc = at]
  <2>1. query' = [query EXCEPT ![q] = new] /\ UNCHANGED <<vars, causes>>
    BY <1>0, <1>2 DEF BeginRoute
  <2>2. new \in Query /\ new.courier = c /\ new.pc \in {"drop", "read"}
    BY <1>0 DEF Query
  <2> HIDE DEF new
  <2> QED BY <1>0, <2>1, <2>2, RoutesOnly DEF vars, rows
<1>3. CASE DropRoute(q)
  <2> DEFINE new == [query[q] EXCEPT !.pc = "read"]
             c == query[q].courier
  <2>1. /\ query' = [query EXCEPT ![q] = new] /\ c \in Couriers
        /\ UNCHANGED <<rows, handler, located, published, shown>>
        /\ \/ /\ cachedRoute' = [cachedRoute EXCEPT ![c] = {}]
              /\ causes' = [causes EXCEPT ![c] = {}]
           \/ UNCHANGED <<cachedRoute, causes>>
    BY <1>0, <1>3 DEF DropRoute
  <2>2. new \in Query /\ new.courier = c /\ new.pc = "read"
    BY <1>0 DEF Query
  <2> HIDE DEF new, c
  <2> QED BY <1>0, <2>1, <2>2, RoutesOnly
<1>4. CASE ReadOrders(q)
  <2> DEFINE c == query[q].courier
             new == [query[q] EXCEPT !.found = ActiveOrders(c), !.pc = "store"]
  <2>1. /\ query' = [query EXCEPT ![q] = new] /\ UNCHANGED <<vars, causes>>
        /\ c \in Couriers
    BY <1>0, <1>4 DEF ReadOrders
  <2>2. /\ new \in Query /\ new.courier = c /\ new.pc = "store"
        /\ new.found = ActiveOrders(c)
    BY <1>0 DEF Query, ActiveOrders
  <2> HIDE DEF new, c
  <2> QED BY <1>0, <2>1, <2>2, RoutesOnly DEF vars, rows
<1>5. CASE EndWithoutRoute(q)
  BY <1>0, <1>1, <1>5, RoutesOnly DEF EndWithoutRoute, vars, rows
<1>6. CASE StoreRoute(q)
  <2> DEFINE c == query[q].courier
             cause == IF query[q].late THEN {"late"} ELSE {}
  <2>1. /\ query' = [query EXCEPT ![q] = NoQuery] /\ c \in Couriers
        /\ cachedRoute' = [cachedRoute EXCEPT ![c] = query[q].found]
        /\ causes' = [causes EXCEPT ![c] = cause]
        /\ UNCHANGED <<rows, handler, located, published, shown>>
    BY <1>0, <1>6 DEF StoreRoute
  <2>2. /\ query[q].found = ActiveOrders(c) \/ cause # {}
        /\ cause \in SUBSET Cause /\ query[q].found \in SUBSET OrderIds
    BY <1>0, <1>6 DEF StoreRoute, Query, Cause
  <2> HIDE DEF cause, c
  <2> QED BY <1>0, <1>1, <2>1, <2>2, RoutesOnly
<1> QED BY <1>2, <1>3, <1>4, <1>5, <1>6 DEF Compute

LEMMA ExpireKeeps ==
    ASSUME Sound, NEW c \in Couriers, Expire(c)
    PROVE  Sound' /\ \A d \in Couriers : Kept(d)
<1>1. /\ query \in [Queries -> Query] /\ causes \in [Couriers -> SUBSET Cause]
      /\ cachedRoute \in [Couriers -> SUBSET OrderIds]
  BY DEF Sound, RouteTypeOK, IInv, TypeOK
<1> QED BY <1>1, RoutesOnly DEF Expire, rows

LEMMA CoordinatesKeep ==
    ASSUME Sound, NEW g \in Orgs, SetCoordinates(g), UNCHANGED <<query, causes>>
    PROVE  Sound' /\ \A c \in Couriers : Kept(c)
<1>1. IInv'
  BY StepIInv DEF Sound, Next
<1>2. UNCHANGED <<rows, handler, cachedRoute>>
  BY DEF SetCoordinates
<1> QED
  BY <1>1, <1>2 DEF Sound, RouteTypeOK, QueryInv, ActiveOrders, rows, Kept, Stale,
     Excused, ToBeCleared, Clears, Clearing

\* The process stops: what was still to be deleted, by requests or by others, has
\* its cause now.
LEMMA StopKeeps ==
    ASSUME Sound, NEW others, Crash, query' = [q \in Queries |-> NoQuery],
           causes' = [c \in Couriers |-> IF c \in ToBeCleared \cup others
                                         THEN causes[c] \cup {"stopped"} ELSE causes[c]]
    PROVE  /\ Sound' /\ \A c \in Couriers : Kept(c)
           /\ \A c \in Couriers : c \in others => causes'[c] # {}
<1>1. IInv'
  BY StepIInv DEF Sound, Next
<1>2. UNCHANGED <<rows, cachedRoute>>
  BY DEF Crash
<1>3. causes' \in [Couriers -> SUBSET Cause]
  BY DEF Sound, RouteTypeOK, Cause
<1>4. query' \in [Queries -> Query] /\ QueryInv'
  BY DEF NoQuery, Query, QueryInv
<1>5. \A c \in Couriers : ActiveOrders(c)' = ActiveOrders(c)
  BY <1>2 DEF ActiveOrders, rows
<1>6. \A c \in Couriers : /\ c \in ToBeCleared \cup others => causes'[c] # {}
                          /\ causes[c] \subseteq causes'[c]
  OBVIOUS
<1>7. \A c \in Couriers : Kept(c)
  BY <1>2, <1>5, <1>6 DEF Kept, Stale, Excused
<1> QED BY <1>1, <1>3, <1>4, <1>6, <1>7 DEF Sound, RouteTypeOK

-----------------------------------------------------------------------------
\* The invariant

LEMMA InitRouteInv == RouteInit => RouteInv
<1> SUFFICES ASSUME RouteInit PROVE RouteInv
  OBVIOUS
<1>1. IInv
  BY InitIInv DEF RouteInit
<1>2. RouteTypeOK /\ QueryInv
  BY DEF RouteInit, RouteTypeOK, QueryInv, NoQuery, Query
<1>3. StaleRouteHasCause
  BY DEF RouteInit, Init, StaleRouteHasCause
<1> QED BY <1>1, <1>2, <1>3 DEF RouteInv, Sound

LEMMA StepRouteInv == RouteInv /\ [RouteNext]_routeVars => RouteInv'
<1> SUFFICES ASSUME RouteInv, [RouteNext]_routeVars PROVE RouteInv'
  OBVIOUS
<1>1. \A c \in Couriers : Stale(c) => Excused(c)
  BY DEF RouteInv, StaleRouteHasCause, Stale, Excused
<1>2. Sound' /\ \A c \in Couriers : Kept(c)
  <2>1. CASE Stop
    BY <2>1, StopKeeps DEF Stop, RouteInv
  <2>2. CASE UNCHANGED routeVars
    <3>1. IInv'
      BY <2>2, StepIInv DEF routeVars, RouteInv, Sound
    <3> QED BY <2>2, <3>1 DEF routeVars, vars, RouteInv, Sound, RouteTypeOK, QueryInv, Kept,
            Stale, Excused, ActiveOrders, ToBeCleared, Clears, Clearing
  <2>3. ASSUME NEW g \in Orgs, SetCoordinates(g) /\ UNCHANGED <<query, causes>>
        PROVE  Sound' /\ \A c \in Couriers : Kept(c)
    BY <2>3, CoordinatesKeep DEF RouteInv
  <2> QED BY <2>1, <2>2, <2>3, ServeKeeps, ComputeKeeps, ExpireKeeps DEF RouteNext, RouteInv
<1>3. StaleRouteHasCause'
  BY <1>1, <1>2 DEF StaleRouteHasCause, Kept, Stale, Excused
<1> QED BY <1>2, <1>3 DEF RouteInv

\* However requests, route computations, expiries and stops interleave, a cached
\* route that is not the courier's has a deletion under way or a recorded cause
\* (getOptimizedRoute against every operation of the order service).
THEOREM StaleRouteTheorem == RouteSpec => []StaleRouteHasCause
<1>1. RouteInv => StaleRouteHasCause
  BY DEF RouteInv
<1> QED BY <1>1, InitRouteInv, StepRouteInv, PTL DEF RouteSpec

-----------------------------------------------------------------------------
\* The batch runs

\* The run r, against the history hd: it has told of every move but the last.
RunOK(r, hd) ==
    /\ r \in [pc : {"idle", "couriers", "write", "tell", "clear"}, loaded : {r.loaded},
              moves : {r.moves}, written : SUBSET Move, touched : SUBSET Couriers]
    /\ \A x \in r.loaded : x.id \in OrderIds /\ "READY_FOR_DELIVERY" \in hd[x.id]
    /\ \A m \in r.moves : m.order \in OrderIds /\ "READY_FOR_DELIVERY" \in hd[m.order]
    /\ \A w \in r.written : r.written = {w} /\ "READY_FOR_DELIVERY" \in hd[w.order]
    /\ r.pc = "couriers" => r.touched = {}
    /\ r.pc # "tell" => r.written = {}

RunsInv ==
    /\ batch = [b \in Batches |-> batch[b]]
    /\ \A b \in Batches : RunOK(batch[b], held)

\* Notices are of orders that exist, or have existed.
NoticesOK ==
    /\ announced \in [OrderIds -> SUBSET Couriers]
    /\ missed \in [OrderIds -> SUBSET Couriers]
    /\ \A o \in OrderIds : announced[o] # {} => held[o] # {}

\* What a run has still to tell of an order nobody else has touched is the last
\* that happened to it, and no other run has anything to tell of it.
UntoldOK ==
    \A b \in Batches : \A w \in batch[b].written :
        w.order \in disturbed \/
            /\ Present(w.order) => orders[w.order].courier = w.to
            /\ \A a \in Batches \ {b} : \A v \in batch[a].written : v.order # w.order

NoticesInv == NoticesOK /\ UntoldOK

Touched(c) == \E b \in Batches : c \in Owed(b)

BatchInv ==
    /\ Sound
    /\ RunsInv
    /\ NoticesInv
    /\ RouteStaleDuringRunOnly
    /\ AnnouncedIsMine

\* As Kept, with the routes a run has still to delete.
KeptBeside(c) ==
    Stale(c)' => \/ Excused(c)' \/ Touched(c)'
                 \/ Stale(c) /\ ~Excused(c) /\ ~Touched(c)

-----------------------------------------------------------------------------
\* The plan moves orders that were loaded.

LEMMA MovesOfLoaded ==
    ASSUME NEW os, NEW cs, NEW m \in Moves(os, cs)
    PROVE  \E i \in DOMAIN os : m.order = os[i].id
<1> DEFINE matrix == CostMatrix(os, cs)
           column == hungarian(matrix, Len(matrix))
           placed == {i \in DOMAIN os : column[i] <= CourierCapacity * Len(cs)}
           owner(i) == SlotOwner(cs, column[i]).id
           chosen == {k \in placed :
                         /\ owner(k) # os[k].courier
                         /\ Worthwhile(matrix[k][column[k]], currentAssignmentCost(os[k], cs))}
           to(i) == [order |-> os[i].id, from |-> os[i].courier, to |-> owner(i)]
<1>1. Moves(os, cs) = IF os = <<>> \/ cs = <<>> THEN {} ELSE {to(i) : i \in chosen}
  BY DEF Moves
<1>2. chosen \subseteq DOMAIN os
  OBVIOUS
<1> HIDE DEF matrix, column, placed, chosen, owner
<1> QED BY <1>1, <1>2

\* What a SELECT returns are rows of the table.
LEMMA RowsOfFacts ==
    ASSUME NEW S, NEW s \in RowsOf(S)
    PROVE  \A i \in DOMAIN s : s[i] \in S
BY DEF RowsOf

-----------------------------------------------------------------------------
\* The steps of a run

\* What the assignments to a run make of it.
LEMMA RunLoads ==
    ASSUME NEW r, RunOK(r, held), r.touched = {}, r.written = {}, NEW l,
           \A x \in l : x.id \in OrderIds /\ "READY_FOR_DELIVERY" \in held[x.id],
           NEW new, new = [r EXCEPT !.pc = "couriers", !.loaded = l]
    PROVE  RunOK(new, held) /\ new.touched = {} /\ new.written = {}
<1>1. r \in [pc : {"idle", "couriers", "write", "tell", "clear"}, loaded : {r.loaded, l},
             moves : {r.moves}, written : SUBSET Move, touched : SUBSET Couriers]
  BY DEF RunOK
<1>2. /\ new.touched = {} /\ new.pc = "couriers" /\ new.loaded = l /\ new.moves = r.moves
      /\ new.written = {}
      /\ new \in [pc : {"idle", "couriers", "write", "tell", "clear"}, loaded : {l},
                  moves : {r.moves}, written : SUBSET Move, touched : SUBSET Couriers]
  BY <1>1
<1> QED BY <1>2 DEF RunOK

LEMMA RunPlans ==
    ASSUME NEW r, RunOK(r, held), r.touched = {}, r.written = {}, NEW ms,
           \A m \in ms : m.order \in OrderIds /\ "READY_FOR_DELIVERY" \in held[m.order],
           NEW new, new = [r EXCEPT !.pc = "write", !.loaded = {}, !.moves = ms]
    PROVE  RunOK(new, held) /\ new.touched = {} /\ new.written = {}
<1>1. r \in [pc : {"idle", "couriers", "write", "tell", "clear"}, loaded : {r.loaded, {}},
             moves : {r.moves, ms}, written : SUBSET Move, touched : SUBSET Couriers]
  BY DEF RunOK
<1>2. /\ new.touched = {} /\ new.pc = "write" /\ new.loaded = {} /\ new.moves = ms
      /\ new.written = {}
      /\ new \in [pc : {"idle", "couriers", "write", "tell", "clear"}, loaded : {{}},
                  moves : {ms}, written : SUBSET Move, touched : SUBSET Couriers]
  BY <1>1
<1> QED BY <1>2 DEF RunOK

AfterWrite(r, m) == [r EXCEPT !.moves = r.moves \ {m}, !.written = {m}, !.pc = "tell"]

LEMMA RunWrites ==
    ASSUME NEW r, NEW hd, RunOK(r, hd), r.pc = "write", NEW m \in Move, m \in r.moves
    PROVE  /\ RunOK(AfterWrite(r, m), hd) /\ AfterWrite(r, m).touched = r.touched
           /\ AfterWrite(r, m).written = {m}
<1> DEFINE new == AfterWrite(r, m)
<1>1. r \in [pc : {"idle", "couriers", "write", "tell", "clear"}, loaded : {r.loaded},
             moves : {r.moves, r.moves \ {m}}, written : SUBSET Move,
             touched : SUBSET Couriers]
  BY DEF RunOK
<1>2. /\ new.touched = r.touched /\ new.pc = "tell" /\ new.loaded = r.loaded
      /\ new.moves = r.moves \ {m} /\ new.written = {m}
      /\ new \in [pc : {"idle", "couriers", "write", "tell", "clear"}, loaded : {r.loaded},
                  moves : {r.moves \ {m}}, written : SUBSET Move, touched : SUBSET Couriers]
  BY <1>1 DEF AfterWrite
<1> HIDE DEF new
<1>3. RunOK(new, hd)
  BY <1>2 DEF RunOK
<1> QED BY <1>2, <1>3 DEF new

AfterTell(r, t, p) == [r EXCEPT !.written = {}, !.touched = t, !.pc = p]

LEMMA RunTells ==
    ASSUME NEW r, NEW hd, RunOK(r, hd), r.pc = "tell", NEW t \in SUBSET Couriers,
           NEW p \in {"write", "clear"}
    PROVE  /\ RunOK(AfterTell(r, t, p), hd) /\ AfterTell(r, t, p).touched = t
           /\ AfterTell(r, t, p).written = {}
<1> DEFINE new == AfterTell(r, t, p)
<1>1. r \in [pc : {"idle", "couriers", "write", "tell", "clear"}, loaded : {r.loaded},
             moves : {r.moves}, written : SUBSET Move, touched : SUBSET Couriers]
  BY DEF RunOK
<1>2. /\ new.touched = t /\ new.pc = p /\ new.loaded = r.loaded
      /\ new.moves = r.moves /\ new.written = {}
      /\ new \in [pc : {"idle", "couriers", "write", "tell", "clear"}, loaded : {r.loaded},
                  moves : {r.moves}, written : SUBSET Move, touched : SUBSET Couriers]
  BY <1>1 DEF AfterTell
<1> HIDE DEF new
<1>3. RunOK(new, hd)
  BY <1>2 DEF RunOK
<1> QED BY <1>2, <1>3 DEF new

LEMMA RunClears ==
    ASSUME NEW r, NEW hd, RunOK(r, hd), r.pc = "clear", NEW t \in SUBSET Couriers,
           NEW new, new = [r EXCEPT !.touched = t]
    PROVE  RunOK(new, hd) /\ new.touched = t /\ new.written = {}
<1>1. r \in [pc : {"idle", "couriers", "write", "tell", "clear"}, loaded : {r.loaded},
             moves : {r.moves}, written : SUBSET Move, touched : SUBSET Couriers]
  BY DEF RunOK
<1>2. /\ new.touched = t /\ new.pc = r.pc /\ new.loaded = r.loaded /\ new.moves = r.moves
      /\ new.written = r.written
      /\ new \in [pc : {"idle", "couriers", "write", "tell", "clear"}, loaded : {r.loaded},
                  moves : {r.moves}, written : SUBSET Move, touched : SUBSET Couriers]
  BY <1>1
<1> QED BY <1>2 DEF RunOK

LEMMA NoBatchOK == \A hd : RunOK(NoBatch, hd)
BY DEF RunOK, NoBatch

\* A step of run b alone.
LEMMA RunStep ==
    ASSUME RunsInv, NEW b \in Batches, NEW r, batch' = [batch EXCEPT ![b] = r],
           RunOK(r, held), UNCHANGED held
    PROVE  /\ RunsInv' /\ batch'[b] = r
           /\ \A a \in Batches \ {b} : batch'[a] = batch[a]
           /\ r.written = {} => Owed(b)' = r.touched
           /\ \A w : r.written = {w} => Owed(b)' = r.touched \cup Touches(w)
           /\ \A a \in Batches \ {b} : Owed(a)' = Owed(a)
<1>1. batch'[b] = r /\ \A a \in Batches \ {b} : batch'[a] = batch[a]
  BY DEF RunsInv
<1>2. batch' = [a \in Batches |-> batch'[a]]
  BY DEF RunsInv
<1>3. Owed(b)' = r.touched \cup UNION {Touches(w) : w \in r.written}
  BY <1>1 DEF Owed
<1>4. \A a \in Batches \ {b} : Owed(a)' = Owed(a)
  BY <1>1 DEF Owed
<1>5. /\ r.written = {} => Owed(b)' = r.touched
      /\ \A w : r.written = {w} => Owed(b)' = r.touched \cup Touches(w)
  <2>1. UNION {Touches(w) : w \in {}} = {}
    OBVIOUS
  <2>2. \A w : UNION {Touches(v) : v \in {w}} = Touches(w)
    OBVIOUS
  <2> QED BY <1>3, <2>1, <2>2
<1> QED BY <1>1, <1>2, <1>4, <1>5 DEF RunsInv

\* What a run owes that has told of all its moves, and of all but one.
LEMMA OwedNow ==
    ASSUME NEW b \in Batches
    PROVE  /\ batch[b].written = {} => Owed(b) = batch[b].touched
           /\ \A w : batch[b].written = {w} => Owed(b) = batch[b].touched \cup Touches(w)
<1>1. UNION {Touches(w) : w \in {}} = {}
  OBVIOUS
<1>2. \A w : UNION {Touches(v) : v \in {w}} = Touches(w)
  OBVIOUS
<1> QED BY <1>1, <1>2 DEF Owed

\* A step that changes no row and tells nobody; a run may end in it, or be begun.
LEMMA NoticesStay ==
    ASSUME BatchInv, UNCHANGED <<rows, announced, disturbed>>,
           missed' \in [OrderIds -> SUBSET Couriers],
           \A o \in OrderIds : missed[o] \subseteq missed'[o],
           \A a \in Batches :
              /\ batch'[a].written \in {{}, batch[a].written}
              /\ \A w \in batch[a].written :
                    \/ w \in batch'[a].written
                    \/ w.from \in Couriers => w.from \in missed'[w.order]
    PROVE  NoticesInv' /\ AnnouncedIsMine'
<1>1. NoticesOK'
  BY DEF BatchInv, NoticesInv, NoticesOK, rows
<1>2. UntoldOK'
  BY DEF BatchInv, NoticesInv, UntoldOK, Present, rows
<1>3. ASSUME NEW o \in OrderIds, NEW c \in Couriers,
             Present(o)', o \notin disturbed', c \in announced'[o], orders'[o].courier # c
      PROVE  c \in missed'[o] \/ \E w \in Untold' : w.order = o /\ w.from = c
  <2>1. c \in missed[o] \/ \E w \in Untold : w.order = o /\ w.from = c
    BY <1>3 DEF BatchInv, AnnouncedIsMine, Present, rows
  <2>2. ASSUME NEW w \in Untold, w.order = o, w.from = c, w \notin Untold'
        PROVE  c \in missed'[o]
    BY <2>2 DEF Untold
  <2> QED BY <2>1, <2>2
<1> QED BY <1>1, <1>2, <1>3 DEF NoticesInv, AnnouncedIsMine

LEMMA LoadOrdersKeeps ==
    ASSUME BatchInv, NEW b \in Batches, LoadOrders(b)
    PROVE  /\ RunsInv' /\ \A c \in Couriers : KeptBeside(c)
           /\ \A a \in Batches : batch'[a].written = batch[a].written
<1> DEFINE ready == {o \in OrderIds : /\ orders[o].status = "READY_FOR_DELIVERY"
                                      /\ OrgOf[o] \in located}
           rowsRead == {[id |-> o, courier |-> orders[o].courier, km |-> 0] : o \in ready}
           r == [batch[b] EXCEPT !.pc = "couriers", !.loaded = rowsRead]
<1>1. batch[b] = NoBatch /\ UNCHANGED routeVars
  BY DEF LoadOrders
<1>2. batch' = [batch EXCEPT ![b] = r]
  BY DEF LoadOrders
<1>3. \A x \in rowsRead : x.id \in OrderIds /\ "READY_FOR_DELIVERY" \in held[x.id]
  BY DEF BatchInv, Sound, IInv, RowsInv, Present, Absent
<1> HIDE DEF rowsRead
<1>4. RunOK(r, held) /\ r.touched = batch[b].touched /\ r.written = batch[b].written
  <2>1. RunOK(batch[b], held) /\ batch[b].touched = {} /\ batch[b].written = {}
    BY <1>1, NoBatchOK DEF NoBatch
  <2> QED BY <1>3, <2>1, RunLoads
<1> HIDE DEF r
<1>5. /\ RunsInv' /\ batch'[b] = r /\ \A a \in Batches \ {b} : batch'[a] = batch[a]
      /\ \A a \in Batches : Owed(a)' = Owed(a)
  <2>1. batch[b].written = {}
    BY <1>1 DEF NoBatch
  <2>2. RunsInv /\ UNCHANGED held
    BY <1>1 DEF BatchInv, routeVars, vars, rows
  <2>3. /\ RunsInv' /\ batch'[b] = r /\ \A a \in Batches \ {b} : batch'[a] = batch[a]
        /\ Owed(b)' = r.touched /\ \A a \in Batches \ {b} : Owed(a)' = Owed(a)
    BY <1>2, <1>4, <2>1, <2>2, RunStep
  <2>4. Owed(b) = batch[b].touched
    BY <2>1, OwedNow
  <2> QED BY <1>4, <2>3, <2>4
<1>6. \A c : Touched(c)' <=> Touched(c)
  BY <1>5 DEF Touched
<1>7. \A c : (Stale(c)' <=> Stale(c)) /\ (Excused(c)' <=> Excused(c))
  BY <1>1 DEF routeVars, vars, Stale, Excused, ActiveOrders, ToBeCleared, Clears, Clearing
<1> QED BY <1>4, <1>5, <1>6, <1>7 DEF KeptBeside

LEMMA LoadCouriersKeeps ==
    ASSUME BatchInv, NEW b \in Batches, LoadCouriers(b)
    PROVE  /\ RunsInv' /\ \A c \in Couriers : KeptBeside(c)
           /\ \A a \in Batches : batch'[a].written = batch[a].written
<1>1. /\ RunOK(batch[b], held) /\ batch[b].touched = {} /\ batch[b].written = {}
      /\ UNCHANGED routeVars
  BY DEF LoadCouriers, BatchInv, RunsInv, RunOK
<1>2. PICK os \in RowsOf(batch[b].loaded), cs \in RowsOf(Available) :
          batch' = [batch EXCEPT ![b] = IF Moves(os, cs) = {} THEN NoBatch
                       ELSE [batch[b] EXCEPT !.pc = "write", !.loaded = {},
                                             !.moves = Moves(os, cs)]]
  BY DEF LoadCouriers
<1> DEFINE moves == Moves(os, cs)
           plan == [batch[b] EXCEPT !.pc = "write", !.loaded = {}, !.moves = moves]
<1>3. \A m \in moves : m.order \in OrderIds /\ "READY_FOR_DELIVERY" \in held[m.order]
  BY <1>1, MovesOfLoaded, RowsOfFacts DEF RunOK
<1> HIDE DEF moves
<1>4. RunOK(plan, held) /\ plan.touched = {} /\ plan.written = {}
  BY <1>1, <1>3, RunPlans
<1>5. NoBatch.touched = {} /\ NoBatch.written = {}
  BY DEF NoBatch
<1> HIDE DEF plan
<1>6. PICK r \in {NoBatch, plan} : batch' = [batch EXCEPT ![b] = r]
  BY <1>2 DEF moves, plan
<1>7. /\ RunsInv' /\ batch'[b] = r /\ \A a \in Batches \ {b} : batch'[a] = batch[a]
      /\ r.written = {} /\ \A a \in Batches : Owed(a)' = Owed(a)
  BY <1>1, <1>4, <1>5, <1>6, NoBatchOK, RunStep, OwedNow DEF BatchInv, routeVars, vars, rows
<1>8. \A c : Touched(c)' <=> Touched(c)
  BY <1>7 DEF Touched
<1>9. \A c : (Stale(c)' <=> Stale(c)) /\ (Excused(c)' <=> Excused(c))
  BY <1>1 DEF routeVars, vars, Stale, Excused, ActiveOrders, ToBeCleared, Clears, Clearing
<1> QED BY <1>1, <1>7, <1>8, <1>9 DEF KeptBeside

LEMMA WriteMoveKeeps ==
    ASSUME BatchInv, NEW b \in Batches, NEW m \in Move, WriteMove(b, m)
    PROVE  /\ Sound' /\ RunsInv' /\ NoticesInv' /\ AnnouncedIsMine'
           /\ \A c \in Couriers : KeptBeside(c)
<1> DEFINE o == m.order
           changed == {c \in Couriers : ActiveOrders(c) # ActiveOrders(c)'}
           r == AfterWrite(batch[b], m)
<1>1. /\ o \in OrderIds /\ m.to \in Couriers /\ m.from \in Couriers \cup {None}
  BY DEF Move
<1>2. RunOK(batch[b], held) /\ "READY_FOR_DELIVERY" \in held[o] /\ batch[b].written = {}
  BY <1>1 DEF BatchInv, RunsInv, RunOK, WriteMove
<1>3. /\ UNCHANGED <<handler, located, published, cachedRoute, shown, held, announced, missed>>
      /\ disturbed \subseteq disturbed' /\ disturbed' \subseteq disturbed \cup {o}
      /\ o \notin disturbed' => /\ m.from = orders[o].courier
                                /\ \A w \in Untold : w.order # o
  BY DEF WriteMove, SetCourier, rows
<1>4. IInv'
  <2>1. IF Present(o) THEN SetCourier(o, m.to) ELSE UNCHANGED rows
    BY DEF WriteMove
  <2> HIDE DEF o
  <2> QED BY <1>1, <1>2, <1>3, <2>1, SetCourierStep DEF BatchInv, Sound
<1>5. query' \in [Queries -> Query] /\ QueryInv'
  <2>1. Overtake(changed)
    BY DEF WriteMove
  <2> HIDE DEF changed
  <2>2. \A c \in Couriers : ActiveOrders(c)' # ActiveOrders(c) => c \in changed
    BY DEF changed
  <2> QED BY <2>1, <2>2, OvertakeKeeps DEF BatchInv, Sound
<1>6. /\ causes' \in [Couriers -> SUBSET Cause]
      /\ \A c \in Couriers : /\ causes[c] \subseteq causes'[c]
                             /\ c \in changed \ {m.from, m.to} => causes'[c] # {}
  <2>1. causes' = [c \in Couriers |-> IF c \in changed \ {m.from, m.to}
                                     THEN causes[c] \cup {"overtaken"} ELSE causes[c]]
    BY DEF WriteMove
  <2> HIDE DEF changed
  <2> QED BY <2>1 DEF BatchInv, Sound, RouteTypeOK, Cause
<1>7. Sound'
  BY <1>4, <1>5, <1>6 DEF Sound, RouteTypeOK
<1>8. /\ RunsInv' /\ batch'[b].written = {m}
      /\ \A a \in Batches \ {b} : batch'[a] = batch[a]
      /\ Owed(b)' = batch[b].touched \cup Touches(m)
      /\ \A a \in Batches \ {b} : Owed(a)' = Owed(a)
  <2>1. batch' = [batch EXCEPT ![b] = r]
    BY DEF WriteMove, AfterWrite
  <2>2. RunOK(r, held) /\ r.touched = batch[b].touched /\ r.written = {m}
    <3>1. batch[b].pc = "write" /\ m \in batch[b].moves
      BY DEF WriteMove
    <3> QED BY <1>2, <3>1, RunWrites
  <2> HIDE DEF r
  <2>3. RunsInv /\ UNCHANGED held
    BY <1>3 DEF BatchInv
  <2>4. /\ RunsInv' /\ batch'[b] = r /\ \A a \in Batches \ {b} : batch'[a] = batch[a]
        /\ Owed(b)' = r.touched \cup Touches(m)
        /\ \A a \in Batches \ {b} : Owed(a)' = Owed(a)
    BY <2>1, <2>2, <2>3, RunStep
  <2> QED BY <2>2, <2>4
<1>9. \A c : Touched(c) \/ c \in Touches(m) => Touched(c)'
  <2>1. Owed(b) = batch[b].touched
    BY <1>2, OwedNow
  <2> QED BY <1>8, <2>1 DEF Touched
<1>10. /\ orders \in [OrderIds -> Row] /\ announced \in [OrderIds -> SUBSET Couriers]
       /\ \A x \in OrderIds : Present(x)' <=> Present(x)
       /\ \A x \in OrderIds \ {o} : orders'[x] = orders[x]
       /\ Present(o) => orders'[o].courier = m.to
  <2>1. orders \in [OrderIds -> Row] /\ announced \in [OrderIds -> SUBSET Couriers]
    BY DEF BatchInv, Sound, IInv, TypeOK, NoticesInv, NoticesOK
  <2>2. CASE Present(o)
    <3>1. orders' = [orders EXCEPT ![o].courier = m.to]
      BY <2>2 DEF WriteMove, SetCourier
    <3> QED BY <1>1, <2>1, <2>2, <3>1 DEF Present, Row
  <2>3. CASE ~Present(o)
    BY <2>1, <2>3 DEF WriteMove, rows, Present
  <2> QED BY <2>1, <2>2, <2>3
<1>11. NoticesInv'
  <2>1. NoticesOK'
    BY <1>3 DEF BatchInv, NoticesInv, NoticesOK
  <2>2. ASSUME NEW a \in Batches, NEW w \in batch'[a].written, w.order \notin disturbed'
        PROVE  /\ Present(w.order)' => orders'[w.order].courier = w.to
               /\ \A d \in Batches \ {a} : \A v \in batch'[d].written : v.order # w.order
    <3>1. CASE a = b
      <4>1. w = m /\ \A x \in Untold : x.order # o
        BY <1>3, <1>8, <2>2, <3>1
      <4>2. \A d \in Batches \ {b} : \A v \in batch'[d].written : v \in Untold
        BY <1>8 DEF Untold
      <4> QED BY <1>1, <1>10, <3>1, <4>1, <4>2
    <3>2. CASE a # b
      <4>1. w \in batch[a].written /\ w \in Untold /\ w.order \notin disturbed
        BY <1>3, <1>8, <2>2, <3>2 DEF Untold
      <4>2. w.order # o /\ w.order \in OrderIds
        BY <1>3, <2>2, <4>1 DEF BatchInv, RunsInv, RunOK, Move
      <4>3. /\ Present(w.order) => orders[w.order].courier = w.to
            /\ \A d \in Batches \ {a} : \A v \in batch[d].written : v.order # w.order
        BY <4>1 DEF BatchInv, NoticesInv, UntoldOK
      <4> QED BY <1>8, <1>10, <4>2, <4>3
    <3> QED BY <3>1, <3>2
  <2> QED BY <2>1, <2>2 DEF NoticesInv, UntoldOK
<1>12. AnnouncedIsMine'
  <2> SUFFICES ASSUME NEW x \in OrderIds, NEW c \in Couriers, Present(x)',
                      x \notin disturbed', c \in announced'[x], orders'[x].courier # c
               PROVE  c \in missed'[x] \/ \E w \in Untold' : w.order = x /\ w.from = c
    BY DEF AnnouncedIsMine
  <2>1. \/ orders[x].courier = c
        \/ c \in missed[x]
        \/ \E w \in Untold : w.order = x /\ w.from = c
    BY <1>3, <1>10 DEF BatchInv, AnnouncedIsMine
  <2>2. CASE x = o
    <3>1. m \in Untold' /\ m.from = orders[o].courier /\ \A w \in Untold : w.order # o
      BY <1>3, <1>8, <2>2 DEF Untold
    <3> QED BY <1>3, <2>1, <2>2, <3>1
  <2>3. CASE x # o
    <3>1. \A w \in Untold : w \in Untold'
      BY <1>2, <1>8 DEF Untold
    <3> QED BY <1>3, <1>10, <2>1, <2>3, <3>1
  <2> QED BY <2>2, <2>3
<1>13. ASSUME NEW c \in Couriers, Stale(c)', ~Excused(c)', ~Touched(c)'
       PROVE  Stale(c) /\ ~Excused(c) /\ ~Touched(c)
  <2>1. ~Touched(c) /\ c \notin {m.from, m.to}
    BY <1>9, <1>13, ConstantsAssumption DEF Touches
  <2>2. c \notin changed /\ causes[c] = {}
    BY <1>6, <1>13, <2>1 DEF Excused
  <2>3. c \notin ToBeCleared
    BY <1>3, <1>13 DEF Excused, ToBeCleared, Clears, Clearing
  <2> QED BY <1>3, <1>13, <2>1, <2>2, <2>3 DEF Stale, Excused
<1> QED BY <1>7, <1>8, <1>11, <1>12, <1>13 DEF KeptBeside

LEMMA TellMoveKeeps ==
    ASSUME BatchInv, NEW b \in Batches, NEW m \in Move, TellMove(b, m)
    PROVE  /\ Sound' /\ RunsInv' /\ NoticesInv' /\ AnnouncedIsMine'
           /\ \A c \in Couriers : KeptBeside(c)
<1> DEFINE o == m.order
           t == batch[b].touched \cup Touches(m)
           p == IF batch[b].moves = {} THEN "clear" ELSE "write"
           r == AfterTell(batch[b], t, p)
           lost == (missed[o] \cup ({m.from} \ (clients \cup {None})))
                       \ ({m.from, m.to} \cap clients)
<1>1. /\ o \in OrderIds /\ m.to \in Couriers /\ m.from \in Couriers \cup {None}
      /\ Touches(m) \subseteq Couriers
  BY DEF Move, Touches
<1>2. /\ RunOK(batch[b], held) /\ batch[b].written = {m} /\ t \in SUBSET Couriers
      /\ UNCHANGED <<routeVars, disturbed>>
  BY <1>1 DEF BatchInv, RunsInv, RunOK, TellMove
<1>3. Sound'
  <2>1. IInv'
    BY <1>2, StepIInv DEF routeVars, BatchInv, Sound
  <2> QED BY <1>2, <2>1 DEF routeVars, vars, BatchInv, Sound, RouteTypeOK, QueryInv, ActiveOrders
<1>4. /\ RunsInv' /\ batch'[b].written = {} /\ Owed(b)' = Owed(b)
      /\ \A a \in Batches \ {b} : batch'[a] = batch[a] /\ Owed(a)' = Owed(a)
  <2>1. batch' = [batch EXCEPT ![b] = r]
    BY DEF TellMove, AfterTell
  <2>2. RunOK(r, held) /\ r.touched = t /\ r.written = {}
    <3>1. p \in {"write", "clear"} /\ batch[b].pc = "tell"
      BY DEF TellMove
    <3> HIDE DEF t, p
    <3> QED BY <1>2, <3>1, RunTells
  <2>3. t = Owed(b)
    BY <1>2, OwedNow
  <2> HIDE DEF r, t
  <2> QED BY <1>2, <2>1, <2>2, <2>3, RunStep DEF BatchInv, routeVars, vars, rows
<1>5. \A c : (Touched(c)' <=> Touched(c)) /\ (Stale(c)' <=> Stale(c)) /\ (Excused(c)' <=> Excused(c))
  BY <1>2, <1>4 DEF Touched, routeVars, vars, Stale, Excused, ActiveOrders, ToBeCleared,
     Clears, Clearing
<1>6. /\ announced \in [OrderIds -> SUBSET Couriers] /\ missed \in [OrderIds -> SUBSET Couriers]
      /\ announced' = [announced EXCEPT ![o] = Told(m)]
      /\ missed' = [missed EXCEPT ![o] = lost]
  BY DEF BatchInv, NoticesInv, NoticesOK, TellMove
<1>7. NoticesInv'
  <2>1. NoticesOK'
    <3>1. Told(m) \in SUBSET Couriers /\ lost \in SUBSET Couriers
      BY <1>1, <1>6 DEF Told
    <3>2. held[o] # {} /\ UNCHANGED held
      BY <1>2 DEF RunOK, routeVars, vars, rows
    <3> HIDE DEF lost
    <3> QED BY <1>1, <1>6, <3>1, <3>2 DEF BatchInv, NoticesInv, NoticesOK
  <2>2. UntoldOK'
    BY <1>2, <1>4 DEF BatchInv, NoticesInv, UntoldOK, Present, routeVars, vars, rows
  <2> QED BY <2>1, <2>2 DEF NoticesInv
<1>8. AnnouncedIsMine'
  <2> SUFFICES ASSUME NEW x \in OrderIds, NEW c \in Couriers, Present(x)',
                      x \notin disturbed', c \in announced'[x], orders'[x].courier # c
               PROVE  c \in missed'[x] \/ \E w \in Untold' : w.order = x /\ w.from = c
    BY DEF AnnouncedIsMine
  <2>1. Present(x) /\ x \notin disturbed /\ orders[x].courier # c
    BY <1>2 DEF Present, routeVars, vars, rows
  <2>2. \A w \in Untold : w = m \/ w \in Untold'
    BY <1>2, <1>4 DEF Untold
  <2>3. CASE x # o
    BY <1>6, <2>1, <2>2, <2>3 DEF BatchInv, AnnouncedIsMine
  <2>4. CASE x = o
    <3>1. /\ orders[o].courier = m.to
          /\ \A a \in Batches \ {b} : \A v \in batch[a].written : v.order # o
      BY <1>2, <2>1, <2>4 DEF BatchInv, NoticesInv, UntoldOK
    <3>2. c \in Told(m) /\ c # m.to
      BY <1>6, <2>1, <2>4, <3>1
    <3>3. c \in announced[o] /\ c \notin {m.from} \cap clients
      BY <3>2 DEF Told
    <3>4. c \in missed[o] \/ \E w \in Untold : w.order = o /\ w.from = c
      BY <2>1, <2>4, <3>3 DEF BatchInv, AnnouncedIsMine
    <3>5. \A w \in Untold : w.order = o => w = m
      BY <1>2, <3>1 DEF Untold
    <3>6. c \in missed[o] \/ c = m.from
      BY <3>4, <3>5
    <3>7. c \in lost
      BY <3>2, <3>3, <3>6, ConstantsAssumption
    <3> QED BY <1>1, <1>6, <2>4, <3>7
  <2> QED BY <2>3, <2>4
<1> QED BY <1>3, <1>4, <1>5, <1>7, <1>8 DEF KeptBeside

\* Whoever a run has still to tell when it ends is marked as not told.
LEMMA CutOffMisses ==
    ASSUME BatchInv, NEW ws \in SUBSET Move, CutOff(ws)
    PROVE  /\ missed' \in [OrderIds -> SUBSET Couriers]
           /\ \A o \in OrderIds : missed[o] \subseteq missed'[o]
           /\ \A w \in ws : w.from \in Couriers => w.from \in missed'[w.order]
<1> DEFINE froms(o) == {w.from : w \in {x \in ws : x.order = o}} \ {None}
<1>1. missed' = [o \in OrderIds |-> missed[o] \cup froms(o)]
  BY DEF CutOff
<1>2. \A o \in OrderIds : missed[o] \in SUBSET Couriers /\ froms(o) \in SUBSET Couriers
  BY DEF BatchInv, NoticesInv, NoticesOK, Move
<1>3. \A w \in ws : w.order \in OrderIds /\ (w.from \in Couriers => w.from \in froms(w.order))
  BY ConstantsAssumption DEF Move
<1> HIDE DEF froms
<1> QED BY <1>1, <1>2, <1>3

LEMMA FailMoveKeeps ==
    ASSUME BatchInv, NEW b \in Batches, FailMove(b)
    PROVE  /\ Sound' /\ RunsInv' /\ NoticesInv' /\ AnnouncedIsMine'
           /\ \A c \in Couriers : KeptBeside(c)
<1>1. /\ UNCHANGED <<vars, query>> /\ batch' = [batch EXCEPT ![b] = NoBatch]
      /\ causes' = [c \in Couriers |-> IF c \in Owed(b)
                                       THEN causes[c] \cup {"failed"} ELSE causes[c]]
      /\ CutOff(batch[b].written) /\ UNCHANGED <<announced, disturbed>>
  BY DEF FailMove
<1>2. IInv'
  BY <1>1, StepIInv DEF BatchInv, Sound
<1>3. Sound'
  BY <1>1, <1>2 DEF BatchInv, Sound, RouteTypeOK, QueryInv, Cause, ActiveOrders, vars
<1>4. /\ RunsInv' /\ batch'[b] = NoBatch
      /\ \A a \in Batches \ {b} : batch'[a] = batch[a] /\ Owed(a)' = Owed(a)
  BY <1>1, NoBatchOK, RunStep DEF BatchInv, vars, rows
<1>5. ASSUME NEW c \in Couriers, Stale(c)', ~Excused(c)', ~Touched(c)'
      PROVE  Stale(c) /\ ~Excused(c) /\ ~Touched(c)
  <2>1. causes[c] = {} /\ c \notin Owed(b)
    BY <1>1, <1>5 DEF Excused
  <2>2. ~Touched(c)
    BY <1>4, <1>5, <2>1 DEF Touched
  <2> QED BY <1>1, <1>5, <2>1, <2>2 DEF Stale, Excused, ActiveOrders, ToBeCleared, Clears,
          Clearing, vars
<1>6. NoticesInv' /\ AnnouncedIsMine'
  <2>2. /\ missed' \in [OrderIds -> SUBSET Couriers]
        /\ \A o \in OrderIds : missed[o] \subseteq missed'[o]
        /\ \A w \in batch[b].written : w.from \in Couriers => w.from \in missed'[w.order]
    BY <1>1, CutOffMisses DEF BatchInv, RunsInv, RunOK
  <2>3. NoBatch.written = {}
    BY DEF NoBatch
  <2>4. UNCHANGED <<rows, announced, disturbed>>
    BY <1>1 DEF vars, rows
  <2>5. \A a \in Batches :
           /\ batch'[a].written \in {{}, batch[a].written}
           /\ \A w \in batch[a].written :
                 \/ w \in batch'[a].written
                 \/ w.from \in Couriers => w.from \in missed'[w.order]
    BY <1>4, <2>2, <2>3
  <2> QED BY <2>2, <2>4, <2>5, NoticesStay
<1> QED BY <1>3, <1>4, <1>5, <1>6 DEF KeptBeside

LEMMA ClearTouchedKeeps ==
    ASSUME BatchInv, NEW b \in Batches, NEW d \in Couriers, ClearTouched(b, d)
    PROVE  /\ Sound' /\ RunsInv' /\ \A c \in Couriers : KeptBeside(c)
           /\ \A a \in Batches : batch'[a].written = batch[a].written
<1> DEFINE rest == batch[b].touched \ {d}
           one == [batch[b] EXCEPT !.touched = rest]
<1>1. /\ UNCHANGED <<rows, handler, located, published, shown, query>>
      /\ cachedRoute \in [Couriers -> SUBSET OrderIds] /\ causes \in [Couriers -> SUBSET Cause]
      /\ query \in [Queries -> Query]
      /\ cachedRoute' = [cachedRoute EXCEPT ![d] = {}] \/ UNCHANGED cachedRoute
  BY DEF ClearTouched, Invalidate, BatchInv, Sound, RouteTypeOK, IInv, TypeOK
<1>2. /\ causes' \in [Couriers -> SUBSET Cause]
      /\ \A c \in Couriers \ {d} : causes'[c] = causes[c]
      /\ cachedRoute'[d] = {} \/ causes'[d] # {}
  BY <1>1 DEF ClearTouched, Cause
<1>3. cachedRoute' \in [Couriers -> SUBSET OrderIds]
  BY <1>1
<1>4. Sound' /\ \A c \in Couriers : Kept(c)
  BY <1>1, <1>2, <1>3, RoutesOnly DEF BatchInv
<1>5. PICK r : /\ batch' = [batch EXCEPT ![b] = r] /\ RunOK(r, held)
               /\ batch[b].touched \ {d} \subseteq r.touched
               /\ r.written = {} /\ batch[b].written = {}
  <2>0. batch[b].written = {}
    BY DEF BatchInv, RunsInv, RunOK, ClearTouched
  <2>1. RunOK(one, held) /\ one.touched = rest /\ one.written = {}
    <3>1. RunOK(batch[b], held) /\ batch[b].pc = "clear" /\ rest \in SUBSET Couriers
      BY DEF BatchInv, RunsInv, RunOK, ClearTouched
    <3> HIDE DEF rest
    <3> QED BY <3>1, RunClears
  <2>2. CASE rest = {}
    BY <2>0, <2>2, NoBatchOK DEF ClearTouched, NoBatch
  <2>3. CASE rest # {}
    <3>1. batch' = [batch EXCEPT ![b] = one]
      BY <2>3 DEF ClearTouched
    <3> HIDE DEF one
    <3> QED BY <2>0, <2>1, <3>1
  <2> QED BY <2>2, <2>3
<1>6. /\ RunsInv' /\ batch'[b] = r /\ \A a \in Batches \ {b} : batch'[a] = batch[a]
      /\ Owed(b) = batch[b].touched /\ r.touched \subseteq Owed(b)'
      /\ \A a \in Batches \ {b} : Owed(a)' = Owed(a)
  <2>1. Owed(b) = batch[b].touched
    BY <1>5, OwedNow
  <2> QED BY <1>1, <1>5, <2>1, RunStep DEF BatchInv, rows
<1>7. \A c : Touched(c) => Touched(c)' \/ c = d
  BY <1>5, <1>6 DEF Touched
<1>8. ASSUME NEW c \in Couriers, Stale(c)', ~Excused(c)', ~Touched(c)'
      PROVE  Stale(c) /\ ~Excused(c) /\ ~Touched(c)
  BY <1>2, <1>4, <1>7, <1>8 DEF Kept, Stale, Excused
<1> QED BY <1>4, <1>5, <1>6, <1>8 DEF KeptBeside

-----------------------------------------------------------------------------
\* The rest of the system

LEMMA ServeBesideKeeps ==
    ASSUME BatchInv, NEW h \in Handlers, ServeBeside(h)
    PROVE  /\ Sound' /\ RunsInv' /\ NoticesInv' /\ AnnouncedIsMine'
           /\ \A c \in Couriers : KeptBeside(c)
<1>1. Sound' /\ \A c \in Couriers : Kept(c)
  BY ServeKeeps DEF ServeBeside, BatchInv
<1>2. IInv /\ [Next]_vars /\ UNCHANGED <<batch, announced, missed>>
  BY DEF BatchInv, Sound, ServeBeside, Serve, Next
<1>3. \A o \in OrderIds : held[o] \subseteq held'[o]
  BY <1>2, HeldGrows
<1>4. RunsInv'
  BY <1>2, <1>3 DEF BatchInv, RunsInv, RunOK, Move
<1>5. /\ disturbed \subseteq disturbed'
      /\ \A o \in OrderIds : o \notin disturbed' => orders'[o].courier = orders[o].courier
  BY DEF ServeBeside
<1>6. \A o \in OrderIds : held[o] # {} /\ Present(o)' => Present(o)
  BY <1>2, DeletedStep
<1>7. NoticesInv'
  <2>1. NoticesOK'
    BY <1>2, <1>3 DEF BatchInv, NoticesInv, NoticesOK
  <2>2. ASSUME NEW b \in Batches, NEW w \in batch'[b].written, w.order \notin disturbed'
        PROVE  /\ Present(w.order)' => orders'[w.order].courier = w.to
               /\ \A a \in Batches \ {b} : \A v \in batch'[a].written : v.order # w.order
    <3>1. w.order \in OrderIds /\ held[w.order] # {} /\ w \in batch[b].written
      BY <1>2, <2>2 DEF BatchInv, RunsInv, RunOK, Move
    <3> QED BY <1>2, <1>5, <1>6, <2>2, <3>1 DEF BatchInv, NoticesInv, UntoldOK
  <2> QED BY <2>1, <2>2 DEF NoticesInv, UntoldOK
<1>8. AnnouncedIsMine'
  <2> SUFFICES ASSUME NEW o \in OrderIds, NEW c \in Couriers, Present(o)',
                      o \notin disturbed', c \in announced'[o], orders'[o].courier # c
               PROVE  c \in missed'[o] \/ \E w \in Untold' : w.order = o /\ w.from = c
    BY DEF AnnouncedIsMine
  <2>1. o \notin disturbed /\ orders[o].courier # c /\ c \in announced[o]
    BY <1>2, <1>5
  <2>2. Present(o)
    BY <1>6, <2>1 DEF BatchInv, NoticesInv, NoticesOK
  <2>3. Untold' = Untold
    BY <1>2 DEF Untold
  <2> QED BY <1>2, <2>1, <2>2, <2>3 DEF BatchInv, AnnouncedIsMine
<1>9. \A c \in Couriers : KeptBeside(c)
  BY <1>1, <1>2 DEF Kept, KeptBeside, Touched, Owed
<1> QED BY <1>1, <1>4, <1>7, <1>8, <1>9

\* The computations, the expiries and the coordinates of organizations.
LEMMA OtherKeeps ==
    ASSUME BatchInv, UNCHANGED <<position, batch, clients, notices>>,
           \/ \E q \in Queries : Compute(q)
           \/ \E c \in Couriers : Expire(c)
           \/ \E g \in Orgs : SetCoordinates(g) /\ UNCHANGED <<query, causes>>
    PROVE  /\ Sound' /\ RunsInv' /\ NoticesInv' /\ AnnouncedIsMine'
           /\ \A c \in Couriers : KeptBeside(c)
<1>1. Sound' /\ \A c \in Couriers : Kept(c)
  BY ComputeKeeps, ExpireKeeps, CoordinatesKeep DEF BatchInv
<1>2. UNCHANGED rows
  BY DEF Compute, BeginRoute, DropRoute, ReadOrders, EndWithoutRoute, StoreRoute, Expire,
     SetCoordinates, vars, rows
<1>3. RunsInv'
  BY <1>2 DEF BatchInv, RunsInv, rows
<1>4. missed \in [OrderIds -> SUBSET Couriers]
  BY DEF BatchInv, NoticesInv, NoticesOK
<1>5. NoticesInv' /\ AnnouncedIsMine'
  BY <1>2, <1>4, NoticesStay DEF notices
<1> QED BY <1>1, <1>3, <1>5 DEF Kept, KeptBeside, Touched, Owed

LEMMA StopAllKeeps ==
    ASSUME BatchInv, StopAll
    PROVE  /\ Sound' /\ RunsInv' /\ NoticesInv' /\ AnnouncedIsMine'
           /\ \A c \in Couriers : KeptBeside(c)
<1> DEFINE others == UNION {Owed(b) : b \in Batches}
<1>1. /\ Crash /\ query' = [q \in Queries |-> NoQuery]
      /\ batch' = [b \in Batches |-> NoBatch] /\ UNCHANGED <<rows, announced, disturbed>>
      /\ CutOff(Untold)
      /\ causes' = [c \in Couriers |-> IF c \in ToBeCleared \cup others
                                       THEN causes[c] \cup {"stopped"} ELSE causes[c]]
  BY DEF StopAll, Crash
<1>2. \A c : Touched(c) => c \in others
  BY DEF Touched
<1> HIDE DEF others
<1>3. /\ Sound' /\ \A c \in Couriers : Kept(c)
      /\ \A c \in Couriers : c \in others => causes'[c] # {}
  BY <1>1, StopKeeps DEF BatchInv
<1>4. RunsInv' /\ \A b \in Batches : batch'[b].written = {}
  BY <1>1, NoBatchOK DEF RunsInv, NoBatch
<1>5. NoticesInv' /\ AnnouncedIsMine'
  <2>1. Untold \in SUBSET Move
    BY DEF Untold, BatchInv, RunsInv, RunOK
  <2>2. /\ missed' \in [OrderIds -> SUBSET Couriers]
        /\ \A o \in OrderIds : missed[o] \subseteq missed'[o]
        /\ \A b \in Batches : \A w \in batch[b].written :
              w.from \in Couriers => w.from \in missed'[w.order]
    BY <1>1, <2>1, CutOffMisses DEF Untold
  <2>3. \A b \in Batches :
           /\ batch'[b].written \in {{}, batch[b].written}
           /\ \A w \in batch[b].written :
                 \/ w \in batch'[b].written
                 \/ w.from \in Couriers => w.from \in missed'[w.order]
    BY <1>4, <2>2
  <2>4. BatchInv /\ UNCHANGED <<rows, announced, disturbed>>
    BY <1>1
  <2> QED BY <2>2, <2>3, <2>4, NoticesStay
<1> QED BY <1>1, <1>2, <1>3, <1>4, <1>5 DEF Kept, KeptBeside, Excused

-----------------------------------------------------------------------------
\* The invariant

LEMMA InitBatchInv == BatchInit => BatchInv
<1> SUFFICES ASSUME BatchInit PROVE BatchInv
  OBVIOUS
<1>1. RouteInv
  BY InitRouteInv DEF BatchInit
<1>2. RunsInv
  BY NoBatchOK DEF BatchInit, RunsInv
<1>3. NoticesInv /\ AnnouncedIsMine
  BY DEF BatchInit, NoBatch, NoticesInv, NoticesOK, UntoldOK, AnnouncedIsMine
<1> QED BY <1>1, <1>2, <1>3 DEF BatchInv, RouteInv, StaleRouteHasCause, RouteStaleDuringRunOnly

LEMMA StepBatchInv == BatchInv /\ [BatchNext]_batchVars => BatchInv'
<1> SUFFICES ASSUME BatchInv, [BatchNext]_batchVars PROVE BatchInv'
  OBVIOUS
<1>1. \A c \in Couriers : Stale(c) => Excused(c) \/ Touched(c)
  BY DEF BatchInv, RouteStaleDuringRunOnly, Stale, Excused, Touched
<1>2. /\ Sound' /\ RunsInv' /\ NoticesInv' /\ AnnouncedIsMine'
      /\ \A c \in Couriers : KeptBeside(c)
  <2>1. ASSUME UNCHANGED <<routeVars, notices>>, RunsInv',
               \A a \in Batches : batch'[a].written = batch[a].written,
               \A c \in Couriers : KeptBeside(c)
        PROVE  Sound' /\ NoticesInv' /\ AnnouncedIsMine'
    <3>1. IInv'
      BY <2>1, StepIInv DEF routeVars, BatchInv, Sound
    <3>2. NoticesInv' /\ AnnouncedIsMine'
      BY <2>1, NoticesStay DEF notices, routeVars, vars, rows, BatchInv, NoticesInv, NoticesOK
    <3> QED BY <2>1, <3>1, <3>2 DEF routeVars, vars, rows, BatchInv, Sound,
            RouteTypeOK, QueryInv, ActiveOrders
  <2>2. ASSUME UNCHANGED <<routeVars, batch>>
        PROVE  RunsInv' /\ \A c \in Couriers : KeptBeside(c)
    BY <2>2 DEF routeVars, vars, rows, BatchInv, RunsInv, KeptBeside, Stale, Excused, Touched,
       Owed, ActiveOrders, ToBeCleared, Clears, Clearing
  <2>3. ASSUME NEW b \in Batches, LoadOrders(b) \/ LoadCouriers(b)
        PROVE  /\ RunsInv' /\ (\A c \in Couriers : KeptBeside(c))
               /\ UNCHANGED <<routeVars, notices>>
               /\ \A a \in Batches : batch'[a].written = batch[a].written
    <3>1. UNCHANGED <<routeVars, notices>>
      BY <2>3 DEF LoadOrders, LoadCouriers
    <3> QED BY <2>3, <3>1, LoadOrdersKeeps, LoadCouriersKeeps
  <2>4. ASSUME NEW b \in Batches, NEW d \in Couriers, ClearTouched(b, d)
        PROVE  /\ Sound' /\ RunsInv' /\ NoticesInv' /\ AnnouncedIsMine'
               /\ \A c \in Couriers : KeptBeside(c)
    <3>1. UNCHANGED <<rows, notices>>
      BY <2>4 DEF ClearTouched
    <3>2. NoticesInv' /\ AnnouncedIsMine'
      BY <2>4, <3>1, ClearTouchedKeeps, NoticesStay DEF notices, BatchInv, NoticesInv, NoticesOK
    <3> QED BY <2>4, <3>2, ClearTouchedKeeps
  <2>5. ASSUME NEW b \in Batches, Run(b)
        PROVE  /\ Sound' /\ RunsInv' /\ NoticesInv' /\ AnnouncedIsMine'
               /\ \A c \in Couriers : KeptBeside(c)
    BY <2>1, <2>3, <2>4, <2>5, WriteMoveKeeps, TellMoveKeeps, FailMoveKeeps DEF Run
  <2>6. CASE \/ \E c \in Couriers, d \in Distances \cup {Offline} : Report(c, d)
             \/ \E c \in Couriers : Connect(c) \/ Disconnect(c)
             \/ UNCHANGED batchVars
    <3>1. UNCHANGED <<routeVars, batch, notices>>
      BY <2>6 DEF Report, Connect, Disconnect, batchVars
    <3> QED BY <2>1, <2>2, <3>1
  <2> QED BY <2>5, <2>6, ServeBesideKeeps, OtherKeeps, StopAllKeeps DEF BatchNext
<1>3. RouteStaleDuringRunOnly'
  BY <1>1, <1>2 DEF RouteStaleDuringRunOnly, KeptBeside, Stale, Excused, Touched
<1> QED BY <1>2, <1>3 DEF BatchInv

\* However runs of the batch job, requests and route computations interleave, fail
\* or stop, a cached route that is not the courier's has a deletion under way, a
\* run that still has to delete it, or a recorded cause (rebalance, which writes
\* all its moves before it deletes the first route).
THEOREM RouteBesideRunsTheorem == BatchSpec => []RouteStaleDuringRunOnly
<1>1. BatchInv => RouteStaleDuringRunOnly
  BY DEF BatchInv
<1> QED BY <1>1, InitBatchInv, StepBatchInv, PTL DEF BatchSpec

\* The notices of the batch job add up, for couriers that come and go: whoever was
\* last told that an order is theirs has it, unless a request or a run with an old
\* read came between, or the notice that it is gone is still to come or could not be
\* sent (notifyReassignedAway and notifyCourier of rebalance, after the UPDATE).
THEOREM NoticesTheorem == BatchSpec => []AnnouncedIsMine
<1>1. BatchInv => AnnouncedIsMine
  BY DEF BatchInv
<1> QED BY <1>1, InitBatchInv, StepBatchInv, PTL DEF BatchSpec

-----------------------------------------------------------------------------
\* The rules of the requests beside the runs

\* A run writes by the id what it has decided from an old read, and what the requests
\* keep of statuses, couriers, events and the order list is still kept (the UPDATE of
\* rebalance among those of the orders service).
THEOREM BatchOrdersTheorem ==
    BatchSpec => [](/\ ChainRespected /\ CourierOnlyAfterReady
                    /\ PublishedOnlyWhenReady /\ ShownWasReal)
<1>1. BatchInv => /\ ChainRespected /\ CourierOnlyAfterReady
                  /\ PublishedOnlyWhenReady /\ ShownWasReal
  BY DEF BatchInv, Sound, IInv
<1> QED BY <1>1, InitBatchInv, StepBatchInv, PTL DEF BatchSpec

\* The UPDATE of a run finds no row of an order that was cancelled after it was read,
\* and brings none back (rebalance against cancel).
THEOREM BatchDeletedTheorem == BatchSpec => DeletedStaysDeleted
<1>1. ASSUME BatchInv, [BatchNext]_batchVars, NEW o \in OrderIds,
             held[o] # {}, ~Present(o)
      PROVE  ~Present(o)'
  <2>1. CASE UNCHANGED orders
    BY <1>1, <2>1 DEF Present
  <2>2. ASSUME NEW b \in Batches, NEW m \in Move, WriteMove(b, m)
        PROVE  ~Present(o)'
    BY <1>1, <2>2 DEF WriteMove, SetCourier, Present, BatchInv, Sound, IInv, TypeOK, rows
  <2>3. ASSUME NEW b \in Batches, Run(b), \A m \in Move : ~WriteMove(b, m)
        PROVE  UNCHANGED orders
    BY <2>3 DEF Run, LoadOrders, LoadCouriers, TellMove, FailMove, ClearTouched, routeVars,
       vars, rows
  <2>4. CASE \E h \in Handlers : ServeBeside(h)
    <3>1. [Next]_vars
      BY <2>4 DEF ServeBeside, Serve, Next
    <3> QED BY <1>1, <3>1, DeletedStep DEF BatchInv, Sound
  <2>5. ASSUME NEW q \in Queries, Compute(q)
        PROVE  UNCHANGED orders
    BY <2>5 DEF Compute, BeginRoute, DropRoute, ReadOrders, EndWithoutRoute, StoreRoute,
       vars, rows
  <2>6. CASE \/ \E c \in Couriers : Expire(c)
             \/ \E g \in Orgs : SetCoordinates(g)
             \/ StopAll
             \/ \E c \in Couriers, d \in Distances \cup {Offline} : Report(c, d)
             \/ \E c \in Couriers : Connect(c) \/ Disconnect(c)
             \/ UNCHANGED batchVars
    <3>1. UNCHANGED orders
      BY <2>6 DEF Expire, SetCoordinates, StopAll, Crash, Report, Connect, Disconnect,
         batchVars, routeVars, vars, rows
    <3> QED BY <2>1, <3>1
  <2> QED BY <1>1, <2>1, <2>2, <2>3, <2>4, <2>5, <2>6 DEF BatchNext
<1>2. BatchInv /\ [BatchNext]_batchVars =>
          [\A o \in OrderIds : held[o] # {} /\ ~Present(o) => ~Present(o)']_vars
  BY <1>1
<1> QED BY <1>2, InitBatchInv, StepBatchInv, PTL DEF BatchSpec, DeletedStaysDeleted

=============================================================================
