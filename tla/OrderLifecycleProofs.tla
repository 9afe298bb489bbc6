------------------------ MODULE OrderLifecycleProofs ------------------------
(***************************************************************************)
(* The inductive invariant of OrderLifecycle, and what follows from it for *)
(* every number of orders, couriers and requests in flight.                *)
(*                                                                         *)
(* The safety invariants are about histories (held, served).  They are not *)
(* inductive, because a request between its check and its write is about to *)
(* add to them: what it has seen has to be part of the invariant.           *)
(***************************************************************************)
EXTENDS OrderLifecycle, TLAPS

\* What the row shows is in the histories.
RowsInv ==
    \A o \in OrderIds :
        /\ Present(o) => orders[o].status \in held[o]
        /\ ~Present(o) => orders[o] = NoRow
        /\ orders[o].courier # None => orders[o].courier \in served[o]

\* What a request in flight has seen and is about to do, against the histories
\* hd and sv and the located organizations loc.
JobOK(job, hd, sv, loc) ==
    /\ job = Idle \/ (job.pc # "idle" /\ job.order \in OrderIds)
    /\ job.pc = "reread" => job.op = "create"
    /\ job.op \in {"updateStatus", "courierStatus"} /\ job.pc = "write" =>
           /\ job.from \in hd[job.order]
           /\ job.to \in Transitions[job.from]
    /\ job.op = "updateStatus" /\ job.pc \in {"clear", "clearPrevious", "emit"} =>
           job.to \in hd[job.order]
    /\ job.op = "updateStatus" /\ job.located => OrgOf[job.order] \in loc
    /\ job.op = "courierStatus" => job.courier \in Couriers
    /\ job.op = "assignCourier" =>
           /\ job.courier \in Couriers
           /\ "READY_FOR_DELIVERY" \in hd[job.order]
    /\ job.pc = "clear" => job.courier \in Couriers
    /\ job.pc = "clearPrevious" => job.previous \in Couriers
    /\ job.updated # NoRow =>
           /\ job.updated.status \in hd[job.order]
           /\ job.updated.courier \in sv[job.order] \cup {None}
    /\ job.op = "assignCourier" /\ job.pc = "write" => job.from = "READY_FOR_DELIVERY"
    /\ job.op = "cancel" /\ job.pc = "write" => job.from = "PENDING"

HandlersInv == \A h \in Handlers : JobOK(handler[h], held, served, located)

IInv ==
    /\ TypeOK
    /\ RowsInv
    /\ HandlersInv
    /\ ChainRespected
    /\ CourierOnlyAfterReady
    /\ PublishedOnlyWhenReady
    /\ ShownWasReal

-----------------------------------------------------------------------------
\* The table

\* Nothing follows two statuses, and what follows a status is a status.
LEMMA TransitionsFacts ==
    /\ \A s \in Status : Transitions[s] \subseteq Status
    /\ \A s, t, u \in Status : u \in Transitions[s] /\ u \in Transitions[t] => s = t
    /\ \A s \in Status : "PENDING" \notin Transitions[s]
    /\ Absent \notin Status
BY DEF Status, Transitions, Absent

\* A set of statuses that respects the chain still does with a follower of one
\* of its members.
LEMMA ChainGrows ==
    ASSUME NEW H \in SUBSET Status, NEW from \in H, NEW to \in Transitions[from],
           \A s \in Status : H \cap Transitions[s] # {} => s \in H
    PROVE  \A s \in Status : (H \cup {to}) \cap Transitions[s] # {} => s \in H \cup {to}
BY TransitionsFacts

-----------------------------------------------------------------------------
\* The histories grow

Grown ==
    /\ \A o \in OrderIds : held[o] \subseteq held'[o] /\ served[o] \subseteq served'[o]
    /\ located \subseteq located'

\* What holds of a request goes on holding while the histories grow.
LEMMA JobStays ==
    ASSUME NEW job \in Job, NEW hd, NEW hd2, NEW sv, NEW sv2, NEW loc, NEW loc2,
           \A o \in OrderIds : hd[o] \subseteq hd2[o] /\ sv[o] \subseteq sv2[o],
           loc \subseteq loc2,
           JobOK(job, hd, sv, loc)
    PROVE  JobOK(job, hd2, sv2, loc2)
<1>1. CASE job = Idle
  BY <1>1 DEF JobOK, Idle
<1>2. CASE job # Idle
  BY <1>2 DEF JobOK
<1> QED BY <1>1, <1>2

\* A step of one request that lets the histories grow.
LEMMA HandlerStep ==
    ASSUME IInv, TypeOK', Grown, NEW h \in Handlers,
           \A g \in Handlers \ {h} : handler'[g] = handler[g],
           JobOK(handler'[h], held', served', located')
    PROVE  HandlersInv'
<1>1. ASSUME NEW g \in Handlers, g # h
      PROVE  JobOK(handler'[g], held', served', located')
  <2>1. handler[g] \in Job /\ handler'[g] = handler[g]
    BY <1>1 DEF IInv, TypeOK
  <2>2. JobOK(handler[g], held, served, located)
    BY DEF IInv, HandlersInv
  <2> QED BY <2>1, <2>2, JobStays DEF Grown
<1> QED BY <1>1 DEF HandlersInv

\* A step that leaves the rows and their histories alone.
LEMMA RowsStay ==
    ASSUME IInv, UNCHANGED rows
    PROVE  RowsInv' /\ ChainRespected' /\ CourierOnlyAfterReady'
BY DEF IInv, rows, RowsInv, ChainRespected, CourierOnlyAfterReady, Present

LEMMA PublishedStays ==
    ASSUME IInv, Grown, UNCHANGED published
    PROVE  PublishedOnlyWhenReady'
BY ConstantsAssumption DEF IInv, Grown, PublishedOnlyWhenReady

LEMMA ShownStays ==
    ASSUME IInv, Grown, UNCHANGED shown
    PROVE  ShownWasReal'
BY DEF IInv, Grown, ShownWasReal, NoRow

\* A step of one request that changes at most its own job and a cached route.
LEMMA QuietStep ==
    ASSUME IInv, NEW h \in Handlers, NEW job \in Job,
           handler' = [handler EXCEPT ![h] = job],
           cachedRoute' \in [Couriers -> SUBSET OrderIds],
           JobOK(job, held, served, located),
           UNCHANGED <<rows, located, published, shown>>
    PROVE  IInv'
<1>1. TypeOK'
  BY DEF IInv, TypeOK, rows
<1>2. Grown
  BY DEF Grown, rows
<1>3. HandlersInv'
  <2>1. handler'[h] = job /\ \A g \in Handlers \ {h} : handler'[g] = handler[g]
    BY DEF IInv, TypeOK
  <2>2. JobOK(handler'[h], held', served', located')
    BY <2>1 DEF rows
  <2> QED BY <1>1, <1>2, <2>1, <2>2, HandlerStep
<1> QED
  BY <1>1, <1>2, <1>3, RowsStay, PublishedStays, ShownStays DEF IInv

\* A request with nothing left to do.
LEMMA IdleOK == Idle \in Job /\ \A hd, sv, loc : JobOK(Idle, hd, sv, loc)
BY DEF Idle, Job, JobOK, NoRow, Row, Absent

-----------------------------------------------------------------------------
\* The reads and the checks

\* Every begun request is recorded with what its check has seen.
LEMMA RequestKeepsIInv ==
    ASSUME IInv, NEW h \in Handlers, NEW o \in OrderIds,
           \/ BeginCancel(h, o)
           \/ \E s \in Status : BeginUpdateStatus(h, o, s)
           \/ \E c \in Couriers : BeginAssignCourier(h, o, c)
           \/ \E c \in Couriers, from, to \in Status : BeginCourierStatus(h, o, c, from, to)
    PROVE  IInv'
<1>0. cachedRoute \in [Couriers -> SUBSET OrderIds] /\ orders[o] \in Row
  BY DEF IInv, TypeOK
<1>1. CASE BeginCancel(h, o)
  <2> DEFINE job == [Idle EXCEPT !.op = "cancel", !.pc = "write", !.order = o,
                                 !.from = orders[o].status]
  <2>1. job \in Job
    BY <1>0 DEF Idle, Job, Row, NoRow
  <2>2. JobOK(job, held, served, located)
    BY <1>1 DEF JobOK, Idle, BeginCancel, NoRow
  <2> QED BY <1>0, <1>1, <2>1, <2>2, QuietStep DEF BeginCancel, Begin
<1>2. ASSUME NEW s \in Status, BeginUpdateStatus(h, o, s)
      PROVE  IInv'
  <2> DEFINE ready == OrgOf[o] \in located
             job == [Idle EXCEPT !.op = "updateStatus", !.pc = "write", !.order = o,
                                 !.from = orders[o].status, !.to = s,
                                 !.located = ready]
  <2>1. job \in Job
    <3>1. ready \in BOOLEAN
      OBVIOUS
    <3> HIDE DEF ready
    <3> QED BY <1>0, <3>1 DEF Idle, Job, Row, NoRow
  <2>2. orders[o].status \in held[o] /\ s \in Transitions[orders[o].status]
    BY <1>2 DEF BeginUpdateStatus, IInv, RowsInv
  <2>3. JobOK(job, held, served, located)
    BY <2>2 DEF JobOK, Idle, NoRow
  <2> QED BY <1>0, <1>2, <2>1, <2>3, QuietStep DEF BeginUpdateStatus, Begin
<1>3. ASSUME NEW c \in Couriers, BeginAssignCourier(h, o, c)
      PROVE  IInv'
  <2> DEFINE job == [Idle EXCEPT !.op = "assignCourier", !.pc = "write", !.order = o,
                                 !.from = orders[o].status, !.courier = c,
                                 !.previous = orders[o].courier]
  <2>1. job \in Job
    BY <1>0 DEF Idle, Job, Row, NoRow
  <2>2. orders[o].status = "READY_FOR_DELIVERY" /\ "READY_FOR_DELIVERY" \in held[o]
    BY <1>3 DEF BeginAssignCourier, IInv, RowsInv, Present, Absent
  <2>3. JobOK(job, held, served, located)
    BY <2>2 DEF JobOK, Idle, NoRow
  <2> QED BY <1>0, <1>3, <2>1, <2>3, QuietStep DEF BeginAssignCourier, Begin
<1>4. ASSUME NEW c \in Couriers, NEW from \in Status, NEW to \in Status,
             BeginCourierStatus(h, o, c, from, to)
      PROVE  IInv'
  <2> DEFINE job == [Idle EXCEPT !.op = "courierStatus", !.pc = "write", !.order = o,
                                 !.from = from, !.to = to, !.courier = c]
  <2>1. job \in Job
    BY <1>0 DEF Idle, Job, Row, NoRow
  <2>2. from \in held[o] /\ to \in Transitions[from]
    <3>0. CourierMove(from, to) /\ orders[o] = [status |-> from, courier |-> c]
      BY <1>4 DEF BeginCourierStatus
    <3>1. orders[o].status = from /\ from # Absent
      BY <3>0 DEF CourierMove, Absent
    <3>2. from \in held[o]
      BY <3>1 DEF IInv, RowsInv, Present
    <3>3. to \in Transitions[from]
      BY <3>0 DEF CourierMove, Transitions
    <3> QED BY <3>2, <3>3
  <2>3. JobOK(job, held, served, located)
    BY <2>2 DEF JobOK, Idle, NoRow
  <2> QED BY <1>0, <1>4, <2>1, <2>3, QuietStep DEF BeginCourierStatus, Begin
<1> QED BY <1>1, <1>2, <1>3, <1>4

-----------------------------------------------------------------------------
\* The steps that change no row and show nothing

LEMMA QuietKeepsIInv ==
    ASSUME IInv, NEW h \in Handlers,
           \/ RereadCreated(h)
           \/ WriteStatusOfDeleted(h)
           \/ ClearRoute(h)
           \/ ClearPreviousRoute(h)
    PROVE  IInv'
<1> DEFINE o == handler[h].order
<1>0. /\ cachedRoute \in [Couriers -> SUBSET OrderIds]
      /\ handler \in [Handlers -> Job] /\ handler[h] \in Job
      /\ JobOK(handler[h], held, served, located)
  BY DEF IInv, TypeOK, HandlersInv
<1>1. CASE RereadCreated(h)
  <2> DEFINE job == [handler[h] EXCEPT !.pc = "emit", !.updated = orders[o]]
  <2>1. CASE Present(o)
    <3>1. o \in OrderIds /\ handler[h].op = "create"
      BY <1>0, <1>1 DEF JobOK, Idle, RereadCreated
    <3>2. orders[o] \in Row
      BY <3>1 DEF IInv, TypeOK
    <3>3. job \in Job
      BY <1>0, <3>2 DEF Job
    <3>4. orders[o].status \in held[o] /\ orders[o].courier \in served[o] \cup {None}
      BY <2>1, <3>1 DEF IInv, RowsInv
    <3>5. JobOK(job, held, served, located)
      BY <1>0, <3>1, <3>3, <3>4 DEF JobOK, Job
    <3>6. handler' = [handler EXCEPT ![h] = job]
      BY <1>0, <1>1, <2>1 DEF RereadCreated
    <3> HIDE DEF job
    <3> QED BY <1>0, <1>1, <3>3, <3>5, <3>6, QuietStep DEF RereadCreated
  <2>2. CASE ~Present(o)
    BY <1>0, <1>1, <2>2, IdleOK, QuietStep DEF RereadCreated, Finish
  <2> QED BY <2>1, <2>2
<1>2. CASE WriteStatusOfDeleted(h)
  <2> DEFINE job == [handler[h] EXCEPT !.pc = "clear"]
  <2>1. CASE handler[h].op = "updateStatus"
    BY <1>0, <1>2, <2>1, IdleOK, QuietStep DEF WriteStatusOfDeleted, Finish
  <2>2. CASE handler[h].op # "updateStatus"
    <3>1. handler[h].op = "courierStatus" /\ handler[h].pc = "write"
      BY <1>2, <2>2 DEF WriteStatusOfDeleted
    <3>2. job \in Job
      BY <1>0 DEF Job
    <3>3. JobOK(job, held, served, located)
      BY <1>0, <3>1 DEF JobOK, Job, Idle
    <3>4. handler' = [handler EXCEPT ![h] = job]
      BY <1>0, <1>2, <2>2 DEF WriteStatusOfDeleted
    <3> HIDE DEF job
    <3> QED BY <1>0, <1>2, <3>2, <3>3, <3>4, QuietStep DEF WriteStatusOfDeleted
  <2> QED BY <2>1, <2>2
<1>3. CASE ClearRoute(h)
  <2> DEFINE next == IF handler[h].previous \in {None, handler[h].courier} THEN "emit"
                     ELSE "clearPrevious"
             job == [handler[h] EXCEPT !.pc = next]
  <2>1. job \in Job
    BY <1>0 DEF Job
  <2>2. JobOK(job, held, served, located)
    BY <1>0, <1>3 DEF JobOK, Job, Idle, ClearRoute
  <2>3. cachedRoute' \in [Couriers -> SUBSET OrderIds]
    BY <1>0, <1>3 DEF ClearRoute, Invalidate
  <2>4. handler' = [handler EXCEPT ![h] = job]
    BY <1>0, <1>3 DEF ClearRoute
  <2> HIDE DEF job
  <2> QED BY <1>3, <2>1, <2>2, <2>3, <2>4, QuietStep DEF ClearRoute
<1>4. CASE ClearPreviousRoute(h)
  <2> DEFINE job == [handler[h] EXCEPT !.pc = "emit"]
  <2>1. job \in Job
    BY <1>0 DEF Job
  <2>2. JobOK(job, held, served, located)
    BY <1>0, <1>4 DEF JobOK, Job, Idle, ClearPreviousRoute
  <2>3. cachedRoute' \in [Couriers -> SUBSET OrderIds]
    BY <1>0, <1>4 DEF ClearPreviousRoute, Invalidate
  <2>4. handler' = [handler EXCEPT ![h] = job]
    BY <1>0, <1>4 DEF ClearPreviousRoute
  <2> HIDE DEF job
  <2> QED BY <1>4, <2>1, <2>2, <2>3, <2>4, QuietStep DEF ClearPreviousRoute
<1> QED BY <1>1, <1>2, <1>3, <1>4

-----------------------------------------------------------------------------
\* The steps that write a row

LEMMA CreateKeepsIInv ==
    ASSUME IInv, NEW h \in Handlers, NEW o \in OrderIds, CreateOrder(h, o)
    PROVE  IInv'
<1> DEFINE job == [Idle EXCEPT !.op = "create", !.pc = "reread", !.order = o]
<1>1. handler' = [handler EXCEPT ![h] = job]
  BY DEF CreateOrder, Begin
<1>2. /\ held[o] = {} /\ ~Present(o)
      /\ orders' = [orders EXCEPT ![o].status = "PENDING"]
      /\ held' = [held EXCEPT ![o] = {"PENDING"}]
      /\ UNCHANGED <<served, located, published, cachedRoute, shown>>
  BY DEF CreateOrder
<1>3. job \in Job /\ JobOK(job, held', served', located')
  BY DEF Job, JobOK, Idle, Row, NoRow
<1> HIDE DEF job
<1>4. TypeOK'
  BY <1>1, <1>2, <1>3 DEF IInv, TypeOK, Row, Status
<1>5. Grown
  BY <1>2 DEF Grown, IInv, TypeOK
<1>6. HandlersInv'
  BY <1>1, <1>3, <1>4, <1>5, HandlerStep DEF IInv, TypeOK
<1>7. RowsInv'
  BY <1>2 DEF IInv, TypeOK, RowsInv, Present, Row
<1>8. ChainRespected'
  BY <1>2, TransitionsFacts DEF IInv, TypeOK, ChainRespected
<1>9. CourierOnlyAfterReady'
  BY <1>2 DEF IInv, TypeOK, CourierOnlyAfterReady
<1> QED
  BY <1>2, <1>4, <1>5, <1>6, <1>7, <1>8, <1>9, PublishedStays, ShownStays DEF IInv

LEMMA WriteStatusKeepsIInv ==
    ASSUME IInv, NEW h \in Handlers, WriteStatus(h)
    PROVE  IInv'
<1> DEFINE o       == handler[h].order
           to      == handler[h].to
           updated == [orders[o] EXCEPT !.status = to]
           clears  == IF handler[h].op = "courierStatus" THEN handler[h].courier
                      ELSE updated.courier
           job     == [handler[h] EXCEPT !.updated = updated, !.courier = clears,
                              !.pc = IF clears = None THEN "emit" ELSE "clear"]
<1>1. /\ handler[h] \in Job /\ JobOK(handler[h], held, served, located)
      /\ handler[h].op \in {"updateStatus", "courierStatus"} /\ handler[h].pc = "write"
  BY DEF IInv, TypeOK, HandlersInv, WriteStatus
<1>2. o \in OrderIds /\ orders[o] \in Row /\ held[o] \subseteq Status
  BY <1>1 DEF JobOK, Idle, IInv, TypeOK
<1>3. handler[h].from \in held[o] /\ to \in Transitions[handler[h].from] /\ to \in Status
  BY <1>1, <1>2, TransitionsFacts DEF JobOK
<1>4. /\ Present(o)
      /\ orders' = [orders EXCEPT ![o].status = to]
      /\ held' = [held EXCEPT ![o] = @ \cup {to}]
      /\ UNCHANGED <<served, located, published, cachedRoute, shown>>
  BY DEF WriteStatus, SetStatus
<1>5. handler' = [handler EXCEPT ![h] = job]
  <2>1. handler' = [handler EXCEPT ![h].updated = updated, ![h].courier = clears,
                       ![h].pc = IF clears = None THEN "emit" ELSE "clear"]
    BY DEF WriteStatus
  <2> HIDE DEF updated, clears
  <2> QED BY <2>1 DEF IInv, TypeOK
<1>6. updated \in Row /\ updated.status = to /\ updated.courier = orders[o].courier
  BY <1>2, <1>3 DEF Row
<1>7. /\ clears \in Couriers \cup {None}
      /\ handler[h].op = "courierStatus" => clears \in Couriers
  BY <1>1, <1>2 DEF JobOK, Row
<1>8. job \in Job
  <2>1. handler[h] \in Job /\ updated \in Row /\ clears \in Couriers \cup {None}
    BY <1>1, <1>6, <1>7
  <2> HIDE DEF updated, clears
  <2> QED BY <2>1 DEF Job
<1>9. to \in held'[o] /\ updated.courier \in served'[o] \cup {None}
  BY <1>2, <1>4, <1>6 DEF IInv, TypeOK, RowsInv
<1>10. JobOK(job, held', served', located')
  <2> HIDE DEF updated, clears
  <2> QED BY <1>1, <1>2, <1>4, <1>6, <1>7, <1>9 DEF JobOK, Job, Idle
<1> HIDE DEF job
<1>11. TypeOK'
  BY <1>2, <1>3, <1>4, <1>5, <1>8 DEF IInv, TypeOK, Row
<1>12. Grown
  BY <1>4 DEF Grown, IInv, TypeOK
<1>13. HandlersInv'
  BY <1>5, <1>10, <1>11, <1>12, HandlerStep DEF IInv, TypeOK
<1>14. RowsInv'
  BY <1>2, <1>3, <1>4, TransitionsFacts DEF IInv, TypeOK, RowsInv, Present, Row
<1>15. ChainRespected'
  <2>1. \A s \in Status : (held[o] \cup {to}) \cap Transitions[s] # {} =>
                              s \in held[o] \cup {to}
    BY <1>2, <1>3, ChainGrows DEF IInv, ChainRespected
  <2> QED BY <2>1, <1>2, <1>4 DEF IInv, TypeOK, ChainRespected
<1>16. CourierOnlyAfterReady'
  BY <1>4 DEF IInv, TypeOK, CourierOnlyAfterReady
<1> QED
  BY <1>4, <1>11, <1>12, <1>13, <1>14, <1>15, <1>16, PublishedStays, ShownStays DEF IInv

LEMMA WriteCourierKeepsIInv ==
    ASSUME IInv, NEW h \in Handlers, WriteCourier(h)
    PROVE  IInv'
<1> DEFINE o   == handler[h].order
           c   == handler[h].courier
           job == [handler[h] EXCEPT !.pc = "clear", !.updated = orders'[o]]
<1>1. /\ handler[h] \in Job /\ JobOK(handler[h], held, served, located)
      /\ handler[h].op = "assignCourier" /\ handler[h].pc = "write"
  BY DEF IInv, TypeOK, HandlersInv, WriteCourier
<1>2. /\ o \in OrderIds /\ orders[o] \in Row /\ c \in Couriers
      /\ "READY_FOR_DELIVERY" \in held[o]
  BY <1>1 DEF JobOK, Idle, IInv, TypeOK
<1>3. /\ handler' = [handler EXCEPT ![h] = job]
      /\ UNCHANGED <<held, located, published, cachedRoute, shown>>
  BY DEF WriteCourier, SetCourier, rows, IInv, TypeOK
<1>4. \/ UNCHANGED rows /\ ~Present(o)
      \/ /\ Present(o)
         /\ orders' = [orders EXCEPT ![o].courier = c]
         /\ served' = [served EXCEPT ![o] = @ \cup {c}]
  BY DEF WriteCourier, SetCourier
<1>5. orders' \in [OrderIds -> Row] /\ served' \in [OrderIds -> SUBSET Couriers]
  <2>1. CASE UNCHANGED rows
    BY <2>1 DEF IInv, TypeOK, rows
  <2>2. CASE /\ orders' = [orders EXCEPT ![o].courier = c]
             /\ served' = [served EXCEPT ![o] = @ \cup {c}]
    BY <2>2, <1>2 DEF IInv, TypeOK, Row
  <2> QED BY <1>4, <2>1, <2>2
<1>6. Grown
  BY <1>3, <1>4 DEF Grown, IInv, TypeOK, rows
<1>7. RowsInv'
  BY <1>2, <1>3, <1>4 DEF IInv, TypeOK, RowsInv, Present, Row, rows
<1>8. CourierOnlyAfterReady'
  BY <1>2, <1>3, <1>4 DEF IInv, TypeOK, CourierOnlyAfterReady, rows
<1>9. ChainRespected'
  BY <1>3 DEF IInv, ChainRespected
<1>10. job \in Job
  BY <1>1, <1>2, <1>5 DEF Job
<1>11. JobOK(job, held', served', located')
  <2>1. orders'[o] # NoRow => orders'[o].status \in held'[o]
    <3>1. CASE Present(o)
      BY <3>1, <1>2, <1>3, <1>4 DEF IInv, TypeOK, RowsInv, Present, Row, rows
    <3>2. CASE ~Present(o)
      BY <3>2, <1>2, <1>4 DEF IInv, RowsInv, rows
    <3> QED BY <3>1, <3>2
  <2>2. orders'[o].courier \in served'[o] \cup {None}
    BY <1>2, <1>7 DEF RowsInv
  <2> QED BY <1>1, <1>2, <1>3, <1>5, <2>1, <2>2 DEF JobOK, Job, Idle
<1> HIDE DEF job
<1>12. TypeOK'
  BY <1>3, <1>5, <1>10 DEF IInv, TypeOK
<1>13. HandlersInv'
  BY <1>3, <1>6, <1>11, <1>12, HandlerStep DEF IInv, TypeOK
<1> QED
  BY <1>3, <1>6, <1>7, <1>8, <1>9, <1>12, <1>13, PublishedStays, ShownStays DEF IInv

LEMMA DeleteKeepsIInv ==
    ASSUME IInv, NEW h \in Handlers, DeleteOrder(h)
    PROVE  IInv'
<1> DEFINE o   == handler[h].order
           job == [handler[h] EXCEPT !.pc = "emit"]
<1>1. /\ handler[h] \in Job /\ JobOK(handler[h], held, served, located)
      /\ handler[h].op = "cancel" /\ handler[h].pc = "write"
  BY DEF IInv, TypeOK, HandlersInv, DeleteOrder
<1>2. /\ handler' = [handler EXCEPT ![h] = job]
      /\ orders' = [orders EXCEPT ![o] = NoRow]
      /\ UNCHANGED <<held, served, located, published, cachedRoute, shown>>
  BY DEF DeleteOrder, IInv, TypeOK
<1>3. job \in Job /\ JobOK(job, held', served', located')
  BY <1>1, <1>2 DEF Job, JobOK, Idle
<1> HIDE DEF job
<1>4. TypeOK'
  BY <1>2, <1>3 DEF IInv, TypeOK, Row, NoRow
<1>5. Grown
  BY <1>2 DEF Grown
<1>6. HandlersInv'
  BY <1>2, <1>3, <1>4, <1>5, HandlerStep DEF IInv, TypeOK
<1>7. RowsInv'
  BY <1>2 DEF IInv, TypeOK, RowsInv, Present, NoRow
<1>8. ChainRespected' /\ CourierOnlyAfterReady'
  BY <1>2 DEF IInv, ChainRespected, CourierOnlyAfterReady
<1> QED
  BY <1>2, <1>4, <1>5, <1>6, <1>7, <1>8, PublishedStays, ShownStays DEF IInv

-----------------------------------------------------------------------------
\* Steps of the rest of the system, which no request makes: they write a cached
\* route, or the courier of an order, whatever status and courier it has.

LEMMA CacheStep ==
    ASSUME IInv, cachedRoute' \in [Couriers -> SUBSET OrderIds],
           UNCHANGED <<rows, handler, located, published, shown>>
    PROVE  IInv'
<1>1. TypeOK' /\ Grown
  BY DEF IInv, TypeOK, Grown, rows
<1>2. HandlersInv'
  BY DEF IInv, HandlersInv, rows
<1> QED BY <1>1, <1>2, RowsStay, PublishedStays, ShownStays DEF IInv

LEMMA SetCourierStep ==
    ASSUME IInv, NEW o \in OrderIds, NEW c \in Couriers, "READY_FOR_DELIVERY" \in held[o],
           IF Present(o) THEN SetCourier(o, c) ELSE UNCHANGED rows,
           UNCHANGED <<handler, located, published, cachedRoute, shown>>
    PROVE  IInv'
<1>1. \/ UNCHANGED rows
      \/ /\ Present(o)
         /\ orders' = [orders EXCEPT ![o].courier = c]
         /\ served' = [served EXCEPT ![o] = @ \cup {c}]
         /\ UNCHANGED held
  BY DEF SetCourier
<1>2. orders' \in [OrderIds -> Row] /\ served' \in [OrderIds -> SUBSET Couriers]
  <2>1. CASE UNCHANGED rows
    BY <2>1 DEF IInv, TypeOK, rows
  <2>2. CASE /\ orders' = [orders EXCEPT ![o].courier = c]
             /\ served' = [served EXCEPT ![o] = @ \cup {c}]
    BY <2>2 DEF IInv, TypeOK, Row
  <2> QED BY <1>1, <2>1, <2>2
<1>3. TypeOK'
  BY <1>1, <1>2 DEF IInv, TypeOK, rows
<1>4. Grown
  BY <1>1 DEF Grown, IInv, TypeOK, rows
<1>5. HandlersInv'
  <2> SUFFICES ASSUME NEW h \in Handlers
               PROVE  JobOK(handler'[h], held', served', located')
    BY DEF HandlersInv
  <2>1. handler[h] \in Job /\ handler'[h] = handler[h]
    BY DEF IInv, TypeOK
  <2>2. JobOK(handler[h], held, served, located)
    BY DEF IInv, HandlersInv
  <2> QED BY <2>1, <2>2, <1>4, JobStays DEF Grown
<1>6. RowsInv'
  BY <1>1 DEF IInv, TypeOK, RowsInv, Present, Row, rows
<1>7. CourierOnlyAfterReady'
  BY <1>1 DEF IInv, TypeOK, CourierOnlyAfterReady, rows
<1>8. ChainRespected'
  BY <1>1 DEF IInv, ChainRespected, rows
<1> QED
  BY <1>3, <1>4, <1>5, <1>6, <1>7, <1>8, PublishedStays, ShownStays DEF IInv

-----------------------------------------------------------------------------
\* The last steps of the requests

LEMMA EmitKeepsIInv ==
    ASSUME IInv, NEW h \in Handlers,
           EmitCreated(h) \/ EmitUpdated(h) \/ EmitRemoved(h)
    PROVE  IInv'
<1> DEFINE job == handler[h]
           o   == handler[h].order
<1>1. /\ job \in Job /\ JobOK(job, held, served, located) /\ job.pc = "emit"
      /\ o \in OrderIds
  BY DEF IInv, TypeOK, HandlersInv, EmitCreated, EmitUpdated, EmitRemoved, JobOK, Idle
<1>2. /\ handler' = [handler EXCEPT ![h] = Idle]
      /\ UNCHANGED <<rows, located, cachedRoute>>
  BY DEF EmitCreated, EmitUpdated, EmitRemoved, Finish
<1>3. \/ UNCHANGED shown
      \/ shown' = [shown EXCEPT ![o] = NoRow]
      \/ shown' = [shown EXCEPT ![o] = job.updated] /\ job.updated # NoRow
      \/ shown[o] = NoRow /\ shown' = [shown EXCEPT ![o] = job.updated]
  BY DEF EmitCreated, EmitUpdated, EmitRemoved
<1>4. \/ UNCHANGED published
      \/ Publishes(job) /\ published' = [published EXCEPT ![o] = @ + 1]
  BY DEF EmitCreated, EmitUpdated, EmitRemoved
<1>5. TypeOK'
  <2>1. shown' \in [OrderIds -> Row]
    <3>1. job.updated \in Row
      BY <1>1 DEF Job
    <3>2. NoRow \in Row
      BY DEF Row, NoRow
    <3>3. shown \in [OrderIds -> Row]
      BY DEF IInv, TypeOK
    <3> HIDE DEF job
    <3> QED BY <1>3, <3>1, <3>2, <3>3
  <2>2. published' \in [OrderIds -> Nat]
    BY <1>4 DEF IInv, TypeOK
  <2> QED BY <1>2, <2>1, <2>2, IdleOK DEF IInv, TypeOK, rows
<1>6. Grown
  BY <1>2 DEF Grown, rows
<1>7. HandlersInv'
  BY <1>2, <1>5, <1>6, IdleOK, HandlerStep DEF IInv, TypeOK
<1>8. ShownWasReal'
  <2>1. job.updated # NoRow =>
            /\ job.updated.status \in held[o]
            /\ job.updated.courier \in served[o] \cup {None}
    BY <1>1 DEF JobOK
  <2> QED BY <1>1, <1>2, <1>3, <2>1 DEF IInv, TypeOK, ShownWasReal, rows
<1>9. PublishedOnlyWhenReady'
  <2>1. Publishes(job) => "READY_FOR_DELIVERY" \in held[o] /\ OrgOf[o] \in located
    BY <1>1 DEF JobOK, Publishes, Idle
  <2> QED BY <1>2, <1>4, <2>1 DEF IInv, TypeOK, PublishedOnlyWhenReady, rows
<1> QED
  BY <1>2, <1>5, <1>7, <1>8, <1>9, RowsStay DEF IInv

-----------------------------------------------------------------------------
\* The invariant

LEMMA InitIInv == Init => IInv
<1> SUFFICES ASSUME Init PROVE IInv
  OBVIOUS
<1>1. TypeOK
  BY IdleOK DEF Init, TypeOK, Row, NoRow
<1>2. HandlersInv
  BY IdleOK DEF Init, HandlersInv
<1>3. RowsInv
  BY DEF Init, RowsInv, Present, NoRow
<1> QED
  BY <1>1, <1>2, <1>3 DEF Init, IInv, ChainRespected, CourierOnlyAfterReady,
                           PublishedOnlyWhenReady, ShownWasReal

LEMMA StepIInv == IInv /\ [Next]_vars => IInv'
<1> SUFFICES ASSUME IInv, [Next]_vars PROVE IInv'
  OBVIOUS
<1>1. ASSUME NEW h \in Handlers, Request(h)
      PROVE  IInv'
  BY <1>1, RequestKeepsIInv, CreateKeepsIInv DEF Request
<1>2. ASSUME NEW h \in Handlers, Continue(h)
      PROVE  IInv'
  BY <1>2, QuietKeepsIInv, WriteStatusKeepsIInv, WriteCourierKeepsIInv,
     DeleteKeepsIInv, EmitKeepsIInv DEF Continue
<1>3. ASSUME NEW g \in Orgs, SetCoordinates(g)
      PROVE  IInv'
  <2>1. TypeOK' /\ Grown
    BY <1>3 DEF SetCoordinates, IInv, TypeOK, Grown, rows
  <2>2. HandlersInv'
    BY <1>3, <2>1, JobStays DEF SetCoordinates, IInv, TypeOK, HandlersInv, Grown
  <2> QED
    BY <1>3, <2>1, <2>2, RowsStay, PublishedStays, ShownStays DEF SetCoordinates, IInv
<1>4. CASE Crash
  <2>1. TypeOK' /\ Grown
    BY <1>4, IdleOK DEF Crash, IInv, TypeOK, Grown, rows
  <2>2. HandlersInv'
    BY <1>4, IdleOK DEF Crash, HandlersInv
  <2> QED
    BY <1>4, <2>1, <2>2, RowsStay, PublishedStays, ShownStays DEF Crash, IInv
<1>5. CASE UNCHANGED vars
  <2>1. TypeOK' /\ Grown /\ HandlersInv'
    BY <1>5 DEF vars, IInv, TypeOK, Grown, HandlersInv
  <2> QED
    BY <1>5, <2>1, RowsStay, PublishedStays, ShownStays DEF vars, rows, IInv
<1> QED BY <1>1, <1>2, <1>3, <1>4, <1>5 DEF Next

\* The strengthened invariant holds of every reachable state: the rows, the
\* histories and what each request in flight has seen agree.
THEOREM Invariance == Spec => []IInv
BY InitIInv, StepIInv, PTL DEF Spec

\* Every row, request and cached route has its type.
THEOREM TypeCorrect == Spec => []TypeOK
<1>1. IInv => TypeOK
  BY DEF IInv
<1> QED BY <1>1, Invariance, PTL

\* However many requests on an order overlap, its statuses form the chain of
\* ORDER_STATUS_TRANSITIONS (updateStatus, transitionCourierStatus).
THEOREM ChainTheorem == Spec => []ChainRespected
<1>1. IInv => ChainRespected
  BY DEF IInv
<1> QED BY <1>1, Invariance, PTL

\* An order is given a courier only after it became READY_FOR_DELIVERY
\* (assignCourier).
THEOREM CourierTheorem == Spec => []CourierOnlyAfterReady
<1>1. IInv => CourierOnlyAfterReady
  BY DEF IInv
<1> QED BY <1>1, Invariance, PTL

\* An event is published only for an order that became READY_FOR_DELIVERY at an
\* organization with coordinates (updateStatus).
THEOREM PublishedTheorem == Spec => []PublishedOnlyWhenReady
<1>1. IInv => PublishedOnlyWhenReady
  BY DEF IInv
<1> QED BY <1>1, Invariance, PTL

\* The socket feed never leaves a status or a courier in the list that the
\* order has not had (emitCreated, emitUpdated, cancel).
THEOREM ShownTheorem == Spec => []ShownWasReal
<1>1. IInv => ShownWasReal
  BY DEF IInv
<1> QED BY <1>1, Invariance, PTL

-----------------------------------------------------------------------------
\* What a step may never do

\* The steps that change the orders table, and how.
LEMMA RowChanges ==
    ASSUME IInv, [Next]_vars
    PROVE  \/ UNCHANGED orders
           \/ \E h \in Handlers, o \in OrderIds :
                 CreateOrder(h, o) /\ orders' = [orders EXCEPT ![o].status = "PENDING"]
           \/ \E h \in Handlers : WriteStatus(h) \/ WriteCourier(h) \/ DeleteOrder(h)
<1>1. CASE UNCHANGED vars
  BY <1>1 DEF vars
<1>2. ASSUME NEW h \in Handlers, Request(h)
      PROVE  \/ UNCHANGED orders
             \/ \E o \in OrderIds :
                   CreateOrder(h, o) /\ orders' = [orders EXCEPT ![o].status = "PENDING"]
  BY <1>2 DEF Request, CreateOrder, BeginCancel, BeginUpdateStatus, BeginAssignCourier,
              BeginCourierStatus, rows
<1>3. ASSUME NEW h \in Handlers, Continue(h)
      PROVE  UNCHANGED orders \/ WriteStatus(h) \/ WriteCourier(h) \/ DeleteOrder(h)
  BY <1>3 DEF Continue, RereadCreated, EmitCreated, WriteStatusOfDeleted, ClearRoute,
              ClearPreviousRoute, EmitUpdated, EmitRemoved, rows
<1>4. CASE Crash \/ \E g \in Orgs : SetCoordinates(g)
  BY <1>4 DEF Crash, SetCoordinates, rows
<1> QED BY <1>1, <1>2, <1>3, <1>4 DEF Next

\* What a write is about to write to, and with what in hand.
LEMMA Writers ==
    ASSUME IInv, NEW h \in Handlers, WriteStatus(h) \/ WriteCourier(h) \/ DeleteOrder(h)
    PROVE  /\ handler[h].pc = "write" /\ handler[h].order \in OrderIds
           /\ handler'[h] # handler[h]
           /\ WriteStatus(h) => handler[h].to \in Transitions[handler[h].from]
           /\ WriteCourier(h) => handler[h].from = "READY_FOR_DELIVERY"
           /\ DeleteOrder(h) => handler[h].from = "PENDING"
<1>1. handler[h].pc = "write" /\ JobOK(handler[h], held, served, located)
  BY DEF IInv, HandlersInv, WriteStatus, WriteCourier, DeleteOrder
<1>2. handler'[h].pc # "write"
  BY DEF IInv, TypeOK, Job, WriteStatus, WriteCourier, DeleteOrder
<1>3. handler[h].order \in OrderIds
  BY <1>1 DEF JobOK, Idle
<1>4. WriteStatus(h) => handler[h].to \in Transitions[handler[h].from]
  BY <1>1 DEF JobOK, WriteStatus
<1>5. WriteCourier(h) => handler[h].from = "READY_FOR_DELIVERY"
  BY <1>1 DEF JobOK, WriteCourier
<1>6. DeleteOrder(h) => handler[h].from = "PENDING"
  BY <1>1 DEF JobOK, DeleteOrder
<1> QED BY <1>1, <1>2, <1>3, <1>4, <1>5, <1>6

\* The steps of the requests forget no status an order has had.
LEMMA HeldGrows ==
    ASSUME IInv, [Next]_vars, NEW o \in OrderIds
    PROVE  held[o] \subseteq held'[o]
<1>1. ASSUME NEW h \in Handlers, Request(h)
      PROVE  held[o] \subseteq held'[o]
  BY <1>1 DEF Request, CreateOrder, BeginCancel, BeginUpdateStatus, BeginAssignCourier,
              BeginCourierStatus, rows, IInv, TypeOK
<1>2. ASSUME NEW h \in Handlers, Continue(h)
      PROVE  held[o] \subseteq held'[o]
  <2>1. CASE WriteStatus(h)
    BY <2>1 DEF WriteStatus, SetStatus, IInv, TypeOK
  <2>2. CASE ~WriteStatus(h)
    BY <1>2, <2>2 DEF Continue, RereadCreated, EmitCreated, WriteStatusOfDeleted,
       WriteCourier, SetCourier, ClearRoute, ClearPreviousRoute, EmitUpdated, DeleteOrder,
       EmitRemoved, rows
  <2> QED BY <2>1, <2>2
<1>3. CASE Crash \/ (\E g \in Orgs : SetCoordinates(g)) \/ UNCHANGED vars
  BY <1>3 DEF Crash, SetCoordinates, vars, rows
<1> QED BY <1>1, <1>2, <1>3 DEF Next

\* No write brings a deleted row back, and no id is handed out twice.
LEMMA DeletedStep ==
    ASSUME IInv, [Next]_vars, NEW o \in OrderIds, held[o] # {}, ~Present(o)
    PROVE  ~Present(o)'
<1>1. CASE UNCHANGED orders
  BY <1>1 DEF Present
<1>2. ASSUME NEW h \in Handlers, NEW p \in OrderIds, CreateOrder(h, p),
             orders' = [orders EXCEPT ![p].status = "PENDING"]
      PROVE  ~Present(o)'
  BY <1>2 DEF CreateOrder, Present, IInv, TypeOK
<1>3. ASSUME NEW h \in Handlers, WriteStatus(h) \/ WriteCourier(h) \/ DeleteOrder(h)
      PROVE  ~Present(o)'
  BY <1>3 DEF WriteStatus, WriteCourier, DeleteOrder, SetStatus, SetCourier,
              Present, NoRow, IInv, TypeOK, rows
<1> QED BY <1>1, <1>2, <1>3, RowChanges

\* A cancelled order never comes back (cancel against every overtaken write).
THEOREM DeletedTheorem == Spec => DeletedStaysDeleted
<1>1. IInv /\ [Next]_vars =>
          [\A o \in OrderIds : held[o] # {} /\ ~Present(o) => ~Present(o)']_vars
  BY DeletedStep
<1> QED BY <1>1, Invariance, PTL DEF Spec, DeletedStaysDeleted

\* A move the checks forbid is always the write of a request that was overtaken
\* between its check and its write (every operation of the service).
THEOREM OvertakenTheorem == Spec => OnlyOvertakenWritesBreakTheRules
<1> DEFINE Obeys(o) ==
        \/ \E h \in Handlers : Overtaken(h, o)
        \/ /\ AllowedMove(orders[o].status, orders'[o].status)
           /\ orders'[o].courier \notin {orders[o].courier, None} =>
                  orders[o].status = "READY_FOR_DELIVERY"
<1>1. ASSUME IInv, [Next]_vars, NEW o \in OrderIds
      PROVE  Obeys(o)
  <2>1. CASE UNCHANGED orders
    BY <2>1 DEF AllowedMove
  <2>2. ASSUME NEW h \in Handlers, NEW p \in OrderIds, CreateOrder(h, p),
               orders' = [orders EXCEPT ![p].status = "PENDING"]
        PROVE  Obeys(o)
    BY <1>1, <2>2 DEF CreateOrder, Present, AllowedMove, IInv, TypeOK, Row
  <2>3. ASSUME NEW h \in Handlers, WriteStatus(h) \/ WriteCourier(h) \/ DeleteOrder(h)
        PROVE  Obeys(o)
    <3>1. CASE handler[h].order # o
      <4>1. orders'[o] = orders[o]
        BY <1>1, <2>3, <3>1 DEF WriteStatus, WriteCourier, DeleteOrder, SetStatus,
                                SetCourier, IInv, TypeOK, rows
      <4> QED BY <4>1 DEF AllowedMove
    <3>2. CASE handler[h].order = o /\ handler[h].from # orders[o].status
      BY <1>1, <2>3, <3>2, Writers DEF Overtaken
    <3>3. CASE handler[h].order = o /\ handler[h].from = orders[o].status
      <4>1. CASE WriteStatus(h)
        <5>1. orders'[o] = [orders[o] EXCEPT !.status = handler[h].to]
          BY <1>1, <3>3, <4>1 DEF WriteStatus, SetStatus, IInv, TypeOK
        <5>2. orders[o].status \in Status
          BY <1>1, <3>3, <4>1 DEF WriteStatus, Present, IInv, TypeOK, Row
        <5>3. handler[h].to \in Transitions[orders[o].status]
          BY <1>1, <3>3, <4>1, Writers
        <5>4. orders[o] \in Row
          BY <1>1 DEF IInv, TypeOK
        <5> QED BY <5>1, <5>2, <5>3, <5>4 DEF AllowedMove, Row
      <4>2. CASE WriteCourier(h)
        <5>1. orders[o].status = "READY_FOR_DELIVERY" /\ orders[o] \in Row
          BY <1>1, <3>3, <4>2, Writers DEF IInv, TypeOK
        <5>2. orders'[o] = [orders[o] EXCEPT !.courier = handler[h].courier]
          BY <1>1, <3>3, <4>2, <5>1 DEF WriteCourier, SetCourier, Present, Absent,
                                        IInv, TypeOK
        <5> QED BY <5>1, <5>2 DEF AllowedMove, Row
      <4>3. CASE DeleteOrder(h)
        <5>1. orders'[o] = NoRow /\ orders[o].status = "PENDING"
          BY <1>1, <3>3, <4>3, Writers DEF DeleteOrder, IInv, TypeOK
        <5> QED BY <5>1 DEF AllowedMove, NoRow
      <4> QED BY <2>3, <4>1, <4>2, <4>3
    <3> QED BY <3>1, <3>2, <3>3
  <2> QED BY <1>1, <2>1, <2>2, <2>3, RowChanges
<1>2. IInv /\ [Next]_vars => [\A o \in OrderIds : Obeys(o)]_vars
  BY <1>1
<1> QED BY <1>2, Invariance, PTL DEF Spec, OnlyOvertakenWritesBreakTheRules

=============================================================================
