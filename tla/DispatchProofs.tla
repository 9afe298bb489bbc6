--------------------------- MODULE DispatchProofs ---------------------------
(***************************************************************************)
(* Dispatch for any number of orders, couriers, requests, events and        *)
(* copies: the events keep the life OrderEvents gives them, so what is      *)
(* proved there holds here; the orders keep the invariant of OrderLifecycle *)
(* though the assignment writes to them too; and no order is forgotten.     *)
(***************************************************************************)
EXTENDS Dispatch, OrderLifecycleProofs, FiniteSetTheorems

\* The theorems of OrderEventsProofs about the queues of Dispatch.
Queues == INSTANCE OrderEventsProofs

\* A copy is of an event that was sent, and what was sent was published.
SentInv ==
    /\ \A k \in Copies : copy[k].msg \in Messages => "sent" \in fate[copy[k].msg]
    /\ \A m \in Messages : "sent" \in fate[m] => m[2] <= published[m[1]]

\* The courier an event has set is there, or another one is, or the order is
\* gone for good.
Served(o) == held[o] # {} /\ (orders[o].courier # None \/ ~Present(o))

AppliedInv == \A m \in Messages : applied[m] > 0 => Served(m[1])

DispatchInv ==
    /\ IInv
    /\ Queues!IInv
    /\ best \in [Copies -> Couriers \cup {None}]
    /\ WithinBound
    /\ SentInv
    /\ AppliedInv

-----------------------------------------------------------------------------
\* The events: what Dispatch does to them, OrderEvents does

\* OrderEvents is the same, taken alone or with its proofs.
LEMMA SameEvents ==
    /\ Events!Init <=> Queues!Init
    /\ [Events!Next]_(Events!vars) <=> [Queues!Next]_(Queues!vars)
<1>1. Events!Init <=> Queues!Init
  BY DEF Events!Init, Queues!Init, Events!NoCopy, Queues!NoCopy
<1>2. \A k \in Copies : Events!Consume(k) <=> Queues!Consume(k)
  BY Zenon DEF
     Events!Consume, Events!Deliver, Events!MarkSeen, Events!SkipDuplicate, Events!Apply,
     Events!LeaveUnassigned, Events!Ack, Events!Reject, Events!Move, Events!Drop,
     Events!Record, Events!NoCopy, Events!AtConsumer,
     Queues!Consume, Queues!Deliver, Queues!MarkSeen, Queues!SkipDuplicate, Queues!Apply,
     Queues!LeaveUnassigned, Queues!Ack, Queues!Reject, Queues!Move, Queues!Drop,
     Queues!Record, Queues!NoCopy, Queues!AtConsumer
<1>3. \A k \in Copies : Events!ReplayStep(k) <=> Queues!ReplayStep(k)
  BY DEF
     Events!ReplayStep, Events!ReplayGet, Events!ReplaySend, Events!ReplayAck,
     Events!ReplayCutOff, Events!Move, Events!Drop, Events!NoCopy, Events!AtReplay,
     Queues!ReplayStep, Queues!ReplayGet, Queues!ReplaySend, Queues!ReplayAck,
     Queues!ReplayCutOff, Queues!Move, Queues!Drop, Queues!NoCopy, Queues!AtReplay
<1>4. Events!Crash <=> Queues!Crash
  BY Zenon DEF
     Events!Crash, Events!Underway, Events!AtConsumer, Events!AtReplay,
     Queues!Crash, Queues!Underway, Queues!AtConsumer, Queues!AtReplay
<1>5. \A m \in Messages : Events!Forget(m) <=> Queues!Forget(m)
  BY DEF Events!Forget, Events!Underway, Queues!Forget, Queues!Underway
<1>6. \A m \in Messages, k \in Copies : Events!Publish(m, k) <=> Queues!Publish(m, k)
  BY DEF Events!Publish, Events!Record, Events!NoCopy,
         Queues!Publish, Queues!Record, Queues!NoCopy
<1>7. Events!Next <=> Queues!Next
  BY <1>2, <1>3, <1>4, <1>5, <1>6 DEF Events!Next, Queues!Next
<1> QED BY <1>1, <1>7 DEF Events!vars, Queues!vars

LEMMA QueuesConstants == Queues!EventConstants
BY DispatchConstants DEF Queues!EventConstants

\* A request that publishes is counted by WithinBound, so its event is one of
\* Messages.
LEMMA PublishedIsMessage ==
    ASSUME IInv, WithinBound, NEW h \in Handlers, handler[h].pc = "emit",
           Publishes(handler[h])
    PROVE  LET o == handler[h].order IN
           o \in OrderIds /\ <<o, published[o] + 1>> \in Messages
<1> DEFINE o == handler[h].order
           pending == {g \in Handlers : Publishes(handler[g]) /\ handler[g].order = o}
<1>1. o \in OrderIds
  BY DEF IInv, HandlersInv, JobOK, Idle
<1>2. IsFiniteSet(pending) /\ pending # {}
  BY DispatchConstants, FS_Subset
<1>3. Cardinality(pending) \in Nat /\ Cardinality(pending) # 0
  BY <1>2, FS_CardinalityType, FS_EmptySet
<1>4. published[o] \in Nat
  BY <1>1 DEF IInv, TypeOK
<1>5. published[o] + Cardinality(pending) <= MaxEvents
  BY <1>1 DEF WithinBound
<1> HIDE DEF pending
<1> QED BY <1>1, <1>3, <1>4, <1>5, ConstantsAssumption DEF Messages

\* Every step of Dispatch is a step of OrderEvents or none of its business.
LEMMA EventStep ==
    ASSUME IInv, WithinBound, [DispatchNext]_dispatchVars
    PROVE  [Events!Next]_(Events!vars)
<1>1. ASSUME NEW h \in Handlers, EmitAndPublish(h)
      PROVE  [Events!Next]_(Events!vars)
  <2>1. handler[h].pc = "emit" /\ Publishes(handler[h])
    BY <1>1 DEF EmitAndPublish, EmitUpdated
  <2>2. <<handler[h].order, published[handler[h].order] + 1>> \in Messages
    BY <2>1, PublishedIsMessage
  <2> QED BY <1>1, <2>2 DEF EmitAndPublish, Events!Next, Events!vars, eventVars
<1>2. ASSUME NEW h \in Handlers, Serve(h)
      PROVE  UNCHANGED Events!vars
  BY <1>2 DEF Serve, eventVars, Events!vars
<1>3. ASSUME NEW k \in Copies, Assign(k)
      PROVE  [Events!Next]_(Events!vars)
  <2>1. CASE Handle(k)
    BY <2>1 DEF Handle, Events!Consume, Events!Next
  <2>2. CASE \E c \in Couriers : Choose(k, c)
    BY <2>2 DEF Choose, eventVars, Events!vars
  <2>3. CASE SetBest(k)
    BY <2>3 DEF SetBest, Events!Consume, Events!Next
  <2>4. CASE ClearBest(k)
    BY <2>4 DEF ClearBest, eventVars, Events!vars
  <2> QED BY <1>3, <2>1, <2>2, <2>3, <2>4 DEF Assign
<1>4. ASSUME NEW k \in Copies, Events!ReplayStep(k)
      PROVE  Events!Next
  BY <1>4 DEF Events!Next
<1>5. ASSUME NEW m \in Messages, Events!Forget(m)
      PROVE  Events!Next
  BY <1>5 DEF Events!Next
<1>6. CASE \E g \in Orgs : SetCoordinates(g) /\ UNCHANGED <<eventVars, best>>
  BY <1>6 DEF eventVars, Events!vars
<1>7. CASE Stop
  BY <1>7 DEF Stop, Events!Next
<1>8. CASE UNCHANGED dispatchVars
  BY <1>8 DEF dispatchVars, eventVars, Events!vars
<1> QED BY <1>1, <1>2, <1>3, <1>4, <1>5, <1>6, <1>7, <1>8 DEF DispatchNext

\* The copies and the sent events of a step that publishes nothing.
NothingPublished ==
    /\ \A k \in Copies : copy'[k].msg \in {copy[j].msg : j \in Copies} \cup {None}
    /\ \A m \in Messages : "sent" \in fate'[m] <=> "sent" \in fate[m]

LEMMA OnlyPublishSends ==
    ASSUME Queues!IInv,
           \/ \E k \in Copies : Events!Consume(k) \/ Events!ReplayStep(k)
           \/ \E m \in Messages : Events!Forget(m)
           \/ Events!Crash
           \/ UNCHANGED eventVars
    PROVE  NothingPublished
<1>0. /\ copy \in [Copies -> [msg : Messages \cup {None}, at : Queues!Place]]
      /\ fate \in [Messages -> SUBSET {"sent", "acked", "unassigned", "cutOff"}]
  BY DEF Queues!IInv, Queues!TypeOK
<1>1. ASSUME NEW k \in Copies, Events!Consume(k)
      PROVE  NothingPublished
  <2>1. \/ \E to \in Queues!Place : copy' = [copy EXCEPT ![k].at = to]
        \/ copy' = [copy EXCEPT ![k] = Events!NoCopy]
    BY <1>1 DEF Events!Consume, Events!Deliver, Events!MarkSeen, Events!SkipDuplicate,
       Events!Apply, Events!LeaveUnassigned, Events!Ack, Events!Reject, Events!Move,
       Events!Drop, Queues!Place, Queues!AtConsumer
  <2>2. \/ UNCHANGED fate
        \/ \E what \in {"acked", "unassigned", "cutOff"} :
              fate' = [fate EXCEPT ![copy[k].msg] = @ \cup {what}]
    BY <1>1 DEF Events!Consume, Events!Deliver, Events!MarkSeen, Events!SkipDuplicate,
       Events!Apply, Events!LeaveUnassigned, Events!Ack, Events!Reject, Events!Record
  <2> QED BY <1>0, <2>1, <2>2 DEF NothingPublished, Events!NoCopy
<1>2. ASSUME NEW k \in Copies, Events!ReplayStep(k)
      PROVE  NothingPublished
  BY <1>0, <1>2 DEF Events!ReplayStep, Events!ReplayGet, Events!ReplaySend,
     Events!ReplayAck, Events!ReplayCutOff, Events!Move, Events!Drop, Events!NoCopy,
     NothingPublished
<1>3. ASSUME NEW m \in Messages, Events!Forget(m)
      PROVE  NothingPublished
  BY <1>0, <1>3 DEF Events!Forget, NothingPublished
<1>4. CASE Events!Crash
  <2>1. \A k \in Copies : copy'[k].msg = copy[k].msg
    BY <1>0, <1>4 DEF Events!Crash
  <2>2. \A m \in Messages : fate'[m] \in {fate[m], fate[m] \cup {"cutOff"}}
    BY <1>0, <1>4 DEF Events!Crash
  <2> QED BY <2>1, <2>2 DEF NothingPublished
<1>5. CASE UNCHANGED eventVars
  BY <1>5 DEF eventVars, NothingPublished
<1> QED BY <1>1, <1>2, <1>3, <1>4, <1>5

\* Such a step keeps SentInv while no count of published events goes down.
LEMMA SentStays ==
    ASSUME SentInv, NothingPublished, UNCHANGED published
    PROVE  SentInv'
BY DispatchConstants DEF NothingPublished, SentInv

-----------------------------------------------------------------------------
\* The orders: the two writes of the assignment

\* An event that is at a copy is of an order that was READY_FOR_DELIVERY.
LEMMA ReadyWhenSent ==
    ASSUME IInv, Queues!IInv, SentInv, NEW k \in Copies, copy[k].at = "working"
    PROVE  /\ copy[k].msg \in Messages /\ copy[k].msg[1] \in OrderIds
           /\ "READY_FOR_DELIVERY" \in held[copy[k].msg[1]]
<1> DEFINE m == copy[k].msg
<1>1. m \in Messages
  BY DEF Queues!IInv, Queues!CopiesInv, Queues!NoCopy
<1>2. m[1] \in OrderIds /\ m[2] \in Nat /\ m[2] > 0
  BY <1>1, ConstantsAssumption DEF Messages
<1>3. m[2] <= published[m[1]]
  BY <1>1 DEF SentInv
<1>4. published[m[1]] \in Nat
  BY <1>2 DEF IInv, TypeOK
<1>5. published[m[1]] > 0
  BY <1>2, <1>3, <1>4
<1> QED BY <1>1, <1>2, <1>5 DEF IInv, PublishedOnlyWhenReady

\* The UPDATE of the assignment, whatever status and courier the order has.
LEMMA SetBestKeepsIInv ==
    ASSUME IInv, Queues!IInv, SentInv, best \in [Copies -> Couriers \cup {None}],
           NEW k \in Copies, SetBest(k)
    PROVE  IInv'
<1>1. copy[k].at = "working" /\ best[k] \in Couriers
  BY DEF SetBest, Events!Apply, Events!Move
<1> QED BY <1>1, ReadyWhenSent, SetCourierStep DEF SetBest

\* The DEL after it touches a cached route and nothing else.
LEMMA ClearBestKeepsIInv ==
    ASSUME IInv, NEW k \in Copies, ClearBest(k)
    PROVE  IInv'
BY CacheStep DEF ClearBest, Invalidate, IInv, TypeOK

\* What a step of Dispatch does to the orders.
LEMMA OrderStep ==
    ASSUME [DispatchNext]_dispatchVars
    PROVE  [Next]_vars \/ \E k \in Copies : SetBest(k) \/ ClearBest(k)
<1>1. ASSUME NEW h \in Handlers, Serve(h) \/ EmitAndPublish(h)
      PROVE  Next
  BY <1>1 DEF Serve, EmitAndPublish, Next, Continue
<1>2. ASSUME NEW k \in Copies, Handle(k) \/ \E c \in Couriers : Choose(k, c)
      PROVE  UNCHANGED vars
  BY <1>2 DEF Handle, Choose
<1>3. CASE Stop
  BY <1>3 DEF Stop, Next
<1>4. CASE \E g \in Orgs : SetCoordinates(g) /\ UNCHANGED <<eventVars, best>>
  BY <1>4 DEF Next
<1>5. CASE UNCHANGED dispatchVars
  BY <1>5 DEF dispatchVars
<1> QED BY <1>1, <1>2, <1>3, <1>4, <1>5 DEF DispatchNext, Assign

-----------------------------------------------------------------------------
\* What an event has done is not undone

\* No request takes its courier from an order, except by deleting the order.
LEMMA ServedStays ==
    ASSUME IInv, [Next]_vars, NEW o \in OrderIds, Served(o)
    PROVE  Served(o)'
<1>1. held'[o] # {}
  BY HeldGrows DEF Served
<1>2. CASE ~Present(o)
  BY <1>1, <1>2, DeletedStep DEF Served
<1>3. CASE Present(o)
  <2>1. orders[o].courier # None
    BY <1>3 DEF Served
  <2>2. CASE UNCHANGED orders
    BY <2>1, <2>2, <1>1 DEF Served
  <2>3. ASSUME NEW h \in Handlers, NEW p \in OrderIds, CreateOrder(h, p),
               orders' = [orders EXCEPT ![p].status = "PENDING"]
        PROVE  orders'[o].courier # None
    BY <1>3, <2>1, <2>3 DEF CreateOrder, IInv, TypeOK
  <2>4. ASSUME NEW h \in Handlers, WriteStatus(h)
        PROVE  orders'[o].courier # None
    BY <2>1, <2>4 DEF WriteStatus, SetStatus, IInv, TypeOK, Row
  <2>5. ASSUME NEW h \in Handlers, WriteCourier(h)
        PROVE  orders'[o].courier # None
    <3>1. handler[h].courier \in Couriers
      BY <2>5 DEF WriteCourier, IInv, HandlersInv, JobOK
    <3> QED BY <2>1, <2>5, <3>1, ConstantsAssumption
            DEF WriteCourier, SetCourier, IInv, TypeOK, Row, rows
  <2>6. ASSUME NEW h \in Handlers, DeleteOrder(h)
        PROVE  orders'[o].courier # None \/ ~Present(o)'
    BY <2>1, <2>6 DEF DeleteOrder, Present, NoRow, IInv, TypeOK
  <2> QED BY <1>1, <2>2, <2>3, <2>4, <2>5, <2>6, RowChanges DEF Served
<1> QED BY <1>2, <1>3

\* Nor does the assignment, and the order it writes to has a courier then.
LEMMA SetBestServes ==
    ASSUME IInv, Queues!IInv, SentInv, best \in [Copies -> Couriers \cup {None}],
           NEW k \in Copies, SetBest(k)
    PROVE  \A o \in OrderIds : Served(o) \/ o = copy[k].msg[1] => Served(o)'
<1> DEFINE p == copy[k].msg[1]
           c == best[k]
<1>1. p \in OrderIds /\ held[p] # {} /\ c \in Couriers /\ c # None
  BY ReadyWhenSent, ConstantsAssumption DEF SetBest, Events!Apply, Events!Move
<1>2. \/ UNCHANGED rows /\ ~Present(p)
      \/ orders' = [orders EXCEPT ![p].courier = c] /\ UNCHANGED held
  BY DEF SetBest, SetCourier
<1> HIDE DEF p, c
<1> SUFFICES ASSUME NEW o \in OrderIds, Served(o) \/ o = p
             PROVE  Served(o)'
  BY DEF p
<1>3. CASE o = p
  BY <1>1, <1>2, <1>3 DEF Served, Present, IInv, TypeOK, Row, rows
<1>4. CASE Served(o) /\ o # p
  BY <1>1, <1>2, <1>4 DEF Served, Present, IInv, TypeOK, Row, rows
<1> QED BY <1>3, <1>4

\* Nothing but SetBest counts an event as applied.
LEMMA AppliedStays ==
    ASSUME Queues!IInv, [DispatchNext]_dispatchVars
    PROVE  UNCHANGED applied \/ \E k \in Copies : SetBest(k)
BY DEF DispatchNext, Serve, EmitAndPublish, Assign, Handle, Choose, ClearBest, Stop,
   dispatchVars, eventVars, Events!Publish, Events!Deliver, Events!MarkSeen,
   Events!SkipDuplicate, Events!LeaveUnassigned, Events!Ack, Events!Reject,
   Events!ReplayStep, Events!ReplayGet, Events!ReplaySend, Events!ReplayAck,
   Events!ReplayCutOff, Events!Forget, Events!Crash

LEMMA AppliedStep ==
    ASSUME DispatchInv, [DispatchNext]_dispatchVars
    PROVE  AppliedInv'
<1>1. ASSUME NEW o \in OrderIds, Served(o)
      PROVE  Served(o)'
  <2>1. CASE [Next]_vars
    BY <1>1, <2>1, ServedStays DEF DispatchInv
  <2>2. CASE \E k \in Copies : SetBest(k)
    BY <1>1, <2>2, SetBestServes DEF DispatchInv
  <2>3. CASE \E k \in Copies : ClearBest(k)
    BY <1>1, <2>3 DEF ClearBest, rows, Served, Present
  <2> QED BY <2>1, <2>2, <2>3, OrderStep
<1>2. \A m \in Messages : m[1] \in OrderIds
  BY DEF Messages
<1>3. CASE UNCHANGED applied
  BY <1>1, <1>2, <1>3 DEF DispatchInv, AppliedInv
<1>4. ASSUME NEW k \in Copies, SetBest(k)
      PROVE  AppliedInv'
  <2>1. \A o \in OrderIds : o = copy[k].msg[1] => Served(o)'
    BY <1>4, SetBestServes DEF DispatchInv
  <2>2. applied' = [applied EXCEPT ![copy[k].msg] = @ + 1]
    BY <1>4 DEF SetBest, Events!Apply
  <2>3. \A m \in Messages : m # copy[k].msg => applied'[m] = applied[m]
    BY <2>2 DEF DispatchInv, Queues!IInv, Queues!TypeOK
  <2> QED BY <1>1, <1>2, <2>1, <2>3 DEF DispatchInv, AppliedInv
<1> QED BY <1>3, <1>4, AppliedStays DEF DispatchInv

-----------------------------------------------------------------------------
\* The count of events to come

\* The requests in flight that will publish an event of o.
Pending(o) == {h \in Handlers : Publishes(handler[h]) /\ handler[h].order = o}

LEMMA PendingFinite ==
    \A o : IsFiniteSet(Pending(o)) /\ Cardinality(Pending(o)) \in Nat
BY DispatchConstants, FS_Subset, FS_CardinalityType DEF Pending

\* A publishing request is one of those the count foresaw.
LEMMA EmitKeepsBound ==
    ASSUME IInv, WithinBound, NEW h \in Handlers, EmitAndPublish(h)
    PROVE  WithinBound'
<1> DEFINE p == handler[h].order
<1>1. /\ published' = [published EXCEPT ![p] = @ + 1]
      /\ handler' = [handler EXCEPT ![h] = Idle]
      /\ Publishes(handler[h]) /\ handler[h].pc = "emit"
  BY DEF EmitAndPublish, EmitUpdated, Finish
<1>2. handler \in [Handlers -> Job] /\ published \in [OrderIds -> Nat]
  BY DEF IInv, TypeOK
<1> SUFFICES ASSUME NEW o \in OrderIds
             PROVE  published'[o] + Cardinality(Pending(o)') <= MaxEvents
  BY DEF WithinBound, Pending
<1>3. published[o] + Cardinality(Pending(o)) <= MaxEvents
  BY DEF WithinBound, Pending
<1>4. CASE o = p
  <2>1. h \in Pending(o)
    BY <1>1, <1>4 DEF Pending
  <2>2. Pending(o)' = Pending(o) \ {h}
    BY <1>1, <1>2 DEF Pending, Publishes, Idle
  <2>3. Cardinality(Pending(o)') = Cardinality(Pending(o)) - 1
    BY <2>1, <2>2, PendingFinite, FS_RemoveElement
  <2>4. published'[o] = published[o] + 1 /\ published[o] \in Nat
    BY <1>1, <1>2, <1>4
  <2> QED BY <1>3, <2>3, <2>4, PendingFinite, ConstantsAssumption
<1>5. CASE o # p
  <2>1. Pending(o)' = Pending(o)
    BY <1>1, <1>2, <1>5 DEF Pending, Publishes, Idle
  <2>2. published'[o] = published[o]
    BY <1>1, <1>2, <1>5
  <2> QED BY <1>3, <2>1, <2>2
<1> QED BY <1>4, <1>5

\* A stop takes back what was foreseen.
LEMMA StopKeepsBound ==
    ASSUME IInv, WithinBound, Stop
    PROVE  WithinBound'
<1> SUFFICES ASSUME NEW o \in OrderIds
             PROVE  published[o] + Cardinality(Pending(o)') <= MaxEvents
  BY DEF Stop, Crash, WithinBound, Pending
<1>1. published[o] \in Nat /\ published[o] + Cardinality(Pending(o)) <= MaxEvents
  BY DEF IInv, TypeOK, WithinBound, Pending
<1>2. Pending(o)' = {}
  BY DEF Pending, Stop, Crash, Idle, Publishes
<1> QED BY <1>1, <1>2, PendingFinite, FS_EmptySet, ConstantsAssumption

LEMMA BoundStep ==
    ASSUME IInv, WithinBound, [DispatchNext]_dispatchVars
    PROVE  WithinBound'
<1>1. \/ \E h \in Handlers : Serve(h) \/ EmitAndPublish(h)
      \/ Stop
      \/ UNCHANGED <<handler, published>>
  BY DEF DispatchNext, Assign, Handle, Choose, SetBest, ClearBest, SetCoordinates,
         dispatchVars, vars
<1>2. CASE UNCHANGED <<handler, published>>
  BY <1>2 DEF WithinBound
<1> QED BY <1>1, <1>2, EmitKeepsBound, StopKeepsBound DEF Serve

-----------------------------------------------------------------------------
\* The invariant

LEMMA SentStep ==
    ASSUME DispatchInv, [DispatchNext]_dispatchVars
    PROVE  SentInv'
<1>1. ASSUME NEW h \in Handlers, EmitAndPublish(h)
      PROVE  SentInv'
  <2> DEFINE o == handler[h].order
             m == <<o, published[o] + 1>>
  <2>1. o \in OrderIds /\ m \in Messages /\ published' = [published EXCEPT ![o] = @ + 1]
    BY <1>1, PublishedIsMessage DEF EmitAndPublish, EmitUpdated, DispatchInv
  <2>2. \A p \in OrderIds : /\ published[p] \in Nat /\ published'[p] \in Nat
                            /\ published[p] <= published'[p]
    BY <2>1 DEF DispatchInv, IInv, TypeOK
  <2>3. \A n \in Messages : n[1] \in OrderIds /\ n[2] \in Nat
    BY ConstantsAssumption DEF Messages
  <2>4. m[1] = o /\ m[2] = published'[o]
    BY <2>1 DEF DispatchInv, IInv, TypeOK
  <2>5. CASE UNCHANGED eventVars
    BY <2>2, <2>3, <2>5 DEF eventVars, DispatchInv, SentInv
  <2>6. ASSUME NEW k \in Copies, Events!Publish(m, k)
        PROVE  SentInv'
    <3>1. /\ fate' = [fate EXCEPT ![m] = @ \cup {"sent"}]
          /\ copy' = [copy EXCEPT ![k] = [msg |-> m, at |-> "main"]]
          /\ copy \in [Copies -> [msg : Messages \cup {None}, at : Queues!Place]]
          /\ fate \in [Messages -> SUBSET {"sent", "acked", "unassigned", "cutOff"}]
      BY <2>6 DEF Events!Publish, Events!Record, DispatchInv, Queues!IInv, Queues!TypeOK
    <3> HIDE DEF m, o
    <3>2. \A n \in Messages : n # m => fate'[n] = fate[n]
      BY <3>1
    <3>3. "sent" \in fate'[m]
      BY <2>1, <3>1
    <3>4. \A j \in Copies : copy'[j].msg \in {copy[j].msg, m}
      BY <3>1
    <3>5. ASSUME NEW n \in Messages, "sent" \in fate'[n]
          PROVE  n[2] <= published'[n[1]]
      <4>1. CASE n = m
        BY <2>1, <2>2, <2>3, <2>4, <4>1
      <4>2. CASE n # m
        BY <2>2, <2>3, <3>2, <3>5, <4>2 DEF DispatchInv, SentInv
      <4> QED BY <4>1, <4>2
    <3>6. ASSUME NEW j \in Copies, copy'[j].msg \in Messages
          PROVE  "sent" \in fate'[copy'[j].msg]
      BY <3>2, <3>3, <3>4, <3>6 DEF DispatchInv, SentInv
    <3> QED BY <3>5, <3>6 DEF SentInv
  <2> QED BY <1>1, <2>5, <2>6 DEF EmitAndPublish
<1>2. CASE ~\E h \in Handlers : EmitAndPublish(h)
  <2>1. UNCHANGED published
    BY <1>2 DEF DispatchNext, Serve, Assign, Handle, Choose, SetBest, ClearBest, Stop,
       Crash, SetCoordinates, dispatchVars, vars
  <2>2. \/ \E k \in Copies : Events!Consume(k) \/ Events!ReplayStep(k)
        \/ \E m \in Messages : Events!Forget(m)
        \/ Events!Crash
        \/ UNCHANGED eventVars
    BY <1>2 DEF DispatchNext, Serve, Assign, Handle, Choose, SetBest, ClearBest, Stop,
       Events!Consume, dispatchVars
  <2> QED BY <2>1, <2>2, OnlyPublishSends, SentStays DEF DispatchInv
<1> QED BY <1>1, <1>2

LEMMA InitDispatchInv == DispatchInit => DispatchInv
<1> SUFFICES ASSUME DispatchInit PROVE DispatchInv
  OBVIOUS
<1>1. IInv
  BY InitIInv DEF DispatchInit
<1>2. Queues!IInv
  BY QueuesConstants, SameEvents, Queues!InitIInv DEF DispatchInit
<1>3. best \in [Copies -> Couriers \cup {None}]
  BY DEF DispatchInit
<1>4. WithinBound
  <2> SUFFICES ASSUME NEW o \in OrderIds
               PROVE  published[o] + Cardinality(Pending(o)) <= MaxEvents
    BY DEF WithinBound, Pending
  <2>1. Pending(o) = {} /\ published[o] = 0
    BY DEF Pending, DispatchInit, Init, Idle, Publishes
  <2> QED BY <2>1, FS_EmptySet, ConstantsAssumption
<1>5. SentInv
  BY DispatchConstants DEF SentInv, DispatchInit, Events!Init, Events!NoCopy
<1>6. AppliedInv
  BY DEF AppliedInv, DispatchInit, Events!Init
<1> QED BY <1>1, <1>2, <1>3, <1>4, <1>5, <1>6 DEF DispatchInv

LEMMA StepDispatchInv == DispatchInv /\ [DispatchNext]_dispatchVars => DispatchInv'
<1> SUFFICES ASSUME DispatchInv, [DispatchNext]_dispatchVars PROVE DispatchInv'
  OBVIOUS
<1>1. IInv'
  BY OrderStep, StepIInv, SetBestKeepsIInv, ClearBestKeepsIInv DEF DispatchInv
<1>2. Queues!IInv'
  <2>1. [Queues!Next]_(Queues!vars)
    BY EventStep, SameEvents DEF DispatchInv
  <2> QED BY <2>1, QueuesConstants, Queues!StepIInv DEF DispatchInv
<1>3. best' \in [Copies -> Couriers \cup {None}]
  BY DEF DispatchInv, DispatchNext, Serve, EmitAndPublish, Assign, Handle, Choose,
     SetBest, ClearBest, Stop, dispatchVars
<1>4. WithinBound' /\ SentInv' /\ AppliedInv'
  BY BoundStep, SentStep, AppliedStep DEF DispatchInv
<1> QED BY <1>1, <1>2, <1>3, <1>4 DEF DispatchInv

\* The orders, the events and the assignment agree in every reachable state.
THEOREM DispatchInvariance == DispatchSpec => []DispatchInv
BY InitDispatchInv, StepDispatchInv, PTL DEF DispatchSpec

\* An event is not forgotten: an order whose event was published has a courier,
\* or a copy of the event is still in a queue or at work, or the history shows
\* why not (onOrderReadyForDelivery, assignCourierForOrder, replayAll).
THEOREM NotForgottenTheorem == DispatchSpec => []NoReadyOrderForgotten
<1>1. ASSUME DispatchInv, NEW m \in Messages, m[2] <= published[m[1]],
             Present(m[1]), orders[m[1]].courier = None, ~Lost(m)
      PROVE  \/ fate[m] \cap {"unassigned", "cutOff"} # {}
             \/ \E k \in Copies : copy[k].msg = m
  <2>1. "sent" \in fate[m]
    BY <1>1 DEF Lost
  <2>2. applied[m] = 0
    BY <1>1 DEF DispatchInv, AppliedInv, Served, Queues!IInv, Queues!TypeOK
  <2>3. CASE "acked" \in fate[m]
    <3>1. Queues!Underway(m) \/ fate[m] \cap {"unassigned", "cutOff"} # {}
      BY <1>1, <2>2, <2>3 DEF DispatchInv, Queues!IInv, Queues!AckedInv,
         Queues!ExplainedInv, Queues!TypeOK
    <3> QED BY <3>1 DEF Queues!Underway
  <2>4. CASE "acked" \notin fate[m]
    BY <1>1, <2>1, <2>4 DEF DispatchInv, Queues!IInv, Queues!KeptInv
  <2> QED BY <2>3, <2>4
<1>2. DispatchInv => NoReadyOrderForgotten
  BY <1>1 DEF NoReadyOrderForgotten
<1> QED BY <1>2, DispatchInvariance, PTL

\* With the assignment writing to the rows as well, an order is given a courier
\* only after it became READY_FOR_DELIVERY (assignCourierForOrder).
THEOREM DispatchCourierTheorem == DispatchSpec => []CourierOnlyAfterReady
<1>1. DispatchInv => CourierOnlyAfterReady
  BY DEF DispatchInv, IInv
<1> QED BY <1>1, DispatchInvariance, PTL

\* With the assignment writing to the rows as well, the statuses of an order
\* form the chain of ORDER_STATUS_TRANSITIONS.
THEOREM DispatchChainTheorem == DispatchSpec => []ChainRespected
<1>1. DispatchInv => ChainRespected
  BY DEF DispatchInv, IInv
<1> QED BY <1>1, DispatchInvariance, PTL

\* An event leaves only for an order that became READY_FOR_DELIVERY at an organization
\* with coordinates, whatever the consumer does with the events before it.
THEOREM DispatchPublishedTheorem == DispatchSpec => []PublishedOnlyWhenReady
<1>1. DispatchInv => PublishedOnlyWhenReady
  BY DEF DispatchInv, IInv
<1> QED BY <1>1, DispatchInvariance, PTL

\* The assignment writes the row and emits nothing: the order list can be behind it, and
\* shows nothing the order has not been (order:updated of the requests only).
THEOREM DispatchShownTheorem == DispatchSpec => []ShownWasReal
<1>1. DispatchInv => ShownWasReal
  BY DEF DispatchInv, IInv
<1> QED BY <1>1, DispatchInvariance, PTL

\* The UPDATE of the assignment finds no row of a cancelled order to write to,
\* and brings none back (assignCourierForOrder against cancel).
THEOREM DispatchDeletedTheorem == DispatchSpec => DeletedStaysDeleted
<1>1. ASSUME DispatchInv, [DispatchNext]_dispatchVars, NEW o \in OrderIds,
             held[o] # {}, ~Present(o)
      PROVE  ~Present(o)'
  <2>1. CASE [Next]_vars
    BY <1>1, <2>1, DeletedStep DEF DispatchInv
  <2>2. ASSUME NEW k \in Copies, SetBest(k)
        PROVE  ~Present(o)'
    BY <1>1, <2>2 DEF SetBest, SetCourier, Present, DispatchInv, IInv, TypeOK, rows
  <2>3. CASE \E k \in Copies : ClearBest(k)
    BY <1>1, <2>3 DEF ClearBest, rows, Present
  <2> QED BY <1>1, <2>1, <2>2, <2>3, OrderStep
<1>2. DispatchInv /\ [DispatchNext]_dispatchVars =>
          [\A o \in OrderIds : held[o] # {} /\ ~Present(o) => ~Present(o)']_vars
  BY <1>1
<1> QED BY <1>2, DispatchInvariance, PTL DEF DispatchSpec, DeletedStaysDeleted

\* What Dispatch does to the events is a behaviour of the queues.
LEMMA DispatchRunsQueues == DispatchSpec => Queues!Spec
<1>1. DispatchInit => Queues!Init
  BY SameEvents DEF DispatchInit
<1>2. DispatchInv /\ [DispatchNext]_dispatchVars => [Queues!Next]_(Queues!vars)
  BY EventStep, SameEvents DEF DispatchInv
<1> QED
  BY <1>1, <1>2, DispatchInvariance, PTL DEF DispatchSpec, Queues!Spec

\* So no event sets a courier more often than its idempotency key allows, among
\* all the requests, crashes and replays of the whole.
THEOREM DispatchAtMostOnce == DispatchSpec => []Queues!AtMostOncePerKey
<1>1. Queues!Spec => []Queues!AtMostOncePerKey
  BY QueuesConstants, Queues!AtMostOnceTheorem
<1> QED
  BY <1>1, DispatchRunsQueues, PTL

\* An order goes to a courier without a request for an event of it, once for each
\* setting of that event's key, however deliveries fail after the UPDATE and are
\* replayed (assignCourierForOrder, between the key and the ack of the consumer).
THEOREM AssignedOnceTheorem == DispatchSpec => AssignedOncePerKey
<1>1. ASSUME DispatchInv, [DispatchNext]_dispatchVars, Queues!AtMostOncePerKey',
             NEW o \in OrderIds, UNCHANGED handler,
             orders'[o].courier \notin {orders[o].courier, None}
      PROVE  \E m \in Messages : /\ m[1] = o
                                 /\ applied'[m] = applied[m] + 1
                                 /\ applied[m] <= forgotten[m]
  <2>0. /\ orders \in [OrderIds -> Row] /\ handler \in [Handlers -> Job]
        /\ orders'[o].courier # orders[o].courier
    BY <1>1 DEF DispatchInv, IInv, TypeOK
  <2>1. ~[Next]_vars
    <3>1. ASSUME NEW h \in Handlers, WriteCourier(h)
          PROVE  handler'[h].pc = "clear" /\ handler[h].pc = "write"
      BY <2>0, <3>1 DEF WriteCourier, Job
    <3>2. ASSUME NEW h \in Handlers, NEW p \in OrderIds,
                 CreateOrder(h, p) \/ WriteStatus(h) \/ DeleteOrder(h)
          PROVE  orders'[o].courier \in {orders[o].courier, None}
      BY <2>0, <3>2 DEF CreateOrder, WriteStatus, SetStatus, DeleteOrder, Row, NoRow, Absent
    <3>3. ASSUME NEW h \in Handlers, Request(h) \/ Continue(h)
          PROVE  \/ UNCHANGED orders \/ WriteCourier(h)
                 \/ orders'[o].courier \in {orders[o].courier, None}
      BY <2>0, <3>2, <3>3 DEF Request, BeginCancel, BeginUpdateStatus, BeginAssignCourier,
         BeginCourierStatus, Continue, RereadCreated, EmitCreated, WriteStatusOfDeleted,
         ClearRoute, ClearPreviousRoute, EmitUpdated, EmitRemoved, rows
    <3> QED BY <1>1, <2>0, <3>1, <3>3 DEF Next, SetCoordinates, Crash, vars, rows
  <2>2. PICK k \in Copies : SetBest(k)
    BY <1>1, <2>0, <2>1, OrderStep DEF ClearBest, rows
  <2> DEFINE m == copy[k].msg
  <2>3. m \in Messages /\ copy[k].at = "working"
    BY <1>1, <2>2, ReadyWhenSent DEF SetBest, Events!Apply, Events!Move, DispatchInv
  <2>4. /\ applied' = [applied EXCEPT ![m] = applied[m] + 1] /\ UNCHANGED forgotten
        /\ applied \in [Messages -> Nat] /\ forgotten \in [Messages -> Nat]
    BY <1>1, <2>2 DEF SetBest, Events!Apply, DispatchInv, Queues!IInv, Queues!TypeOK
  <2>5. m[1] = o
    BY <2>0, <2>2 DEF SetBest, SetCourier, rows, Row
  <2>6. applied'[m] = applied[m] + 1 /\ applied'[m] <= 1 + forgotten[m]
    BY <1>1, <2>3, <2>4 DEF Queues!AtMostOncePerKey
  <2>7. applied[m] <= forgotten[m]
    BY <2>3, <2>4, <2>6
  <2> QED BY <2>3, <2>5, <2>6, <2>7
<1>2. DispatchInv /\ [DispatchNext]_dispatchVars /\ Queues!AtMostOncePerKey' => [\A o \in OrderIds :
          UNCHANGED handler /\ orders'[o].courier \notin {orders[o].courier, None} =>
              \E m \in Messages : /\ m[1] = o
                                  /\ applied'[m] = applied[m] + 1
                                  /\ applied[m] <= forgotten[m]]_dispatchVars
  BY <1>1
<1> QED BY <1>2, DispatchInvariance, DispatchAtMostOnce, PTL DEF DispatchSpec, AssignedOncePerKey

\* An event the broker has had is acknowledged or has a copy, and one that was
\* acknowledged without a courier has a named cause, with the assignment between the
\* setting of the key and the ack (onOrderReadyForDelivery, replayAll).
THEOREM DispatchKeepsEvents ==
    DispatchSpec => [](Queues!NothingLost /\ Queues!UnappliedIsExplained)
<1>1. Queues!Spec => []Queues!NothingLost
  BY QueuesConstants, Queues!NothingLostTheorem
<1>2. Queues!Spec => []Queues!UnappliedIsExplained
  BY QueuesConstants, Queues!ExplainedTheorem
<1> QED
  BY <1>1, <1>2, DispatchRunsQueues, PTL

\* The whole of requests, queues and assignment is an idempotent delivery of each event:
\* Dispatch implements OrderEvents, and OrderEvents what IdempotentEvents promises.
THEOREM DispatchRefinesOnce == DispatchSpec => Queues!ImplementsIdempotentEvents
<1>1. Queues!Spec => Queues!ImplementsIdempotentEvents
  BY QueuesConstants, Queues!RefinementTheorem
<1> QED
  BY <1>1, DispatchRunsQueues, PTL

=============================================================================
