----------------------------- MODULE OrderList -----------------------------
(***************************************************************************)
(* The list of orders that a client or a supplier has open:                 *)
(* src/frontend/src/stores/orders.store.ts, composables/useOrderRealtime.ts *)
(* and the views MyOrdersView.vue and IncomingOrdersView.vue.  The list is  *)
(* fetched once and then kept up to date by the messages of a socket, by    *)
(* the answers to what the user does, and by what the view does before it   *)
(* has an answer.                                                           *)
(***************************************************************************)
EXTENDS Integers, Sequences, SequencesExt

CONSTANTS
    Orders,
    MaxMoves   \* bound: the requests that are sent and the changes others make

VARIABLES
    server,    \* the rows of the database that concern the user
    feed,      \* the messages of the changes that were made, in the order in which
               \* they come: first those that are in the socket, then, as they were
               \* made, those whose request has not come to send them
    emitted,   \* how many of them are in the socket
    connected, \* the socket is in its rooms
    mounted,   \* the view is open
    list,      \* orders.value: the rows shown for each order, usually one or none
    loading, error,  \* the two refs of the store: in their place of the list, a
                     \* spinner or an error message is shown
    requests,  \* what was sent: [kind, id, row, state, rows, then]
    moves,     \* how many of them there have been
    pending,   \* pendingCancel, or NoPending
    role,      \* of the user, "client" or "supplier"
    crossed    \* history: the orders of which a message was lost, overtook another,
               \* crossed an answer or is never sent, since the list was read last

listVars == <<server, feed, emitted, connected, mounted, list, loading, error, requests, moves,
              pending, role, crossed>>

Unplaced == [status |-> "UNPLACED", courier |-> FALSE]
Nothing == [o \in Orders |-> <<>>]
Gone == [status |-> "GONE", courier |-> FALSE]
New  == [status |-> "PENDING", courier |-> FALSE]
NoPending == [id |-> "none"]

\* What stands for no order is none.
ASSUME ListAssumption == NoPending.id \notin Orders

ListInit ==
    /\ server \in [Orders -> {Unplaced, New}]
    /\ feed = <<>> /\ emitted = 0 /\ connected = FALSE /\ mounted = FALSE
    /\ list = Nothing /\ loading = FALSE /\ error = FALSE
    /\ requests = <<>> /\ moves = 0 /\ pending = NoPending
    /\ role \in {"client", "supplier"} /\ crossed = {}

Fetch == [kind |-> "fetch", id |-> "none", row |-> Gone, state |-> "sent", rows |-> Nothing,
          then |-> "none"]

Ask(rest, request) ==
    /\ moves < MaxMoves /\ moves' = moves + 1
    /\ requests' = Append(rest, request)

\* An operation of the store that shows the spinner until it is over.
Load(request) ==
    /\ Ask(requests, request)
    /\ loading' = TRUE /\ error' = FALSE

Visible == mounted /\ ~loading /\ ~error

-----------------------------------------------------------------------------
\* The store

Shows(o) == list[o] # <<>>

\* findIndex() finds the first row of an order.
Replaced(o, row) == IF Shows(o) THEN [list EXCEPT ![o][1] = row] ELSE list

removeLocal(o) == [list EXCEPT ![o] = Tail(@)]

\* The row comes back at its old index: before or after one that came meanwhile.
restoreLocal(o, row) ==
    {[list EXCEPT ![o] = <<row>> \o @], [list EXCEPT ![o] = Append(@, row)]}

upsertOrderPartial(o, row) == Replaced(o, row)

prependOrder(o, row) == IF Shows(o) THEN list ELSE [list EXCEPT ![o] = <<row>>]

removeOrderById(o) == [list EXCEPT ![o] = <<>>]

-----------------------------------------------------------------------------
\* The server: a row is written first.  Its message is sent after what the request
\* still waits for (the cache, the event, a mail, the row read again), so messages can
\* overtake one another.

Status == <<"PENDING", "ACCEPTED", "READY_FOR_DELIVERY">>

Follows(from, to) == \E i \in 1..2 : from = Status[i] /\ to = Status[i + 1]

Change(o, type, row) ==
    /\ server' = [server EXCEPT ![o] = row]
    /\ feed' = Append(feed, [type |-> type, id |-> o, row |-> row])

\* The requests of others, and the assignments that tell the list nothing: the one made
\* when an order becomes ready, and the one that changes the couriers of a batch.
Others ==
    /\ moves < MaxMoves /\ moves' = moves + 1
    /\ \E o \in Orders :
          LET assigned == [server[o] EXCEPT !.courier = TRUE] IN
          \/ /\ \/ server[o] = Unplaced /\ Change(o, "created", New)
                \/ server[o].status = "PENDING" /\ Change(o, "removed", Gone)
                \/ \E to \in ToSet(Status) :
                      /\ Follows(server[o].status, to)
                      /\ Change(o, "updated", [server[o] EXCEPT !.status = to])
                \/ /\ server[o].status = "READY_FOR_DELIVERY" /\ ~server[o].courier
                   /\ Change(o, "updated", assigned)
             /\ UNCHANGED crossed
          \/ /\ server[o].status = "READY_FOR_DELIVERY" /\ ~server[o].courier
             /\ server' = [server EXCEPT ![o] = assigned]
             /\ crossed' = crossed \cup {o}
             /\ UNCHANGED feed
    /\ UNCHANGED <<emitted, connected, mounted, list, loading, error, requests, pending, role>>

Exists(o) == server[o].status \in ToSet(Status)

Rows == [o \in Orders |-> IF Exists(o) THEN <<server[o]>> ELSE <<>>]

\* The server reads the rows.  What was changed before is in them, but the messages of
\* that are still to come, and can do so in a wrong order.
HandleFetch(i) ==
    /\ requests[i].kind = "fetch" /\ requests[i].state = "sent"
    /\ requests' = [requests EXCEPT ![i].state = "ok", ![i].rows = Rows]
    /\ crossed' = IF Len(requests) = 1 /\ pending = NoPending
                  THEN crossed \cap {feed[k].id : k \in DOMAIN feed} ELSE crossed
    /\ UNCHANGED <<server, feed, emitted, connected, mounted, list, loading, error, moves, pending,
                   role>>

\* updateStatus, assignCourier and cancel of the orders service, up to the write.
Handle(i) ==
    LET r == requests[i]
        row == server[r.id]
        done(type, after, answer) ==
            Change(r.id, type, after)
            /\ requests' = [requests EXCEPT ![i].state = "written", ![i].row = answer]
    IN
    /\ r.kind # "fetch" /\ r.state = "sent"
    /\ \/ r.kind = "cancel" /\ row.status = "PENDING" /\ done("removed", Gone, r.row)
       \/ /\ r.kind = "status" /\ Follows(row.status, r.row.status)
          /\ LET after == [row EXCEPT !.status = r.row.status] IN done("updated", after, after)
       \/ /\ r.kind = "assign" /\ row.status = "READY_FOR_DELIVERY"
          /\ LET after == [row EXCEPT !.courier = TRUE] IN done("updated", after, after)
    /\ UNCHANGED <<emitted, connected, mounted, list, loading, error, moves, pending, role, crossed>>

\* The message of what a request has written.
Own(r, m) ==
    /\ r.id = m.id
    /\ \/ r.kind = "cancel" /\ m.type = "removed"
       \/ r.kind \in {"status", "assign"} /\ m.type = "updated" /\ m.row = r.row

Unsent == {k \in DOMAIN feed : k > emitted}

\* Another message of the order was to come before.
Overtakes(k) == \E j \in Unsent : j < k /\ feed[j].id = feed[k].id

\* emitCreated reads the row of the new order again, and sends nothing when it is gone.
emitCreated(k) ==
    /\ feed[k].type = "created"
    /\ feed' = IF Exists(feed[k].id) THEN [feed EXCEPT ![k].row = server[feed[k].id]]
               ELSE RemoveAt(feed, k)
    /\ UNCHANGED <<requests, emitted, crossed>>

\* The gateway sends the message to who is in the rooms, and the request is answered.
Emit(k) ==
    LET m == feed[k] IN
    /\ requests' = [i \in DOMAIN requests |->
                       IF requests[i].state = "written" /\ Own(requests[i], m)
                       THEN [requests[i] EXCEPT !.state = "ok"] ELSE requests[i]]
    /\ feed' = IF connected
               THEN [j \in DOMAIN feed |-> IF j \in Unsent /\ j <= k
                                           THEN IF j = emitted + 1 THEN m ELSE feed[j - 1]
                                           ELSE feed[j]]
               ELSE RemoveAt(feed, k)
    /\ emitted' = IF connected THEN emitted + 1 ELSE emitted
    /\ crossed' = IF connected /\ ~Overtakes(k) THEN crossed ELSE crossed \cup {m.id}

\* What the request still waited for fails, or the server stops.
Lose(k) ==
    /\ feed' = RemoveAt(feed, k)
    /\ crossed' = crossed \cup {feed[k].id}
    /\ UNCHANGED <<requests, emitted>>

Proceed ==
    /\ \E k \in Unsent : emitCreated(k) \/ Emit(k) \/ Lose(k)
    /\ UNCHANGED <<server, connected, mounted, list, loading, error, moves, pending, role>>

-----------------------------------------------------------------------------
\* The socket

\* The view is opened: it fetches and connects.
Open ==
    /\ ~mounted /\ mounted' = TRUE
    /\ Load(Fetch)
    /\ UNCHANGED <<server, feed, emitted, connected, list, pending, role, crossed>>

Connect ==
    /\ mounted /\ ~connected
    /\ connected' = TRUE
    /\ UNCHANGED <<server, feed, emitted, mounted, list, loading, error, requests, moves, pending,
                   role, crossed>>

\* What is in the socket is lost with it.
Disconnected ==
    /\ feed' = SubSeq(feed, emitted + 1, Len(feed)) /\ emitted' = 0
    /\ crossed' = crossed \cup {feed[k].id : k \in 1..emitted}

\* The connection breaks; it comes back, but the list is not fetched again.
Drop ==
    /\ connected
    /\ connected' = FALSE /\ Disconnected
    /\ UNCHANGED <<server, mounted, list, loading, error, requests, moves, pending, role>>

\* A message comes while something that is older is on its way: the rows of a fetch, the
\* row of an order that is being cancelled, or an answer whose own message came before.
Crosses(o) ==
    \/ pending.id = o
    \/ \E i \in DOMAIN requests :
          \/ requests[i].kind = "fetch" /\ requests[i].state = "ok"
          \/ requests[i].kind = "cancel" /\ requests[i].state = "sent" /\ requests[i].id = o
          \/ /\ requests[i].kind \in {"status", "assign"} /\ requests[i].state = "ok"
             /\ requests[i].id = o
             /\ \A k \in DOMAIN feed : ~Own(requests[i], feed[k])

Receive ==
    LET m == Head(feed) IN
    /\ emitted > 0 /\ emitted' = emitted - 1
    /\ feed' = Tail(feed)
    /\ list' = CASE m.type = "created" -> prependOrder(m.id, m.row)
                 [] m.type = "updated" -> upsertOrderPartial(m.id, m.row)
                 [] OTHER -> removeOrderById(m.id)
    /\ crossed' = IF Crosses(m.id) THEN crossed \cup {m.id} ELSE crossed
    /\ UNCHANGED <<server, connected, mounted, loading, error, requests, moves, pending, role>>

-----------------------------------------------------------------------------
\* The answers

\* cancelOnServer, for a pending cancel; the other operations show the spinner.
Cancel(p, then) ==
    [Fetch EXCEPT !.kind = "cancel", !.id = p.id, !.then = then,
                  !.row = IF then = "restore" THEN p.row ELSE Gone]

\* What the answer to a fetch spoils: an order that is being changed comes back as
\* it was, and when two fetches are under way the older answer can come last.
Overtaken(i) ==
    IF requests[i].kind # "fetch" THEN {}
    ELSE IF \E j \in (DOMAIN requests) \ {i} : requests[j].kind = "fetch" THEN Orders
    ELSE Orders \cap ({pending.id} \cup {requests[j].id : j \in DOMAIN requests})

Answer(i) ==
    LET r == requests[i] IN
    /\ r.state = "ok"
    /\ requests' = RemoveAt(requests, i)
    /\ list' = CASE r.kind = "fetch" -> r.rows
                 [] r.kind = "cancel" -> list
                 [] OTHER -> Replaced(r.id, r.row)
    /\ loading' = (loading /\ r.kind = "cancel")
    /\ crossed' = crossed \cup Overtaken(i)
    /\ UNCHANGED <<server, feed, emitted, connected, mounted, error, moves, pending, role>>

\* The server refuses, or the connection breaks before or after it has answered.
\* An order whose cancel the timer sent is put back where it was; after any other one the
\* list is fetched again.
Fail(i) ==
    LET r == requests[i]
        rest == RemoveAt(requests, i)
    IN
    /\ IF r.then = "refetch" THEN Ask(rest, Fetch) ELSE requests' = rest /\ moves' = moves
    /\ list' \in IF r.then = "restore" THEN restoreLocal(r.id, r.row) ELSE {list}
    /\ loading' = IF r.then = "refetch" THEN TRUE ELSE loading /\ r.kind = "cancel"
    /\ error' = (r.then # "refetch")
    /\ crossed' = IF r.kind = "fetch" /\ pending # NoPending THEN Orders
                  ELSE IF r.state # "sent" THEN crossed \cup ({r.id} \cap Orders)
                  ELSE crossed
    /\ UNCHANGED <<server, feed, emitted, connected, mounted, pending, role>>

-----------------------------------------------------------------------------
\* MyOrdersView.vue: a cancel waits five seconds for an undo.

\* Mutant: the cancel before this one is forgotten.
ForgetPending == UNCHANGED <<requests, moves, error>>

flushPendingCancel ==
    IF pending = NoPending THEN UNCHANGED <<requests, moves, error>>
    ELSE Ask(requests, Cancel(pending, "refetch")) /\ error' = FALSE

handleCancel(o) ==
    /\ role = "client" /\ Visible
    /\ Shows(o) /\ list[o][1].status = "PENDING"
    /\ flushPendingCancel
    /\ list' = removeLocal(o)
    /\ pending' = [id |-> o, row |-> list[o][1]]
    /\ UNCHANGED <<server, feed, emitted, connected, mounted, loading, role, crossed>>

undo ==
    /\ pending # NoPending
    /\ list' \in restoreLocal(pending.id, pending.row)
    /\ pending' = NoPending
    /\ UNCHANGED <<server, feed, emitted, connected, mounted, loading, error, requests, moves, role,
                   crossed>>

Timeout ==
    /\ pending # NoPending
    /\ Ask(requests, Cancel(pending, "restore")) /\ error' = FALSE
    /\ pending' = NoPending
    /\ UNCHANGED <<server, feed, emitted, connected, mounted, list, loading, role, crossed>>

\* The view is closed: a cancel that waits is sent, the socket is disconnected.
Close ==
    /\ mounted
    /\ mounted' = FALSE /\ connected' = FALSE /\ Disconnected
    /\ flushPendingCancel /\ pending' = NoPending
    /\ UNCHANGED <<server, list, loading, role>>

TryAgain ==
    /\ mounted /\ error /\ ~loading
    /\ Load(Fetch)
    /\ UNCHANGED <<server, feed, emitted, connected, mounted, list, pending, role, crossed>>

-----------------------------------------------------------------------------
\* IncomingOrdersView.vue: the next status, and a courier

handleStatusUpdate(o) ==
    /\ role = "supplier" /\ Visible /\ Shows(o)
    /\ \A i \in DOMAIN requests : requests[i].kind = "status" => requests[i].id # o
    /\ \E to \in ToSet(Status) :
          /\ Follows(list[o][1].status, to)
          /\ Load([Fetch EXCEPT !.kind = "status", !.id = o, !.row.status = to])
    /\ UNCHANGED <<server, feed, emitted, connected, mounted, list, pending, role, crossed>>

handleAssignCourier(o) ==
    /\ role = "supplier" /\ Visible /\ Shows(o)
    /\ list[o][1].status = "READY_FOR_DELIVERY"
    /\ \A i \in DOMAIN requests : requests[i].kind # "assign"
    /\ Load([Fetch EXCEPT !.kind = "assign", !.id = o])
    /\ UNCHANGED <<server, feed, emitted, connected, mounted, list, pending, role, crossed>>

ListNext ==
    \/ Others \/ Proceed \/ Open \/ Connect \/ Drop \/ Receive \/ Close \/ TryAgain
    \/ \E i \in DOMAIN requests : HandleFetch(i) \/ Handle(i) \/ Answer(i) \/ Fail(i)
    \/ undo \/ Timeout
    \/ \E o \in Orders : handleCancel(o) \/ handleStatusUpdate(o) \/ handleAssignCourier(o)

ListSpec == ListInit /\ [][ListNext]_listVars

-----------------------------------------------------------------------------
\* Properties

Settled == Visible /\ connected /\ requests = <<>> /\ feed = <<>> /\ pending = NoPending

\* When nothing is under way any more, the list shows every order once and as it
\* is in the database, after whatever the user did, undid or failed to do with
\* several orders at once.  The exception is the order of which a message was lost,
\* overtook another or crossed an answer, or whose courier was assigned without one:
\* nothing fetches the list again.
ListSettles ==
    Settled => \A o \in Orders \ crossed : list[o] = Rows[o]

=============================================================================
