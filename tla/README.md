# Verification of Order Flow Logistics

TLA+ models of the delivery marketplace in `src/`, the TLC runs that check them and
the proofs TLAPS checks. A NestJS backend (Postgres, Redis, RabbitMQ, Socket.IO)
serves clients who order, suppliers who prepare, couriers who deliver; a Vue
frontend shows it. What is hard in it is not any one function: it is that every
operation reads something, awaits something else, and then writes by the id alone;
and that the browser changes its lists before, after and beside the answers.

## 1. Inventory

Paths are below `src/backend/src/` unless they begin with `frontend/`.

| Component | State it keeps | Operations | Hard part | Correct when |
|---|---|---|---|---|
| Status table (`common/enums/order-status.enum.ts`) | none | the transition table | the table is checked on a read, not on the write | statuses follow the chain |
| Orders service (`modules/orders/orders.service.ts`) | `orders` rows | create, updateStatus, assignCourier, cancel, markPickedUp, markDelivered; lists, ETA | check, await, write: requests overtake one another; a stop in the middle | rules hold except through an overtaken write; a cancelled order stays away |
| Order feed (`modules/orders/orders.gateway.ts`, `frontend/src/composables/useOrderRealtime.ts`) | socket rooms | order:created, order:updated, order:removed | events leave after awaits, out of order; none while the socket is down | the list shows nothing the order has not been |
| Publisher and queues (`modules/messaging`, `main.ts`) | main queue, dead-letter queue | publish, replayAll, getStats | unconfirmed emit; replay cut off between send and ack | no event disappears |
| Consumer (`modules/courier-assignment/order-events.consumer.ts`) | `event:seen:<id>` keys, 24 h | SET NX, assign, ack, nack | redelivery, failure after the key is set, expiry | at most one effect per key, and none skipped silently |
| Automatic assignment (`modules/courier-assignment/courier-assignment.service.ts`) | `orders.courier_id` | score, UPDATE, invalidate, notify, mail | writes after many awaits without a check | READY orders get a courier |
| Route and cache (`modules/routing/routing.service.ts`) | `courier:route:<id>`, 1 h | get, invalidate | stored after a long computation; failed DEL | the cached route is the courier's orders |
| Batch rebalancing (`modules/courier-assignment/batch-assignment.*`, `hungarian.ts`) | `orders.courier_id` | rebalance, by the administrator (its cron is commented out) | a series of writes from one old read | capacity; couriers hear what is so |
| Routing algorithms (`modules/routing/dijkstra.ts`, `tsp-solvers.ts`, `routing.service.ts`) | none | shortest paths, greedy, 2-opt, Held-Karp, waypoints, arrival times | boundaries, ties, unreachable nodes | equal to the reference definition |
| Road data (`modules/routing/osm.service.ts`, `modules/pricing/road-distance.service.ts`) | distances and networks in Redis | getDistanceKm, fetchRoadNetwork | each of three servers and Redis can fail in between | an estimate is never stored as a measurement |
| Pricing (`modules/pricing/pricing.service.ts`) | none | quote | tier boundaries, two roundings, no couriers | monotone; the items add up |
| Shifts (`modules/shifts`) | `courier_shifts` | setMyShifts, filterOnShiftCouriers | touching slots; two saves at once | no overlap; right couriers on shift |
| Accounts (`modules/auth`, `frontend/src/api/axios.instance.ts`) | refresh hash; tokens in localStorage; queue of calls | sign-in, refresh, logout; sign-up, verify | many calls find one token expired; two tabs | a session ends only by itself or by logout; every call is answered |
| Courier gateway (`modules/courier-gateway`) | map of sockets, location history | connect, disconnect, notify, location | the old socket's disconnect after the new connect | online couriers are notified |
| Products (`modules/products`) | rows, image files | create, update, remove, upload, delete image | check, then write; file and row change apart | the image of a product is on disk; SKUs are unique |
| Organizations (`modules/organizations`) | rows | approve, update, browse | one UPDATE each | coordinates reach the orders |
| Client's and supplier's orders (`frontend/src/stores/orders.store.ts`, `MyOrdersView`, `IncomingOrdersView`) | the list, the cancel that can be undone | fetch, feed, status, courier, cancel, undo | answers, messages and undo in any order | the list ends as the table is |
| Courier's deliveries (`MyDeliveriesView`, `useCourierSocket`) | the list, the delivery that can be undone | pickup, deliver, undo, notice, fetch | as above, with reconnects | as above |
| Cart and checkout (`cart.store.ts`, `CheckoutView`) | cart, form, quote | add, quote, geocode, place | answers belong to what was typed before | a cart is ordered once, to its address |
| Courier's schedule (`MyScheduleView`) | slots, the drag | create, move, resize, preset, clear, save | gaps while dragging over days and slots | slots stay apart at every moment |
| Products pages (`products.store.ts`, `ProductsView`, `ProductFormView`) | the list, the delete that can be undone | fetch, create, update, image, delete, undo | one list for all organizations; a form left before its answer | the list ends as the table is |
| Times of arrival in the browser (`useClientOrderEtas`, `routing.store.ts`) | contexts per order | etaByOrder, etaByWaypoint, refetch | the legs are added up in three places | all three agree |
| Reviews, mail, guards, other views | rows; none | I/O, one checked insert | little | section 7 |

How they interact. An HTTP request runs an operation of the orders service, which
writes the row, deletes cached routes, emits to the feed, and, when an order becomes
READY_FOR_DELIVERY, publishes an event. The event passes RabbitMQ to the consumer in
the same process, which runs the automatic assignment, which writes the same row; the
batch job writes it too. Requests, consumer, replay, batch and route computations
interleave at every `await`; Postgres, Redis and RabbitMQ outlive the process. A
browser page hears of the rows in three ways that overtake one another: answers to its
own requests, fetches of the whole list, and messages of a socket. Prices and shifts
meet in `quote`, which counts the couriers on shift; the checkout shows the result.

The hazards, each with its line and the property that covers it, are in
`PROJECT.json` under `hazards`.

## 2. Modules

| Module | What it is |
|---|---|
| `OrderStatus` | the statuses and `ORDER_STATUS_TRANSITIONS` |
| `OrderLifecycle` | the order rows, the requests, the feed (extends `OrderStatus`) |
| `IdempotentEvents` | abstract: what the consumer promises about one event |
| `OrderEvents` | queues, consumer, dead letters, replay; implements `IdempotentEvents` |
| `Dispatch` | `OrderLifecycle` and `OrderEvents` composed with the automatic assignment |
| `CourierRoute` | `OrderLifecycle` composed with the route cache |
| `Rebalance` | `CourierRoute` composed with the batch job and the couriers' positions |
| `Hungarian`, `BatchPlan` | the assignment algorithm; the plan of a batch run |
| `Tsp`, `RoadNetwork`, `RoutePlan` | tours; heap, Dijkstra and matrices; waypoints and arrival times |
| `Shifts`, `Pricing` | validation of slots and who is on shift; `quote()` |
| `Decisions` | one call of the assignment, of the plan or of `quote()`, and what its output must be |
| `Algorithms` | the same with the tours and the routes, which are recursive |
| `ShiftRows` | the table of shifts under two saves |
| `Schedule` | the calendar a courier draws the shifts on |
| `Checkout` | cart and checkout page |
| `Session` | tokens and calls of two tabs |
| `OrderList` | the order list of a client or supplier |
| `Deliveries` | the courier gateway and the courier's list |
| `Products`, `Catalogue` | products and image files at the server; the supplier's pages |
| `RoadSources` | OSRM, Overpass and their caches |
| `Application` | the nine modules above it, side by side |
| `OrderLifecycleProofs`, `OrderEventsProofs`, `DispatchProofs`, `RebalanceProofs` | inductive invariants and theorems of the backend, the cached routes among them |
| `BrowserProofs` | the same of tokens, order lists and deliveries |
| `ProductsProofs`, `ApplicationProofs` | the same of the products and their pages; of the other parts, and of all nine together |
| `AlgorithmProofs` | the assignment, the plan and the fee, for every input |
| `MC*` | instances for TLC: values of constants, symmetry, views |

Operators named in a comment as *Mutant* are never part of a specification: each is
a definition with a plausible mistake in it, and shows that a property notices it.

### OrderLifecycle

`orders` is the table; `NoRow` stands for no row. `handler[h]` is a request in
flight, a record `Job` that holds what its code has in local variables: the status
the check has seen (`from`), `previousCourierId` (`previous`), the row its own
UPDATE returned (`updated`), whether the organization had coordinates (`located`).
Every stretch of code between two awaits is one action:

| Code | Actions |
|---|---|
| `create`, `emitCreated` | `CreateOrder`, `RereadCreated`, `EmitCreated` |
| `updateStatus` | `BeginUpdateStatus`, `WriteStatus` or `WriteStatusOfDeleted`, `ClearRoute`, `EmitUpdated` |
| `markPickedUp`, `markDelivered` | `BeginCourierStatus`, `WriteStatus` or `WriteStatusOfDeleted`, `ClearRoute`, `EmitUpdated` |
| `assignCourier` | `BeginAssignCourier`, `WriteCourier`, `ClearRoute`, `ClearPreviousRoute`, `EmitUpdated` |
| `cancel` | `BeginCancel`, `DeleteOrder`, `EmitRemoved` |
| `PATCH /organizations/:id` | `SetCoordinates` |
| the process stops | `Crash` |

A request that its check refuses changes nothing and is not an action. `held` and
`served` are histories: the statuses and couriers an order has had. `shown` is what
the socket feed leaves in an order list that has been open all along.

### OrderEvents and IdempotentEvents

A *copy* is one message at the broker or in the hands of the process: in `main`,
`received` by the consumer, `working`, `settled` (only the ack is left), `dead`,
`taken` by a replay, `resent`. The actions are the calls of `publishReadyForDelivery`,
`onOrderReadyForDelivery` and `replayAll`, one per await or broker call. `seen` is the
set of idempotency keys. `fate` and `applied` are histories. `IdempotentEvents` has two
variables: the phase of an event (fresh, working, over) and its effects; in
`OrderEvents` the phase is computed from the copies and the key.

### Dispatch

The composition: `EmitAndPublish` joins `EmitUpdated` of the requests with `Publish` of
the queues (or loses the event), `SetBest` joins the `Apply` of the queues with the
UPDATE of the row. The message of the n-th event of order o is `<<o, n>>`. `Choose` takes
any courier: shift, load, distance and rating are data no property looks at.
`Stop` stops requests, consumer and replay together, for they are one process. That each of
its steps is a step of the queues or leaves them alone follows from how it is composed; it
is a lemma (section 6) and no property of a run. What the composition adds is
`AssignedOncePerKey`: the row and the key are in two stores, and what throws after the UPDATE
sends an event that has taken effect through the dead letters once more.

### CourierRoute and Rebalance

`query[q]` is a run of `getOptimizedRoute`: GET, perhaps DEL, SELECT, SET. A route is
the set of orders it lists. `causes` is a history: what has happened since the
courier's key was written or deleted that can have made it wrong.

`Rebalance` adds `batch[b]`, a run of `rebalance()`: `LoadOrders`, `LoadCouriers` (which also
decides, by `BatchPlan`, since no await is between), then for each move `WriteMove`, the UPDATE,
and, when that has returned, `TellMove`, the two notices; or `FailMove`; then one `ClearTouched`
for each courier it touched. Everything can fall between the UPDATE and the notices, a stop
included. `clients` is the gateway's map: `Connect` and `Disconnect` change it at any time, and
a notice reaches a courier who is in it. `announced` holds, per order, the couriers whose last
notice gave it to them; `missed` those who should have heard that it is gone and had no socket,
or whose run was cut off before it told them. A move is computed from what was loaded, and
written by the order's id whatever has happened since.

### The algorithms

`Hungarian`, `BatchPlan`, `Tsp`, `RoadNetwork`, `RoutePlan`, `Shifts` and `Pricing` are
functions: loops have become recursion or folds over the same state, in the same
order, so that ties fall as they do in the code. Kilometres are integers; places lie on
a line, where `haversineKm` is the difference. Prices are integers, scaled so that no
rounding of the code falls on a fraction. `Decisions` and `Algorithms` choose an input and
record the output; their properties compare that with all permutations, all tours, all
paths, or with the answers on neighbouring inputs. `Hungarian` and `Pricing` are written with
recursive functions over counted turns instead of recursive operators, so that they can be
proved about: `Turns` is the inner do-while, which stands still once a column without a row
is reached, `Shifts` the walk back along `way`, `Table` the loop over the rows. The other
algorithms keep recursive operators, and `Algorithms` adds them to `Decisions`. Its further
calls are of other functions, of which the four properties of `Decisions` say nothing.

### The browser and what is behind it

In each of these an action is one gesture, one answer, one message or one step of a
handler at the server; requests are records that carry what was sent and how far they
are, so answers can overtake each other and be lost.

- `OrderList`: `server` are the rows, `list` the rows shown for each order (a sequence,
  since an order can be shown twice), `requests` the calls under way with what the view does
  after the answer (`then`), `pending` the cancel that waits five seconds. `feed` has the
  message of every change, the first `emitted` of them in the socket and the rest in requests
  that have written the row and still wait for something else: `Emit` sends any of these, so that
  one can overtake another, `emitCreated` reads the row once more, `Lose` is the request that fails
  before it sends. `Others` are other users, and the automatic assignment and the batch run,
  which change the courier and send this list nothing. `Handle`, `HandleFetch` are the server,
  `Answer`, `Fail` the store, `Receive` the socket, `handleCancel`, `undo`, `Timeout`, `Close`,
  `handleStatusUpdate`, `handleAssignCourier` the views.
- `Deliveries`: `entry` is `clients.get(courierId)` of the gateway, `closing` older
  connections whose end it has not seen. `handleConnection`, `handleDisconnect`, `Notify`
  are the gateway; `handlePickup`, `handleDeliver`, `UndoDeliver`, `DeliverTimer` the view.
- `Checkout`: coordinates are named by the address they belong to, a quote by the coordinates it
  was asked for. `cart.items` are the quantities of the products, `creates` the orders on their
  way, `fetching` counts the lists of orders on theirs (`fetchMy`): they share one `loading`
  flag, on which the Place button depends. `addItem`, `removeItem`, `updateQuantity` are the
  cart; `handleFindCoords`, `handleDetectLocation`, `handlePlaceOrder` the page; `Create`,
  `Placed`, `Refused`, `Disconnect` what becomes of an order.
- `Session`: a pair of tokens is named by the second it was issued in, as the JWTs are
  equal exactly then. `Queue`, `StartRefresh`, `Resend` are the interceptor of
  `axios.instance.ts` with its `isRefreshing` and its queue; `CheckRefresh`, `UpdateHash`
  the two halves of `refreshTokens`; `RefreshFailed` is any failure of the POST, which clears the
  storage, refused or not. What a tab no longer waits for is in `abandoned`, and the server may
  still finish it (`LateRequest`). `Elsewhere` is another browser of the same user.
- `Schedule`: `slots` and `drag` are the refs of the page, and every mouse handler is an
  action; the day has `DayEnd` units, of which a quarter of an hour is one. `findGap` walks the
  sorted neighbours; here the sort is the order `Before` of `Shifts`, and a step of the loop
  is the next slot in it.
- `ShiftRows`: DELETE and INSERT of one transaction are two steps, since at READ
  COMMITTED the DELETE sees what is committed when it begins.
- `Products`: `request[f]` is the call of a form, split at its awaits (check, write; find,
  set, unlink), each of which can be the last.
- `Catalogue`: a supplier of several organizations, with one store. `owner` says whose each
  product is, `screen` is where the user is (the list of an organization, a form opened from it,
  or away), `posts` the calls under way. An answer acts on the one list whichever organization
  it shows by then: `fetchByOrg` replaces it, `create` adds to it, a failed delete restores into
  it. The form that was left goes on: after a creation it reads the organization from the route
  as it is by then (`Made`), which is `NaN` unless a form of a new product is open, and the
  router keeps a list that it replaces by a list (`GoTo`), since both are the same view.
- `RoadSources`: `lookup[l]` is a call, at the cache, at a server or at the write to the
  cache; each can fail. `answered` is a history of what the servers said.

`Application` puts these nine side by side. No step of one reads a variable of another,
so their product would only multiply the states; `part` chooses the one that takes steps.
It is one run instead of nine, and every property of it speaks of one part.

## 3. Runs

| Run | Instance | Distinct states | Shows |
|---|---|---|---|
| `lifecycle` | 1 order, 2 couriers, 2 requests; `MaxEvents` 3 never binds | 93,276 | the seven properties of the requests |
| `events` | 2 events, 3 copies, 1 failure, 1 expiry | 757,050 | at most once, nothing lost, settled, refinement |
| `dispatch` | 1 order, 2 couriers, 1 request, 1 event, 2 copies, 1 failure, 1 expiry | 347,210 | no READY order forgotten; it is dispatched, and once per setting of the key |
| `dispatch_requests` | 1 order, 1 courier, 2 requests, 2 events, 2 copies | 2,181,411 | two rules of the requests survive the assignment |
| `courier_route` | 1 order, 2 couriers, 2 requests, 1 computation | 1,203,644 | the four causes of a stale route |
| `rebalance` | 1 order, 2 couriers, 1 request, 1 computation, 1 batch run, near or far couriers | 2,246,310 | routes under the batch job; what couriers have been told |
| `algorithms` | every input of a small kind (below) | 43,796 | assignment, plan, tours, routes, arrival times, fees |
| `application` | two of everything that can be confused | 1,702,250 | twelve properties of the nine parts |
| `supplier_delivers` | as `lifecycle` | violation | an order PICKED_UP with no courier |
| `cancel_race` | as `lifecycle` | violation | a cancel deletes an ACCEPTED order |
| `replay_skipped` | as `events` | violation | a replay taken for a duplicate |
| `late_assignment` | as `dispatch` | violation | an order PICKED_UP changes its courier |

### Why these bounds

Orders and events. Every read and write names one order, so the races are races over
one row, and one order suffices; the proofs cover the rest. Of two requests one can
stand between check and write while the other slot runs as many as it takes to move the
status twice, to reassign or to delete; three requests at once were checked with one
courier (885,508 states), and the proofs hold for any number. In `events` three copies
are two events and the second copy a cut-off replay leaves; two events show that one
never settles for the other. In `courier_route` two couriers are needed to move an order
away; there `SetCoordinates`, the histories and the feed play no part, and the VIEW leaves
them out (`MaxEvents` is 9 and is never reached by one order in a run that reads neither
`published` nor `shown`). In `rebalance` one request beside the run is what can overtake
it; with one slot per courier and distances of 1 and 60 a move is worth making or not,
and what the plan does with more orders than slots is the business of `algorithms`. Its
VIEW leaves out the same; of an order that is `disturbed` who has heard what, of the others who
was told and has missed the notice since; and `clients` while no move waits for its notices, as
a courier can connect and disconnect again after the UPDATE.

Algorithms. Cost matrices of 3 rows over 0..2 have every pattern of ties a path of two
rows can meet; four orders for one courier of three slots are one more than fit. Five
stops over distances 1 and 3, with `HELD_KARP_LIMIT` at 4 (12 in the code), are above the
limit and give 2-opt stretches to turn; trips of up to three orders stay below it and are
exact. The trips run over two ways of four known nodes and an unknown one, one-way or not,
and without a network; arrival times over two routes at once. Fees are taken within
10 of every tier boundary and of the maximum, in every rush hour, with no and with too few
couriers.

Application. Two orders, parcels, products, organizations, files, tabs with two calls each: a
second one is what an answer can be mistaken for, or a list be restored over. The bounds in the
guards are counts of things begun: `MaxMoves` 4 (requests and changes by others in `OrderList`),
`MaxSteps` 4 (the same and broken connections in `Deliveries`), `MaxPosts` 5 (the run holds with
6 too, with 4.0 million states in all), `MaxFiles` 3 uploads, `MaxSaves` 3 committed saves,
`MaxAsked` 2 quotes under way and orders together, `MaxOrders` 2, `MaxFetches` 2 lists of
orders, `MaxQuantity` 1 of a product, `MaxSlots` 2 by mouse besides those of the preset,
`MaxClock` 3 seconds with `AccessLife` 1 and `RefreshLife` 2 (an access token expires before its
refresh token, and that before the end), `MaxCalls` 2, `MaxAbandoned` 1 request that goes on
without its tab, `MaxAnswers` 2. Every property has a mutant that breaks it within these bounds.
The day of the calendar has three quarters of an hour on two days: room for two slots that
touch, or one with a gap on either side.

`MCApplication` has a VIEW and a SYMMETRY. The view replaces an order by its items and by
whether it goes wrong, and a token by whether it is still good: nothing else of them is read.
Once two tabs have raced it also drops `thrown`, `broken` and `loggedOut`, of which the
properties then ask nothing, and `abandoned`, which can then only change the hash as `Elsewhere`
does. The symmetry exchanges the two values of every pair of one group at once, which is sound
since no part tells them apart and only one part moves.

`MaxEvents` (a supplier may set READY_FOR_DELIVERY again when an overtaken write has put
the status back), `Copies`, `MaxFailures` (stops and cut-off replays) and `MaxForgotten` (key
expiries) bound the backend. `CHECK_DEADLOCK FALSE` everywhere: with nothing in flight
and every bound used up the system really stops, and an algorithm that has returned is done.

### Fairness

`FairSpec` and `FairDispatch` assume weak fairness of the consumer's own steps for each
copy: RabbitMQ pushes what is queued to a connected consumer, and Node runs a handler
whose await has been answered. Nothing is assumed of suppliers, of the administrator
(a dead letter may stay for ever), of a replay in progress, or of the requests.
`EventuallySettled` and `EventuallyDispatched` therefore end with the cases the code leaves
to people. In the browser nothing obliges an answer to come, so what one would like to
say as liveness is said of the states in which nothing is under way (`ListSettles`,
`DeliveriesSettle`, `CatalogueSettles`), and "no call waits for ever" as: what waits, waits
for a refresh that is under way (`NoCallStranded`).

## 4. Findings

1. `UnderwayHasCourier`: the documents give pickups and deliveries to the courier;
   `updateStatus` lets the supplier make them too, courier or not.
2. `OnlyPendingCancelled`: `cancel` deletes by id what it has checked by a read.
3. `SkippedWasHandled`: the key is set before the work and never removed, so a
   delivery that fails after it can be neither redelivered nor replayed.
4. `CourierChangesOnlyWhenReady`: the automatic assignment writes without a look at
   the status, which the manual one insists on.

`OnlyOvertakenWritesBreakTheRules`, `UnappliedIsExplained` and `StaleRouteHasCause` say the
other half: these, and the causes they name, are the only ways it goes wrong.

## 5. Where the properties stop

Many properties name the exception under which they fail. Each exception was found
by TLC, is a behaviour of the code, and no document promises otherwise. The list also has
what was seen while reading and lies outside the models.

- `LegsAgree`: `attachDurations` (`routing.service.ts:386`) times the first leg from the
  completed pickup, while its length is from the courier.
- `ItemsAddUp`: with rush hour and surge on an amount that ends on a half, both items
  round up, and the client sees one hryvnia more than the fee.
- `StoredApart`: two saves that overlap leave the union of their slots.
- `RouteStaleDuringRunOnly`, `AnnouncedIsMine`: a batch run tells the courier it has read that
  the order is gone, not the one it takes it from, and only if the gateway has a socket of
  theirs at that moment; nobody tells them later. A run that throws or is stopped between the
  UPDATE and the notices tells neither, and clears no route. A notice counts as heard when it is
  handed to the socket.
- `AtMostOncePerKey`, `AssignedOncePerKey`: the key expires after a day, and an event replayed
  later is applied once more.
- `PolishedTour` asks for symmetric distances: `twoOptRefine` compares two legs and turns
  all between them, which on one-way roads can lengthen the tour. It never moves the last stop.
- `RouteFollowsRoads` asks that some tour exist: with one unreachable stop Held-Karp returns
  the start alone, and all deliveries vanish from the route.
- `SourcesHonest` says "in one direction or the other": the key of `getDistanceKm` sorts the
  two places, so a one-way distance serves for the way back. An empty answer of Overpass is
  kept for seven days; the tag `oneway=-1` is read as two-way.
- The plan prices an order at a courier who has it with that order in the load and at
  slot 0: two couriers equally near can exchange an order at every run.
- `CartOrderedOnce`: leaving the page, or losing the answer, keeps the cart, which can be
  ordered again; an answer that comes later clears what was added since. The `loading` flag of
  `orders.store.ts` is one for all its calls, and the first answer resets it: with two lists of
  orders under way (the orders page opened twice before the checkout) the Place button comes
  back while the order is on its way, and the cart can be ordered twice. `PlacedWhereAddressed`:
  an answer of the geocoder after the address was edited sets the old coordinates; quotes
  carry no number, so an older answer can be the last.
- `SessionKept`: `axios.instance.ts:96` clears the storage whatever the refresh failed of, so a
  broken connection, a 5xx or a stop of the server ends a session whose refresh token is good
  (`broken`); a refresh, sign-in or log-out that failed at the browser and that the server
  finishes later changes the hash under the tokens that came after it. Two tabs that refresh at
  once log both out (the loser clears the storage, with the cart); a refresh answered after a
  logout brings the tokens back; check and UPDATE of `refreshTokens` are two steps.
- `ListSettles`: the automatic assignment (`courier-assignment.service.ts:156`) and the batch
  run (`batch-assignment.service.ts:116`) send the list nothing, so it shows no courier until it is
  fetched again; `order:created` leaves after two reads and `order:updated` after invalidations, a
  publish or a mail, so that two of one order can come in the wrong order, and none comes when the
  server stops in between. After a reconnect nothing is fetched again; an answer older than a
  message overwrites it; an undo, or a cancel that failed, restores a row the feed has changed or
  removed; a cancel whose answer is lost leaves a ghost row.
- `DeliveriesSettle`: `assignCourier` by hand tells neither courier; the disconnect of an old
  socket removes the entry of the new one (`courier.gateway.ts:96`).
- `SkusUnique`: no constraint of the table; `ImagesExist` holds, while files that belong to
  nothing can stay.
- `CatalogueSettles`: `products.store.ts:24` assigns whatever answer comes: the late answer to
  the fetch of one organization takes the place of the list of another, and all its products are
  `outdated` until the next fetch; a product made in a form of one organization is pushed into
  the list of another, and one whose deletion failed late is restored into it. After a creation
  whose form was left the router goes to the list of organization `NaN`, which cannot be
  fetched. A product made from a form that was left is shown twice (fetched and pushed); an
  update answered after an upload overwrites the image; `router.back()` after an update leaves
  whatever page the user is on; a SKU or category cannot be cleared.
- Schedule page: the buttons work while the schedule is loading, so Save before the answer,
  or after a failed load, stores an empty schedule.
- `useClientOrderEtas.ts:116`: a deep watch over a list that is changed in place compares an
  order with itself, so a change of status fetches no new context; the answer of a fetch can
  bring back the context of an order that was dropped.
- `signUp`: a mail that fails after the INSERT leaves an address that cannot sign up again.

## 6. Proofs

All constants are arbitrary. What is assumed of them is named in the modules that declare them,
and TLC evaluates it in the runs: `ConstantsAssumption` (every order has an organization, `None`
is neither an order nor a courier, `MaxEvents` is a natural number), `EventConstants` (the same
of events and copies), `DispatchConstants` (finitely many requests are in flight, and the bounds
are numbers), `DistancesAssumption` and `CapacityAssumption` (kilometres are natural numbers, a
courier has a slot), `SitesAssumption` (no longitude lies beyond 180 degrees),
`CheckoutConstants` (every product has an organization), `PayloadsAssumption` (what is sent has
the types and ranges of `SetShiftsDto`), `ScheduleConstants` (the preset is a slot, the days
filled are finite, and a stored schedule has no overlap, which is `StoredApart`: a schedule left
by two crossed saves is not an input of the calendar). `ListAssumption`, `ParcelsAssumption` and
`OffersAssumption` say that what stands for no order, parcel or product is none. Of the inputs
of the algorithms it is assumed that a matrix is square (`MatricesAssumption`; the code throws
otherwise), that the orders and the couriers of a batch run are rows with ids of their own, no
way is longer than 21,000 km (half the earth's circumference, and some) and no courier has more
than 400 orders with the slots (`BatchesAssumption`), and that a distance is no less than zero
and couriers can be counted (`FeesAssumption`). `Session`, `Products` and `Hungarian` assume
nothing.

`OrderLifecycleProofs`. `ChainRespected`, `CourierOnlyAfterReady`, `PublishedOnlyWhenReady` and
`ShownWasReal` are not inductive: a request between check and write is about to add to
the history. `HandlersInv` says what each request has seen and that it was true once
(the status it checked is in `held`, its target is the next of the table), `RowsInv` that
the row is in its histories. Histories only grow, so what a request has seen stays
seen however it is overtaken; that is the whole argument, and it is why the proof has
lemmas about three kinds of step: a request begins, a step that touches no row, a
write. The two action properties follow from `IInv` and the list of the actions that
write rows (`Writers`, `RowChanges`).

`OrderEventsProofs`. At most once per key rests on `CountInv`: effects done and under way
never exceed the settings of the key, which are its expiries plus its presence.
`WorkInv` (one copy working per event, key set) makes each new effect use up the one
setting. `KeptInv` strengthens `NothingLost`: the copy that is left is not one a replay
is about to drop. `ExplainedInv` and `AckedInv` follow an event from the key to its end.
The refinement maps each step to a step of `IdempotentEvents` or a stutter: steps at
which no work begins or ends stutter (`Calm`), `MarkSeen` takes up, `Apply`,
`LeaveUnassigned`, and the `Reject` of a working copy end, `Crash` ends all, `Forget`
makes fresh.

`ProductsProofs`. `ImagesExist` is not inductive: a handler that is about to unlink a file
found it long ago, and one that is about to set an image stored it long ago. The
invariant says what the requests hold in their local variables. `NamesInv`: names are given once,
below the counter. `UploadInv`: an upload that is not set yet is on disk and is no
product's image nor another request's. `FoundInv`: a handler at its unlink holds a name
that no product has any more, because the row was changed before, and no upload can
have again. So an unlink never takes an image, and every other step only adds files or
drops references.

In the same module `SkusUnique` needs `CheckedInv`: a save between its check and its write
still has no rival in the table, unless two saves with one SKU have crossed.

`DispatchProofs`. The composition is proved from its parts. Each of its steps is a step of the
queues or leaves them alone (`EventStep`, by which `DispatchRunsQueues`), so what
`OrderEventsProofs` shows of the queues holds here, cited through an INSTANCE of it
(`DispatchAtMostOnce`, `DispatchKeepsEvents`), and so does what they implement: the whole is the
idempotent delivery of `IdempotentEvents` (`DispatchRefinesOnce`). The assignment's write is one
more write to `IInv` of the orders, so their invariant, and with it `CourierOnlyAfterReady`,
`ChainRespected`, `PublishedOnlyWhenReady` and `ShownWasReal`, is kept by lemmas of
`OrderLifecycleProofs`. `AssignedOnceTheorem` combines both: a step that is no request's and
gives an order another courier can only be `SetBest`, which applies an event of that order once
more, and `AtMostOncePerKey` of the queues leaves no room for it unless the key has expired
since. For `NoReadyOrderForgotten` the invariant adds where every event stands: what is at the
broker was sent, what was sent was published (`SentInv`), and the order of an applied event has
had a courier, or is gone (`AppliedInv`). `WithinBound` counts the requests about to publish,
which is why they have to be finite in number.

`RebalanceProofs` begins with the routes alone. `StaleRouteHasCause` is not inductive, for a
computation stores what it read long ago. `QueryInv`: it holds the orders of now, or is marked
late. The induction is over one courier (`Kept`): a route that a step makes wrong has an excuse,
a request or a computation about to delete it or a recorded cause, and no step takes an excuse
from a wrong route (`ClearsStay`). The second half carries this to the batch job. `RunsInv`
keeps of a run's old read only that every order it moves was READY_FOR_DELIVERY once, so the
proof does not depend on what `BatchPlan` computes; `KeptBeside` adds the couriers a run has
still to clear to the excuses, and `NoticesInv` ties a notice to an order that exists or has
existed. For what the couriers have heard, `UntoldOK` says of every move that is written and not
told that the order still has the courier it was given and no other run has such a move of it,
unless the order is `disturbed`; so the notices, when they are sent, speak of the row as it is.
A move is a write of a courier to an order that was ready once, so the rules of the requests are
kept beside the runs as well (`BatchOrdersTheorem`, `BatchDeletedTheorem`).

`BrowserProofs`, the tokens. `OneAtATime`: while nothing has raced, one refresh, one logout or
one sign-in is under way in all tabs. `TokensAgree`: the server has the refresh token of
localStorage, or that of the refresh or the sign-in about to bring it there. The code checks
neither. `HashAgrees` holds until a request has failed without being refused, and `NothingLeft`
that only such a failure leaves a request behind that the server may still finish; `SessionKept`
follows from them. `NoCallStranded` is inductive with the types.

The lists of `OrderList`, `Deliveries` and `Catalogue` settle when nothing is under way; an
invariant has to say of every other moment what will be shown once everything has arrived.
`ListInv` does it by order: `Tells` orders the messages on their way (placed first, gone last,
the latest change equal to the row), `Replays` says that from these rows on the messages lead to
the row, `Brings` that a fetched list is such a beginning and that an answer of a change is the
latest row or has a later message behind it, `Carries` that a write, an emit and a lost message
keep all three, and `Kept` that the list itself is, or what an undo or a failed cancel would
restore, while one cancel at most holds the order back. All of this is claimed of orders that
are not `crossed`, and of a view that is `OnScreen`. `DeliveriesInv` is about the latest read
instead of messages, since a notice only makes the courier fetch: for an order that is not
`unseen` either something is on its way that brings another fetch (`Awaited`), or the last list
read, and, when none is unanswered, the one shown has its row (`RowsFollow`); and what is shown
as being delivered is delivered, waits for its five seconds or has its request under way
(`DeliveringFollows`). `EntryHolds` is why notices arrive: the gateway has the courier's present
connection unless an older one overlapped it.

`ProductsProofs` does the same for `CatalogueSettles` with `Held`: of a product of the open list's
organization that is not `outdated` and has no unread answer of a save, what is shown, what waits
to be deleted, and what a failed delete restores are its row; of one of another organization
nothing is shown and nothing waits (`InPlace`). Both are claimed only while the open list does not
wait for a fetch of its own, which replaces everything; the answer to another fetch makes every
product `outdated`, so of that nothing has to be claimed.

`AlgorithmProofs`, the fee. Rounding, multiplication by something positive, each tier, the load
multiplier and the clamp are monotone (`RoundMonotone`, `TierMonotone`, `LoadGrows`, `LoadShared`,
`ClampMonotone`), and `quote` is composed of them; the load of no couriers is the limit, so the last
courier makes no exception. For `ItemsAddUp` the two roundings are compared: each is off by
less than one, and by exactly a half together only in the named case.

`AlgorithmProofs`, the assignment. `HungarianOptimal` is proved along the loops. `Search` holds
after each turn for row i: the used columns form a tree (`Tree`) down which `way` leads to
column 0, each step to a smaller rank and along an edge at which the potentials meet the cost;
`minv` and `way` of a free column are those of the nearest used row (`Nearest`); the potentials stay
below the costs (`Feasible`) and meet them at the pairs (`Tight`). A turn uses a further
column, so n turns reach one without a row (`TurnsEnd`). The walk back is `Path`: all rows but
the one just lifted have a column, the free column moves to smaller ranks, and what lies ahead
has not moved; it ends at column 0 (`ShiftsEnd`), and `RowDone` holds of the next row
(`AddRowDone`, `TableDone`). Then the sum of the potentials is no more than the cost of any
bijection and is the cost of the one returned. That a sum does not depend on the order of its
terms (`ReorderedSum`) is itself an induction, over the number of terms.

`AlgorithmProofs`, the plan. The columns are a bijection, so no two orders share a slot, and
the slots of a courier are an interval of `CourierCapacity` columns (`ColumnOf`, `CapacityKept`). A
square matrix of as many columns as slots has none to spare, and any slot of any courier costs less than
850,000 while no courier costs 1,000,000: the saving is 15 % or more, and an
order without a courier is moved (`PairCostIs`, `OrdersPlaced`).

`ApplicationProofs`. `validateSlots` compares neighbours in the order of their beginnings, and
`NeighboursApart` shows that this is enough: of the slots that begin before another has ended
the first would be its neighbour. So `StoredApart` holds. For the calendar `GapCases` says where
`findGap` draws the line, from which a gap is free (`GapIsFree`) and has room for any slot
around its anchor that fits (`GapHolds`); the invariant keeps that the place a drag began in is
still free of the others (`DragOK`). `SourcesInv` says what a lookup holds at each of its steps
and that Redis has nothing that was not answered, but for entries that do not parse.
`CheckoutInv` has three parts: the coordinates are those of the address, or of an answer that
was late, and the quote follows from the last one asked (`FormOK`, `QuoteFollows`); every order
is of one seller and of a cart no newer than the present one (`OrdersOK`); and of a cart that is
not doubtful one order at most is on its way, the page waits for it, it has all of the cart, and
none has been stored before (`OnceInv`). `ApplicationTheorem` puts all nine parts together, with
their twelve invariants: only the part that is chosen moves, and the others stutter.

The induction theorems of the library take an operator and cannot be cited. Where a proof
needs an induction over numbers it takes the least number for which the claim fails
(`LeastNumber`), which the well-foundedness of `<` gives; and that a recursive function is
what its definition says (`TurnsIs`, `ShiftsIs`, `TableIs`, `SumIs`) is shown in the same way, from the
least number up to which there is no such function.

Proofs changed the model. `CartOrderedOnce` fails when three orders and two
lists are under way, which no run had room for: `fetching` was a flag, so that the second
list was not seen, and `doubtful` had no carts whose order another call's end had uncovered
(section 5). The box around a set of places needs longitudes that are such. `Deliveries`,
`OrderList` and `Catalogue` needed to say that the id of no row is the id of none, and the plan
that no order is loaded twice.

Only model-checked:

- `EventuallySettled`, `EventuallyDispatched`: the prover has no ENABLED.
- `PolishedTour`, `RouteFollowsRoads`, `LegsAgree`, `EtaFollowsRoutes`: `twoOptRefine`, the way back
  of `heldKarpExact` and `Settle` of Dijkstra are recursive operators, of which the first
  stops only when nothing improves, with no count that a recursive function could run over.
  TLC compares them with all tours and paths.

## 7. What the models assume and leave out

- Who may call what is given: a model starts where a handler's checks of identity
  have passed. A client cancels only its own order, and so on.
- Queues are durable and keep their content when the backend stops; the loss of an
  unconfirmed `emit` is in `Dispatch`, the loss of a broker with its disk is not.
- What a stopped process has not acknowledged goes back to the queue it came from.
- Nest sets no prefetch limit, so any number of deliveries are in progress.
- Ids are serial and never used again. Deleting an order that has a review is
  refused by a foreign key; the model has no reviews, so it allows the delete.
- A database call that fails ends its request with an error. To everything but the
  request's own slot that is a request which never takes its next step, and no run of
  the backend assumes that requests go on, so it is no action there. A failing Redis DEL
  is one, and in the browser's modules every call can fail.
- `shown` of `OrderLifecycle` is a list that is open from before the order and is never
  refetched; `OrderList` has the refetches, the lost messages and the answers.
- A socket delivers in order what it delivers; messages sent while it is down are lost.
- The supplier has no other browser or tab: `Catalogue` is one store. The client's
  `OrganizationView` fetches products into the same store, but under another account, and is left out.
- The automatic assignment and the batch job are not composed with each other: each is
  raced against the requests, which make the same kinds of writes.

Not modelled: **reviews** (one check and one INSERT that a unique constraint guards;
averages of real numbers), **mail** (I/O), **guards, controllers and schema**,
**the courier's speed and location history** (averages of real speeds with a fallback),
**sign-up and verification** (single checked writes followed by a mail), **approval of
organizations** (one UPDATE by the administrator), **the score of the automatic
assignment** (a weighted sum of real numbers on which no property depends), **the route
map and the simulation** (drawing, and a tool for development builds), **the refetching of
arrival times** (a matter of how the framework compares a watched value), and **the other
views**, which fetch on opening and show the answer.

## 8. Plan

1. `dijkstraWithPath` as a recursive function over the settled nodes, of which there are no
   more than there are nodes, and the proof that it finds the shortest ways.
2. `PathTo` of `heldKarpExact` in the same way, and the proof that its tour is a shortest one.
