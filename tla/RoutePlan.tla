------------------------------ MODULE RoutePlan ------------------------------
(***************************************************************************)
(* The route of a courier at one organization, as RoutingService            *)
(* .getOptimizedRoute() computes it from what it has read                   *)
(* (src/backend/src/modules/routing/routing.service.ts).                    *)
(*                                                                         *)
(* What it has read is [orders, org, loc, roads]: the orders as a sequence  *)
(* of [id, picked, at], the place of the organization, the last place of    *)
(* the courier or Nowhere, and the road network [nodes, ways] or NoRoads.   *)
(***************************************************************************)
EXTENDS RoadNetwork

Nowhere == 0 - 1
NoRoads == [nodes |-> <<>>, ways |-> <<>>]
Start   == 0 - 999999   \* COURIER_START_NODE_ID
Pickup  == 0 - 1        \* orgNodeId(orgId)

hasPendingPickup(trip) == \E i \in DOMAIN trip.orders : ~trip.orders[i].picked

\* The stops: where the courier is or the pickup, then the deliveries.
Stops(trip) ==
    LET startAt == IF trip.loc = Nowhere THEN trip.org ELSE trip.loc
    IN  << IF hasPendingPickup(trip) THEN [id |-> Pickup, at |-> trip.org]
           ELSE [id |-> Start, at |-> startAt] >>
        \o [i \in DOMAIN trip.orders |-> [id |-> trip.orders[i].id, at |-> trip.orders[i].at]]

\* The distances by road, or as the crow flies without a network.
Matrix(trip) ==
    LET places == [i \in DOMAIN Stops(trip) |-> Stops(trip)[i].at]
        snapped == [i \in DOMAIN places |-> findNearestNode(trip.roads.nodes, places[i]).id]
    IN  IF trip.roads.nodes = <<>>
        THEN [distances |-> buildHaversineMatrix(places), paths |-> NoRoads]
        ELSE computeOsmDistanceMatrix(buildOsmGraph(trip.roads.nodes, trip.roads.ways), snapped)

\* The waypoints for the tour of a matrix: the start of the courier is not one,
\* a pickup that is over is one in front, and completed.
Waypoints(trip, tour, distances) ==
    LET km(i) == IF i = 1 THEN 0 ELSE distances[tour[i - 1]][tour[i]]
        stop(i) == Stops(trip)[tour[i] + 1]
        all == [i \in DOMAIN tour |->
                   [type |-> IF stop(i).id = Pickup THEN "PICKUP" ELSE "DELIVERY",
                    order |-> stop(i).id, at |-> stop(i).at, completed |-> FALSE,
                    km |-> IF stop(i).id = Pickup THEN 0 ELSE km(i)]]
    IN  IF hasPendingPickup(trip) THEN all
        ELSE <<[type |-> "PICKUP", order |-> Pickup, at |-> trip.org, completed |-> TRUE,
                km |-> 0]>> \o Tail(all)

\* Mutant: every leg begins where the courier is.
TimedFromCourier(waypoints, loc) ==
    [i \in DOMAIN waypoints |-> IF waypoints[i].completed THEN Nowhere ELSE loc]

\* attachDurations: where the leg begins whose duration each waypoint gets.
TimedFrom(waypoints, loc) ==
    [i \in DOMAIN waypoints |->
        IF waypoints[i].completed THEN Nowhere
        ELSE IF i > 1 THEN waypoints[i - 1].at
        ELSE loc]

\* A segment is drawn for a leg of two nodes or more.
Geometry(tour, paths) ==
    {i \in 1..(Len(tour) - 1) : Len(paths[tour[i]][tour[i + 1]]) > 1}

Route(trip) ==
    LET matrix == Matrix(trip)
        tour == solveTSP(matrix.distances, 0)
        waypoints == Waypoints(trip, tour, matrix.distances)
    IN  [totalDistanceKm |-> routeLength(tour, matrix.distances),
         waypoints |-> waypoints,
         timedFrom |-> TimedFrom(waypoints, trip.loc),
         drawn |-> trip.roads.nodes # <<>> /\ Geometry(tour, matrix.paths) # {}]

-----------------------------------------------------------------------------
\* The time of arrival (orders.service.ts, getOrderEta)

\* The first of the active waypoints is as far as the crow flies from where the
\* courier is, or from the last active waypoint of the route before.
SegKm(routes, r, i, loc) ==
    LET active(k) == {j \in DOMAIN routes[k].waypoints : ~routes[k].waypoints[j].completed}
        before == {k \in 1..(r - 1) : active(k) # {}}
        last == LET k == Max(before) IN routes[k].waypoints[Max(active(k))].at
        wp == routes[r].waypoints[i]
    IN  IF i # Min(active(r)) THEN wp.km
        ELSE haversineKm(IF before = {} THEN loc ELSE last, wp.at)

\* Mutant: the loop begins anew with each route.
UpToInRoute(legs, x) == {y \in legs : y[1] = x[1] /\ y[2] <= x[2]}

\* The waypoints up to x, route after route.
UpTo(legs, x) == {y \in legs : y[1] < x[1] \/ (y[1] = x[1] /\ y[2] <= x[2])}

\* The distance and the deliveries before that of an order in the routes, or
\* nothing when it is in none of them.
Eta(routes, order, loc) ==
    LET legs == {<<r, i>> \in UNION {{r} \X DOMAIN routes[r].waypoints : r \in DOMAIN routes} :
                    ~routes[r].waypoints[i].completed}
        its == {x \in legs : routes[x[1]].waypoints[x[2]].order = order}
        km(y) == SegKm(routes, y[1], y[2], loc)
    IN  {[distanceKm |-> MapThenSumSet(km, UpTo(legs, x)),
          stopsAhead |-> Cardinality({y \in UpTo(legs, x) \ {x} :
              routes[y[1]].waypoints[y[2]].type = "DELIVERY"})] : x \in its}

-----------------------------------------------------------------------------
\* The same again in the browser (frontend/src/composables), from the routes that
\* were sent to it.  `first` is the way to the first stop by road, or Nowhere.

\* The waypoints that are not completed, each with whether it begins a route.
Active(routes) ==
    FoldLeft(LAMBDA legs, route :
                 LET left == SelectSeq(route.waypoints, LAMBDA w : ~w.completed)
                 IN  legs \o [i \in DOMAIN left |-> [wp |-> left[i], begins |-> i = 1]],
             <<>>, routes)

\* The first of them, to which the road is asked for (computeFirstSegment of
\* orders.gateway.ts, getOrderEtaContext of orders.service.ts).
FirstActive(routes) == IF Active(routes) = <<>> THEN Nowhere ELSE Active(routes)[1].wp.at

\* useClientOrderEtas.ts: one pass that stops at the order.
etaByOrder(routes, order, loc, first) ==
    LET leg(acc, l) ==
            LET km == IF ~l.begins THEN l.wp.km
                      ELSE IF acc.last = Nowhere /\ first # Nowhere THEN first
                      ELSE haversineKm(IF acc.last = Nowhere THEN loc ELSE acc.last, l.wp.at)
            IN  IF acc.found THEN acc
                ELSE [km |-> acc.km + km, last |-> l.wp.at, found |-> l.wp.order = order]
        end == FoldLeft(leg, [km |-> 0, last |-> Nowhere, found |-> FALSE], Active(routes))
    IN  IF end.found THEN {end.km} ELSE {}

\* useEta.ts: what the courier is shown at each of them; without a place the first
\* leg counts for nothing.
etaByWaypoint(routes, loc, first) ==
    LET legs == Active(routes)
        from(i) == IF i = 1 THEN loc ELSE legs[i - 1].wp.at
        km(i) == IF ~legs[i].begins THEN legs[i].wp.km
                 ELSE IF i = 1 /\ first # Nowhere THEN first
                 ELSE IF from(i) = Nowhere THEN 0
                 ELSE haversineKm(from(i), legs[i].wp.at)
    IN  [i \in DOMAIN legs |->
            [order |-> legs[i].wp.order,
             km |-> FoldLeft(+, 0, [j \in 1..i |-> km(j)])]]

=============================================================================
