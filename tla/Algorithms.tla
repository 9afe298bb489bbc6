----------------------------- MODULE Algorithms -----------------------------
(***************************************************************************)
(* The algorithms of the backend, called once on each of a set of inputs:   *)
(* those of Decisions, the 2-opt polish, and the routes of a courier with   *)
(* the arrival times taken from them.                                       *)
(***************************************************************************)
EXTENDS Decisions, RoutePlan

CONSTANTS
    Symmetric,    \* symmetric distance matrices for solveTSP
    Trips         \* sequences of what a courier has to do at each organization

Polish == \E m \in Symmetric : Call("solveTSP", m, solveTSP(m, 0))

\* getOptimizedRoute: a route for each organization.
GetRoutes == \E t \in Trips : Call("routes", t, [i \in DOMAIN t |-> Route(t[i])])

Next == Decide \/ Polish \/ GetRoutes

Spec == Init /\ [][Next]_call

-----------------------------------------------------------------------------
\* Properties

\* On symmetric distances the polish ends with a tour of all stops that is no
\* longer than the greedy one, and that turning no stretch of it between the
\* start and the last stop would make shorter.
PolishedTour ==
    call.fn = "solveTSP" =>
        LET m == call.input
            tour == call.output
            n == Len(tour)
        IN  /\ tour[1] = 0
            /\ IsInjective(tour) /\ ToSet(tour) = DOMAIN m
            /\ routeLength(tour, m) <= routeLength(greedyNearestNeighbor(m, 0), m)
            /\ \A p \in 1..(n - 2) : \A q \in (p + 2)..(n - 1) :
                  routeLength(tour, m) <= routeLength(reverseInPlace(tour, p, q), m)

-----------------------------------------------------------------------------
\* Routes

\* The shortest way by road, from the roads alone: n legs suffice for n nodes.
RECURSIVE ByRoad(_, _, _, _)
ByRoad(roads, legs, a, b) ==
    LET at(id) == (CHOOSE n \in ToSet(roads.nodes) : n.id = id).at
        known == {n.id : n \in ToSet(roads.nodes)}
        joined(x, y) == \E w \in ToSet(roads.ways) : \E i \in 1..(Len(w.nodes) - 1) :
                            \/ w.nodes[i] = x /\ w.nodes[i + 1] = y
                            \/ ~w.oneway /\ w.nodes[i] = y /\ w.nodes[i + 1] = x
    IN  IF a = b THEN 0
        ELSE IF legs = 0 THEN Unreachable
        ELSE Min({Unreachable} \cup
                 {haversineKm(at(a), at(x)) + ByRoad(roads, legs - 1, x, b) :
                     x \in {y \in known : joined(a, y)}})

\* The places of the route of a trip: where it begins, then the deliveries in
\* some order.
Tours(trip) ==
    LET from == IF hasPendingPickup(trip) \/ trip.loc = Nowhere THEN trip.org ELSE trip.loc
    IN  {<<from>> \o [i \in DOMAIN trip.orders |-> trip.orders[f[i]].at] :
            f \in Permutations(DOMAIN trip.orders)}

TourKm(trip, places) ==
    LET node(p) == findNearestNode(trip.roads.nodes, p).id
        km(p, q) == IF trip.roads.nodes = <<>> THEN haversineKm(p, q)
                    ELSE ByRoad(trip.roads, Len(trip.roads.nodes), node(p), node(q))
    IN  FoldLeft(+, 0, [i \in 1..(Len(places) - 1) |-> km(places[i], places[i + 1])])

\* As long as the roads lead through all of them in some order, the route of a
\* courier begins with the pickup, comes once to every order, is as short as
\* the roads allow, and the distances of its waypoints add up to its length.
RouteFollowsRoads ==
    call.fn = "routes" =>
        \A i \in DOMAIN call.input :
            LET trip == call.input[i]
                route == call.output[i]
                stops == route.waypoints
                best == Min({TourKm(trip, t) : t \in Tours(trip)})
            IN  Finite(best) =>
                  /\ stops[1].type = "PICKUP"
                  /\ IsInjective([j \in DOMAIN stops |-> stops[j].order])
                  /\ {stops[j].order : j \in DOMAIN stops} =
                         {Pickup} \cup {o.id : o \in ToSet(trip.orders)}
                  /\ route.totalDistanceKm = best
                  /\ FoldLeft(+, 0, [j \in DOMAIN stops |-> stops[j].km]) = best

\* The duration of a waypoint is that of the leg whose length it has, except
\* where the pickup is over: there the length of the first leg is from the
\* courier, and its duration from the pickup.
LegsAgree ==
    call.fn = "routes" =>
        \A i \in DOMAIN call.input :
            LET trip == call.input[i]
                stops == call.output[i].waypoints
                from == call.output[i].timedFrom
            IN  \A j \in DOMAIN stops :
                    trip.roads.nodes = <<>> /\ j > 1 =>
                        \/ stops[j].km = haversineKm(from[j], stops[j].at)
                        \/ j = 2 /\ stops[1].completed

\* The orders of a courier are reached one after the other: each has as many
\* deliveries ahead as come before it, and none is further away than a later one.
\* The client and the courier are shown what the server computes, and as much more
\* or less for every order as the road to the first stop differs from the straight
\* line.
EtaFollowsRoutes ==
    call.fn = "routes" =>
        LET routes == call.output
            orders == UNION {{o.id : o \in ToSet(call.input[i].orders)} : i \in DOMAIN call.input}
            loc == call.input[1].loc
            eta(o) == Eta(routes, o, loc)
            known == {o \in orders : eta(o) # {}}
            the(o) == CHOOSE e \in eta(o) : TRUE
            byRoad == 7
            more == byRoad - haversineKm(loc, FirstActive(routes))
            shown(first) == ToSet(etaByWaypoint(routes, loc, first))
        IN  loc # Nowhere =>
              /\ {the(o).stopsAhead : o \in known} = 0..(Cardinality(known) - 1)
              /\ \A o, p \in known : the(o).stopsAhead < the(p).stopsAhead =>
                                        the(o).distanceKm <= the(p).distanceKm
              /\ \A o \in known :
                    /\ etaByOrder(routes, o, loc, Nowhere) = {the(o).distanceKm}
                    /\ etaByOrder(routes, o, loc, byRoad) = {the(o).distanceKm + more}
                    /\ [order |-> o, km |-> the(o).distanceKm] \in shown(Nowhere)
                    /\ [order |-> o, km |-> the(o).distanceKm + more] \in shown(byRoad)
              /\ \A o \in orders \ known : etaByOrder(routes, o, loc, Nowhere) = {}

=============================================================================
