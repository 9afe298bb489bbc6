---------------------------- MODULE RoadSources -----------------------------
(***************************************************************************)
(* Where distances and road networks come from: getDistanceKm() of          *)
(* src/backend/src/modules/pricing/road-distance.service.ts, which asks     *)
(* OSRM, and fetchRoadNetwork() of src/backend/src/modules/routing/         *)
(* osm.service.ts, which asks three servers of Overpass in turn.  Both keep *)
(* the answers in Redis, and do without the servers and without Redis when  *)
(* they fail.                                                               *)
(***************************************************************************)
EXTENDS Integers, FiniteSets, FiniteSetsExt

CONSTANTS
    Sites,        \* places on a line, in hundredths of a degree
    Lookups,      \* calls that can be under way at once
    MaxAnswers    \* bound: different answers of the servers

\* No longitude is beyond 180 degrees.
West == 0 - 18000
East == 18000

ASSUME SitesAssumption == Sites \subseteq West..East

VARIABLES
    lookup,       \* the calls
    kmCache,      \* what Redis has for two places
    boxCache,     \* what Redis has for a box
    answered      \* history: what the servers answered, [ends, km] and [box, network]

sourceVars == <<lookup, kmCache, boxCache, answered>>

Miss     == [km |-> 0 - 1, timed |-> FALSE]
BadEntry == [km |-> 0 - 2, timed |-> FALSE]
BBOX_PADDING == 3
CACHE_GRID   == 5
OVERPASS_ENDPOINTS == 3
TooNear == 2          \* the 50 m below which nobody is asked

Crow(a, b) == IF a < b THEN b - a ELSE a - b

\* The box with its edges on the grid.
computeBoundingBox(points) ==
    LET floor(x) == (x \div CACHE_GRID) * CACHE_GRID
    IN  [min |-> floor(Min(points) - BBOX_PADDING),
         max |-> 0 - floor(0 - (Max(points) + BBOX_PADDING))]

PointSets == (SUBSET Sites) \ {{}}
Boxes == {computeBoundingBox(points) : points \in PointSets}
Ends  == {{p[1], p[2]} : p \in {q \in Sites \X Sites : Crow(q[1], q[2]) >= TooNear}}

\* What the servers can answer: the way by road, and the elements of the map.
RoadKm(a, b) == {Crow(a, b), Crow(a, b) + 1}

Elements ==
    {{}, {[type |-> "node", placed |-> TRUE], [type |-> "node", placed |-> FALSE],
          [type |-> "way", tag |-> "yes"], [type |-> "way", tag |-> "-1"]}}

\* The nodes that have coordinates, the ways with whether they lead one way only.
Network(elements) ==
    [nodes |-> {e \in elements : e.type = "node" /\ e.placed},
     ways  |-> {[tag |-> e.tag, oneway |-> e.tag \in {"yes", "1"}] :
                    e \in {x \in elements : x.type = "way"}}]

Idle == [pc |-> "idle"]

SourcesInit ==
    /\ lookup = [l \in Lookups |-> Idle]
    /\ boxCache = [b \in Boxes |-> Miss]
    /\ \E old \in {Miss, BadEntry, [km |-> 1, timed |-> FALSE]}, ends \in Ends :
          /\ kmCache = [[e \in Ends |-> Miss] EXCEPT ![ends] = old]
          /\ answered = IF old \in {Miss, BadEntry} THEN {} ELSE {[ends |-> ends, km |-> 1]}

Answers(new) ==
    /\ answered' = answered \cup {new}
    /\ Cardinality(answered') <= MaxAnswers

Step(l, next) == lookup' = [lookup EXCEPT ![l] = next]

Returned(l) == [lookup[l] EXCEPT !.pc = "done"]

-----------------------------------------------------------------------------
\* getDistanceKm

Estimate(a, b) ==
    [pc |-> "done", fn |-> "km", a |-> a, b |-> b, km |-> Crow(a, b), timed |-> FALSE,
     source |-> "haversine"]

getDistanceKm(l, a, b) ==
    /\ lookup[l].pc \in {"idle", "done"}
    /\ Step(l, [Estimate(a, b) EXCEPT !.pc = IF Crow(a, b) < TooNear THEN "done" ELSE "read"])
    /\ UNCHANGED <<kmCache, boxCache, answered>>

\* The key sorts the two places; a read that fails, or an entry that cannot be
\* parsed, is a miss.  An entry of the old form has no duration.
ReadKm(l) ==
    LET r == lookup[l]
        entry == kmCache[{r.a, r.b}]
    IN
    /\ r.pc = "read" /\ r.fn = "km"
    /\ \/ Step(l, [r EXCEPT !.pc = "ask"])
       \/ /\ entry \notin {Miss, BadEntry}
          /\ Step(l, [r EXCEPT !.pc = "done", !.source = "osrm",
                               !.km = entry.km, !.timed = entry.timed])
    /\ UNCHANGED <<kmCache, boxCache, answered>>

\* Mutant: an estimate is kept like an answer.
AfterAnyAnswer(found) == "write"

\* Only what OSRM answered is kept.
AfterOsrm(found) == IF found THEN "write" ELSE "done"

\* No answer in time, an error, no route or a bad number: the estimate stays.
queryOsrm(l) ==
    LET r == lookup[l] IN
    /\ r.pc = "ask" /\ r.fn = "km"
    /\ \/ \E km \in RoadKm(r.a, r.b) :
             /\ Step(l, [r EXCEPT !.pc = AfterOsrm(TRUE), !.source = "osrm",
                                  !.km = km, !.timed = TRUE])
             /\ Answers([ends |-> {r.a, r.b}, km |-> km])
       \/ Step(l, [r EXCEPT !.pc = AfterOsrm(FALSE)]) /\ UNCHANGED answered
    /\ UNCHANGED <<kmCache, boxCache>>

WriteKm(l) ==
    LET r == lookup[l] IN
    /\ r.pc = "write" /\ r.fn = "km"
    /\ Step(l, Returned(l))
    /\ \/ kmCache' = [kmCache EXCEPT ![{r.a, r.b}] = [km |-> r.km, timed |-> r.timed]]
       \/ UNCHANGED kmCache
    /\ UNCHANGED <<boxCache, answered>>

-----------------------------------------------------------------------------
\* fetchRoadNetwork, for the box of the stops of a route

fetchRoadNetwork(l, points) ==
    /\ lookup[l].pc \in {"idle", "done"}
    /\ Step(l, [pc |-> "read", fn |-> "box", points |-> points,
                box |-> computeBoundingBox(points), endpoint |-> 1, network |-> Miss])
    /\ UNCHANGED <<kmCache, boxCache, answered>>

ReadBox(l) ==
    LET r == lookup[l] IN
    /\ r.pc = "read" /\ r.fn = "box"
    /\ \/ Step(l, [r EXCEPT !.pc = "ask"])
       \/ /\ boxCache[r.box] # Miss
          /\ Step(l, [r EXCEPT !.pc = "done", !.network = boxCache[r.box]])
    /\ UNCHANGED <<kmCache, boxCache, answered>>

\* A server that fails is followed by the next; after the last there is no network.
AskOverpass(l) ==
    LET r == lookup[l] IN
    /\ r.pc = "ask" /\ r.fn = "box"
    /\ \/ \E elements \in Elements :
             /\ Step(l, [r EXCEPT !.pc = "write", !.network = Network(elements)])
             /\ Answers([box |-> r.box, network |-> Network(elements)])
       \/ /\ Step(l, IF r.endpoint = OVERPASS_ENDPOINTS THEN Returned(l)
                     ELSE [r EXCEPT !.endpoint = @ + 1])
          /\ UNCHANGED answered
    /\ UNCHANGED <<kmCache, boxCache>>

WriteBox(l) ==
    LET r == lookup[l] IN
    /\ r.pc = "write" /\ r.fn = "box"
    /\ Step(l, Returned(l))
    /\ \/ boxCache' = [boxCache EXCEPT ![r.box] = r.network]
       \/ UNCHANGED boxCache
    /\ UNCHANGED <<kmCache, answered>>

-----------------------------------------------------------------------------
\* Redis forgets: after 30 and after 7 days, or when it is emptied.
Forget ==
    /\ \/ \E e \in Ends : kmCache' = [kmCache EXCEPT ![e] = Miss] /\ UNCHANGED boxCache
       \/ \E b \in Boxes : boxCache' = [boxCache EXCEPT ![b] = Miss] /\ UNCHANGED kmCache
    /\ UNCHANGED <<lookup, answered>>

SourcesNext ==
    \/ Forget
    \/ \E l \in Lookups :
          \/ \E a, b \in Sites : getDistanceKm(l, a, b)
          \/ ReadKm(l) \/ queryOsrm(l) \/ WriteKm(l)
          \/ \E points \in PointSets : fetchRoadNetwork(l, points)
          \/ ReadBox(l) \/ AskOverpass(l) \/ WriteBox(l)

SourcesSpec == SourcesInit /\ [][SourcesNext]_sourceVars

-----------------------------------------------------------------------------
\* What is given out as a distance by road was once answered by OSRM for these two
\* places, in one direction or the other, and an estimate is never taken for one;
\* a road network is one that a server answered for a box with all the places in
\* it.  So it is with the cache in between, whichever calls, servers and accesses
\* to Redis fail.
SourcesHonest ==
    \A l \in Lookups : lookup[l].pc = "done" =>
        LET r == lookup[l] IN
        IF r.fn = "km"
        THEN IF r.source = "osrm" THEN [ends |-> {r.a, r.b}, km |-> r.km] \in answered
             ELSE r.km = Crow(r.a, r.b) /\ ~r.timed
        ELSE /\ r.network # Miss => [box |-> r.box, network |-> r.network] \in answered
             /\ \A p \in r.points : r.box.min <= p - BBOX_PADDING /\ p + BBOX_PADDING <= r.box.max

=============================================================================
