----------------------------- MODULE RoadNetwork -----------------------------
(***************************************************************************)
(* The ways between the stops of a route: src/backend/src/modules/routing/ *)
(* dijkstra.ts.  Places lie on a line, so that the distance of two of them  *)
(* is what haversineKm is to the code: symmetric, and zero from a place to  *)
(* itself.  A node is [id, at], a way [nodes, oneway].                      *)
(***************************************************************************)
EXTENDS Tsp

haversineKm(a, b) == IF a < b THEN b - a ELSE a - b

-----------------------------------------------------------------------------
\* The priority queue, a sequence of [id, dist]

Swapped(heap, i, j) == [heap EXCEPT ![i] = heap[j], ![j] = heap[i]]

RECURSIVE bubbleUp(_, _)
bubbleUp(heap, i) ==
    LET up == i \div 2
    IN  IF i = 1 \/ heap[up].dist <= heap[i].dist THEN heap
        ELSE bubbleUp(Swapped(heap, i, up), up)

RECURSIVE siftDown(_, _)
siftDown(heap, i) ==
    LET smaller(j, k) == IF k <= Len(heap) /\ heap[k].dist < heap[j].dist THEN k ELSE j
        smallest == smaller(smaller(i, 2 * i), 2 * i + 1)
    IN  IF smallest = i THEN heap
        ELSE siftDown(Swapped(heap, i, smallest), smallest)

push(heap, item) == bubbleUp(Append(heap, item), Len(heap) + 1)

\* What pop leaves behind; the item is heap[1].
popped(heap) ==
    IF Len(heap) = 1 THEN <<>>
    ELSE siftDown([Front(heap) EXCEPT ![1] = Last(heap)], 1)

-----------------------------------------------------------------------------
\* The graph

\* The legs of the ways between nodes that are known, in both directions unless
\* the way is oneway.
buildOsmGraph(nodes, ways) ==
    LET at == [id \in {n.id : n \in ToSet(nodes)} |->
                  (CHOOSE n \in ToSet(nodes) : n.id = id).at]
        link(adj, a, b) ==
            [adj EXCEPT ![a] = Append(@, [to |-> b, weight |-> haversineKm(at[a], at[b])])]
        add(adj, way) ==
            LET step(g, i) == LET a == way.nodes[i]
                                  b == way.nodes[i + 1]
                              IN  IF ~({a, b} \subseteq DOMAIN at) THEN g
                                  ELSE IF way.oneway THEN link(g, a, b)
                                  ELSE link(link(g, a, b), b, a)
            IN  FoldLeft(step, adj, [i \in 1..(Len(way.nodes) - 1) |-> i])
    IN  FoldLeft(add, [id \in DOMAIN at |-> <<>>], ways)

findNearestNode(nodes, place) ==
    LET km(i) == haversineKm(nodes[i].at, place) IN nodes[First(DOMAIN nodes, km)]

-----------------------------------------------------------------------------
\* Dijkstra

\* An edge of u: a shorter way to its end is noted and queued.
Relax(s, u, edge) ==
    LET alt == s.distances[u] + edge.weight
    IN  IF alt < s.distances[edge.to]
        THEN [distances |-> [s.distances EXCEPT ![edge.to] = alt],
              prev |-> [s.prev EXCEPT ![edge.to] = u],
              pq |-> push(s.pq, [id |-> edge.to, dist |-> alt])]
        ELSE s

RECURSIVE Settle(_, _)
Settle(s, adj) ==
    LET u == s.pq[1].id
        rest == [s EXCEPT !.pq = popped(s.pq)]
        relax(t, edge) == Relax(t, u, edge)
    IN  IF s.pq = <<>> THEN s
        ELSE IF s.pq[1].dist > s.distances[u] THEN Settle(rest, adj)
        ELSE Settle(FoldLeft(relax, rest, adj[u]), adj)

NoNode == 0

dijkstraWithPath(adj, source) ==
    Settle([distances |-> [id \in DOMAIN adj |-> IF id = source THEN 0 ELSE Unreachable],
            prev |-> [id \in DOMAIN adj |-> NoNode],
            pq |-> <<[id |-> source, dist |-> 0]>>], adj)

RECURSIVE reconstructPath(_, _)
reconstructPath(prev, target) ==
    IF target = NoNode THEN <<>> ELSE Append(reconstructPath(prev, prev[target]), target)

-----------------------------------------------------------------------------
\* The matrices over the stops 0 .. n-1, given as a sequence

computeOsmDistanceMatrix(adj, ids) ==
    LET stops == 0..(Len(ids) - 1)
        from == [i \in stops |-> dijkstraWithPath(adj, ids[i + 1])]
        km(i, j) == IF i = j THEN 0 ELSE from[i].distances[ids[j + 1]]
    IN  [distances |-> [i \in stops |-> [j \in stops |-> km(i, j)]],
         paths |-> [i \in stops |-> [j \in stops |->
             IF i = j THEN <<ids[i + 1]>>
             ELSE IF Finite(km(i, j)) THEN reconstructPath(from[i].prev, ids[j + 1])
             ELSE <<>>]]]

buildHaversineMatrix(places) ==
    LET stops == 0..(Len(places) - 1)
    IN  [i \in stops |-> [j \in stops |-> haversineKm(places[i + 1], places[j + 1])]]

=============================================================================
