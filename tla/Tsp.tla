-------------------------------- MODULE Tsp --------------------------------
(***************************************************************************)
(* The order of the stops of a route: src/backend/src/modules/routing/     *)
(* tsp-solvers.ts.  A matrix is a function of functions over 0 .. n-1, and  *)
(* a route a sequence of stops.                                             *)
(***************************************************************************)
EXTENDS Integers, Sequences, SequencesExt, FiniteSetsExt

CONSTANT HELD_KARP_LIMIT   \* 12 in the code: up to here the route is exact

Unreachable == 1000        \* Infinity: no way leads from one stop to the other

Finite(d) == d < Unreachable

\* reduce over the legs; Infinity absorbs
routeLength(route, matrix) ==
    LET legs == [i \in 1..(Len(route) - 1) |-> matrix[route[i]][route[i + 1]]]
    IN  IF \E i \in DOMAIN legs : ~Finite(legs[i]) THEN Unreachable
        ELSE FoldLeft(+, 0, legs)

\* The first of the stops that minimise a distance.
First(S, dist(_)) == Min({v \in S : \A w \in S : dist(v) <= dist(w)})

RECURSIVE NearestNeighbors(_, _, _)
NearestNeighbors(matrix, current, left) ==
    LET near == {v \in left : Finite(matrix[current][v])}
        dist(v) == matrix[current][v]
        best == First(near, dist)
    IN  IF near = {} THEN <<>>
        ELSE <<best>> \o NearestNeighbors(matrix, best, left \ {best})

greedyNearestNeighbor(matrix, start) ==
    <<start>> \o NearestNeighbors(matrix, start, DOMAIN matrix \ {start})

-----------------------------------------------------------------------------
\* 2-opt

\* The pairs of legs, as the two loops take them: legs (p, p+1) and (q, q+1).
\* Mutant: the last leg is never one of them.
LegPairsButLast(n) ==
    FlattenSeq([p \in 1..(n - 3) |-> [k \in 1..(n - 3 - p) |-> <<p, p + 1 + k>>]])

LegPairs(n) ==
    FlattenSeq([p \in 1..(n - 2) |-> [k \in 1..(n - 2 - p) |-> <<p, p + 1 + k>>]])

\* delta < 0, where Infinity - Infinity is not a number
Shortens(matrix, a, b, c, d) ==
    /\ Finite(matrix[a][c]) /\ Finite(matrix[b][d])
    /\ matrix[a][c] + matrix[b][d] < matrix[a][b] + matrix[c][d]

\* The stops from p + 1 to q in the other direction.
reverseInPlace(r, p, q) ==
    [i \in DOMAIN r |-> IF i \in (p + 1)..q THEN r[p + 1 + q - i] ELSE r[i]]

\* One turn of the outer loop.
Sweep(route, matrix) ==
    LET try(s, e) ==
            LET r == s.route IN
            IF Shortens(matrix, r[e[1]], r[e[1] + 1], r[e[2]], r[e[2] + 1])
            THEN [route |-> reverseInPlace(r, e[1], e[2]), improved |-> TRUE]
            ELSE s
    IN  FoldLeft(try, [route |-> route, improved |-> FALSE], LegPairs(Len(route)))

\* while (improved): on a matrix that is not symmetric this need not end.
RECURSIVE twoOptRefine(_, _)
twoOptRefine(route, matrix) ==
    LET s == Sweep(route, matrix)
    IN  IF s.improved THEN twoOptRefine(s.route, matrix) ELSE s.route

-----------------------------------------------------------------------------
\* Held-Karp

\* dp[S, i]: the shortest way from start through all of S that ends at i.
DpTable(matrix, start) ==
    LET dp[S \in SUBSET DOMAIN matrix, i \in DOMAIN matrix] ==
            IF S = {start} /\ i = start THEN 0
            ELSE IF start \notin S \/ i \notin S \/ i = start THEN Unreachable
            ELSE Min({Unreachable} \cup
                     {dp[S \ {i}, last] + matrix[last][i] : last \in S \ {i}})
    IN  dp

\* Mutant: the stop nearest to i comes before it.
NearestParent(dp, matrix, S, i) ==
    LET cost(last) == matrix[last][i] IN First(S \ {i}, cost)

\* parent[S, i]: the first stop that gives dp[S, i] its value.
Parent(dp, matrix, S, i) ==
    LET cost(last) == dp[S \ {i}, last] + matrix[last][i] IN First(S \ {i}, cost)

RECURSIVE PathTo(_, _, _, _, _)
PathTo(dp, matrix, start, S, i) ==
    IF i = start THEN <<start>>
    ELSE Append(PathTo(dp, matrix, start, S \ {i}, Parent(dp, matrix, S, i)), i)

heldKarpExact(matrix, start) ==
    LET all == DOMAIN matrix
        dp  == DpTable(matrix, start)
        end(i) == dp[all, i]
        ends == {i \in all \ {start} : Finite(dp[all, i])}
    IN  IF ends = {} THEN <<start>>
        ELSE PathTo(dp, matrix, start, all, First(ends, end))

\* The limit and the four stops 2-opt needs are both in solveTSP's reach.
solveTSP(matrix, start) ==
    LET n == Cardinality(DOMAIN matrix)
        greedy == greedyNearestNeighbor(matrix, start)
    IN  IF n <= HELD_KARP_LIMIT THEN heldKarpExact(matrix, start)
        ELSE IF Len(greedy) < 4 THEN greedy
        ELSE twoOptRefine(greedy, matrix)

=============================================================================
