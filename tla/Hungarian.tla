----------------------------- MODULE Hungarian -----------------------------
(***************************************************************************)
(* The assignment algorithm of the batch job, hungarian() of                *)
(* src/backend/src/modules/courier-assignment/hungarian.ts: rows are added  *)
(* one by one, each along a shortest augmenting path that is found with the *)
(* potentials u and v.  Rows and columns count from 1, as in the tables of  *)
(* the code; column 0 is where a path begins.                               *)
(***************************************************************************)
EXTENDS Integers, FiniteSets, FiniteSetsExt

\* Mutant: the potential of the column is left out.
ReducedByRow(cost, s, i, j) == cost[i][j] - s.u[i]

Reduced(cost, s, i, j) == cost[i][j] - s.u[i] - s.v[j]

\* The columns that are left when j0 is used up.
Free(n, s) == (1..n) \ (s.used \cup {s.j0})

\* The row of j0 is nearer to column j than those before it; minv is infinite
\* before the first turn.
Nearer(cost, s, j) == s.used = {} \/ Reduced(cost, s, s.p[s.j0], j) < s.minv[j]

Minv(cost, s, j) == IF Nearer(cost, s, j) THEN Reduced(cost, s, s.p[s.j0], j) ELSE s.minv[j]

\* One turn of the inner loop: column j0 is used up, the rows reached from it
\* improve minv, and the potentials move until another column is reached.
Reach(cost, n, s) ==
    LET used  == s.used \cup {s.j0}
        free  == Free(n, s)
        minv  == [j \in free |-> Minv(cost, s, j)]
        delta == Min({minv[j] : j \in free})
    IN  [s EXCEPT
            !.used = used,
            !.way  = [j \in 1..n |-> IF j \in free /\ Nearer(cost, s, j) THEN s.j0 ELSE s.way[j]],
            !.u    = [i \in 1..n |-> IF \E j \in used : s.p[j] = i
                                     THEN s.u[i] + delta ELSE s.u[i]],
            !.v    = [j \in 0..n |-> IF j \in used THEN s.v[j] - delta ELSE s.v[j]],
            !.minv = [j \in 1..n |-> IF j \in free THEN minv[j] - delta ELSE s.minv[j]],
            !.j0   = Min({j \in free : minv[j] = delta})]

\* The turns, until a column without a row is reached.
Turn(cost, n, s) == IF s.p[s.j0] = 0 THEN s ELSE Reach(cost, n, s)

Turns(cost, n, first) ==
    LET turn[k \in 0..n] == IF k = 0 THEN first ELSE Turn(cost, n, turn[k - 1]) IN turn

\* One row of the path moves one column on, and its own is free.
Shift(s, way) ==
    IF s.j = 0 THEN s
    ELSE [p |-> [s.p EXCEPT ![s.j] = s.p[way[s.j]]], j |-> way[s.j]]

\* The rows of the path move, back to column 0.
Shifts(n, p, way, j) ==
    LET shift[k \in 0..(n + 1)] == IF k = 0 THEN [p |-> p, j |-> j] ELSE Shift(shift[k - 1], way)
    IN  shift

\* Row i, added to the state of the rows before it.
AddRow(cost, n, s, i) ==
    LET last == Turns(cost, n, [s EXCEPT !.p[0] = i, !.j0 = 0, !.used = {}])[n]
    IN  [last EXCEPT !.p = Shifts(n, last.p, last.way, last.j0)[n + 1].p]

Table(cost, n) ==
    LET start == [u |-> [i \in 1..n |-> 0], v |-> [j \in 0..n |-> 0],
                  p |-> [j \in 0..n |-> 0], way |-> [j \in 1..n |-> 0],
                  minv |-> [j \in 1..n |-> 0], used |-> {}, j0 |-> 0]
        rows[i \in 0..n] == IF i = 0 THEN start ELSE AddRow(cost, n, rows[i - 1], i)
    IN  rows

\* The column of each row of a square matrix.
hungarian(cost, n) ==
    LET p == Table(cost, n)[n].p IN [i \in 1..n |-> CHOOSE j \in 1..n : p[j] = i]

=============================================================================
