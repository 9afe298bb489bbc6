---------------------------- MODULE MCRebalance ----------------------------
(***************************************************************************)
(* One order, two couriers, one request, one route computation and one run  *)
(* of the batch job, each of which any other can overtake.                  *)
(***************************************************************************)
EXTENDS Rebalance, TLC

MCOrgOf == [o \in OrderIds |-> CHOOSE g \in Orgs : TRUE]

\* The orders whose notices are still asked about: neither disturbed nor deleted.
Watched == {o \in OrderIds : o \notin disturbed /\ (Present(o) \/ held[o] = {})}

\* Neither the socket feed nor the events play a part here, and of the causes
\* only whether there is one.  The property asks of announced and missed only
\* what is in the one and not in the other, and the steps make the next such
\* difference from the last.  Sockets come and go at any time and are looked at
\* only while a notice is to be sent.
BatchView ==
    <<orders, located, cachedRoute, query, {c \in Couriers : causes[c] # {}},
      {o \in OrderIds : held[o] = {}},
      [h \in Handlers |-> [handler[h] EXCEPT !.updated = NoRow, !.located = FALSE]],
      position, batch, disturbed, [o \in Watched |-> announced[o] \ missed[o]],
      IF Untold = {} THEN {} ELSE clients>>

Symm == Permutations(Couriers)
=============================================================================
