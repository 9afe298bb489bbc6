--------------------------- MODULE MCCourierRoute ---------------------------
(***************************************************************************)
(* One order, two couriers, two requests that can overtake one another and  *)
(* move the order from one courier to the other, and a route computation    *)
(* that any of their steps can overtake.                                    *)
(***************************************************************************)
EXTENDS CourierRoute, TLC

MCOrgOf == [o \in OrderIds |-> CHOOSE g \in Orgs : TRUE]

\* What plays a part in the routes: neither the socket feed nor the events, and
\* of what an order has been only whether it was created.
RouteView ==
    <<orders, cachedRoute, query, causes, {o \in OrderIds : held[o] = {}},
      [h \in Handlers |-> [handler[h] EXCEPT !.updated = NoRow, !.located = FALSE]]>>

Symm == Permutations(Handlers) \cup Permutations(Couriers)
=============================================================================
