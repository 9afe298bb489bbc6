----------------------------- MODULE MCDispatch -----------------------------
(***************************************************************************)
(* One order in two shapes.  MCDispatch.cfg: two couriers, one request at a *)
(* time, and one event with room for the copy a replay makes, so that       *)
(* request, consumer, replay and a crash race over the row.                 *)
(* MCDispatchRequests.cfg: two requests that overtake one another, and so   *)
(* publish two events, or cancel the order, around two deliveries.          *)
(***************************************************************************)
EXTENDS Dispatch, TLC

MCOrgOf == [o \in OrderIds |-> CHOOSE g \in Orgs : TRUE]

\* For MCDispatchRequests.cfg only, which checks no liveness property.
Symm == Permutations(Handlers) \cup Permutations(Copies)
=============================================================================
