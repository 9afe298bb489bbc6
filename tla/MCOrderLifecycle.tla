-------------------------- MODULE MCOrderLifecycle --------------------------
(***************************************************************************)
(* One order, two couriers, and two requests in flight at any time: while   *)
(* one of them stands between its check and its write, the other slot can   *)
(* run any number of requests.                                              *)
(***************************************************************************)
EXTENDS OrderLifecycle, TLC

MCOrgOf == [o \in OrderIds |-> CHOOSE g \in Orgs : TRUE]

Symm == Permutations(Handlers) \cup Permutations(Couriers)
=============================================================================
