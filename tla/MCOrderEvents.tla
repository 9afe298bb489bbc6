--------------------------- MODULE MCOrderEvents ---------------------------
(***************************************************************************)
(* Two events that share three copies, one crash or cut-off replay, and one *)
(* expiry of each key.  No symmetry: a liveness property is checked.        *)
(***************************************************************************)
EXTENDS OrderEvents, TLC
=============================================================================
