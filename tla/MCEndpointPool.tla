--------------------------- MODULE MCEndpointPool ---------------------------
(* Two callers and two peers on a pool of three, two per peer: both limits  *)
(* are reached, and both callers meet on one entry.                         *)
EXTENDS EndpointPool, TLC

Symmetry == Permutations(Users) \union Permutations(Peers)
=============================================================================
