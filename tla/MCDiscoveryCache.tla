-------------------------- MODULE MCDiscoveryCache --------------------------
(* One peer, for the list is replaced as a whole, and two callers, whose    *)
(* queries can be stored in the wrong order.                                *)
EXTENDS DiscoveryCache
=============================================================================
