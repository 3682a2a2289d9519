---------------------------- MODULE MCEndpoint ------------------------------
(* A small instance of Endpoint; Endpoint.cfg gives the constants.          *)
EXTENDS Endpoint
=============================================================================
