---------------------------- MODULE MCNegotiation ----------------------------
(* Two controllers dial the same host. *)
EXTENDS Negotiation
=============================================================================
