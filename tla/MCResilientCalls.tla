-------------------------- MODULE MCResilientCalls --------------------------
(* A small instance of ResilientCalls: two runs that stream on one slot. *)
EXTENDS ResilientCalls

CONSTANTS c1, c2
=============================================================================
