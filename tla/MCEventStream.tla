---------------------------- MODULE MCEventStream ----------------------------
(* A small instance of EventStream: one browser, batches of two events. *)
EXTENDS EventStream

CONSTANT c1
=============================================================================
