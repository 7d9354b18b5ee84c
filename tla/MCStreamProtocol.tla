-------------------------- MODULE MCStreamProtocol --------------------------
(* A small instance of StreamProtocol: every kind of stream, two messages. *)
EXTENDS StreamProtocol

AllRoutes == {"conversation", "bounded", "handler", "skill", "skill_stream", "no_stream"}
=============================================================================
