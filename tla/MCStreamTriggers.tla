-------------------------- MODULE MCStreamTriggers --------------------------
(* Callers of a streaming query for StreamTriggers. *)
EXTENDS StreamTriggers

CONSTANT c1
=============================================================================
