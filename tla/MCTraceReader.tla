---------------------------- MODULE MCTraceReader ----------------------------
(* A small instance of TraceReader: two objects, one field, one thread. *)
EXTENDS TraceReader

Two == {1, 2}
==============================================================================
