---------------------------- MODULE MCTraceBuffer ----------------------------
(* TraceBuffer on small instances.                                         *)
EXTENDS TraceBuffer

CONSTANTS a1, a2, l1

MCHash == [a \in Accesses |-> a]
=============================================================================
