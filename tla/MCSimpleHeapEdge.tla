-------------------------- MODULE MCSimpleHeapEdge --------------------------
(* An instance of SimpleHeap with a request SafeRequests leaves out.       *)
EXTENDS SimpleHeap

MB == 1048576

\* 16777217 half-precision elements: 2^25 + 2 bytes, between two floats.
AboveFloatGrid == {33554434, 2 * MB}
=============================================================================
