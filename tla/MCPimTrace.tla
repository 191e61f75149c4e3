----------------------------- MODULE MCPimTrace -----------------------------
(* A small instance of PimTrace.                                           *)
EXTENDS PimTrace

\* Rows just long enough for the longest kernel to take half of one.
ASSUME RowsLongEnough == HalfARow /\ \E k \in Kernels : 2 * Entries(k, Len(k)) = Width
=============================================================================
