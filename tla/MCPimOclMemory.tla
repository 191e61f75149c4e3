--------------------------- MODULE MCPimOclMemory ---------------------------
(* The OpenCL runtime on an area of a few units.                           *)
EXTENDS PimOclMemory, TLC

HandleSet == 1..7

\* Slots of the client and contents are interchangeable.
Symmetry == Permutations(Bos) \cup Permutations(Data)
=============================================================================
