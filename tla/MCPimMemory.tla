---------------------------- MODULE MCPimMemory -----------------------------
(* Small instances of PimMemory.                                           *)
EXTENDS PimMemory, TLC

\* Slots of a heap, HIP pointers and buffer objects are interchangeable.
Symmetry ==
  Permutations(Slots) \cup Permutations(HipPtrs) \cup Permutations(Bos)
=============================================================================
