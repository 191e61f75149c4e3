---------------------------- MODULE MCPimStreams ----------------------------
(* Small instances of PimStreams.                                          *)
EXTENDS PimStreams, TLC

Symmetry == Permutations(Streams) \cup Permutations(Chunks)
=============================================================================
