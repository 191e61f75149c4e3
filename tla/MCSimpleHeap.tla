---------------------------- MODULE MCSimpleHeap ----------------------------
(* Small instances of SimpleHeap whose requests the heap serves in full.   *)
EXTENDS SimpleHeap

MB == 1048576

\* One unit, two (a byte more than one) and more than a block of three.
SmallRequests == {1, 2 * MB + 1, 300 * MB}

ASSUME ServedInFull == SafeRequests
=============================================================================
