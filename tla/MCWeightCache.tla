--------------------------- MODULE MCWeightCache ----------------------------
(* Small instances of WeightCache: weights of two one-bit words.       *)
EXTENDS WeightCache, TLC

Word == SUBSET {1}
MCData == {<<u, v>> : u \in Word, v \in Word}

Symmetry == Permutations(Weights) \cup Permutations(Objs)
=============================================================================
