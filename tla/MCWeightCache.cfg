SPECIFICATION Spec
CONSTANTS
  Weights = {w1}
  Data <- MCData
  Objs = {o1, o2}
SYMMETRY Symmetry
INVARIANTS TypeOK EntriesKept NoWeightLeak FirstWordAgrees
CHECK_DEADLOCK FALSE
