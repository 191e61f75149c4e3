SPECIFICATION Spec
CONSTANTS
  Weights = {w1, w2}
  Data <- MCData
  Objs = {o1, o2}
SYMMETRY Symmetry
INVARIANTS RightWeight
CHECK_DEADLOCK FALSE
