SPECIFICATION Spec
CONSTANTS
  Units = 3
  HostBase = 10
  Sizes = {1, 2}
  TmpSize = 1
  Ptrs <- HandleSet
  MaxWeights = 1
  MaxPrograms = 2
  EltOps = {"OP_ELT_ADD"}
  Bos = {b1, b2}
  Data = {d1, d2}
  Unknown = Unknown
  Null = Null
  NoBo = NoBo
INVARIANTS TypeOK HandlesExact ReadsBack
SYMMETRY Symmetry
CHECK_DEADLOCK FALSE
