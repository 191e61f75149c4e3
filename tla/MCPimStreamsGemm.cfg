SPECIFICATION Spec
CONSTANTS
  Streams = {s1, s2}
  NullStream = NullStream
  Chunks = {c1, c2}
  Ops = {"gemm"}
  MaxCalls = 2
SYMMETRY Symmetry
INVARIANT SequentialResult
