SPECIFICATION Spec
CONSTANTS
  Streams = {s1}
  NullStream = NullStream
  Chunks = {c1, c2}
  Ops = {"elt", "scalar", "bn", "gemm", "copy", "gemv", "gemvHost", "dummy"}
  MaxCalls = 2
INVARIANTS TypeOK SequentialResult WaitedResult
PROPERTY CallReturns
CHECK_DEADLOCK FALSE
