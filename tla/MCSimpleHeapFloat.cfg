SPECIFICATION Spec
CONSTANTS
  Blocks = {1}
  BlockSize = 40
  Requests <- AboveFloatGrid
  AlignSize = 2097152
  FloatDigits = 24
INVARIANT RequiredSize
