SPECIFICATION Spec
CONSTANTS
  Devices = {0, 1}
  Slots = {s1, s2}
  HipPtrs = {h1, h2}
  Bos = {b1}
  Null = Null
  NoBo = NoBo
SYMMETRY Symmetry
INVARIANTS TypeOK Exclusive Backed
PROPERTIES HomeDestroySucceeds NoOrphan
