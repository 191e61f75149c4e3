SPECIFICATION Spec
CONSTANTS
  Devices = {0, 1}
  Slots = {s1, s2}
  HipPtrs = {h1, h2, h3}
  Bos = {b1, b2}
  Null = Null
  NoBo = NoBo
SYMMETRY Symmetry
INVARIANT DeinitReleases
