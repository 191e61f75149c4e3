SPECIFICATION Spec
CONSTANTS
  Blocks = {1, 4, 7}
  BlockSize = 3
  Requests <- SmallRequests
  AlignSize = 2097152
  FloatDigits = 24
INVARIANTS TypeOK Tiled FreeListExact Compacted LiveExact NoOverlap NoLeak CacheApart Accounting CacheBounded
PROPERTY AllocatorSpec
