SPECIFICATION Spec
CONSTANTS
  NumBlocks = 2
  Width = 220
  Tiles = {1}
  MaxSwaps = 1
INVARIANTS TypeOK CommandsRight
