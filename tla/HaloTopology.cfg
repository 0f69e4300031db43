CONSTANTS
  MaxSize = 64
  MaxGiven = 3
  MaxCells = 3
  MaxWidth = 2
  MaxVaried = 6
SPECIFICATION MCSpec
INVARIANTS
  GridHasAllRanks
  GridIsRelativelySquare
  NeighborsAreMutual
  OneMessagePerReceive
  HaloGetsNeighborsCells
  HaloIsPartitioned
  ListsAreDisjointAndInBounds
