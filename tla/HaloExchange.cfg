CONSTANTS
  RanksInX = 3
  RanksInY = 1
  num_neighbors = 2
  Reps = 2
  Rank <- MCRank
  Neighbor <- MCNeighbor
  Opposite <- MCOpposite
SPECIFICATION LiveSpec
INVARIANTS
  TypeOK
  HaloIsOfThisRep
  NeighborsStayClose
PROPERTIES
  BuffersInUseAreKept
  ImplementsNeighborExchange
  AllRanksFinish
