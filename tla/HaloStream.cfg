CONSTANTS
  RanksInX = 2
  RanksInY = 1
  num_neighbors = 2
  Reps = 3
  CopyKinds = {"none", "device"}
  Rank <- MCRank
  Neighbor <- MCNeighbor
  Opposite <- MCOpposite
SPECIFICATION Spec
INVARIANTS
  TypeOK
  HaloIsOfThisRep
  StreamAndMpiShareNoBuffer
PROPERTIES
  ImplementsHaloExchange
