CONSTANTS
  RanksInX = 2
  RanksInY = 1
  num_neighbors = 2
  Reps = 1
  CopyKinds = {"host"}
  Rank <- MCRank
  Neighbor <- MCNeighbor
  Opposite <- MCOpposite
SPECIFICATION Spec
INVARIANTS
  HaloIsOfThisRep
