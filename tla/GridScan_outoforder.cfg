CONSTANTS
  NumBlocks = 4
  WarpSize = 2
  MaxResident = 2
  Reps = 2
  StartsInOrder = FALSE
  ListLength = 7
  Hits <- MCHits
SPECIFICATION FairSpec
PROPERTIES
  AllRepsFinish
