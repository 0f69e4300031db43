CONSTANTS
  NumBlocks = 5
  WarpSize = 2
  MaxResident = 3
  Reps = 2
  StartsInOrder = TRUE
  ListLength = 7
  Hits <- MCHits
SPECIFICATION FairSpec
INVARIANTS
  TypeOK
  ExclusiveScanCorrect
  ReadyMeansReadable
  ListMatchesSequentialLoop
PROPERTIES
  AnnouncedCountsStable
  ImplementsExclusiveScan
  AllRepsFinish
