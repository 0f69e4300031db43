CONSTANTS
  Rank = {0, 1, 2}
  NumKernels = 3
  NumVariants = 2
  MaxPasses = 2
  Tunings <- MCTunings
  WarmupOf <- MCWarmupOf
  Inputs <- MCInputs
  FilesMayFail = FALSE
SPECIFICATION LiveSpec
INVARIANTS
  TypeOK
  CollectivesMatch
  RanksAreTimedTogether
  RecordsAreOfThePasses
PROPERTIES
  AllRanksFinish
