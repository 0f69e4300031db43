CONSTANTS
  Rank = {0, 1}
  NumKernels = 3
  NumVariants = 2
  MaxPasses = 2
  Tunings <- MCTunings
  WarmupOf <- MCWarmupOf
  Inputs <- FewInputs
  FilesMayFail = TRUE
SPECIFICATION LiveSpec
PROPERTIES
  AllRanksFinish
CHECK_DEADLOCK FALSE
