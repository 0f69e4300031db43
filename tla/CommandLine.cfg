CONSTANTS
  MaxArguments = 4
  MaxNames = 5
  Kernel <- MCKernel
  KernelName <- MCKernelName
  Group = {"Basic", "Algorithm"}
  Feature = {"Forall", "Scan"}
  GroupsIn <- MCGroupsIn
  UsesFeature <- MCUsesFeature
  Available = {"Base_Seq", "RAJA_Seq"}
  Arguments <- MCArguments
SPECIFICATION Spec
INVARIANTS
  NoOptionIsSkipped
  BadNamesDoNotRun
  RunsWhatWasAsked
  SizesAreValid
PROPERTIES
  BadInputStays
