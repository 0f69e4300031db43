--------------------------- MODULE MCCommandLine ----------------------------
(***************************************************************************)
(* CommandLine with three kernels, two of which share a group and two a      *)
(* feature: all lists of up to three arguments, lists of MaxArguments with   *)
(* one option of each kind, and of MaxNames with the options that select     *)
(* kernels or those that select variants.                                    *)
(***************************************************************************)
EXTENDS CommandLine

CONSTANTS MaxArguments, MaxNames
MCKernelName == [Basic_DAXPY |-> "DAXPY", Basic_INDEXLIST |-> "INDEXLIST", Algorithm_SCAN |-> "SCAN"]
MCKernel == DOMAIN MCKernelName
MCGroupsIn == [Basic_DAXPY |-> {"Basic"}, Basic_INDEXLIST |-> {"Basic"}, Algorithm_SCAN |-> {"Algorithm"}]
MCUsesFeature ==
  [Basic_DAXPY |-> {"Forall"}, Basic_INDEXLIST |-> {"Forall", "Scan"}, Algorithm_SCAN |-> {"Scan"}]

Lists(words, n) == [1 .. n -> words]
SomeNames == {"DAXPY", "Basic_INDEXLIST", "Basic", "Scan", "NOSUCH"}
OneOfEachKind ==
  (Options \ ListOptions) \cup {"--kernels", "2", "-1", "DAXPY", "NOSUCH"}
OfKernels ==
  {"--kernels", "--exclude-kernels", "--features", "--exclude-features"} \cup SomeNames
OfVariants ==
  {"--variants", "--exclude-variants", "--checkrun", "Base_Seq", "RAJA_Seq", "NOSUCH"}
MCArguments ==
  UNION {Lists(Options \cup SomeNames \cup {"2", "-1", "Base_Seq"}, n) : n \in 0 .. 3}
  \cup UNION {Lists(OneOfEachKind, n) : n \in 0 .. MaxArguments}
  \cup UNION {Lists(OfKernels, n) \cup Lists(OfVariants, n) : n \in 0 .. MaxNames}

=============================================================================
