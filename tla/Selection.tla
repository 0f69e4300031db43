----------------------------- MODULE Selection ------------------------------
(***************************************************************************)
(* Which kernels and variants run: RunParams::processKernelInput and         *)
(* processVariantInput, as functions of the names the options were given. A  *)
(* kernel is called by its full name (Basic_DAXPY), its name without the     *)
(* group, its group, or a feature it uses.                                   *)
(***************************************************************************)
EXTENDS Integers, FiniteSets

CONSTANTS Kernel,       \* the full names of the kernels
          KernelName,   \* [Kernel -> the name without the group]
          Group, Feature,
          GroupsIn,     \* [Kernel -> the group names found in the full name]
          UsesFeature,  \* [Kernel -> SUBSET Feature]
          Available     \* the variants of the build

ASSUME SelectionAssumption ==
  /\ GroupsIn \in [Kernel -> SUBSET Group]
  /\ UsesFeature \in [Kernel -> SUBSET Feature]
  /\ Group \cap (Kernel \cup {KernelName[k] : k \in Kernel}) = {}

ListOptions == {"--kernels", "--exclude-kernels", "--features", "--exclude-features",
                "--variants", "--exclude-variants"}

-----------------------------------------------------------------------------
(* names[o] is what option o was given. Names of groups are taken out of the *)
(* list before the rest is compared with the names of kernels.               *)
InGroups(k, given) == GroupsIn[k] \cap given # {}
IsNamed(k, given) == {k, KernelName[k]} \cap (given \ Group) # {}
Uses(k, features) == UsesFeature[k] \cap features # {}
UnknownKernels(given) == {n \in given \ Group : \A k \in Kernel : ~IsNamed(k, {n})}

exclude_kernels(names) ==
  {k \in Kernel :
     \/ InGroups(k, names["--exclude-kernels"])
     \/ IsNamed(k, names["--exclude-kernels"])
     \/ names["--exclude-features"] \subseteq Feature /\ Uses(k, names["--exclude-features"])}

(* The kernels that run, found one way after the other, each with a test of  *)
(* its own for the kernels to exclude. A mutant has none for the features.   *)
Kept(names, S) == S \ exclude_kernels(names)
WithFeaturesAll(names) ==
  {k \in Kernel : names["--features"] \subseteq Feature /\ Uses(k, names["--features"])}
WithFeatures(names) ==
  Kept(names, {k \in Kernel : names["--features"] \subseteq Feature /\ Uses(k, names["--features"])})
run_kernels(names) ==
  IF names["--kernels"] = {} /\ names["--features"] = {}
  THEN Kept(names, Kernel)
  ELSE WithFeatures(names)
       \cup Kept(names, {k \in Kernel : InGroups(k, names["--kernels"])})
       \cup Kept(names, {k \in Kernel : IsNamed(k, names["--kernels"])})

run_variants(names) ==
  (IF names["--variants"] = {} THEN Available ELSE names["--variants"] \cap Available)
    \ names["--exclude-variants"]

(* Names that nothing has. A mutant takes those of --kernels only.           *)
InvalidKernels(names) == UnknownKernels(names["--kernels"]) # {}
InvalidInput(names) ==
  \/ UnknownKernels(names["--kernels"]) # {}
  \/ UnknownKernels(names["--exclude-kernels"]) # {}
  \/ ~(names["--features"] \subseteq Feature)
  \/ ~(names["--exclude-features"] \subseteq Feature)
  \/ ~(names["--variants"] \subseteq Available)
  \/ ~(names["--exclude-variants"] \subseteq Available)
=============================================================================
