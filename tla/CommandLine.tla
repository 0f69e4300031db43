---------------------------- MODULE CommandLine -----------------------------
(***************************************************************************)
(* RunParams::parseCommandLineOptions: the arguments are read from left to   *)
(* right, each option with the arguments it takes, and the state of the      *)
(* input decides at the end whether the Suite runs.                          *)
(*                                                                           *)
(* One option stands for each kind: --npasses for those that take the next   *)
(* argument whatever it is (--repfact, --pass-fail-tol), --outdir for those   *)
(* that take the next argument unless it has a dash (--outfile, --refvar),   *)
(* --show-progress for those that take none. The options that take names up  *)
(* to the next dash are all there but the tunings and the combiners; what is *)
(* named is looked up at the end, in Selection.                              *)
(***************************************************************************)
EXTENDS Selection, Sequences

CONSTANT Arguments  \* the argument lists
ASSUME ArgumentsAssumption == \A a \in Arguments : a \in Seq(STRING)

Options == ListOptions \cup {"--help", "--npasses", "--size", "--sizefact", "--outdir",
                             "--show-progress", "--dryrun", "--checkrun"}
HasDash(a) == a \in Options \cup {"-1"}
(* atoi and atof: 0 for what is not a number.                                *)
ValueOf(a) == CASE a = "-1" -> -1 [] a = "2" -> 2 [] OTHER -> 0

VARIABLES argv, i, pc, input_state, size_meaning, size, npasses,
          names,  \* what each list option was given
          read    \* the positions that were taken as options
vars == <<argv, i, pc, input_state, size_meaning, size, npasses, names, read>>
sizes == <<size_meaning, size>>

Init ==
  /\ argv \in Arguments
  /\ i = 1 /\ pc = "parse" /\ read = {}
  /\ input_state = "Undefined"
  /\ size_meaning = "Unset" /\ size = 0 /\ npasses = 1 /\ names = [o \in ListOptions |-> {}]

-----------------------------------------------------------------------------
(* The argument after position j, if there is one.                            *)
HasNext(j) == j < Len(argv)
HasValue(j) == HasNext(j) /\ ~HasDash(argv[j + 1])
(* A list ends before the next argument with a dash; a wrong variant skips   *)
(* that argument.                                                            *)
ListAfter(j) == {k \in j + 1 .. Len(argv) : \A m \in j + 1 .. k : ~HasDash(argv[m])}
SkipAfterList(j) == j + Cardinality(ListAfter(j)) + 2
AfterList(j) == j + Cardinality(ListAfter(j)) + 1

Read(options, next) ==
  /\ pc = "parse" /\ i <= Len(argv) /\ argv[i] \in options
  /\ read' = read \cup {i}
  /\ i' = next
  /\ UNCHANGED argv
Becomes(s) == input_state' = s

Help ==
  /\ Read({"--help"}, i + 1) /\ Becomes("InfoRequest") /\ pc' = "process"
  /\ UNCHANGED <<sizes, npasses, names>>
Flag ==
  /\ Read({"--show-progress"}, i + 1)
  /\ UNCHANGED <<pc, input_state, sizes, npasses, names>>
Number ==
  /\ Read({"--npasses"}, i + 2)
  /\ IF HasNext(i)
     THEN npasses' = ValueOf(argv[i + 1]) /\ UNCHANGED input_state
     ELSE Becomes("BadInput") /\ UNCHANGED npasses
  /\ UNCHANGED <<pc, sizes, names>>

(* --size and --sizefact: a value, and not both. A negative value is kept but *)
(* does not decide what the size means. A wrong variant takes both.          *)
AnyMeaning(other) == TRUE
MaySet(other) == size_meaning # other
IsSize(n) == n >= 0
SetSize(option, meaning, other) ==
  /\ Read({option}, i + 2)
  /\ IF HasNext(i) /\ MaySet(other)
     THEN /\ size' = ValueOf(argv[i + 1])
          /\ IF IsSize(size')
             THEN size_meaning' = meaning /\ UNCHANGED input_state
             ELSE Becomes("BadInput") /\ UNCHANGED size_meaning
     ELSE Becomes("BadInput") /\ UNCHANGED sizes
  /\ UNCHANGED <<pc, npasses, names>>
Size == SetSize("--size", "Direct", "Factor")
SizeFact == SetSize("--sizefact", "Factor", "Direct")

Names ==
  /\ Read(ListOptions, AfterList(i))
  /\ names' = [names EXCEPT ![argv[i]] = @ \cup {argv[k] : k \in ListAfter(i)}]
  /\ UNCHANGED <<pc, input_state, sizes, npasses>>
Directory ==
  /\ Read({"--outdir"}, IF HasValue(i) THEN i + 2 ELSE i + 1)
  /\ UNCHANGED <<pc, input_state, sizes, npasses, names>>
(* A wrong variant asks for a dry run whatever came before.                  *)
Always == TRUE
MayDryRun == input_state # "BadInput"
DryRun ==
  /\ Read({"--dryrun"}, i + 1)
  /\ IF MayDryRun THEN Becomes("DryRun") ELSE UNCHANGED input_state
  /\ UNCHANGED <<pc, sizes, npasses, names>>
(* A negative value has a dash, so that the test for it is never reached.    *)
CheckRun ==
  /\ Read({"--checkrun"}, IF HasValue(i) THEN i + 2 ELSE i + 1)
  /\ Becomes("CheckRun")
  /\ UNCHANGED <<pc, sizes, npasses, names>>
Unknown ==
  /\ pc = "parse" /\ i <= Len(argv) /\ argv[i] \notin Options
  /\ i' = i + 1 /\ Becomes("BadInput")
  /\ UNCHANGED <<argv, pc, read, sizes, npasses, names>>

(* processKernelInput and its like, and what remains is a performance run.   *)
Decided == IF input_state = "Undefined" THEN "PerfRun" ELSE input_state
Process ==
  /\ pc = "process" \/ (pc = "parse" /\ i > Len(argv))
  /\ pc' = "done"
  /\ IF size_meaning = "Unset"
     THEN size_meaning' = "Factor" /\ size' = 1
     ELSE UNCHANGED sizes
  /\ Becomes(IF InvalidInput(names) THEN "BadInput" ELSE Decided)
  /\ UNCHANGED <<argv, i, read, npasses, names>>
Finished == pc = "done" /\ UNCHANGED vars

Next == \/ Help \/ Flag \/ Number \/ Size \/ SizeFact \/ Names \/ Directory
        \/ DryRun \/ CheckRun \/ Unknown \/ Process \/ Finished
Spec == Init /\ [][Next]_vars

-----------------------------------------------------------------------------
IsDone == pc = "done"
WillRun == IsDone /\ input_state \in {"PerfRun", "CheckRun"}
Asked(o) == \E j \in read : argv[j] = o

(* No option is lost: what is an option is read as one or was taken as the   *)
(* value of the option before it, unless help stopped the reading.           *)
TakesAnything == {"--npasses", "--size", "--sizefact"}
NoOptionIsSkipped ==
  IsDone /\ ~Asked("--help") =>
    \A j \in DOMAIN argv : argv[j] \in Options =>
      j \in read \/ (j - 1 \in read /\ argv[j - 1] \in TakesAnything)

(* What option o was given, as it stands in the arguments.                   *)
Given(o) == {argv[k] : k \in UNION {ListAfter(j) : j \in {m \in read : argv[m] = o}}}
Means(n, k) == n \in {k, KernelName[k]} \cup GroupsIn[k]

(* Names that do not exist keep the Suite from running, in whatever list     *)
(* they are and whatever other options are given (RunParams.cpp:1700-1710,   *)
(* 1852-1857).                                                               *)
BadNamesDoNotRun ==
  WillRun =>
    /\ \A o \in {"--kernels", "--exclude-kernels"} : \A n \in Given(o) :
         n \in Group \/ \E k \in Kernel : Means(n, k)
    /\ \A o \in {"--features", "--exclude-features"} : Given(o) \subseteq Feature
    /\ \A o \in {"--variants", "--exclude-variants"} : Given(o) \subseteq Available

(* The Suite runs what was asked for: an exclusion wins over every way of    *)
(* asking for a kernel or variant, wherever the two options stand, and what  *)
(* is not excluded runs if it was asked for in any way or if nothing was     *)
(* (RunParams.cpp:1556-1695, 1786-1840).                                     *)
RunsWhatWasAsked ==
  WillRun =>
    LET excluded(k) == \/ \E n \in Given("--exclude-kernels") : Means(n, k)
                       \/ Uses(k, Given("--exclude-features"))
        asked(k) == \/ Given("--kernels") \cup Given("--features") = {}
                    \/ \E n \in Given("--kernels") : Means(n, k)
                    \/ Uses(k, Given("--features"))
    IN  /\ \A k \in Kernel : k \in run_kernels(names) <=> asked(k) /\ ~excluded(k)
        /\ \A v \in Available : v \in run_variants(names) <=>
             /\ v \in Given("--variants") \/ Given("--variants") = {}
             /\ v \notin Given("--exclude-variants")

(* A performance run has a size or a factor, not both, and it is not         *)
(* negative (RunParams.cpp:356-370 and 383-397).                             *)
SizesAreValid ==
  WillRun /\ input_state = "PerfRun" =>
    size_meaning # "Unset" /\ size >= 0 /\ ~(Asked("--size") /\ Asked("--sizefact"))

(* Bad input stays bad input, and then the Suite is not run (Executor.cpp:352),*)
(* unless --checkrun follows, which overwrites the state, or --help, which   *)
(* runs nothing either (RunParams.cpp:789-801).                              *)
BadInputStays ==
  [][input_state = "BadInput" /\ input_state' # "BadInput" =>
       pc = "parse" /\ argv[i] \in {"--checkrun", "--help"}]_vars

=============================================================================
