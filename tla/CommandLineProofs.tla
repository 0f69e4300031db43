------------------------- MODULE CommandLineProofs --------------------------
(***************************************************************************)
(* Proofs about CommandLine for every list of arguments and every table of   *)
(* kernels, groups, features and variants: no option is lost, bad input does *)
(* not run, and what runs is what was asked for and not excluded.            *)
(***************************************************************************)
EXTENDS CommandLine, FiniteSetTheorems, TLAPS

USE SelectionAssumption, ArgumentsAssumption

-----------------------------------------------------------------------------
(* The invariant: an option that was passed was read or was a value, what    *)
(* the list options have been given is what stands behind them in argv, and  *)
(* a state that is not bad yet has seen good sizes only.                     *)

Shape ==
  /\ argv \in Arguments /\ i \in Nat \ {0}
  /\ read \subseteq {j \in DOMAIN argv : j < i}
  /\ pc \in {"parse", "process", "done"}
  /\ size_meaning \in {"Unset", "Direct", "Factor"}

Accounted(j) == j \in read \/ (j - 1 \in read /\ argv[j - 1] \in TakesAnything)
PassedInv == \A j \in DOMAIN argv : j < i /\ argv[j] \in Options => Accounted(j)

NamesInv == names = [o \in ListOptions |-> Given(o)]

SizeInv ==
  input_state \in {"Undefined", "PerfRun"} =>
    /\ size >= 0
    /\ Asked("--size") => size_meaning = "Direct"
    /\ Asked("--sizefact") => size_meaning = "Factor"

EndInv ==
  /\ pc = "process" => Asked("--help")
  /\ pc = "done" => /\ Asked("--help") \/ i > Len(argv)
                    /\ size_meaning # "Unset"
  /\ WillRun => ~InvalidInput(names)

IInv == Shape /\ PassedInv /\ NamesInv /\ SizeInv /\ EndInv

LEMMA ArgumentFacts ==
  ASSUME Shape
  PROVE  Len(argv) \in Nat /\ DOMAIN argv = 1 .. Len(argv)
BY DEF Shape

(* The list of an option is the run of arguments behind it.                  *)
LEMMA ListIsInterval ==
  ASSUME Shape, NEW j \in Nat
  PROVE  /\ Cardinality(ListAfter(j)) \in Nat
         /\ ListAfter(j) = j + 1 .. j + Cardinality(ListAfter(j))
<1>. DEFINE L == ListAfter(j)
            n == Cardinality(L)
<1>1. IsFiniteSet(j + 1 .. Len(argv)) /\ L \in SUBSET (j + 1 .. Len(argv))
  BY ArgumentFacts, FS_Interval DEF ListAfter
<1>2. IsFiniteSet(L)
  BY <1>1, FS_Subset, Zenon
<1>3. n \in Nat
  BY <1>2, FS_CardinalityType, Zenon
<1>4. ASSUME NEW k \in L PROVE k \in j + 1 .. j + n
  <2>1. k \in Nat /\ k > j
    BY <1>1, ArgumentFacts
  <2>2. j + 1 .. k \in SUBSET L
    BY <2>1, ArgumentFacts DEF ListAfter
  <2>3. Cardinality(j + 1 .. k) <= n
    BY <2>2, <1>2, FS_Subset, Zenon
  <2>4. Cardinality(j + 1 .. k) = k - j
    BY <2>1, FS_Interval
  <2>. HIDE DEF n
  <2>. QED BY <2>1, <2>3, <2>4, <1>3
<1>. HIDE DEF n
<1>5. /\ IsFiniteSet(j + 1 .. j + n)
      /\ Cardinality(j + 1 .. j + n) = n
  BY <1>3, FS_Interval
<1>6. L \in SUBSET (j + 1 .. j + n)
  BY <1>4
<1>7. L = j + 1 .. j + n
  BY <1>5, <1>6, FS_Subset, Zenon DEF n
<1>. QED BY <1>3, <1>7, Zenon DEF n

LEMMA AfterListFacts ==
  ASSUME Shape
  PROVE  /\ AfterList(i) \in Nat \ {0} /\ AfterList(i) > i
         /\ \A k \in DOMAIN argv : i < k /\ k < AfterList(i) => argv[k] \notin Options
<1>1. i \in Nat \ {0}
  BY DEF Shape
<1>2. /\ Cardinality(ListAfter(i)) \in Nat
      /\ ListAfter(i) = i + 1 .. i + Cardinality(ListAfter(i))
  BY <1>1, ListIsInterval
<1>3. AfterList(i) \in Nat \ {0} /\ AfterList(i) > i
  BY <1>1, <1>2 DEF AfterList
<1>4. ASSUME NEW k \in DOMAIN argv, i < k, k < AfterList(i) PROVE argv[k] \notin Options
  <2>1. k \in ListAfter(i)
    BY <1>1, <1>2, <1>4, ArgumentFacts DEF AfterList
  <2>2. ~HasDash(argv[k])
    BY <2>1, <1>1, ArgumentFacts DEF ListAfter
  <2>. QED BY <2>2 DEF HasDash
<1>. QED BY <1>3, <1>4

-----------------------------------------------------------------------------
(* What reading an option does *)

(* Reading an option adds its position to read and moves on; what every      *)
(* option was given changes for the option read only.                        *)
LEMMA ReadGivesFacts ==
  ASSUME Shape, NEW O, NEW n \in Nat, n > i, Read(O, n)
  PROVE  /\ i \in DOMAIN argv /\ argv[i] \in O /\ argv' = argv
         /\ i' = n /\ read' = read \cup {i} /\ i \notin read
         /\ read' \subseteq {j \in DOMAIN argv' : j < i'}
<1>1. i \in Nat \ {0} /\ read \subseteq {j \in DOMAIN argv : j < i}
  BY DEF Shape
<1>2. i \in DOMAIN argv
  BY <1>1, ArgumentFacts DEF Read
<1>3. argv[i] \in O /\ argv' = argv /\ i' = n /\ read' = read \cup {i}
  BY DEF Read
<1>4. \A j \in read : j \in DOMAIN argv /\ j < i /\ j \in Nat
  BY <1>1, ArgumentFacts
<1>5. i \notin read
  BY <1>1, <1>4
<1>6. \A j \in read' : j \in DOMAIN argv /\ j < n
  BY <1>1, <1>2, <1>3, <1>4
<1>. QED BY <1>2, <1>3, <1>5, <1>6, Zenon

(* Nothing between the option and where the reading goes on is an option,    *)
(* unless the option takes any value.                                        *)
Skips(n) == \A k \in DOMAIN argv : i < k /\ k < n =>
              argv[k] \notin Options \/ (k = i + 1 /\ argv[i] \in TakesAnything)

LEMMA ReadKeepsPassed ==
  ASSUME Shape, PassedInv, NEW O, NEW n \in Nat, n > i, Read(O, n), Skips(n)
  PROVE  PassedInv'
<1>1. /\ i \in DOMAIN argv /\ argv' = argv /\ i' = n /\ read' = read \cup {i}
  BY ReadGivesFacts
<1>2. SUFFICES ASSUME NEW j \in DOMAIN argv, j < n, argv[j] \in Options
               PROVE  \/ j \in read'
                      \/ j - 1 \in read' /\ argv[j - 1] \in TakesAnything
  BY <1>1 DEF PassedInv, Accounted
<1>3. i \in Nat /\ j \in Nat
  BY ArgumentFacts DEF Shape
<1>4. CASE j < i
  BY <1>1, <1>2, <1>4, Zenon DEF PassedInv, Accounted
<1>5. CASE j = i
  BY <1>1, <1>5
<1>6. CASE i < j
  <2>1. j = i + 1 /\ argv[i] \in TakesAnything
    BY <1>2, <1>6, Zenon DEF Skips
  <2>2. j - 1 = i
    BY <2>1, <1>3
  <2>. QED BY <2>1, <2>2, <1>1
<1>. QED BY <1>3, <1>4, <1>5, <1>6

(* What option o was given after option i was read.                          *)
LEMMA ReadChangesGiven ==
  ASSUME Shape, NEW O, NEW n \in Nat, n > i, Read(O, n), NEW o
  PROVE  Given(o)' = IF argv[i] = o
                     THEN Given(o) \cup {argv[k] : k \in ListAfter(i)}
                     ELSE Given(o)
<1>1. argv' = argv /\ read' = read \cup {i}
  BY ReadGivesFacts
<1>. DEFINE A(j) == ListAfter(j)
            B == {j \in read : argv[j] = o}
<1>2. \A j : ListAfter(j)' = A(j)
  BY <1>1 DEF ListAfter, HasDash
<1>3. Given(o)' = {argv[k] : k \in UNION {A(j) : j \in {m \in read' : argv[m] = o}}}
  BY <1>1 DEF Given, ListAfter
<1>4. Given(o) = {argv[k] : k \in UNION {A(j) : j \in B}}
  BY DEF Given
<1>5. {m \in read' : argv[m] = o} = IF argv[i] = o THEN B \cup {i} ELSE B
  BY <1>1
<1>. HIDE DEF A, B
<1>6. {argv[k] : k \in UNION {A(j) : j \in B \cup {i}}}
      = {argv[k] : k \in UNION {A(j) : j \in B}} \cup {argv[k] : k \in A(i)}
  OBVIOUS
<1>. QED BY <1>3, <1>4, <1>5, <1>6 DEF A

(* The options that take no list leave all lists alone.                      *)
LEMMA ReadKeepsNames ==
  ASSUME Shape, NamesInv, NEW O, O \cap ListOptions = {}, NEW n \in Nat, n > i,
         Read(O, n), UNCHANGED names
  PROVE  NamesInv'
<1>1. argv[i] \notin ListOptions
  BY ReadGivesFacts
<1>2. \A o \in ListOptions : Given(o)' = Given(o)
  BY <1>1, ReadChangesGiven
<1>. QED BY <1>2 DEF NamesInv

LEMMA ReadAsks ==
  ASSUME Shape, NEW O, NEW n \in Nat, n > i, Read(O, n), NEW o
  PROVE  Asked(o)' <=> Asked(o) \/ argv[i] = o
BY ReadGivesFacts DEF Asked

-----------------------------------------------------------------------------
(* The invariant holds *)

LEMMA InitIsFine == ASSUME Init PROVE IInv
<1>1. argv \in Seq(STRING)
  BY DEF Init
<1>2. Shape
  BY DEF Init, Shape
<1>3. PassedInv
  BY <1>1 DEF Init, PassedInv
<1>4. NamesInv
  <2>1. \A o : Given(o) = {}
    BY DEF Init, Given
  <2>. QED BY <2>1 DEF Init, NamesInv
<1>5. SizeInv /\ EndInv
  BY DEF Init, SizeInv, EndInv, Asked, WillRun, IsDone
<1>. QED BY <1>2, <1>3, <1>4, <1>5 DEF IInv

(* A step that reads an option and goes on reading keeps the invariant if    *)
(* the sizes and the lists are as they should be.                            *)
LEMMA ReadStep ==
  ASSUME IInv, NEW O, NEW n \in Nat, n > i, Read(O, n), Skips(n),
         pc' = "parse", size_meaning' \in {"Unset", "Direct", "Factor"},
         NamesInv', SizeInv'
  PROVE  IInv'
<1>1. Shape /\ PassedInv
  BY DEF IInv
<1>2. PassedInv'
  BY <1>1, ReadKeepsPassed
<1>3. Shape'
  BY <1>1, ReadGivesFacts DEF Shape
<1>4. EndInv'
  BY DEF EndInv, WillRun, IsDone
<1>. QED BY <1>2, <1>3, <1>4 DEF IInv

(* A step to the next argument passes over nothing.                          *)
LEMMA NextArgument ==
  ASSUME Shape
  PROVE  /\ i + 1 \in Nat /\ i + 1 > i /\ Skips(i + 1)
         /\ i + 2 \in Nat /\ i + 2 > i
         /\ argv[i] \in TakesAnything => Skips(i + 2)
         /\ ~HasDash(argv[i + 1]) => Skips(i + 2)
<1>1. i \in Nat
  BY DEF Shape
<1>2. \A k \in DOMAIN argv : k \in Nat
  BY ArgumentFacts
<1>3. \A k \in Nat : ~(i < k /\ k < i + 1)
  BY <1>1
<1>4. \A k \in Nat : i < k /\ k < i + 2 => k = i + 1
  BY <1>1
<1>5. Skips(i + 1)
  BY <1>2, <1>3 DEF Skips
<1>6. argv[i] \in TakesAnything => Skips(i + 2)
  BY <1>2, <1>4 DEF Skips
<1>7. ~HasDash(argv[i + 1]) => Skips(i + 2)
  BY <1>2, <1>4 DEF Skips, HasDash
<1>. QED BY <1>1, <1>5, <1>6, <1>7

LEMMA HelpStep == ASSUME IInv, Help PROVE IInv'
<1>1. Shape /\ PassedInv /\ NamesInv /\ SizeInv
  BY DEF IInv
<1>2. /\ i + 1 \in Nat /\ i + 1 > i /\ Skips(i + 1) /\ Read({"--help"}, i + 1)
  BY <1>1, NextArgument DEF Help
<1>3. PassedInv'
  BY <1>1, <1>2, ReadKeepsPassed
<1>4. NamesInv'
  <2>1. {"--help"} \cap ListOptions = {}
    BY DEF ListOptions
  <2>. QED BY <2>1, <1>1, <1>2, ReadKeepsNames DEF Help
<1>5. Shape'
  BY <1>1, <1>2, ReadGivesFacts DEF Help, Shape, sizes
<1>6. Asked("--help")'
  <2>1. argv[i] = "--help"
    BY <1>1, <1>2, ReadGivesFacts
  <2>. QED BY <2>1, <1>1, <1>2, ReadAsks
<1>7. SizeInv' /\ EndInv'
  BY <1>6 DEF Help, Becomes, SizeInv, EndInv, WillRun, IsDone
<1>. QED BY <1>3, <1>4, <1>5, <1>7 DEF IInv

(* Options that say nothing of the size leave what is known of it, and none  *)
(* of them makes an input good.                                              *)
LEMMA ReadKeepsSizes ==
  ASSUME Shape, SizeInv, NEW O, {"--size", "--sizefact"} \cap O = {},
         NEW n \in Nat, n > i, Read(O, n), UNCHANGED sizes,
         input_state' \in {"Undefined", "PerfRun"} => input_state' = input_state
  PROVE  SizeInv'
<1>1. argv[i] \in O
  BY ReadGivesFacts
<1>2. /\ Asked("--size")' <=> Asked("--size")
      /\ Asked("--sizefact")' <=> Asked("--sizefact")
  BY <1>1, ReadAsks
<1>. QED BY <1>2 DEF SizeInv, sizes

LEMMA OtherOptions ==
  ASSUME IInv, Flag \/ Number \/ Directory \/ DryRun \/ CheckRun
  PROVE  IInv'
<1>1. Shape /\ NamesInv /\ SizeInv
  BY DEF IInv
<1>. DEFINE O == {"--show-progress", "--npasses", "--outdir", "--dryrun", "--checkrun"}
<1>2. O \cap ListOptions = {} /\ {"--size", "--sizefact"} \cap O = {}
  BY DEF ListOptions
<1>3. /\ pc' = "parse" /\ UNCHANGED <<sizes, names>>
      /\ input_state' \in {"Undefined", "PerfRun"} => input_state' = input_state
  BY DEF Flag, Number, Directory, DryRun, CheckRun, Read, Becomes
<1>4. size_meaning' \in {"Unset", "Direct", "Factor"}
  BY <1>1, <1>3 DEF Shape, sizes
<1>5. \E n \in {i + 1, i + 2} : Read(O, n) /\ Skips(n)
  <2>1. CASE Flag
    BY <2>1, <1>1, NextArgument DEF Flag, Read
  <2>2. CASE Number
    <3>1. Read({"--npasses"}, i + 2)
      BY <2>2 DEF Number
    <3>2. argv[i] \in TakesAnything
      BY <3>1 DEF Read, TakesAnything
    <3>. QED BY <3>1, <3>2, <1>1, NextArgument DEF Read
  <2>3. ASSUME NEW o \in O, Read({o}, IF HasValue(i) THEN i + 2 ELSE i + 1)
        PROVE  \E n \in {i + 1, i + 2} : Read(O, n) /\ Skips(n)
    <3>1. CASE HasValue(i)
      BY <3>1, <2>3, <1>1, NextArgument DEF Read, HasValue
    <3>2. CASE ~HasValue(i)
      BY <3>2, <2>3, <1>1, NextArgument DEF Read
    <3>. QED BY <3>1, <3>2
  <2>4. CASE Directory
    BY <2>3, <2>4 DEF Directory
  <2>5. CASE DryRun
    BY <2>5, <1>1, NextArgument DEF DryRun, Read
  <2>6. CASE CheckRun
    BY <2>3, <2>6 DEF CheckRun
  <2>. QED BY <2>1, <2>2, <2>4, <2>5, <2>6
<1>6. PICK n \in {i + 1, i + 2} : Read(O, n) /\ Skips(n)
  BY <1>5
<1>7. n \in Nat /\ n > i
  BY <1>1, NextArgument
<1>. HIDE DEF O
<1>8. NamesInv'
  BY <1>1, <1>2, <1>3, <1>6, <1>7, ReadKeepsNames
<1>9. SizeInv'
  BY <1>1, <1>2, <1>3, <1>6, <1>7, ReadKeepsSizes
<1>. QED BY <1>3, <1>4, <1>6, <1>7, <1>8, <1>9, ReadStep

(* A size that is read is the only one there is, or else the input is bad.   *)
LEMMA SetSizeStep ==
  ASSUME IInv, NEW option, NEW meaning, NEW other, SetSize(option, meaning, other),
         \/ option = "--size" /\ meaning = "Direct" /\ other = "Factor"
         \/ option = "--sizefact" /\ meaning = "Factor" /\ other = "Direct"
  PROVE  IInv'
<1>1. Shape /\ NamesInv /\ SizeInv
  BY DEF IInv
<1>2. Read({option}, i + 2) /\ i + 2 \in Nat /\ i + 2 > i
  BY <1>1, NextArgument DEF SetSize
<1>3. argv[i] = option
  BY <1>1, <1>2, ReadGivesFacts
<1>4. Skips(i + 2)
  BY <1>1, <1>3, NextArgument DEF TakesAnything
<1>5. pc' = "parse" /\ size_meaning' \in {"Unset", "Direct", "Factor"} /\ UNCHANGED names
  BY <1>1, <1>2 DEF SetSize, Read, Shape, sizes
<1>6. NamesInv'
  <2>1. {option} \cap ListOptions = {}
    BY DEF ListOptions
  <2>. QED BY <2>1, <1>1, <1>2, <1>5, ReadKeepsNames
<1>7. /\ Asked("--size")' <=> Asked("--size") \/ option = "--size"
      /\ Asked("--sizefact")' <=> Asked("--sizefact") \/ option = "--sizefact"
  BY <1>1, <1>2, <1>3, ReadAsks
<1>8. SizeInv'
  <2>1. CASE input_state' = "BadInput"
    BY <2>1 DEF SizeInv
  <2>2. CASE input_state' # "BadInput"
    <3>1. /\ input_state' = input_state /\ size' >= 0
          /\ size_meaning' = meaning /\ size_meaning # other
      BY <2>2 DEF SetSize, MaySet, IsSize, Becomes
    <3>. QED BY <3>1, <1>1, <1>7 DEF SizeInv
  <2>. QED BY <2>1, <2>2
<1>. QED BY <1>2, <1>4, <1>5, <1>6, <1>8, ReadStep

LEMMA NamesStep == ASSUME IInv, Names PROVE IInv'
<1>1. Shape /\ NamesInv /\ SizeInv
  BY DEF IInv
<1>. DEFINE n == AfterList(i)
<1>2. n \in Nat /\ n > i /\ Read(ListOptions, n)
  BY <1>1, AfterListFacts DEF Names
<1>3. Skips(n)
  BY <1>1, AfterListFacts, Zenon DEF Skips
<1>4. pc' = "parse" /\ UNCHANGED <<input_state, sizes>>
  BY DEF Names, Read
<1>5. SizeInv'
  <2>1. {"--size", "--sizefact"} \cap ListOptions = {}
    BY DEF ListOptions
  <2>. QED BY <2>1, <1>1, <1>2, <1>4, ReadKeepsSizes
<1>6. NamesInv'
  <2>1. argv[i] \in ListOptions
    BY <1>1, <1>2, ReadGivesFacts
  <2>2. names' = [names EXCEPT ![argv[i]] = @ \cup {argv[k] : k \in ListAfter(i)}]
    BY DEF Names
  <2>3. \A o \in ListOptions :
          Given(o)' = IF argv[i] = o THEN Given(o) \cup {argv[k] : k \in ListAfter(i)}
                      ELSE Given(o)
    BY <1>1, <1>2, ReadChangesGiven
  <2>4. names = [o \in ListOptions |-> Given(o)]
    BY <1>1 DEF NamesInv
  <2>. DEFINE G(o) == Given(o)
              new == {argv[k] : k \in ListAfter(i)}
  <2>5. names' = [o \in ListOptions |-> IF argv[i] = o THEN G(o) \cup new ELSE G(o)]
    <3>. HIDE DEF G, new
    <3>. QED BY <2>1, <2>2, <2>4 DEF G, new
  <2>. QED BY <2>3, <2>5, Zenon DEF NamesInv
<1>7. size_meaning' \in {"Unset", "Direct", "Factor"}
  BY <1>1, <1>4 DEF Shape, sizes
<1>. HIDE DEF n
<1>. QED BY <1>2, <1>3, <1>4, <1>5, <1>6, <1>7, ReadStep

LEMMA UnknownStep == ASSUME IInv, Unknown PROVE IInv'
<1>1. Shape /\ PassedInv /\ NamesInv
  BY DEF IInv
<1>2. UNCHANGED <<argv, read, names, sizes, pc>> /\ i' = i + 1 /\ pc = "parse"
  BY DEF Unknown
<1>3. i \in Nat /\ \A j \in DOMAIN argv : j \in Nat
  BY <1>1, ArgumentFacts DEF Shape
<1>4. Shape'
  BY <1>1, <1>2, <1>3 DEF Shape, sizes
<1>5. PassedInv'
  <2>1. SUFFICES ASSUME NEW j \in DOMAIN argv, j < i + 1, argv[j] \in Options
                 PROVE  Accounted(j)
    BY <1>2 DEF PassedInv, Accounted
  <2>2. j # i
    BY <2>1 DEF Unknown
  <2>3. j < i
    BY <2>1, <2>2, <1>3
  <2>. QED BY <2>1, <2>3, <1>1 DEF PassedInv
<1>6. NamesInv'
  BY <1>1, <1>2 DEF NamesInv, Given, ListAfter, HasDash
<1>7. SizeInv' /\ EndInv'
  BY <1>2 DEF Unknown, Becomes, SizeInv, EndInv, WillRun, IsDone
<1>. QED BY <1>4, <1>5, <1>6, <1>7 DEF IInv

LEMMA ProcessStep == ASSUME IInv, Process PROVE IInv'
<1>1. Shape /\ PassedInv /\ NamesInv /\ SizeInv /\ EndInv
  BY DEF IInv
<1>2. UNCHANGED <<argv, i, read, names>> /\ pc' = "done"
  BY DEF Process
<1>3. Shape'
  BY <1>1, <1>2 DEF Process, Shape, sizes
<1>4. PassedInv'
  BY <1>1, <1>2 DEF PassedInv, Accounted
<1>5. NamesInv'
  BY <1>1, <1>2 DEF NamesInv, Given, ListAfter, HasDash
<1>6. SizeInv'
  <2>1. \A o : Asked(o)' <=> Asked(o)
    BY <1>2 DEF Asked
  <2>2. input_state' \in {"Undefined", "PerfRun"} => input_state \in {"Undefined", "PerfRun"}
    BY DEF Process, Becomes, Decided
  <2>3. CASE size_meaning = "Unset"
    BY <2>1, <2>2, <2>3, <1>1 DEF Process, SizeInv, sizes
  <2>4. CASE size_meaning # "Unset"
    BY <2>1, <2>2, <2>4, <1>1 DEF Process, SizeInv, sizes
  <2>. QED BY <2>3, <2>4
<1>7. EndInv'
  <2>1. Asked("--help")' \/ (i > Len(argv))'
    BY <1>1, <1>2 DEF Process, EndInv, Asked
  <2>2. (size_meaning # "Unset")'
    BY DEF Process, sizes
  <2>3. WillRun' => ~InvalidInput(names)'
    BY <1>2 DEF Process, Becomes, WillRun
  <2>. QED BY <2>1, <2>2, <2>3, <1>2 DEF EndInv
<1>. QED BY <1>3, <1>4, <1>5, <1>6, <1>7 DEF IInv

LEMMA InductiveInvariant == Spec => []IInv
<1>1. ASSUME IInv, [Next]_vars PROVE IInv'
  <2>1. CASE Help
    BY <1>1, <2>1, HelpStep
  <2>2. CASE Flag \/ Number \/ Directory \/ DryRun \/ CheckRun
    BY <1>1, <2>2, OtherOptions
  <2>3. CASE Size \/ SizeFact
    BY <1>1, <2>3, SetSizeStep DEF Size, SizeFact
  <2>4. CASE Names
    BY <1>1, <2>4, NamesStep
  <2>5. CASE Unknown
    BY <1>1, <2>5, UnknownStep
  <2>6. CASE Process
    BY <1>1, <2>6, ProcessStep
  <2>7. CASE UNCHANGED vars
    BY <1>1, <2>7
       DEF vars, sizes, IInv, Shape, PassedInv, Accounted, NamesInv, Given, ListAfter,
           HasDash, SizeInv, EndInv, Asked, WillRun, IsDone
  <2>. QED BY <1>1, <2>1, <2>2, <2>3, <2>4, <2>5, <2>6, <2>7 DEF Next, Finished
<1>. QED BY <1>1, InitIsFine, PTL DEF Spec

-----------------------------------------------------------------------------
(* The properties *)

(* No option is lost behind a list or a value: whatever the arguments are,   *)
(* each option is read, or is the value of an option that takes any value,   *)
(* unless help stopped the reading (RunParams.cpp:262-845).                  *)
THEOREM OptionsAreNotLost == Spec => []NoOptionIsSkipped
<1>1. IInv => NoOptionIsSkipped
  <2>1. SUFFICES ASSUME IInv, IsDone, ~Asked("--help"), NEW j \in DOMAIN argv, argv[j] \in Options
                 PROVE  Accounted(j)
    BY DEF NoOptionIsSkipped, Accounted
  <2>2. Shape /\ PassedInv /\ i > Len(argv)
    BY <2>1 DEF IInv, EndInv, IsDone
  <2>3. j < i
    BY <2>2, ArgumentFacts DEF Shape
  <2>. QED BY <2>1, <2>2, <2>3 DEF PassedInv
<1>. QED BY <1>1, InductiveInvariant, PTL

(* What runs was given names that exist only.                                *)
LEMMA RunNames ==
  ASSUME IInv, WillRun
  PROVE  /\ \A o \in ListOptions : names[o] = Given(o)
         /\ ~InvalidInput(names)
BY DEF IInv, NamesInv, EndInv

LEMMA KnownNames ==
  ASSUME NEW given, UnknownKernels(given) = {}
  PROVE  \A n \in given : n \in Group \/ \E k \in Kernel : n \in {k, KernelName[k]}
BY DEF UnknownKernels, IsNamed

(* Names that do not exist keep the Suite from running, whatever kernels,    *)
(* groups, features and variants there are, and in whatever order the        *)
(* options are given (RunParams.cpp:1700-1710 and 1852-1857).                *)
THEOREM BadNamesNeverRun == Spec => []BadNamesDoNotRun
<1>1. ASSUME IInv, WillRun PROVE BadNamesDoNotRun
  <2>1. /\ \A o \in ListOptions : names[o] = Given(o)
        /\ ~InvalidInput(names)
    BY <1>1, RunNames
  <2>2. ASSUME NEW o \in {"--kernels", "--exclude-kernels"}, NEW n \in Given(o)
        PROVE  n \in Group \/ \E k \in Kernel : Means(n, k)
    <3>1. UnknownKernels(Given(o)) = {}
      BY <2>1 DEF InvalidInput, ListOptions
    <3>. QED BY <3>1, KnownNames DEF Means
  <2>3. \A o \in {"--features", "--exclude-features"} : Given(o) \subseteq Feature
    BY <2>1 DEF InvalidInput, ListOptions
  <2>4. \A o \in {"--variants", "--exclude-variants"} : Given(o) \subseteq Available
    BY <2>1 DEF InvalidInput, ListOptions
  <2>. QED BY <2>2, <2>3, <2>4 DEF BadNamesDoNotRun
<1>2. IInv => BadNamesDoNotRun
  BY <1>1 DEF BadNamesDoNotRun
<1>. QED BY <1>2, InductiveInvariant, PTL

(* A kernel is one of the named if it is in a group or has a name of the     *)
(* list: no name of a kernel is the name of a group.                         *)
LEMMA NamedMeans ==
  ASSUME NEW given, NEW k \in Kernel
  PROVE  InGroups(k, given) \/ IsNamed(k, given) <=> \E n \in given : Means(n, k)
<1>1. k \notin Group /\ KernelName[k] \notin Group
  OBVIOUS
<1>. QED BY <1>1 DEF InGroups, IsNamed, Means

(* The suite runs exactly what was asked for in any of the ways to ask and   *)
(* not excluded in any of them (RunParams.cpp:1555-1694 and 1786-1840).      *)
THEOREM AskedIsRun == Spec => []RunsWhatWasAsked
<1>1. ASSUME IInv, WillRun PROVE RunsWhatWasAsked
  <2>1. /\ \A o \in ListOptions : names[o] = Given(o)
        /\ ~InvalidInput(names)
    BY <1>1, RunNames
  <2>. DEFINE in == Given("--kernels")
              out == Given("--exclude-kernels")
              with == Given("--features")
              without == Given("--exclude-features")
              v_in == Given("--variants")
              v_out == Given("--exclude-variants")
  <2>2. /\ names["--kernels"] = in /\ names["--exclude-kernels"] = out
        /\ names["--features"] = with /\ names["--exclude-features"] = without
        /\ names["--variants"] = v_in /\ names["--exclude-variants"] = v_out
    BY <2>1 DEF ListOptions
  <2>3. /\ with \subseteq Feature /\ without \subseteq Feature
        /\ v_in \subseteq Available /\ v_out \subseteq Available
    BY <2>1, <2>2 DEF InvalidInput
  <2>. HIDE DEF in, out, with, without, v_in, v_out
  <2>4. ASSUME NEW k \in Kernel
        PROVE  k \in run_kernels(names) <=>
                 /\ in \cup with = {} \/ (\E n \in in : Means(n, k)) \/ Uses(k, with)
                 /\ ~((\E n \in out : Means(n, k)) \/ Uses(k, without))
    <3>1. k \in exclude_kernels(names) <=> (\E n \in out : Means(n, k)) \/ Uses(k, without)
      BY <2>2, <2>3, NamedMeans DEF exclude_kernels
    <3>2. CASE in = {} /\ with = {}
      BY <2>2, <3>1, <3>2 DEF run_kernels, Kept
    <3>3. CASE ~(in = {} /\ with = {})
      <4>1. k \in run_kernels(names) <=>
              /\ Uses(k, with) \/ InGroups(k, in) \/ IsNamed(k, in)
              /\ k \notin exclude_kernels(names)
        BY <2>2, <2>3, <3>3 DEF run_kernels, Kept, WithFeatures
      <4>2. in \cup with # {}
        BY <3>3
      <4>. QED BY <4>1, <4>2, <3>1, NamedMeans
    <3>. QED BY <3>2, <3>3
  <2>5. ASSUME NEW v \in Available
        PROVE  v \in run_variants(names) <=>
                 /\ v \in v_in \/ v_in = {}
                 /\ v \notin v_out
    BY <2>2 DEF run_variants
  <2>. QED BY <2>4, <2>5 DEF RunsWhatWasAsked, in, out, with, without, v_in, v_out
<1>2. IInv => RunsWhatWasAsked
  BY <1>1 DEF RunsWhatWasAsked
<1>. QED BY <1>2, InductiveInvariant, PTL

(* A performance run has one size or one factor that is not negative,        *)
(* whatever else is given (RunParams.cpp:352-404 and 851-856).               *)
THEOREM SizesAreAlwaysValid == Spec => []SizesAreValid
<1>1. IInv => SizesAreValid
  BY DEF IInv, SizeInv, EndInv, SizesAreValid, WillRun, IsDone
<1>. QED BY <1>1, InductiveInvariant, PTL

(* No option but --checkrun and --help, and nothing that is done after the   *)
(* last of them, makes good what was bad input (RunParams.cpp:791-801).      *)
THEOREM BadStaysBad == Spec => BadInputStays
<1>1. ASSUME [Next]_vars
      PROVE  [input_state = "BadInput" /\ input_state' # "BadInput" =>
                pc = "parse" /\ argv[i] \in {"--checkrun", "--help"}]_vars
  <2>1. CASE UNCHANGED vars
    BY <2>1
  <2>2. CASE Help \/ CheckRun
    BY <2>2 DEF Help, CheckRun, Read
  <2>3. CASE Flag \/ Number \/ Size \/ SizeFact \/ Names \/ Directory \/ DryRun \/ Unknown \/ Process
    BY <2>3 DEF Flag, Number, Size, SizeFact, SetSize, Names, Directory, DryRun, MayDryRun,
                Unknown, Process, Decided, Becomes
  <2>. QED BY <1>1, <2>1, <2>2, <2>3 DEF Next, Finished
<1>. QED BY <1>1, PTL DEF Spec, BadInputStays
=============================================================================
