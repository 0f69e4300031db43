------------------------------- MODULE Suite --------------------------------
(***************************************************************************)
(* main, Executor and KernelBase on several MPI ranks: every rank parses the *)
(* same command line, sets up the suite, runs the warmup kernels and the     *)
(* passes, and writes its part of the reports. Nothing but the collective    *)
(* calls keeps the ranks together: the barriers around each timing, the one  *)
(* after the output directory is made, the reductions of the checksum report *)
(* and MPI_Finalize.                                                         *)
(*                                                                           *)
(* Kernels and variants are numbered in the order of their enums. A kernel   *)
(* object has a list of tuning names per variant, empty when the variant is  *)
(* not defined. What a kernel computes is left out: its checksum grows by    *)
(* one for each execution.                                                   *)
(***************************************************************************)
EXTENDS Integers, Sequences, FiniteSets, Functions

CONSTANTS Rank,         \* 0 is the rank that writes the files
          NumKernels, NumVariants,
          Tunings,      \* variant_tuning_names: per kernel and variant
          WarmupOf,     \* per kernel: the warmup kernels of its features
          Inputs,       \* what the command line may have asked for
          FilesMayFail  \* whether the checksum file may fail to open

KernelID == 1 .. NumKernels
VariantID == 1 .. NumVariants
Entry == UNION {{<<k, v, t>> : t \in DOMAIN Tunings[k][v]} : k \in KernelID, v \in VariantID}

VARIABLES input,    \* RunParams, the same on every rank
          pc, todo, \* per rank: where it is, and what is left to do there
          num_exec, checksum, \* per rank: of the kernel objects of the suite
          entered,  \* per rank: collective calls begun
          inside,   \* per rank: the call it has not returned from, or Idle
          calls     \* the n-th collective call of the rank that was first to it
vars == <<input, pc, todo, num_exec, checksum, entered, inside, calls>>
records == <<num_exec, checksum>>
collectives == <<entered, inside, calls>>
Idle == <<"none">>

-----------------------------------------------------------------------------
ASSUME SuiteAssumption ==
  /\ NumKernels \in Nat /\ NumVariants \in Nat
  /\ \A k \in KernelID, v \in VariantID : Tunings[k][v] \in Seq(STRING)
  /\ \A x \in Inputs : /\ x.npasses \in Int
                       /\ x.kernels \subseteq KernelID /\ x.variants \subseteq VariantID

(* A rank goes through loops in loops, each of them upwards: what it does is  *)
(* the list of the values of its loop counters, in lexicographic order.      *)
Counters == Nat \X Nat \X Nat \X Nat
Earlier(a, b) == \E i \in 1 .. 4 : a[i] < b[i] /\ \A j \in 1 .. i - 1 : a[j] = b[j]
InLoopOrder(S) ==
  [i \in 1 .. Cardinality(S) |->
     CHOOSE a \in S : Cardinality({b \in S : Earlier(b, a)}) = i - 1]

(* setupSuite, for the input x.                                               *)
IsRun(x, n) == n \notin x.excluded /\ (x.selected = {} \/ n \in x.selected)
tuning_names(x, v) == {n \in UNION {Range(Tunings[k][v]) : k \in x.kernels} : IsRun(x, n)}

(* The executions of a pass through kernels S: over the kernels, the variants *)
(* and the tunings of a variant. Pass 0 is that of the warmup kernels.       *)
ToRun(x, S) ==
  {e \in Entry : /\ e[1] \in S /\ e[2] \in x.variants
                 /\ Tunings[e[1]][e[2]][e[3]] \in tuning_names(x, e[2])}
InPass(p, E) == {<<p, e[1], e[2], e[3]>> : e \in E}
EntryOf(w) == <<w[2], w[3], w[4]>>

(* The warmup kernels are objects of their own; a wrong variant runs those   *)
(* of the suite.                                                             *)
Warmups(x) == UNION {WarmupOf[k] : k \in x.kernels}
OnAnyObject(w) == TRUE
OnSuiteObject(w) == w[1] > 0
WarmupRun(x) == IF x.warmup THEN InPass(0, ToRun(x, Warmups(x))) ELSE {}
Passes(x) == UNION {InPass(p, ToRun(x, x.kernels)) : p \in 1 .. x.npasses}
Executions(x) == InLoopOrder(WarmupRun(x) \cup Passes(x))

(* writeChecksumReport: over the kernels, three loops over the variants with *)
(* so many calls in each: the sum; the minimum, maximum and sum of the       *)
(* differences; their deviation.                                             *)
CallsOfLoop == <<1, 3, 1>>
Reductions(x) ==
  InLoopOrder({w \in x.kernels \X (1 .. 3) \X (1 .. Cardinality(x.variants)) \X (1 .. 3) :
                 w[4] <= CallsOfLoop[w[2]]})

-----------------------------------------------------------------------------
(* A collective call returns when every rank has begun its call of the same  *)
(* number.                                                                   *)
Enter(r, call) ==
  /\ inside[r] = Idle
  /\ entered' = [entered EXCEPT ![r] = @ + 1]
  /\ inside' = [inside EXCEPT ![r] = call]
  /\ calls' = IF entered[r] = Len(calls) THEN Append(calls, call) ELSE calls
MayReturn(r) == \A q \in Rank : entered[q] >= entered[r]
Return(r) ==
  /\ inside[r] # Idle /\ MayReturn(r)
  /\ inside' = [inside EXCEPT ![r] = Idle]
  /\ UNCHANGED <<entered, calls>>

Goto(r, l) == pc' = [pc EXCEPT ![r] = l]

Init ==
  /\ input \in Inputs
  /\ pc = [r \in Rank |-> "setup"]
  /\ todo = [r \in Rank |-> <<>>]
  /\ num_exec = [r \in Rank |-> [e \in Entry |-> 0]]
  /\ checksum = [r \in Rank |-> [e \in Entry |-> 0]]
  /\ entered = [r \in Rank |-> 0]
  /\ inside = [r \in Rank |-> Idle]
  /\ calls = <<>>

WillRun == input.state \in {"PerfRun", "CheckRun"}
Setup(r) ==
  /\ pc[r] = "setup"
  /\ Goto(r, IF WillRun THEN "execute" ELSE "finalize")
  /\ todo' = [todo EXCEPT ![r] = IF WillRun THEN Executions(input) ELSE <<>>]
  /\ UNCHANGED <<input, records, collectives>>

(* execute: setUp and the barrier of startTimer, the repetitions and the     *)
(* barrier of stopTimer, the record of the time, the checksum and tearDown.  *)
StartTimer(r) ==
  /\ pc[r] = "execute" /\ todo[r] # <<>>
  /\ Enter(r, <<"start", EntryOf(Head(todo[r]))>>)
  /\ Goto(r, "started")
  /\ UNCHANGED <<input, todo, records>>
StopWithoutBarrier(r) ==
  /\ pc[r] = "started" /\ inside[r] = Idle
  /\ Goto(r, "stopped")
  /\ UNCHANGED <<input, todo, records, collectives>>
StopTimer(r) ==
  /\ pc[r] = "started"
  /\ Enter(r, <<"stop", EntryOf(Head(todo[r]))>>)
  /\ Goto(r, "stopped")
  /\ UNCHANGED <<input, todo, records>>
RecordExecution(r) ==
  /\ pc[r] = "stopped" /\ inside[r] = Idle
  /\ LET w == Head(todo[r])
         Count(f) == [f EXCEPT ![r][EntryOf(w)] = @ + (IF OnSuiteObject(w) THEN 1 ELSE 0)]
     IN  num_exec' = Count(num_exec) /\ checksum' = Count(checksum)
  /\ todo' = [todo EXCEPT ![r] = Tail(@)]
  /\ Goto(r, "execute")
  /\ UNCHANGED <<input, collectives>>

(* outputRunData: the other ranks wait for rank 0 to make the directory. In a *)
(* wrong variant rank 0 returns without the barrier if it cannot make it.    *)
ReturnIfNotMade(r) ==
  /\ pc[r] = "execute" /\ todo[r] = <<>>
  /\ IF input.outdir /\ r # 0 THEN Enter(r, <<"mkdir">>) ELSE UNCHANGED collectives
  /\ Goto(r, "report")
  /\ UNCHANGED <<input, todo, records>>
MakeDirectory(r) ==
  /\ pc[r] = "execute" /\ todo[r] = <<>>
  /\ IF input.outdir THEN Enter(r, <<"mkdir">>) ELSE UNCHANGED collectives
  /\ Goto(r, "report")
  /\ UNCHANGED <<input, todo, records>>
(* The report is written if the file is good. On the other ranks the file is *)
(* a null stream, which is always good.                                      *)
WriteChecksumReport(r) ==
  /\ pc[r] = "report" /\ inside[r] = Idle
  /\ \E good \in (IF r = 0 /\ FilesMayFail THEN BOOLEAN ELSE {TRUE}) :
       todo' = [todo EXCEPT ![r] = IF good THEN Reductions(input) ELSE <<>>]
  /\ Goto(r, "reduce")
  /\ UNCHANGED <<input, records, collectives>>
Reduce(r) ==
  /\ pc[r] = "reduce" /\ todo[r] # <<>>
  /\ Enter(r, <<"reduce", Head(todo[r])>>)
  /\ todo' = [todo EXCEPT ![r] = Tail(@)]
  /\ UNCHANGED <<input, pc, records>>
EndReport(r) ==
  /\ pc[r] = "reduce" /\ todo[r] = <<>> /\ inside[r] = Idle
  /\ Goto(r, "finalize")
  /\ UNCHANGED <<input, todo, records, collectives>>
(* In a wrong variant only rank 0 goes this way when nothing was run.        *)
FinalizeIfRun(r) ==
  /\ pc[r] = "finalize"
  /\ IF WillRun \/ r = 0 THEN Enter(r, <<"finalize">>) ELSE UNCHANGED collectives
  /\ Goto(r, "done")
  /\ UNCHANGED <<input, todo, records>>
Finalize(r) ==
  /\ pc[r] = "finalize"
  /\ Enter(r, <<"finalize">>)
  /\ Goto(r, "done")
  /\ UNCHANGED <<input, todo, records>>
ReturnFromCall(r) == Return(r) /\ UNCHANGED <<input, pc, todo, records>>

RankStep(r) ==
  \/ Setup(r) \/ StartTimer(r) \/ StopTimer(r) \/ RecordExecution(r)
  \/ MakeDirectory(r) \/ WriteChecksumReport(r) \/ Reduce(r) \/ EndReport(r)
  \/ Finalize(r) \/ ReturnFromCall(r)
AllDone == \A r \in Rank : pc[r] = "done" /\ inside[r] = Idle
Finished == AllDone /\ UNCHANGED vars
Next == (\E r \in Rank : RankStep(r)) \/ Finished
Spec == Init /\ [][Next]_vars
Fairness == \A r \in Rank : WF_vars(RankStep(r))
LiveSpec == Spec /\ Fairness

-----------------------------------------------------------------------------
(* No entry is executed more often than there are passes, and a number of    *)
(* passes that is not positive is none.                                      *)
NumPasses == IF input.npasses > 0 THEN input.npasses ELSE 0
TypeOK ==
  /\ input \in Inputs
  /\ pc \in [Rank -> {"setup", "execute", "started", "stopped", "report", "reduce", "finalize", "done"}]
  /\ num_exec \in [Rank -> [Entry -> 0 .. NumPasses]]
  /\ checksum \in [Rank -> [Entry -> 0 .. NumPasses]]
  /\ entered \in [Rank -> 0 .. Len(calls)]

(* The collective calls of the ranks are the same calls in the same order:   *)
(* a barrier of one timing never pairs with one of another, a reduction with *)
(* another reduction or a barrier (KernelBase.hpp:377 and 387,               *)
(* OutputUtils.cpp:55 and 145, Executor.cpp:1331-1395).                      *)
CollectivesMatch ==
  \A r \in Rank : inside[r] # Idle => inside[r] = calls[entered[r]]

(* A rank's time runs from its return from the barrier of startTimer to      *)
(* timer.stop(), which is behind the barrier of stopTimer; its repetitions   *)
(* are between the two barriers (KernelBase.hpp:373-390).                    *)
Repeats(r) == pc[r] = "started" /\ inside[r] = Idle
IsTimed(r) == Repeats(r) \/ pc[r] = "stopped"

(* While a rank goes through its repetitions every other rank has entered    *)
(* the first barrier of the same execution and has not left the second: no   *)
(* rank's setUp, checksum or tearDown slows them down. Those that leave the  *)
(* second barrier first may go on while the time of a slower rank still      *)
(* runs, but not into their next timing: ranks that are timed are timed in   *)
(* the same execution.                                                       *)
RanksAreTimedTogether ==
  \A r, q \in Rank :
    /\ Repeats(r) => /\ pc[q] = "started" \/ (pc[q] = "stopped" /\ inside[q] # Idle)
                     /\ Head(todo[q]) = Head(todo[r])
    /\ IsTimed(r) /\ IsTimed(q) => Head(todo[q]) = Head(todo[r])

(* What the reports of a rank show: an entry is in the timing table if its   *)
(* tuning was selected.                                                      *)
IsReporting(r) == WillRun /\ pc[r] \in {"report", "reduce", "finalize", "done"}
TimingReported(e) ==
  /\ e[1] \in input.kernels /\ e[2] \in input.variants
  /\ Tunings[e[1]][e[2]][e[3]] \in tuning_names(input, e[2])
(* When the reports are written every entry of the timing table was executed *)
(* once per pass and nothing else was executed, so that the average divides  *)
(* by the right number and checksums of one kernel are sums of equally many. *)
RecordsAreOfThePasses ==
  \A r \in Rank : IsReporting(r) =>
    \A e \in Entry :
      /\ num_exec[r][e] = (IF TimingReported(e) THEN NumPasses ELSE 0)
      /\ checksum[r][e] = num_exec[r][e]

(* Every rank gets through MPI_Finalize.                                     *)
AllRanksFinish == <>AllDone

=============================================================================
