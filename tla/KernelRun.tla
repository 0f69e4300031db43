----------------------------- MODULE KernelRun -----------------------------
(***************************************************************************)
(* KernelBase::execute for one variant of one kernel: setUp, the           *)
(* repetitions with their parallel loops, updateChecksum, tearDown.        *)
(*                                                                         *)
(* The workers of a loop are started in its order, and at most Together of *)
(* them are unfinished at any time, at jobs no more than Lead apart.       *)
(* NoRace does not rest on that schedule: it compares the jobs of all      *)
(* workers of a loop, any two of which may run at the same time; and where *)
(* it holds a loop leaves one memory, however its workers are scheduled:   *)
(* OrderDoesNotMatter of KernelRunProofs.                                  *)
(***************************************************************************)
EXTENDS KernelMemory

CONSTANTS
    Together,   \* bounds on the schedules: how many workers are unfinished at a time,
    Lead        \* and how many workers or jobs one of them may lead another

VARIABLES
    kernel, variant,    \* what is executed
    phase,              \* "new", "run", "ran", "checked", "down"
    live,               \* arrays that are allocated
    rep, stage,         \* the repetition and its loop that is running
    next,               \* the first worker of the loop that has not started
    team,               \* the unfinished workers: <<worker, job it is at>>
    mem                 \* array -> index -> where the value of the cell comes from

vars == <<kernel, variant, phase, live, rep, stage, next, team, mem>>

-----------------------------------------------------------------------------
data == Catalog[kernel].data
program == Catalog[kernel][variant]
workers == program[stage].workers
At_(u) == workers[u[1]][u[2]]               \* the job an unfinished worker is at

Init ==
    /\ \E p \in Chosen : kernel = p[1] /\ variant = p[2]
    /\ phase = "new"
    /\ live = {}
    /\ rep = 1 /\ stage = 1 /\ next = 1
    /\ team = {}
    /\ mem = <<>>

SetUp ==
    /\ phase = "new"
    /\ phase' = "run"
    /\ live' = DOMAIN data.heap
    /\ mem' = SetUpMemory(data)
    /\ UNCHANGED <<kernel, variant, rep, stage, next, team>>

\* A worker starts; a thread that its guard keeps from the body is over at once.
Begin ==
    /\ phase = "run"
    /\ next <= Len(workers)
    /\ Cardinality(team) < Together
    /\ \A u \in team : next - u[1] <= Lead
    /\ next' = next + 1
    /\ team' = IF workers[next] = <<>> THEN team ELSE team \cup {<<next, 1>>}
    /\ UNCHANGED <<kernel, variant, phase, live, rep, stage, mem>>

\* An unfinished worker executes the job it is at.
Execute ==
    /\ phase = "run"
    /\ \E u \in team :
        /\ \A v \in team : u[2] - v[2] <= Lead
        /\ mem' = Apply(mem, rep, At_(u))
        /\ team' = (team \ {u}) \cup
                     (IF u[2] < Len(workers[u[1]]) THEN {<<u[1], u[2] + 1>>} ELSE {})
    /\ UNCHANGED <<kernel, variant, phase, live, rep, stage, next>>

\* The end of the parallel loop, or of the kernel in the stream of the device.
EndLoop ==
    /\ phase = "run"
    /\ next > Len(workers) /\ team = {}
    /\ next' = 1
    /\ IF stage < Len(program)
       THEN stage' = stage + 1 /\ UNCHANGED <<rep, phase>>
       ELSE IF rep < Reps
            THEN rep' = rep + 1 /\ stage' = 1 /\ UNCHANGED phase
            ELSE phase' = "ran" /\ UNCHANGED <<rep, stage>>
    /\ UNCHANGED <<kernel, variant, live, team, mem>>

UpdateChecksum ==
    /\ phase = "ran"
    /\ phase' = "checked"
    /\ UNCHANGED <<kernel, variant, live, rep, stage, next, team, mem>>

TearDown ==
    /\ phase = "checked"
    /\ phase' = "down"
    /\ live' = live \ data.freed
    /\ UNCHANGED <<kernel, variant, rep, stage, next, team, mem>>

Next == SetUp \/ Begin \/ Execute \/ EndLoop \/ UpdateChecksum \/ TearDown

Spec == Init /\ [][Next]_vars

-----------------------------------------------------------------------------
(* What every variant of a kernel owes *)

\* Every loop that starts is free of races.
Starting == phase = "run" /\ next = 1 /\ team = {}
NoRace == Starting => RaceFree(workers)

\* No job leaves the arrays setUp allocated, and none reads or adds to a cell
\* that was never written; nor does the checksum.
Allocated(x, n) == x \in live /\ n <= data.heap[x]
AccessesAreValid ==
    /\ Starting => StaysInside(mem, workers)
    /\ \A u \in team : \A c \in At_(u).r \cup At_(u).a : In(mem, c) # Raw
    /\ phase = "ran" =>
          \A x \in DOMAIN data.check :
              /\ Allocated(x, data.check[x])
              /\ \A i \in 0 .. data.check[x] - 1 : mem[x][i] # Raw

\* tearDown frees every array setUp allocated, and only those.
MemoryIsReturned == /\ phase = "checked" => data.freed \subseteq live
                    /\ phase = "down" => live = {}

\* What the kernel information file reports of a repetition is what runs: one
\* kernel for every loop or launch.
Launches == FoldLeft(LAMBDA n, s : n + s.loops, 0, program)
KernelsPerRepAreLaunches == phase = "ran" => data.kernels = Launches

-----------------------------------------------------------------------------
(* The order in which the workers run does not matter: KernelRun implements *)
(* WholeLoops, with the memory that the unfinished workers, and those that   *)
(* have not started, will leave if they go on one after the other.           *)

\* The job at which worker u is; past the last one if it has ended.
JobAt(u) ==
    IF \E n \in DOMAIN workers[u] : <<u, n>> \in team
    THEN CHOOSE n \in DOMAIN workers[u] : <<u, n>> \in team
    ELSE IF u < next THEN Len(workers[u]) + 1 ELSE 1
Outcome == IF phase = "run" THEN RunLoop(mem, rep, workers, [u \in DOMAIN workers |-> JobAt(u)])
           ELSE mem

Abstract == INSTANCE WholeLoops WITH mem <- Outcome
ImplementsWholeLoops == Abstract!Spec

\* What an unfinished worker is about to read keeps its value, whatever the
\* others do, until it has read it.
ReadsKeepTheirValue ==
    [][\A t \in team \cap team' : \A c \in At_(t).r : In(mem', c) = In(mem, c)]_vars
=============================================================================
