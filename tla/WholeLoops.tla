----------------------------- MODULE WholeLoops -----------------------------
(***************************************************************************)
(* KernelRun as a user of the kernels thinks of it: a parallel loop is one *)
(* step, and leaves the memory that its workers leave one after the other. *)
(* While a loop runs, mem is what it will leave.                           *)
(***************************************************************************)
EXTENDS Integers, Sequences

CONSTANTS
    Catalog, Chosen, Reps,
    SetUpMemory(_),     \* the memory when setUp has returned
    Whole(_, _, _)      \* what a loop leaves of a memory in a repetition

VARIABLES kernel, variant, phase, live, rep, stage, mem

vars == <<kernel, variant, phase, live, rep, stage, mem>>

data == Catalog[kernel].data
program == Catalog[kernel][variant]

Init ==
    /\ \E p \in Chosen : kernel = p[1] /\ variant = p[2]
    /\ phase = "new"
    /\ live = {}
    /\ rep = 1 /\ stage = 1
    /\ mem = <<>>

SetUp ==
    /\ phase = "new"
    /\ phase' = "run"
    /\ live' = DOMAIN data.heap
    /\ mem' = Whole(SetUpMemory(data), rep, program[stage].workers)
    /\ UNCHANGED <<kernel, variant, rep, stage>>

NextLoop ==
    /\ phase = "run"
    /\ IF stage < Len(program)
       THEN stage' = stage + 1 /\ UNCHANGED <<rep, phase>>
       ELSE IF rep < Reps
            THEN rep' = rep + 1 /\ stage' = 1 /\ UNCHANGED phase
            ELSE phase' = "ran" /\ UNCHANGED <<rep, stage>>
    /\ mem' = IF phase' = "run" THEN Whole(mem, rep', program[stage'].workers) ELSE mem
    /\ UNCHANGED <<kernel, variant, live>>

UpdateChecksum ==
    /\ phase = "ran"
    /\ phase' = "checked"
    /\ UNCHANGED <<kernel, variant, live, rep, stage, mem>>

TearDown ==
    /\ phase = "checked"
    /\ phase' = "down"
    /\ live' = live \ data.freed
    /\ UNCHANGED <<kernel, variant, rep, stage, mem>>

Next == SetUp \/ NextLoop \/ UpdateChecksum \/ TearDown

Spec == Init /\ [][Next]_vars
=============================================================================
