---------------------------- MODULE SequentialRun ----------------------------
(***************************************************************************)
(* What Base_Seq does with the memory of a kernel, as a function of the     *)
(* place in the order of its iterations, and what the other variants owe    *)
(* to it.                                                                   *)
(***************************************************************************)
EXTENDS KernelRun

\* The jobs of one repetition of Base_Seq, in their order.
SequentialJobs ==
    LET catalog == Catalog IN
    [k \in {p[1] : p \in Chosen} |->
        FlattenSeq([s \in DOMAIN catalog[k].Seq |-> catalog[k].Seq[s].workers[1]])]

\* A place in the order of all repetitions: job n of len jobs in repetition r.
InOrder(r, n, len) == (r - 1) * len + n
InAllReps(ns, len) == {InOrder(r, n, len) : r \in 1 .. Reps, n \in ns}

\* A run of Base_Seq: its jobs, and the places in the order of all repetitions
\* at which a cell is written and added to.
Sequential ==
    LET catalog == Catalog IN
    [k \in {p[1] : p \in Chosen} |->
        LET jobs   == SequentialJobs[k]
            start  == SetUpMemory(catalog[k].data)
            cells  == UNION {{<<x, i>> : i \in DOMAIN start[x]} : x \in DOMAIN start}
        IN  [start   |-> start,
             ids     |-> [n \in DOMAIN jobs |-> jobs[n].id],
             from    |-> [n \in DOMAIN jobs |-> jobs[n].from],
             place   |-> [i \in {jobs[n].id : n \in DOMAIN jobs} |->
                             CHOOSE n \in DOMAIN jobs : jobs[n].id = i],
             writers |-> [c \in cells |-> InAllReps({n \in DOMAIN jobs : c \in jobs[n].w}, Len(jobs))],
             adders  |-> [c \in cells |-> InAllReps({n \in DOMAIN jobs : c \in jobs[n].a}, Len(jobs))]]]

\* The repetition and the job of a place, and where that job takes contributions from.
Tag(s, m) == <<((m - 1) \div Len(s.ids)) + 1, s.ids[((m - 1) % Len(s.ids)) + 1]>>
From(s, m) == s.from[((m - 1) % Len(s.ids)) + 1]

\* When the jobs at the places E of the order s have run: the last that wrote
\* the cell c, and the contributions of those that have added to it since.
LastWriter(s, c, E) == Max((s.writers[c] \cap E) \cup {0})
AddedSince(s, c, E, last) == SetToBag({Tag(s, m) : m \in {m \in s.adders[c] \cap E : last < m}})

\* What is in c then, if before[m][d] is what was in the cell d before place m:
\* what that writer left, with the contributions it took along and those added
\* since.  Base_Seq adds no cell to another.
ValueAfter(s, before, c, E) ==
    LET last  == LastWriter(s, c, E)
        added == AddedSince(s, c, E, last)
    IN  IF last = 0 THEN [In(s.start, c) EXCEPT !.plus = added]
        ELSE [by   |-> Tag(s, last),
              plus |-> IF c \in DOMAIN From(s, last)
                       THEN added (+) before[last][From(s, last)[c]].plus ELSE added]

\* What Base_Seq leaves in cell c before the place n.
SequentialValue(c, n) ==
    LET s == Sequential[kernel]
        before[m \in Nat] == [d \in DOMAIN s.writers |-> ValueAfter(s, before, d, 1 .. m - 1)]
    IN  before[n][c]

\* The place at which Base_Seq runs the job with this id in repetition r, and
\* the one after the last job of r.
Place(r, i) == InOrder(r, Sequential[kernel].place[i], Len(Sequential[kernel].ids))
PlaceAfter(r) == r * Len(Sequential[kernel].ids) + 1

-----------------------------------------------------------------------------
(* What the variants of a kernel owe to Base_Seq *)

\* Every iteration reads the values it reads in Base_Seq, so that by induction
\* over the iterations it computes the same values.
UsedBySeq(c) == c \notin data.locals \/ Sequential[kernel].writers[c] # {}
ReadsAsSequential ==
    \A u \in team :
        LET j == At_(u)
        IN  j.id \in DOMAIN Sequential[kernel].place =>
                \A c \in j.r :
                    Holds(mem, c) /\ UsedBySeq(c) => In(mem, c) = SequentialValue(c, Place(rep, j.id))

\* At the end of a repetition every array and every member of the kernel holds
\* what Base_Seq leaves there: no iteration is lost, none runs twice, and every
\* contribution to a sum or a scan is counted once.
EndsAsSequential ==
    (phase = "run" /\ stage = Len(program) /\ next > Len(workers) /\ team = {}) =>
        \A x \in DOMAIN mem : \A i \in DOMAIN mem[x] :
            LET c == <<x, i>>
            IN  c \in data.locals \/ In(mem, c) = SequentialValue(c, PlaceAfter(rep))
=============================================================================
