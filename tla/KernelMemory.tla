---------------------------- MODULE KernelMemory ----------------------------
(***************************************************************************)
(* The memory of a kernel, which says of every cell where its value comes  *)
(* from, what the jobs of a program do to it, and when jobs conflict.      *)
(***************************************************************************)
EXTENDS KernelLoops, Bags

CONSTANTS
    Catalog,    \* kernel name -> [data, Seq, and a program for each other variant]
    Chosen,     \* the <<kernel, variant>> pairs that are run
    Reps        \* run_reps

\* A worker is a sequence of jobs, a loop one of workers, a program one of loops.
\* A job reads the cells whose contributions it takes.
IsList(s) == Len(s) \in Nat /\ s = [n \in 1 .. Len(s) |-> s[n]]
IsJob(j) == DOMAIN j.from \subseteq j.w \cup j.a /\ \A c \in DOMAIN j.from : j.from[c] \in j.r
IsLoop(ws) == IsList(ws) /\ \A u \in DOMAIN ws : /\ IsList(ws[u])
                                                /\ \A n \in DOMAIN ws[u] : IsJob(ws[u][n])
IsProgram(prog) == /\ IsList(prog) /\ Len(prog) > 0
                   /\ \A s \in DOMAIN prog : IsLoop(prog[s].workers)
ASSUME CatalogAssumption ==
    /\ Reps \in Nat \ {0}
    /\ LET catalog == Catalog IN \A p \in Chosen : IsProgram(catalog[p[1]][p[2]])

-----------------------------------------------------------------------------
(* Where values come from *)

Raw == [by |-> <<"raw">>, plus |-> EmptyBag]        \* never written
Start == [by |-> <<"setUp">>, plus |-> EmptyBag]    \* written by setUp

\* Memory holds a cell, a pair of an array and an index; and what it holds there.
Holds(m, c) == c = <<c[1], c[2]>> /\ c[1] \in DOMAIN m /\ c[2] \in DOMAIN m[c[1]]
In(m, c) == m[c[1]][c[2]]

\* The memory of a kernel when setUp has returned.
SetUpMemory(d) ==
    LET Indices(x) == IF x \in DOMAIN d.heap THEN 0 .. d.heap[x] - 1
                      ELSE IF x \in d.members THEN {0}
                      ELSE {c[2] : c \in {k \in d.locals : k[1] = x}}
    IN  [x \in DOMAIN d.heap \cup d.members \cup {c[1] : c \in d.locals} |->
            [i \in Indices(x) |-> IF x \in d.raw \/ <<x, i>> \in d.locals THEN Raw ELSE Start]]

\* The memory m after job j of repetition r: a cell it writes has its value from
\* j, and what the cell it is taken from has gathered; one it adds to gathers a
\* contribution of j, or those of another cell.
Apply(m, r, j) ==
    LET Gathered(c) == IF c \in DOMAIN j.from THEN In(m, j.from[c]).plus ELSE EmptyBag
        Added(c) == IF c \in DOMAIN j.from THEN In(m, j.from[c]).plus ELSE SetToBag({<<r, j.id>>})
        Cell(c) == IF c \in j.w THEN [by |-> <<r, j.id>>, plus |-> Gathered(c)]
                   ELSE IF c \in j.a THEN [by |-> In(m, c).by, plus |-> In(m, c).plus (+) Added(c)]
                   ELSE In(m, c)
    IN  [x \in DOMAIN m |-> [i \in DOMAIN m[x] |-> Cell(<<x, i>>)]]

\* The memory after the jobs n, n + 1, ... of the worker w.
RunFrom(m, r, w, n) ==
    LET f[k \in Nat] == IF k = 0 THEN m ELSE Apply(f[k - 1], r, w[n + k - 1])
    IN  f[Len(w) + 1 - n]

\* The memory after the workers ws of a loop, one after the other, each from its
\* job at[u] on.
RunLoop(m, r, ws, at) ==
    LET g[u \in Nat] == IF u = 0 THEN m ELSE RunFrom(g[u - 1], r, ws[u], at[u])
    IN  g[Len(ws)]

\* The memory after the workers ws of a loop, one after the other.
Whole(m, r, ws) == RunLoop(m, r, ws, [u \in DOMAIN ws |-> 1])

-----------------------------------------------------------------------------
(* What the jobs of a loop owe to each other *)

\* Two jobs conflict if they share a cell that one of them writes; atomic
\* updates of a cell do not conflict with each other.
Conflict(j, k) ==
    \/ \E c \in j.w : c \in k.r \/ c \in k.w \/ c \in k.a
    \/ \E c \in j.r : c \in k.w \/ c \in k.a
    \/ \E c \in j.a : c \in k.w \/ c \in k.r

\* In a loop with the workers ws no job conflicts with a job of another worker,
\* nor with one that another thread of its block runs between the same two barriers.
RaceFree(ws) ==
    \A u \in DOMAIN ws : \A m \in DOMAIN ws[u] :
        LET j == ws[u][m]
        IN  /\ \A v \in u + 1 .. Len(ws) : \A n \in DOMAIN ws[v] : ~ Conflict(j, ws[v][n])
            /\ \A n \in m + 1 .. Len(ws[u]) :
                   LET k == ws[u][n]
                   IN  (j.ph = k.ph /\ j.th # k.th) => ~ Conflict(j, k)

\* No job of a loop leaves the memory.
StaysInside(m, ws) ==
    \A u \in DOMAIN ws : \A n \in DOMAIN ws[u] :
        \A c \in ws[u][n].r \cup ws[u][n].w \cup ws[u][n].a : Holds(m, c)
=============================================================================
