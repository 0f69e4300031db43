---------------------------- MODULE KernelLoops ----------------------------
(***************************************************************************)
(* The vocabulary in which the kernel modules write down what a variant of *)
(* a kernel does in one repetition.                                        *)
(*                                                                         *)
(*   - a BODY is what one execution of a loop body touches: the cells it   *)
(*     reads, writes, and updates atomically (or under a reduction clause);*)
(*   - a JOB is one execution of the body of a loop at one index;          *)
(*   - a WORKER is what one OpenMP iteration or one GPU thread block or    *)
(*     thread executes in order, a sequence of jobs;                       *)
(*   - a STAGE is one parallel loop or one kernel launch: its workers run  *)
(*     in any order and at the same time, and the stage ends when all have *)
(*     ended.                                                              *)
(*                                                                         *)
(* Values are not modelled, only where they come from: a cell is an array  *)
(* name and an index, the one the code computes.                           *)
(***************************************************************************)
EXTENDS Integers, Sequences, FiniteSets, SequencesExt, TLC

CONSTANTS
    Target1, Target2, Target3,  \* getTargetProblemSize() for kernels over 1, 2, 3 dimensions
    BlockSize,                  \* threads of a one-dimensional GPU block
    MaxBlocks,                  \* blocks the occupancy calculator lets a reduction launch
    TileX, TileY,               \* extents of a two-dimensional GPU block
    Threads                     \* omp_get_max_threads()

-----------------------------------------------------------------------------
(* Indices *)

(* Sequences defined element by element are concatenated to <<>>, which    *)
(* changes nothing but makes TLC evaluate them once.                       *)

\* for (i = lo; i < hi; ++i)
Upto(lo, hi) == [n \in 1 .. (IF hi > lo THEN hi - lo ELSE 0) |-> lo + n - 1]

\* for (i = hi; i >= lo; --i)
Downto(hi, lo) == Reverse(Upto(lo, hi + 1))

\* A loop over s with a loop over t inside it, and three loops: the indices
\* are tuples, the outermost loop first.
Nest2(s, t) ==
    [n \in 1 .. Len(s) * Len(t) |->
        <<s[((n - 1) \div Len(t)) + 1], t[((n - 1) % Len(t)) + 1]>>]
Nest3(s, t, u) ==
    [n \in 1 .. Len(s) * Len(t) * Len(u) |->
        <<s[((n - 1) \div (Len(t) * Len(u))) + 1],
          t[(((n - 1) \div Len(u)) % Len(t)) + 1],
          u[((n - 1) % Len(u)) + 1]>>]

DivideCeiling(n, d) == (n + d - 1) \div d        \* RAJA_DIVIDE_CEILING_INT
Least(a, b) == IF a < b THEN a ELSE b
Greatest(a, b) == IF a < b THEN b ELSE a

\* What std::sqrt and std::cbrt leave when they are converted to an integer.
Sqrt(n) == CHOOSE r \in 0 .. n : r * r <= n /\ n < (r + 1) * (r + 1)
Cbrt(n) == CHOOSE r \in 0 .. n : r * r * r <= n /\ n < (r + 1) * (r + 1) * (r + 1)

-----------------------------------------------------------------------------
(* Bodies and jobs *)

\* A body reads the cells r, writes the cells w, and updates the cells a by an
\* addition, or a minimum or maximum, under an atomic or a reduction clause.  An
\* update that is neither also reads its cell.  from says where a cell in w or
\* a takes the contributions from that another cell has gathered.
Body(reads, writes) == [r |-> reads, w |-> writes, a |-> {}, from |-> <<>>]
Adds(reads, sums) == [r |-> reads, w |-> {}, a |-> sums, from |-> <<>>]
Take(c, d) == [r |-> {d}, w |-> {c}, a |-> {}, from |-> c :> d]             \* c = d
AddTo(c, d) == [r |-> {c, d}, w |-> {}, a |-> {c}, from |-> c :> d]         \* c += d
AtomicAdd(c, d) == [r |-> {d}, w |-> {}, a |-> {c}, from |-> c :> d]        \* atomicAdd(c, d)

At(x, I) == {<<x, i>> : i \in I}        \* cells of array x
RowOf(x, i, n) == At(x, {i * n + j : j \in 0 .. n - 1})           \* of a matrix with n columns
ColumnOf(x, j, m, n) == At(x, {i * n + j : i \in 0 .. m - 1})     \* and m rows
Var(v) == <<v, 0>>                      \* a scalar

\* ph counts the barriers of the block that the thread th has passed.
Job(loop, i, b, ph, th) ==
    [id |-> <<loop, i>>, r |-> b.r, w |-> b.w, a |-> b.a, from |-> b.from, ph |-> ph, th |-> th]

Jobs(loop, S, B(_)) == <<>> \o [n \in DOMAIN S |-> Job(loop, S[n], B(S[n]), 0, 0)]

-----------------------------------------------------------------------------
(* Stages *)

\* Code of the host between the loops: one worker, and no parallel loop.
Host(name, b) == [loops |-> 0, workers |-> <<Jobs(name, <<0>>, LAMBDA i : b)>>]

HostLoop(loop, S, B(_)) == [loops |-> 0, workers |-> <<Jobs(loop, S, B)>>]

\* One loop, or one launch, with its workers.
Launch(ws) == [loops |-> 1, workers |-> ws]

\* What the threads of a parallel region do after a barrier in it.
AfterBarrier(ws) == [loops |-> 0, workers |-> ws]

\* The indices of [0, n) that are the share of thread pid of p, as the scans
\* deal them out: the last thread also takes the rest of the division, which a
\* mutant forgets.
ChunkWithoutRest(n, p, pid) == Upto(pid * (n \div p), (pid + 1) * (n \div p))
Chunk(n, p, pid) == LET step == n \div p
                    IN  Upto(pid * step, IF pid = p - 1 THEN n ELSE (pid + 1) * step)

\* A sequential loop over the indices S.
SeqLoop(loop, S, B(_)) == Launch(<<Jobs(loop, S, B)>>)

\* A loop whose iterations, one for each element of S, run in parallel;
\* iteration s runs the body for the indices Inner(s), in their order.
ParLoop(loop, S, Inner(_), B(_)) == Launch([n \in DOMAIN S |-> Jobs(loop, Inner(S[n]), B)])

\* #pragma omp parallel for, also under collapse when S is a nest
OmpFor(loop, S, B(_)) == ParLoop(loop, S, LAMBDA i : <<i>>, B)

\* #pragma omp parallel around loops that are each "omp for schedule(static)
\* nowait": a thread takes its share of a loop, the iterations from
\* First(t, n) on, and goes on to the next loop without a barrier.  An
\* iteration of a loop is a sequence of jobs.
NowaitLoops(loops) ==
    LET First(t, n) == (t - 1) * (n \div Threads) + Least(t - 1, n % Threads) + 1
        Share(its, t) == FlattenSeq(SubSeq(its, First(t, Len(its)), First(t + 1, Len(its)) - 1))
    IN  [loops   |-> Len(loops),
         workers |-> [t \in 1 .. Threads |->
                         FlattenSeq([l \in DOMAIN loops |-> Share(loops[l], t)])]]
Iterations(loop, S, Inner(_), B(_)) == [n \in DOMAIN S |-> Jobs(loop, Inner(S[n]), B)]

\* The guard of a thread against the end of the range, and a mutant of it.
AtOrBefore(i, iend) == i <= iend
Before(i, iend) == i < iend

\* A one-dimensional launch of ceiling((iend - ibegin) / BlockSize) blocks,
\* and lambda_cuda_forall: i = ibegin + blockIdx.x * block_size + threadIdx.x.
ForallOver(loop, ibegin, iend, Inner(_), B(_)) ==
    ParLoop(loop, Nest2(Upto(0, DivideCeiling(iend - ibegin, BlockSize)), Upto(0, BlockSize)),
            LAMBDA t : LET i == ibegin + t[1] * BlockSize + t[2]
                       IN IF Before(i, iend) THEN Inner(i) ELSE <<>>,
            B)
Forall(loop, ibegin, iend, B(_)) == ForallOver(loop, ibegin, iend, LAMBDA i : <<i>>, B)

\* A launch of ceiling(n / BlockSize) blocks from 0 whose threads are guarded
\* by lo <= i and i < hi.
ForallGuarded(loop, n, lo, hi, B(_)) ==
    ForallOver(loop, 0, DivideCeiling(n, BlockSize) * BlockSize,
               LAMBDA i : IF lo <= i /\ i < hi THEN <<i>> ELSE <<>>, B)

\* A reduction of at most MaxBlocks blocks.  Thread t of block b starts its
\* place in the shared arrays S and strides over the range by the size of the
\* grid; after a barrier the threads below half the block add to their place
\* the one half a block above, then a quarter, and so on, with a barrier after
\* each step; at last thread 0 passes on the place 0 as Out says.
Shared(s, b, t) == <<"shared", <<s, b, t>>>>
AllShared(S) == {Shared(s, b, t) : s \in S, b \in 0 .. MaxBlocks - 1, t \in 0 .. BlockSize - 1}

GridSize(iend) == Least(DivideCeiling(iend, BlockSize), MaxBlocks)
Halves == SelectSeq([l \in 1 .. BlockSize |-> BlockSize \div 2^l], LAMBDA h : h > 0)

\* The barriers that a thread at level l of this tree has passed; a mutant has
\* none in the loop over the levels.
OnlyFirstBarrier(l) == 1
Barriers(l) == l

ReduceBlock(loop, b, iend, S, Reads(_), Out(_, _)) ==
    LET Places(t) == {Shared(s, b, t) : s \in S}
        Strided(t) == SelectSeq(Upto(0, iend),
                          LAMBDA i : i % (GridSize(iend) * BlockSize) = b * BlockSize + t)
        Add(t, i) == Job(loop, i, Adds(Reads(i) \cup Places(t), Places(t)), 0, t)
        Halve(l, t) ==
            Job("tree", <<b, l, t>>,
                [r |-> Places(t) \cup Places(t + Halves[l]), w |-> {}, a |-> Places(t),
                 from |-> [c \in Places(t) |-> Shared(c[2][1], b, t + Halves[l])]], Barriers(l), t)
    IN  FlattenSeq([t \in 1 .. BlockSize |->
            <<Job("start", <<b, t - 1>>, Body({}, Places(t - 1)), 0, t - 1)>>
            \o [n \in DOMAIN Strided(t - 1) |-> Add(t - 1, Strided(t - 1)[n])]])
        \o FlattenSeq([l \in DOMAIN Halves |-> [t \in 1 .. Halves[l] |-> Halve(l, t - 1)]])
        \o [n \in 1 .. Cardinality(S) |->
               Job("pass", <<b, n>>, Out(SetToSeq(S)[n], b), Barriers(Len(Halves) + 1), 0)]

GridReduceBy(loop, iend, S, Reads(_), Out(_, _)) ==
    Launch([b \in 1 .. GridSize(iend) |-> ReduceBlock(loop, b - 1, iend, S, Reads, Out)])

\* The usual one: a shared array for each variable in S, to which thread 0 adds
\* its place 0 by an atomic.
GridReduce(loop, iend, S, Reads(_)) ==
    GridReduceBy(loop, iend, S, Reads, LAMBDA s, b : AtomicAdd(Var(s), Shared(s, b, 0)))

\* A launch over (y, x): blocks of TileX by TileY threads, and the threads
\* with x < nx and y < ny that pass the guard In(y, x) run the body for Idx(y, x).
Grid2Guarded(loop, ny, nx, In(_, _), Idx(_, _), B(_)) ==
    ParLoop(loop, Nest2(Upto(0, DivideCeiling(ny, TileY) * TileY),
                        Upto(0, DivideCeiling(nx, TileX) * TileX)),
            LAMBDA t : IF t[1] < ny /\ t[2] < nx /\ In(t[1], t[2])
                       THEN <<Idx(t[1], t[2])>> ELSE <<>>,
            B)
Grid2(loop, ny, nx, Idx(_, _), B(_)) ==
    Grid2Guarded(loop, ny, nx, LAMBDA y, x : TRUE, Idx, B)

\* The same with one block of threads for every z < nz.
Grid3(loop, nz, ny, nx, Idx(_, _, _), B(_)) ==
    ParLoop(loop, Nest3(Upto(0, nz),
                        Upto(0, DivideCeiling(ny, TileY) * TileY),
                        Upto(0, DivideCeiling(nx, TileX) * TileX)),
            LAMBDA t : IF t[2] < ny /\ t[3] < nx
                       THEN <<Idx(t[1], t[2], t[3])>> ELSE <<>>,
            B)

\* f(1) \o f(2) \o ... \o f(n): the stages of n time steps
Steps(n, F(_)) == FlattenSeq([t \in 1 .. n |-> F(t)])

-----------------------------------------------------------------------------
(* The data of a kernel: what its constructor, setUp, updateChecksum and   *)
(* tearDown say.                                                           *)

Data(heap, check, freed, kernels) ==
    [heap    |-> heap,      \* arrays setUp allocates, with their lengths
     raw     |-> {},        \* those of them it does not initialize
     members |-> {},        \* scalars of the kernel object, set by setUp
     locals  |-> {},        \* cells of variables and buffers of the run function
     check   |-> check,     \* what updateChecksum reads, with the length it passes
     freed   |-> freed,     \* arrays tearDown deallocates
     kernels |-> kernels]   \* setKernelsPerRep
=============================================================================
