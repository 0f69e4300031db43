# RAJA Performance Suite: a TLA+ verification project

The RAJA Performance Suite measures loop kernels in many programming models
(variants: sequential, OpenMP, CUDA, HIP, OpenMP target, Kokkos; each plain, with a
lambda, or through RAJA). This project is about what can go wrong between its threads,
blocks, streams and ranks: algorithms in which they depend on each other, the loops of
every kernel in each variant against `Base_Seq`, and the driver that reads the command
line and keeps many ranks together. Paths below are relative to the repository (`src/` is its own
source directory, e.g. `src/common/Executor.cpp`).

## 1. Inventory

| Component | State it keeps | Operations | Interacts with |
| --- | --- | --- | --- |
| Driver and `Executor` (`src/RAJAPerfSuiteDriver.cpp`, `src/common/Executor.cpp`) | kernel objects, variants to run, tuning names per variant, reference variant and tuning | `setupSuite`, `reportRunSummary`, `runSuite` (warmups, passes), `outputRunData` (five reports) | `RunParams` (input), kernels (`execute`), MPI (reductions of the checksum report, `MPI_Finalize`), files |
| `KernelBase` (`src/common/KernelBase.*`) | per variant and tuning: number of executions, minimum, maximum and total time, checksum | `execute` = `setUp`, `runKernel`, `updateChecksum`, `tearDown`; `startTimer`, `stopTimer`, `recordExecTime` | MPI barriers around each timing; streams (`synchronize`) |
| `RunParams` (`src/common/RunParams.*`) | every option; the state of the input; which kernels, variants and tunings run; the MPI grid | `parseCommandLineOptions`, `process...Input`, `print...` | `Executor` reads it; all ranks parse the same arguments |
| Registry (`src/common/RAJAPerfSuite.*`) | names of kernels, groups, features, variants | lookups, `getKernelObject` | `RunParams`, `Executor` |
| Data spaces (`src/common/DataUtils.*`, `*DataUtils.hpp`) | where an array lives | allocate, initialise, `copyData`, `AutoDataMover`, checksums | kernels; device runtimes |
| Output (`src/common/OutputUtils.*`) | the output directory | `recursiveMkdir`, null stream on other ranks | MPI barrier |
| Halo topology (`src/comm/HALO_base.*`) | per rank: neighbors, tags, index lists | `create_lists`, `make_boundary_extent` | halo kernels |
| Halo exchange (`src/comm/HALO_EXCHANGE*`, `HALO_EXCHANGE_FUSED*`) | requests, four kinds of buffers per neighbor, the stream | a repetition: post receives, pack and send per direction (fused: pack all, then send), unpack in order of arrival (fused: wait for all), wait | MPI point to point, device streams |
| Halo packing (`src/comm/HALO_PACKING*`) | lists and buffers per neighbor | pack and unpack, direction by direction or in one launch | device streams |
| Grid scan (`src/basic/INDEXLIST-Cuda.cpp`, `-Hip.cpp`) | block counts, grid counts and ready flags in device memory | publish a count, look back, publish the grid count, write the list | blocks of one launch, device memory order, block scheduling |
| OpenMP scans (`src/basic/INDEXLIST-OMP.cpp`, `INDEXLIST_3LOOP-OMP.cpp`, `src/algorithm/SCAN-OMP.cpp`) | a sum per thread | scan a chunk, barrier, add what is before it | threads of a team |
| Reductions, atomics, shared memory tiles | accumulators, tiles | block trees, grid-stride loops, atomic updates | threads of a block, barriers |
| Kernels (`src/basic`, `src/lcals`, `src/polybench`, `src/stream`, `src/apps`, `src/algorithm`) | arrays, members that sum over repetitions | `setUp`, loops and launches, `updateChecksum`, `tearDown` | threads and blocks; `KernelBase` |

What is hard, and what must hold:

* **Grid scan.** Blocks run in any interleaving, stores become visible late, only some
  blocks are resident, lanes of a warp load flags at different times. *Correct*: every block
  gets the sum of exactly the lower counts, a flag promises readable counts, the launch ends.
* **Halo topology.** Few ranks per dimension make a rank its own neighbor, or the same rank a
  neighbor several times. *Correct*: neighbors and tags are mutual, no two messages of a
  repetition can be confused, boundaries and halos correspond cell by cell.
* **Halo exchange.** No barrier between repetitions, buffers are reused, MPI may buffer or
  not, kernels on a stream run later than they are launched. *Correct*: a halo is filled with
  the neighbors' boundaries of the same repetition, no buffer is overwritten while in use,
  nobody waits for ever.
* **Kernels.** Each kernel is written out by hand for each back end: bounds of partial blocks
  and tiles, `nowait`, barriers between levels of a tree, atomics on shared nodes, scans by
  fewer threads than asked for. *Correct*: every variant reads and leaves what `Base_Seq`
  does, without a race, inside its arrays, and gives its memory back.
* **Driver.** Barriers and reductions pair up by order only, so all ranks must make the same
  calls; failures of rank 0 alone break that. Warmups execute the same kernels as the suite.
  *Correct*: collective calls match, ranks go through the repetitions of an execution at the same time, the records are of the passes
  only, all ranks finish.
* **Command line.** Options overwrite a shared state in the order they come, and kernels can be
  named in four ways and excluded in the same four. *Correct*: bad input does not run for
  performance, no option is lost, what runs is what was asked for.

## 2. Modules

```
LaneMasks ── GridScan ──(implements)── ExclusiveScan                         GridScanProofs
MpiDivision ──(division)── HaloTopology    (composed in MCHaloTopology)      HaloTopologyProofs
HaloTopology ──(Neighbor, Opposite)── HaloMpi ─┬─ HaloExchange ──(implements)── NeighborExchange     HaloExchangeProofs
                                               └─ HaloExchangeStream ──(implements)── HaloExchange   HaloStreamProofs
Suite                                                                        SuiteProofs
Selection ── CommandLine                                                     CommandLineProofs
KernelLoops ─┬─ Basic-, Lcals-, Polybench-, Stream-, Apps-, Algorithm-, Scan-, CommKernels ─┬─ MCKernels
             └─ KernelMemory ── KernelRun ── SequentialRun ─────────────────────────────────┘   SequentialRunProofs
                                KernelRun ──(implements)── WholeLoops        KernelRunProofs
HaloTopology ──(lists)── CommKernels
```

Every `MC...` module gives the constants of one of these values for TLC; each `.cfg` is a run.

### Grid scan: `LaneMasks`, `GridScan`, `ExclusiveScan`

`INDEXLIST` on a GPU is one kernel per repetition. `GridScan` has the host's loop
(`Memset`, `Launch`, `Synchronize`) and for each block the steps of `grid_scan`: scan its
items (`Start`), store its count, fence, `atomicExch` its flag, look back over windows of one
warp (`LoadReady` per lane, `LookBackFull`, `LookBackPartial`, `TakePrevious`), publish the
grid count and write the list. A plain store is *pending* until a fence or until it becomes
visible by itself. A count is held as a formal sum of block counts, so that "the sum of the
lower counts" is checked whatever the counts are; memory that was never written counts as
junk. The device starts blocks in index order or in any order, with bounded residency.
`LaneMasks` has the comparisons of ballot masks as relations on sets of lanes.
The CUDA and the HIP kernel are the same but for the warp size and the library behind
the block scans.

### Division and halo topology: `MpiDivision`, `HaloTopology`

`MpiDivision` is a division given on the command line or else `factorize` and `set_division`, one
loop iteration per action. `HaloTopology` has `create_lists` and `make_boundary_extent` as
operators on the division, the grid and the halo width. `MCHaloTopology` puts them together: the
division is computed, a rank is chosen, and it goes through the directions one by one, where
the invariants look at its lists. The rank's grid and the width of its halo are any up to `MaxCells` and
`MaxWidth` if there are at most `MaxVaried` ranks, and the smallest otherwise.

### Halo exchange: `HaloMpi`, `HaloExchange`, `HaloExchangeStream`, `NeighborExchange`

`HaloMpi` is the part of MPI the kernels use (external code): a send is complete when MPI
has copied the message (`BufferSend`) or delivered it straight out of the send buffer
(`Deliver`); matching is by ranks and tag, in order. `HaloExchange` is a repetition of the
host variants, action by action: `PostReceives`, `PackAndSend` per direction, `UnpackOne` for
whatever receive completed, `WaitSends`. The Seq, Lambda, RAJA and OpenMP variants make the same
calls in the same order. The contents of a buffer are abstracted to "the boundary of port p in repetition k".

`HaloExchangeStream` is the GPU version, of `HALO_EXCHANGE` and, with `fused`, of
`HALO_EXCHANGE_FUSED`: packing and unpacking are launched on a stream and run later (`RunPack`,
`RunUnpack`, the blocks of a fused launch in any order), the host copies between buffers
(`CopyPacked`, and in `LaunchUnpack`) and synchronizes (`SyncAndSend`, `SyncUnpack`). The variable
`copy_by` is what `copyData` does with the buffers that `setUp` allocated, and never changes: nothing
(shared buffers), a copy by the device runtime, or `memcpy`.

`NeighborExchange` is what either promises: in each repetition a rank publishes its
boundaries, takes those of its neighbors *of the same repetition*, and completes. `HaloExchange`
implements it. `HaloExchangeStream` implements `HaloExchange`: a boundary counts as packed when it is
sent, and as unpacked when the device has unpacked it. A request that has been waited for is still
"complete" to `HaloExchange` as long as an unpacking kernel is to run.

### Kernels: `KernelLoops`, `KernelMemory`, `KernelRun`, `SequentialRun`, `WholeLoops` and the catalogues

A catalogue module has an entry for each kernel: its data (the arrays `setUp` allocates and which
it writes, what the checksum reads, what `tearDown` frees), its bodies (the cells an iteration
reads, writes and adds to, at the indices the code computes), and its program in each variant:
loops with their bounds, launches with their blocks and tiles, threads with their barriers.
`KernelLoops` is the vocabulary these are written in: `SeqLoop`, `OmpFor`, `nowait` teams,
`Forall` (one-dimensional blocks), tiles, block trees, grid-stride loops.

`KernelMemory` is the memory of a kernel and what an iteration does to it (`Apply`), and says when two
iterations conflict. A cell does not hold a number but where its value comes from: which iteration of
which repetition wrote it, and the bag of the iterations that added to it since. So a variant that
reads what `Base_Seq` reads computes what `Base_Seq` computes, up to the order of additions,
whatever the arithmetic is. `KernelRun` executes one variant of one
kernel: `SetUp`, for each repetition each loop with its workers (`Begin`, `Execute`, `EndLoop`),
`UpdateChecksum`, `TearDown`. `SequentialRun` has what `Base_Seq` leaves in each cell at each place of its
order, as a function, and what the other variants owe to it.

`WholeLoops` is what someone who calls a kernel thinks of it: a parallel loop is one step, and leaves what its
workers leave one after the other. `KernelRun` implements it where it has no race: the memory of
`WholeLoops` is the `Outcome` of `KernelRun`, what the memory will be when the unfinished workers and those that
have not started have gone on one after the other. `Begin` and `Execute` must not change it.

`ScanKernels` has the two-pass OpenMP scans, whose sums are bags of iterations. `CommKernels`
takes the lists of `HaloTopology`. `Lambda` and `RAJA` variants share bodies and bounds with the
`Base` variant of the same back end and are not run again, nor is a HIP variant that is the CUDA variant with
another runtime.

### Driver: `Suite`

Every rank: `Setup` (the list of executions that warmups and passes make, computed as in
`setupSuite`, `runWarmupKernels` and `runKernel`: the executions of nested loops are the set of the values
their counters take, in lexicographic order), then per execution `StartTimer`, `StopTimer`
(each entering a barrier) and `RecordExecution`, then `MakeDirectory` (one barrier),
`WriteChecksumReport` and its reductions (`Reduce`), `EndReport`, `Finalize`. A collective call
returns when every rank has entered its call of the same number: what MPI does on one
communicator. What a kernel computes is left out: its checksum grows by one per execution,
which is enough to see whether executions are counted where they should be. The constants
`Tunings` and `WarmupOf` stand for the registry.

### Command line: `CommandLine`, `Selection`

`CommandLine` reads an argument list from left to right; one option stands for each way the
code reads its arguments (the header of the module lists them), and `Process` is the end of
`parseCommandLineOptions`. `Selection` has `processKernelInput` and `processVariantInput` as
functions of the names that were given: which names are unknown, and what runs.

## 3. Runs

| Run | Instance | Shows |
| --- | --- | --- |
| `gridscan` | 5 blocks, windows of 2 lanes, 3 resident, started in order, 2 repetitions | `TypeOK`, `ExclusiveScanCorrect`, `ReadyMeansReadable`, `ListMatchesSequentialLoop`, `AnnouncedCountsStable`, `ImplementsExclusiveScan`, and every launch ends (`AllRepsFinish`) |
| `gridscan_outoforder` | 4 blocks, 2 resident, any order | **violation** of `AllRepsFinish`: resident blocks wait for a block that cannot start |
| `halo_topology` | 1 to 64 ranks divided by default, all given divisions up to 3x3x3; in every division of up to 6 ranks all grids up to 3x3x3 with halo widths up to 2 | `GridHasAllRanks`, `GridIsRelativelySquare`, `NeighborsAreMutual`, `OneMessagePerReceive`, `HaloGetsNeighborsCells`, `HaloIsPartitioned`, `ListsAreDisjointAndInBounds` |
| `halo_exchange` | 3 ranks in a ring, 2 directions, 2 repetitions | `TypeOK`, `HaloIsOfThisRep`, `NeighborsStayClose`, `BuffersInUseAreKept`, `ImplementsNeighborExchange`, and `AllRanksFinish` without any buffering by MPI |
| `halo_stream` | 2 ranks, each other's neighbor twice, 3 repetitions, fused and not; shared buffers, or copies by the device runtime | `TypeOK`, `HaloIsOfThisRep`, `StreamAndMpiShareNoBuffer`, `ImplementsHaloExchange` |
| `halo_stream_host` | the same with 1 repetition, copies by `memcpy` | **violation** of `HaloIsOfThisRep` |
| `suite` | 3 ranks, 3 kernels (one only warms up), 2 variants, selected and excluded tunings, -1, 0 or 2 passes, every input state | `TypeOK`, `CollectivesMatch`, `RanksAreTimedTogether`, `RecordsAreOfThePasses`, `AllRanksFinish` |
| `suite_nofile` | as `suite`, fewer selections, the checksum file may not open | **violation** of `AllRanksFinish` |
| `command_line` | all command lines of up to 3 arguments, up to 4 with one option of each kind, up to 5 with the options that select kernels or variants | `NoOptionIsSkipped`, `BadNamesDoNotRun`, `RunsWhatWasAsked`, `SizesAreValid`, `BadInputStays` |
| `kernels` | every kernel of the catalogues in each variant that differs, but the four named in section 4; 2 repetitions | `NoRace`, `ReadsAsSequential`, `EndsAsSequential`, `AccessesAreValid`, `MemoryIsReturned`, `KernelsPerRepWhereCounted` |
| `kernels_nowait` | `HYDRO_2D` under OpenMP | **violation** of `ReadsAsSequential` |
| `kernels_gradient` | `DIFFUSION3DPA` on CUDA, two threads in any interleaving | **violation** of `ReadsAsSequential` |

**Bounds.** Five blocks with windows of two lanes give a block that looks back over two full
windows, with fewer places than blocks; two repetitions show a stale flag of the first. Three ranks
in a ring are the fewest where a neighbor's neighbor is someone else, so that repetitions can
drift apart; two repetitions let a fast rank send the next boundary before the last one is
unpacked. Two ranks on a ring get two messages from the same rank in each repetition, which only
their tags tell apart; three repetitions let both buffers of a direction be reused twice. Up to 64
ranks the default division meets primes, squares, cubes and remainders; three ranks per
dimension cover one (own neighbor), two (same neighbor on both sides) and many; with up to six ranks, where the
grids vary, one division has all three (2 by 1 by 3). In `suite` two passes are
the fewest where something of the first could be left in the second, and no pass at all, or a negative
number of passes, is an input the code accepts.

In `kernels` the problem sizes (10 over one dimension, 16 over two, 27 over three; larger for kernels
on meshes, whose smallest mesh has more nodes) are no multiples of the block size (4), of the
tile (3 by 2) or of the threads (3), so that every launch has a partial block and every team
an uneven share; two blocks let a grid-stride loop go round. Two repetitions show what a
repetition leaves to the next. Three of the 26 directions of the packing kernels, a face, an edge and a corner,
have lists shorter and longer than the average by which the fused launch shares out its work.
The constants `Together` (2) and `Lead` (3) bound the schedules: two workers of a loop are in
progress at a time, at most so many iterations apart. `NoRace` and the part of `AccessesAreValid` about bounds do
not depend on them: they look at *all* workers of a loop when it starts. That the schedules left out
show nothing else is a theorem: where these two hold, `OrderDoesNotMatter` (section 5) says for
every `Together` and `Lead` that a loop leaves what its workers leave one after the other. Where `NoRace`
fails the schedule matters: `kernels_nowait` and `kernels_gradient` have a `Lead` that allows every schedule of two workers.

No counter is cut off in any model.

**Fairness.** Only what the code's scheduling gives. Host threads and resident blocks go on
when they can; the device fills free places; nothing is promised to a block without a
place. MPI completes a receive that has a matching send (its progress rule) but need not
buffer anything. In `Suite` every rank goes on when it can.

**Deadlock** is checked in every run but `suite_nofile`, where the ranks are expected to hang and
`AllRanksFinish` says so, and the runs of `KernelRun`, which stop after `tearDown`. Other programs
that have ended stutter in an action of their own (`Finished`).

## 4. What disagrees

Shown by a run:

1. `INDEXLIST-Hip.cpp:205-208` takes the block index from `blockIdx.x` although the comment
   above says that blocks do not start in order and that this would deadlock: it does, when the grid
   does not fit the device (`gridscan_outoforder`).
2. `HALO_EXCHANGE-Cuda.cpp:86` (and Hip, and the fused kernels) copies a packed buffer before the stream is
   synchronized. With pinned device data and `Copy` for MPI both spaces are host copy spaces,
   `copyData` is `memcpy`, and what is sent need not be what was packed (`halo_stream_host`).
3. The reductions of the checksum report are inside `if ( file )`: if rank 0 cannot open the file
   the other ranks wait for it (`suite_nofile`).
4. `HYDRO_2D-OMP.cpp:49`: a loop that is `nowait` is followed by one that reads its neighbors' rows
   (`kernels_nowait`).
5. `DIFFUSION3DPA-Cuda.cpp:46`: `DIFFUSION3DPA_2` writes each cell of the gradient matrix by two threads of a block
   that no barrier separates, and negates what one of them writes. The two values are the same for a matrix with
   g(q,d) = -g(Q1D-1-q, D1D-1-d), which the sharing presumes; `setUp` fills `m_G` with 1.0, so
   that one thread writes 1 and the other -1, and which is read depends on their order (`kernels_gradient`).
   The GPU variants are therefore left out of `kernels` (`Broken` in `MCKernels`).

Met while modelling, without a run of its own:

* `REDUCE_STRUCT-Cuda.cpp:95` adds the sums of `y` to the sum of `x`, and `ysum` stays as it was. `BasicKernels` has it so: with this
  variant as `Chosen` TLC finds `ReadsAsSequential` violated, and it is left out of `kernels` (`Broken` in `MCKernels`).
* The speedup tables divide by a reference tuning that is defined, run or not (`Executor.cpp:910`).
* `--checkrun` sets the state of the input also after bad input (`RunParams.cpp:801`), so a check run
  starts: `BadInputStays` and `BadNamesDoNotRun` speak of performance runs for this reason. With a bad
  `--mpi_3d_division` before it, the division has not been set.
* A missing value is not always an error: an option that takes any argument takes the next option
  (`RunParams.cpp:315`; `user_guide/run.rst` promises an error).
* `POLYBENCH_JACOBI_2D` and `POLYBENCH_FLOYD_WARSHALL` report another number of kernels per
  repetition than they launch (`Miscounted` in `MCKernels`).
* The trees of block reductions halve the block: with a block size that is no power of two they
  lose contributions. The kernels run with powers of two here, and in the default build.
* `HALO_base.cpp:47` uses `m_grid_dims[1]` twice in the actual problem size; the dimensions are equal.
* Groups for figures of merit are found by substrings of variant names (`Executor.cpp:1550-1575`).
* `HALO_EXCHANGE_FUSED-OMPTarget.cpp:303` and `:336` define members of `HALO_PACKING_FUSED`.

## 5. Proofs

`tlapm` checks each of the eight `...Proofs` modules. Each has an inductive invariant, lemmas that
say what a step leaves alone, one lemma per action, and theorems about the specification.

**`GridScanProofs`**, for every number of blocks, window size, number of resident blocks,
repetitions and counts: `TypeCorrect`, `ScanIsExclusive`, `FlagsAreReleased`, `LookBackStaysInGrid`,
`AnnouncedCountsAreStable`, `ScanImplementsExclusiveScan` and `ListIsSequential`. The assumptions are
`GridScanAssumption` (the constants have their types, there is at least one block and one lane) and
`ListAssumption` (the list that `INDEXLIST::setUp` allocates is as long as the range, so all hits fit).
The properties are not inductive: that a block's sum is right depends on what it saw of the
others, which depends on how far these had published. The invariant `IInv` therefore adds
`PublishInv` (where a block is against what it has stored and announced), `ReadyInv` (a flag
means readable memory) and `LookBackInv` (a block that looks back holds the counts between its
window and itself, and what its lanes saw was announced). `ListIsSequential` needs in addition what is
in the list while blocks are still writing to it (`ListInv`): a block that is done has put its hits behind those
of the lower blocks, and what it wrote no other block writes to, because its place is the sum of
the counts below it.

**`HaloTopologyProofs`** is about two modules. About `MpiDivision`, for every number of ranks: the factors are primes in order (`FactorsFound`),
the grid stays relatively square while they are put in (`DivisionIsRelativelySquare`), and their product is
the number of ranks (`DefaultGridIsValid`). The invariant is about trial division: nothing below the
trial divides what is left.

About `HaloTopology`, as `MCHaloTopology` composes it and for all values of its bounds (`MaxSize`, `MaxGiven`, `MaxVaried`,
`MaxCells`, `MaxWidth`), which means every division with every grid and every halo no wider than the grid:
`MutualNeighborsAlways`, `OneMessageAlways`, `NeighborsCellsAlways`, `HaloPartitionedAlways` and
`ListsDisjointAlways`. A rank is a number in a mixed radix, which a lemma shows to be unique; the opposite of a
direction and its place in the table of 26 offsets are read off the table; everything else is done in one dimension
and put together. The first two are what `HaloMpi` assumes of its topology (`TopologyAssumption`).

**`HaloExchangeProofs`**, for every set of ranks, every number of directions and every
number of repetitions: `TypesHold`, `NoMixedRepetitions`, `RepsStayClose`, `BuffersAreSafe` and
`HaloExchangeImplementsNeighborExchange`. The assumptions are `RepsAssumption` and
`TopologyAssumption`. The invariant
`IInv` says four things of a port: its place in the repetition against its requests
(`LocalOf`), that a send in progress has this repetition's boundary in its buffer (`SendOf`), that a completed
receive has the partner's (`ReceiveOf`), and that the messages between it and its partner are
exactly those sent and not yet received, in order, the last one perhaps still in the send buffer
(`WireOf`). The number of messages is the difference between two counters, which is why the
repetitions of neighbors cannot drift apart.

**`HaloStreamProofs`**, under the same assumptions and where no copy is made by `memcpy`
(`"host" \notin CopyKinds`, the case of the violation), fused and not: `DeviceTypesHold`,
`BuffersAreNeverShared`, `DeviceImplementsHost`, `DeviceHaloIsOfThisRep` and
`DeviceImplementsNeighborExchange`. The invariant says of a stream that its kernels are of one kind, that no direction
is in two of them and that each has work of this repetition (`StreamInv`), and of a port where its boundary is:
in the pack buffer, in the send buffer, or still to be packed (`PortOf`). With it every step is shown to be a
step of `HaloExchange` or to change nothing of it. The last two theorems are then those of
`HaloExchangeProofs`, instantiated with the refinement mapping: nothing about messages between ranks
is proved twice.

**`SuiteProofs`**, for every number of ranks, every registry and input: `SuiteTypeCorrect` and
`RecordsAlwaysOfThePasses`, and, if the checksum file opens, `CollectivesAlwaysMatch` and
`TimedTogetherAlways` (the repetitions of an execution are between the barriers of all ranks, and a rank's time, which ends
behind the second barrier, never overlaps a timing of another execution). `SuiteAssumption` gives the constants their types. The invariant says that
the calls a rank has made are the first of one list that depends on the input only, which its place and what
it has left to do determine, and that no rank is more than one call ahead of another. That records are
of the passes (`RecordInv`) is a matter of counting: the executions of a kernel, variant and tuning behind a rank's place
in the list and those ahead of it are together one per pass. The lemmas about the order of nested loops are what
makes the list a list: every value of the counters is in it once.

**`CommandLineProofs`**, for all argument lists: `OptionsAreNotLost`, `BadNamesNeverRun`,
`AskedIsRun`, `SizesAreAlwaysValid` and `BadStaysBad`. What is behind the current position is
accounted for (`PassedInv`), the names an option holds were arguments (`NamesInv`), a bad size left a trace (`SizeInv`),
and the outcome follows from the state of the input (`EndInv`).

**`KernelRunProofs`**, for every catalogue of programs that are made of finite lists
(`CatalogAssumption`), every number of repetitions and all bounds on the schedules: under `NoRace` and
`AccessesAreValid`, which the run `kernels` checks for the catalogues at hand, `OrderDoesNotMatter`
(`KernelRun` implements `WholeLoops`) and `ReadsAreSettled` (what an unfinished worker is about to read
keeps its value, `ReadsKeepTheirValue`). It all rests on `JobsCommute`: two iterations that do not conflict leave the same memory in
either order. The invariant `KInv` says where the kernel is in its program (`PlaceInv`), that each
unfinished worker has started and is at one of its jobs (`TeamInv`), and that the loop that runs has no race and
stays inside the memory (`MemoryInv`). The step of `Execute` is where the work is: the job that is executed comes
before the rest of the workers ahead of it, and has to be moved behind them one job at a time. The rest of
a worker and of a loop are recursive functions; what they do is proved by induction
over sets of natural numbers, from the principle of the least element (`WFMin`).

`TextIsEnough` has no such hypotheses: where the text of a kernel is `WellWritten` (its loops do not
conflict and stay inside arrays that `setUp` allocates and initializes, the checksum reads what was
allocated, `tearDown` frees it), `NoRace`, `AccessesAreValid`, `MemoryIsReturned` and `ImplementsWholeLoops` hold in every
schedule.

The refinement is not a run of its own: TLC evaluates the recursive functions of `Outcome` anew in
every state, which takes too long on the catalogues.

**`SequentialRunProofs`** compares the variants with `Base_Seq`, for every catalogue, number of repetitions
and schedule. A variant *keeps the order* (`KeepsOrder`) when it runs the jobs of `Base_Seq`, each once, and two of
them that conflict in the order of `Base_Seq`: in one worker, or in loops one after the other. Jobs that do not conflict
may come in any order. This is conflict serializability, and the theorems are:

* `KeptOrderIsEnough`: such a variant reads in every iteration what `Base_Seq` reads there, and leaves at the end of
  every repetition what `Base_Seq` leaves (`ReadsAsSequential`, `EndsAsSequential`). `Base_Seq` itself has to be plain
  (`SeqIsPlain`): one id per job, cells inside the memory, sums carried along only to cells that are written.
* `KeptOrderHasNoRace`: if also threads of a block that conflict are separated by a barrier (`BarriersHold`), no
  loop has a race.
* `OrderedTextIsEnough`: if also `Base_Seq` writes a cell that `setUp` leaves raw before it, or the checksum, reads it
  (`WritesFirst`), and `tearDown` frees what `setUp` allocated, the variant does all that the run `kernels` asks of
  the memory, and implements `WholeLoops`. Unlike `WellWritten` this allows for arrays that `setUp` does not
  write, and for local variables. All of it is about the text of the variant (`WellOrdered`): no schedule is left to look at.
* `ElementwiseKernelsBehave`: twenty kernels of one loop over the elements of arrays (`ADD`, `COPY`, `MUL`, `TRIAD`;
  `MEMCPY`, `MEMSET`; `ARRAY_OF_PTRS`, `COPY8`, `DAXPY`, `DAXPY_ATOMIC`, `IF_QUAD`, `INIT3`, `INIT_VIEW1D`, `MULADDSUB`;
  `DIFF_PREDICT`, `EOS`, `FIRST_DIFF`, `HYDRO_1D`, `INT_PREDICT`, `PLANCKIAN`) do all this on the sequential, OpenMP, OpenMP
  target, CUDA and HIP back ends, for every problem size and every block size, so that for these the bounds of the run do
  not matter. Its core is `ThreadsAre`: the threads of a launch of enough blocks number the range without gaps.
* `ChunksPartition`: the chunks by which the OpenMP scans share out their range by hand have each index in exactly one
  of them, for every length and number of threads.

The invariant `ValueInv` says of every cell that it holds what a run of `Base_Seq` would leave from which the jobs are left
out that have not run yet (`ValueAfter` of the places `PlacesRun`). These jobs are no prefix of the order of `Base_Seq`, which
is why the order of `SequentialRun` is a function of a set of places and not a state; but of the jobs that conflict with the next one of
a worker, those before it have run and no others (`NextPlace`), so it reads what it reads in `Base_Seq` (`ReadInPlace`)
and what it writes or adds is what `Base_Seq` writes or adds there (`ApplyIsNext`). What is before a place is a recursive
function over the places; that it exists (`BeforeExists`) is proved by induction over sets of numbers.

The condition was evaluated with TLC on the instance of the run `kernels`: 184 of its 198 variants are `WellOrdered`, and 158 have
neither raw arrays nor local variables, as `WellWritten` asks. The other 14 compute the same result by other jobs than `Base_Seq`:
the tree reductions `PI_REDUCE`, `REDUCE3_INT`, `TRAP_INT`, `FIRST_MIN`, `DOT`, `REDUCE_SUM` on CUDA and `REDUCE_STRUCT` on HIP, the two-pass scans
`SCAN`, `INDEXLIST` and `INDEXLIST_3LOOP` under OpenMP with all or fewer threads, and `INDEXLIST_3LOOP` on CUDA. They are model-checked.

**Only model-checked:** liveness (`AllRanksFinish`, `AllRepsFinish`), which is beyond this prover;
`KernelsPerRepWhereCounted`, a sum over the loops of each program, which is what a recursive definition computes; the 14
variants above; and, of the other kernels, that their text is `WellOrdered` at sizes other than those of the run. That is
a statement about some hundred and eighty programs that are data of the model, each with its own indices.

## 6. Not modelled, and why

* Floating point: times, checksums, figures of merit, column widths, and so the numbers in the
  reports and the sums over passes.
* Registry and factory: tables of names. `Suite` and `CommandLine` take them as constants.
* Data spaces: which space an array is in matters for `copyData` (in `HaloExchangeStream`). Which
  arrays there are, what is written before it is read, and what is freed is in `KernelRun`;
  alignment, pools and moving data for initialisation are the device runtimes' business.
* `HALO_SENDRECV`: the calls of `HALO_EXCHANGE_FUSED` without kernels; nothing is computed from what is sent.
* `SORT`, `SORTPAIRS`, the scans of CUB, rocPRIM and RAJA, and the OpenMP 5 scan
  directive: libraries outside the repository. The kernels around library scans are in `ScanKernels`.
* RAJA and Lambda variants are not run by themselves, nor are the HIP variants that equal the CUDA
  ones; the workgroup variants of the packing kernels share out work by RAJA.
* Kokkos versions: the same loops through another runtime.
* Combiners, thresholds and most options that only store a value; tunings are selected in `Suite`.
* Build system, scripts, Caliper.

## 7. What could come next

1. `HALO_SENDRECV` over `HaloMpi`, as a third implementation of `NeighborExchange`.
2. `WellOrdered` for the kernels of nested loops, at every problem size and tile; an order for reductions by trees.
3. The reports: groups for figures of merit, reference checksums, averages over no pass.
4. Liveness of the exchange on a GPU, with a device that runs what is launched.
