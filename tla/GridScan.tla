------------------------------ MODULE GridScan ------------------------------
(***************************************************************************)
(* The single-pass grid scan of INDEXLIST's Base_CUDA and Base_HIP          *)
(* variants (decoupled look-back).  Every block scans its own items,        *)
(* publishes its count, looks back over the blocks below it in windows of   *)
(* one warp until it meets a block whose count for the whole grid is known, *)
(* publishes its own grid count, and writes its part of the list.  The host *)
(* clears the ready flags, launches the grid and synchronizes, once a rep.  *)
(*                                                                          *)
(* Data abstraction.  A count that the code holds in an Index_type is held  *)
(* here as a formal sum: for each block, how many times that block's own    *)
(* count is in it.  The registers of the lanes of the last warp are held as *)
(* their total, which is all that WarpReduce uses of them.  A cell of       *)
(* device memory that was allocated and never written counts as one Junk.   *)
(***************************************************************************)
EXTENDS Integers, FiniteSets, LaneMasks

CONSTANTS NumBlocks,      \* gridDim.x
          WarpSize,       \* lanes of the look-back window
          MaxResident,    \* blocks the device holds at once
          Reps,           \* getRunReps()
          StartsInOrder,  \* does the device start blocks by increasing index?
          Hits,           \* [Block -> Nat]: items of a block with x[i] < 0
          ListLength      \* entries of the list array

Block == 0 .. NumBlocks - 1
Lane == 0 .. WarpSize - 1
Junk == -1
Term == Block \cup {Junk}

ASSUME GridScanAssumption ==
  /\ NumBlocks \in Nat \ {0}
  /\ WarpSize \in Nat \ {0}
  /\ MaxResident \in Nat \ {0}
  /\ Reps \in Nat
  /\ StartsInOrder \in BOOLEAN
  /\ Hits \in [Block -> Nat]
  /\ ListLength \in Nat

(* Formal sums of block counts *)
Sum == [Term -> Nat]
Ones(S) == [t \in Term |-> IF t \in S THEN 1 ELSE 0]
Plus(s, u) == [t \in Term |-> s[t] + u[t]]

(* The number a formal sum stands for: the hits of every block, as often as  *)
(* the block is in it. It is any number when Junk is in it.                  *)
HitsOf(b) == {b} \X (0 .. Hits[b] - 1)
Total(s) == Cardinality(UNION {HitsOf(b) \X (1 .. s[b]) : b \in Block})
Values(s) == {n \in 0 .. ListLength : s[Junk] = 0 => n = Total(s)}

NoItem == <<Junk, 0>>
ListIndex == 0 .. ListLength - 1

VARIABLES
  host,          \* where the host is in a rep
  rep,           \* reps completed
  mlen,          \* m_len, read by the host
  block_counts,  \* [Block -> Term]: the block whose count the cell holds
  grid_counts,   \* [Block -> Sum]
  block_readys,  \* [Block -> 0..2]
  pending,       \* stores of a block not yet visible to the other blocks
  len,           \* *len
  list,          \* the k-th hit of block b is <<b, k>>
  pc,            \* where each block is
  base,          \* prev_block_base_id of each block
  seen,          \* prev_block_ready of each lane of each block's last warp
  polled,        \* the lanes that have loaded a ready flag in this poll
  acc            \* prev_grid_count of each block

memory == <<block_counts, grid_counts, block_readys, pending>>
output == <<len, list>>
window == <<base, seen, polled>>
hostVars == <<host, rep, mlen>>
vars == <<hostVars, memory, output, pc, window, acc>>

Last(b) == b = NumBlocks - 1
Resident == {b \in Block : pc[b] \notin {"waiting", "done"}}

Init ==
  /\ host = "memset" /\ rep = 0 /\ mlen = -1
  /\ block_counts = [b \in Block |-> Junk]
  /\ grid_counts = [b \in Block |-> Ones({Junk})]
  /\ block_readys \in [Block -> 0 .. 2]
  /\ pending = [b \in Block |-> {}]
  /\ len = -1 /\ list = [k \in ListIndex |-> NoItem]
  /\ pc = [b \in Block |-> "done"]
  /\ base = [b \in Block |-> 0]
  /\ seen = [b \in Block |-> [l \in Lane |-> 0]]
  /\ polled = [b \in Block |-> {}]
  /\ acc = [b \in Block |-> Ones({})]

-----------------------------------------------------------------------------
(* Host *)

OneRepMore == rep <= Reps
RepsLeft == rep < Reps

Memset ==
  /\ host = "memset" /\ RepsLeft
  /\ block_readys' = [b \in Block |-> 0]
  /\ host' = "launch"
  /\ UNCHANGED <<rep, mlen, block_counts, grid_counts, pending, output, pc,
                 window, acc>>

Launch ==
  /\ host = "launch"
  /\ pc' = [b \in Block |-> "waiting"]
  /\ host' = "sync"
  /\ UNCHANGED <<rep, mlen, memory, output, window, acc>>

Synchronize ==
  /\ host = "sync" /\ \A b \in Block : pc[b] = "done"
  /\ mlen' = len /\ rep' = rep + 1 /\ host' = "memset"
  /\ UNCHANGED <<memory, output, pc, window, acc>>

-----------------------------------------------------------------------------
(* Blocks *)

(* The first window ends just below the block; a mutant leaves that one out. *)
WindowBelowPrevious(b) == b - WarpSize - 1
FirstWindow(b) == b - WarpSize

(* The device gives block b a place; the block scans its own items. *)
Start(b) ==
  /\ host = "sync" /\ pc[b] = "waiting"
  /\ Cardinality(Resident) < MaxResident
  /\ StartsInOrder => \A a \in Block : a < b => pc[a] # "waiting"
  /\ base' = [base EXCEPT ![b] = FirstWindow(b)]
  /\ seen' = [seen EXCEPT ![b] = [l \in Lane |-> 0]]
  /\ polled' = [polled EXCEPT ![b] = {}]
  /\ acc' = [acc EXCEPT ![b] = Ones({})]
  /\ pc' = [pc EXCEPT ![b] =
              IF b = 0 THEN IF Last(b) THEN "write" ELSE "storeGrid"
              ELSE IF ~Last(b) THEN "storeBlock"
              ELSE IF FirstWindow(b) >= 0 THEN "look" ELSE "lookPartial"]
  /\ UNCHANGED <<hostVars, memory, output>>

(* Make the pending stores S of block b visible in device memory. *)
Drain(b, S) ==
  /\ block_counts' = IF "block" \in S THEN [block_counts EXCEPT ![b] = b]
                     ELSE block_counts
  /\ grid_counts' = IF "grid" \in S
                    THEN [grid_counts EXCEPT ![b] = Plus(acc[b], Ones({b}))]
                    ELSE grid_counts
  /\ pending' = [pending EXCEPT ![b] = @ \ S]

(* A store becomes visible by itself, at any time after it was issued. *)
StoreVisible(b) ==
  /\ \E c \in pending[b] : Drain(b, {c})
  /\ UNCHANGED <<hostVars, block_readys, output, pc, window, acc>>

StoreBlockCount(b) ==
  /\ pc[b] = "storeBlock"
  /\ pending' = [pending EXCEPT ![b] = @ \cup {"block"}]
  /\ pc' = [pc EXCEPT ![b] = "fenceBlock"]
  /\ UNCHANGED <<hostVars, block_counts, grid_counts, block_readys, output,
                 window, acc>>

StoreGridCount(b) ==
  /\ pc[b] = "storeGrid"
  /\ pending' = [pending EXCEPT ![b] =
                   @ \cup IF b = 0 THEN {"block", "grid"} ELSE {"grid"}]
  /\ pc' = [pc EXCEPT ![b] = "fenceGrid"]
  /\ UNCHANGED <<hostVars, block_counts, grid_counts, block_readys, output,
                 window, acc>>

(* __threadfence(): the block's earlier stores come before its later ones. *)
NoStore(b) == {}
FencedStores(b) == pending[b]

Fence(b) ==
  /\ \/ pc[b] = "fenceBlock" /\ pc' = [pc EXCEPT ![b] = "publishBlock"]
     \/ pc[b] = "fenceGrid" /\ pc' = [pc EXCEPT ![b] = "publishGrid"]
  /\ Drain(b, FencedStores(b))
  /\ UNCHANGED <<hostVars, block_readys, output, window, acc>>

(* atomicExch of a block's ready flag. Mutants confuse the two flags. *)
Announce(b, flag, next) ==
  /\ block_readys' = [block_readys EXCEPT ![b] = flag]
  /\ pc' = [pc EXCEPT ![b] = next]
  /\ UNCHANGED <<hostVars, block_counts, grid_counts, pending, output, window,
                 acc>>

LoopEntry(b) == IF base[b] >= 0 THEN "look" ELSE "lookPartial"
PublishGridTooEarly(b) == pc[b] = "publishBlock" /\ Announce(b, 2, LoopEntry(b))
PublishBlockCount(b) == pc[b] = "publishBlock" /\ Announce(b, 1, LoopEntry(b))

PublishGridAsBlock(b) == pc[b] = "publishGrid" /\ Announce(b, 1, "write")
PublishGridCount(b) == pc[b] = "publishGrid" /\ Announce(b, 2, "write")

(* Lane l loads the ready flag of its block; a lane below block 0 keeps the
   value it has.  The lanes load at different times. *)
LoadReady(b, l) ==
  /\ pc[b] \in {"look", "lookPartial"} /\ l \notin polled[b]
  /\ seen' = IF base[b] + l >= 0
             THEN [seen EXCEPT ![b][l] = block_readys[base[b] + l]]
             ELSE seen
  /\ polled' = [polled EXCEPT ![b] = @ \cup {l}]
  /\ UNCHANGED <<hostVars, memory, output, pc, base, acc>>

(* The two ballots, as sets of lanes: the complement of the first, and the
   second. A mutant takes a block count for a grid count. *)
NotReady(b) == {l \in Lane : seen[b][l] = 0}
BlockReadyOnly(b) == {l \in Lane : seen[b][l] = 1}
GridReady(b) == {l \in Lane : seen[b][l] = 2}

(* acc[b] plus the block_counts of the blocks under lanes L. *)
PlusBlockCounts(b, L) ==
  [t \in Term |->
     acc[b][t] + Cardinality({l \in L : block_counts[base[b] + l] = t})]

Repoll(b) == polled' = [polled EXCEPT ![b] = {}]

(* The lanes of a window that add a block count, and the one that adds a
   grid count. A mutant also adds the block count of the top lane. *)
BlockAddersAndTop(b) == {l \in Lane : AtOrAboveMask(l, GridReady(b))}
BlockAdders(b) == {l \in Lane : AboveMask(l, GridReady(b))}
GridAdders(b) == {l \in Lane : ~AboveMask(l, GridReady(b)) /\ CoversMask(l, GridReady(b))}

(* One pass of the loop over full windows, once every lane has loaded. *)
LookBackFull(b) ==
  /\ pc[b] = "look" /\ polled[b] = Lane
  /\ Repoll(b)
  /\ \/ /\ NotReady(b) # {}                        \* poll again
        /\ UNCHANGED <<pc, base, seen, acc>>
     \/ /\ NotReady(b) = {} /\ GridReady(b) # {}   \* break
        /\ pc' = [pc EXCEPT ![b] = "take"]
        /\ UNCHANGED <<base, seen, acc>>
     \/ /\ NotReady(b) = {} /\ GridReady(b) = {}   \* accumulate, move down
        /\ acc' = [acc EXCEPT ![b] = PlusBlockCounts(b, Lane)]
        /\ seen' = [seen EXCEPT ![b] = [l \in Lane |-> 0]]
        /\ base' = [base EXCEPT ![b] = @ - WarpSize]
        /\ pc' = [pc EXCEPT ![b] = IF base[b] - WarpSize >= 0 THEN "look"
                                   ELSE "lookPartial"]
  /\ UNCHANGED <<hostVars, memory, output>>

(* The loop over the window that holds block 0. *)
LookBackPartial(b) ==
  /\ pc[b] = "lookPartial" /\ polled[b] = Lane
  /\ Repoll(b)
  /\ pc' = IF MaskGeq(NotReady(b), GridReady(b)) THEN pc
           ELSE [pc EXCEPT ![b] = "take"]
  /\ UNCHANGED <<hostVars, memory, output, base, seen, acc>>

(* Add one grid count and the block counts above it. *)
TakePrevious(b) ==
  /\ pc[b] = "take"
  /\ LET s == PlusBlockCounts(b, BlockAdders(b))
     IN  acc' = [acc EXCEPT ![b] =
                   IF GridAdders(b) = {} THEN s
                   ELSE Plus(s, grid_counts[base[b] + CHOOSE l \in GridAdders(b) : TRUE])]
  /\ pc' = [pc EXCEPT ![b] = IF Last(b) THEN "write" ELSE "storeGrid"]
  /\ UNCHANGED <<hostVars, memory, output, window>>

(* list[exclusive] = i for the block's hits; the thread of item iend-1, which
   is in the last block, writes *len. *)
LenExclusive(b, first) == first
LenInclusive(b, first) == first + Hits[b]
WriteList(b) ==
  /\ pc[b] = "write"
  /\ \E first \in Values(acc[b]) :
       /\ list' = [k \in ListIndex |->
                     IF \E i \in 0 .. Hits[b] - 1 : k = first + i
                     THEN <<b, CHOOSE i \in 0 .. Hits[b] - 1 : k = first + i>>
                     ELSE list[k]]
       /\ len' = IF Last(b) THEN LenInclusive(b, first) ELSE len
  /\ pc' = [pc EXCEPT ![b] = "done"]
  /\ UNCHANGED <<hostVars, memory, window, acc>>

-----------------------------------------------------------------------------
(* The end of the rep loop. *)
Finished == host = "memset" /\ rep = Reps /\ UNCHANGED vars

BlockStep(b) ==
  \/ StoreBlockCount(b) \/ StoreGridCount(b) \/ Fence(b)
  \/ PublishBlockCount(b) \/ PublishGridCount(b)
  \/ \E l \in Lane : LoadReady(b, l)
  \/ LookBackFull(b) \/ LookBackPartial(b) \/ TakePrevious(b) \/ WriteList(b)

HostStep == Memset \/ Launch \/ Synchronize

Next ==
  \/ HostStep
  \/ \E b \in Block : Start(b) \/ BlockStep(b) \/ StoreVisible(b)
  \/ Finished

Spec == Init /\ [][Next]_vars

(* The host thread runs, the device fills its free places, and a resident
   block makes progress; nothing is promised to a block that has no place. *)
Fairness ==
  /\ WF_vars(HostStep)
  /\ WF_vars(\E b \in Block : Start(b))
  /\ \A b \in Block : WF_vars(BlockStep(b))

FairSpec == Spec /\ Fairness

-----------------------------------------------------------------------------
TypeOK ==
  /\ host \in {"memset", "launch", "sync"}
  /\ rep \in 0 .. Reps
  /\ mlen \in Int /\ len \in Int
  /\ list \in [ListIndex -> Term \X Nat]
  /\ block_counts \in [Block -> Term]
  /\ grid_counts \in [Block -> Sum]
  /\ block_readys \in [Block -> 0 .. 2]
  /\ pending \in [Block -> SUBSET {"block", "grid"}]
  /\ pc \in [Block -> {"waiting", "storeBlock", "fenceBlock", "publishBlock",
                       "look", "lookPartial", "take", "storeGrid", "fenceGrid",
                       "publishGrid", "write", "done"}]
  /\ base \in [Block -> Int]
  /\ seen \in [Block -> [Lane -> 0 .. 2]]
  /\ polled \in [Block -> SUBSET Lane]
  /\ acc \in [Block -> Sum]

(* A block that has finished looking back holds the count of every block    *)
(* below it exactly once, and nothing else: the result of the exclusive     *)
(* scan at INDEXLIST-Cuda.cpp:101-182.                                      *)
LookedBack(b) == pc[b] \in {"storeGrid", "fenceGrid", "publishGrid", "write"}
ExclusiveScanCorrect ==
  \A b \in Block : LookedBack(b) => acc[b] = Ones(0 .. b - 1)

(* A flag another block can see promises memory it can read: 1 that the     *)
(* block's count is in block_counts, 2 that the count of the grid through   *)
(* the block is in grid_counts too (the release fences, lines 88, 96, 177). *)
ReadyMeansReadable ==
  host = "sync" =>
    \A b \in Block :
      /\ block_readys[b] >= 1 => block_counts[b] = b
      /\ block_readys[b] = 2 => grid_counts[b] = Ones(0 .. b)

(* The window never leaves the grid: a block that looks back always has     *)
(* some block under the highest lane of its window, so the loop at line 115 *)
(* stops at a grid count no later than at block 0.                          *)
WindowMeetsGrid ==
  \A b \in Block :
    pc[b] \in {"look", "lookPartial", "take"} => base[b] + WarpSize > 0

(* When the host has synchronized, m_len is the number of hits and the list *)
(* holds them in the order of the sequential loop, block after block.       *)
HitsBelow(b) == Cardinality(UNION {HitsOf(a) : a \in 0 .. b - 1})
ListMatchesSequentialLoop ==
  (host = "memset" /\ rep > 0) =>
    /\ mlen = HitsBelow(NumBlocks)
    /\ \A b \in Block : \A i \in 0 .. Hits[b] - 1 : list[HitsBelow(b) + i] = <<b, i>>
    /\ \A k \in ListIndex : k >= mlen => list[k] = NoItem

(* Once a grid count is announced it does not change while other blocks of  *)
(* the launch may still read it.                                            *)
StaysAnnounced ==
  \A b \in Block :
    host = "sync" /\ block_readys[b] = 2 =>
      /\ grid_counts'[b] = grid_counts[b] /\ block_counts'[b] = block_counts[b]
      /\ host' = "sync" => block_readys'[b] = 2
AnnouncedCountsStable == [][StaysAnnounced]_vars

(* The scan implements the abstract exclusive scan: a block's result is what *)
(* it holds from the end of its look-back to the end of the launch.          *)
Delivered(b) == host = "sync" /\ (LookedBack(b) \/ pc[b] = "done")
Abstract == INSTANCE ExclusiveScan WITH
  round <- rep,
  result <- [b \in Block |-> IF Delivered(b) THEN {acc[b]} ELSE {}]
ImplementsExclusiveScan == Abstract!Spec

(* Every launch ends, so the run loop does: no block waits for ever for a   *)
(* flag of a lower block (lines 120-125 and 148-156).                       *)
AllRepsFinish == <>(host = "memset" /\ rep = Reps)

-----------------------------------------------------------------------------
(* The inductive invariant: what the properties above rest on. *)

AtBlockCount == {"storeBlock", "fenceBlock", "publishBlock"}
AtLookBack == {"look", "lookPartial", "take"}
AtGridCount == {"storeGrid", "fenceGrid", "publishGrid"}

(* Outside a launch no block runs; a launch starts with clear flags. *)
HostInv ==
  /\ host # "sync" => \A b \in Block : pc[b] = "done"
  /\ host = "launch" => \A b \in Block : block_readys[b] = 0
  /\ host # "memset" => rep < Reps

(* Block 0 announces its grid count without announcing its block count. *)
ReadyInv == ReadyMeansReadable /\ (host = "sync" => block_readys[0] # 1)

(* Where block b is, against what it has stored and announced. *)
PublishInv ==
  \A b \in Block :
    /\ pc[b] \in AtBlockCount \cup AtLookBack => b # 0
    /\ pc[b] \in AtBlockCount \cup AtGridCount => ~Last(b)
    /\ pc[b] \in AtBlockCount \cup {"waiting"} => block_readys[b] = 0
    /\ pc[b] \in AtLookBack \cup AtGridCount /\ ~Last(b) =>
         block_readys[b] = IF b = 0 THEN 0 ELSE 1
    /\ pending[b] # {} => pc[b] \in {"fenceBlock", "fenceGrid"}
    /\ pc[b] = "fenceBlock" =>
         /\ pending[b] \subseteq {"block"}
         /\ "block" \in pending[b] \/ block_counts[b] = b
    /\ pc[b] = "fenceGrid" =>
         /\ "block" \in pending[b] \/ block_counts[b] = b
         /\ "grid" \in pending[b] \/ grid_counts[b] = Ones(0 .. b)
    /\ pc[b] \in {"publishBlock", "publishGrid"} => block_counts[b] = b
    /\ pc[b] = "publishGrid" => grid_counts[b] = Ones(0 .. b)

(* A block that has not finished looking back holds the counts of the blocks *)
(* between its window and itself, and knows of the blocks under its window   *)
(* no more than they have announced.                                         *)
LookBackOf(b) ==
  pc[b] \in AtBlockCount \cup AtLookBack =>
    /\ base[b] + WarpSize > 0 /\ base[b] + WarpSize <= b
    /\ acc[b] = Ones(base[b] + WarpSize .. b - 1)
    /\ \A l \in Lane :
         /\ seen[b][l] # 0 => /\ base[b] + l >= 0
                              /\ block_readys[base[b] + l] >= seen[b][l]
         /\ base[b] + l = 0 => seen[b][l] # 1
    /\ pc[b] = "look" => base[b] >= 0
    /\ pc[b] = "take" => ~MaskGeq(NotReady(b), GridReady(b))

LookBackInv == \A b \in Block : LookBackOf(b)

(* The list has an entry for every item, so for every hit (INDEXLIST.cpp:61). *)
ASSUME ListAssumption == HitsBelow(NumBlocks) <= ListLength

(* The hits of the blocks that have written in this rep are in their places; *)
(* nothing is past the last hit; the last block has told their number.       *)
HasWritten(b) == pc[b] = "done" /\ (host = "sync" \/ rep > 0)
ListInv ==
  /\ \A b \in Block : HasWritten(b) =>
       \A i \in 0 .. Hits[b] - 1 : list[HitsBelow(b) + i] = <<b, i>>
  /\ \A k \in ListIndex : k >= HitsBelow(NumBlocks) => list[k] = NoItem
  /\ HasWritten(NumBlocks - 1) => len = HitsBelow(NumBlocks)
  /\ host = "memset" /\ rep > 0 => mlen = HitsBelow(NumBlocks)

IInv == TypeOK /\ HostInv /\ ReadyInv /\ PublishInv /\ LookBackInv /\ ExclusiveScanCorrect

=============================================================================
