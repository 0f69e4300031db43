--------------------------- MODULE GridScanProofs ---------------------------
(***************************************************************************)
(* Proofs about GridScan for every number of blocks, warp size, residency    *)
(* and start order.                                                          *)
(***************************************************************************)
EXTENDS GridScan, FiniteSetTheorems, WellFoundedInduction, TLAPS

USE GridScanAssumption

(***************************************************************************)
(* A non-empty set of lanes has a highest lane: the bit that decides the     *)
(* comparisons of LaneMasks.                                                 *)
(***************************************************************************)
LEMMA HighestLane ==
  ASSUME NEW G \in SUBSET Lane, G # {}
  PROVE  \E m \in G : \A i \in G : i <= m
<1> DEFINE T == {n \in Nat : WarpSize - 1 - n \in G}
           R == {ss \in Nat \X Nat : ss[1] < ss[2]}
<1>1. IsWellFoundedOn(R, Nat)
  <2>1. OpToRel(<, Nat) = R
    BY DEF OpToRel
  <2>. QED BY <2>1, NatLessThanWellFounded
<1>2. T \subseteq Nat /\ T # {}
  <2>1. PICK g \in G : TRUE
    OBVIOUS
  <2>2. WarpSize - 1 - g \in T
    BY <2>1 DEF Lane
  <2>. QED BY <2>2
<1>3. PICK n \in T : \A y \in T : ~ (<<y, n>> \in R)
  <2>. HIDE DEF T, R
  <2>. QED BY <1>1, <1>2, WFMin
<1>4. ASSUME NEW y \in T PROVE n <= y
  <2>1. <<y, n>> \notin R
    <3>. HIDE DEF T, R
    <3>. QED BY <1>3
  <2>. QED BY <2>1
<1>5. WarpSize - 1 - n \in G
  OBVIOUS
<1>6. \A i \in G : i <= WarpSize - 1 - n
  <2>. TAKE i \in G
  <2>1. WarpSize - 1 - i \in T
    BY DEF Lane
  <2>2. n <= WarpSize - 1 - i
    BY <2>1, <1>4
  <2>. QED BY <2>2 DEF Lane
<1>. QED BY <1>5, <1>6

-----------------------------------------------------------------------------
(* Type correctness *)

LEMMA SumTypes ==
  /\ \A S : Ones(S) \in Sum
  /\ \A s, u \in Sum : Plus(s, u) \in Sum
BY DEF Ones, Plus, Sum

LEMMA PlusOwnCount == \A b \in Block : Plus(Ones(0 .. b - 1), Ones({b})) = Ones(0 .. b)
<1>. TAKE b \in Block
<1>1. \A t \in Term : Ones(0 .. b - 1)[t] + Ones({b})[t] = Ones(0 .. b)[t]
  BY DEF Ones, Block, Term, Junk
<1>. QED BY <1>1 DEF Plus, Ones

LEMMA LanesFinite == \A L \in SUBSET Lane : IsFiniteSet(L) /\ Cardinality(L) \in Nat
<1>1. IsFiniteSet(Lane)
  BY FS_Interval DEF Lane
<1>. QED BY <1>1, FS_Subset, FS_CardinalityType

LEMMA PlusBlockCountsType ==
  ASSUME TypeOK, NEW b \in Block, NEW L \in SUBSET Lane
  PROVE  PlusBlockCounts(b, L) \in Sum
<1>1. \A t \in Term : Cardinality({l \in L : block_counts[base[b] + l] = t}) \in Nat
  BY LanesFinite
<1>2. \A t \in Term : acc[b][t] \in Nat
  BY DEF TypeOK, Sum
<1>. QED BY <1>1, <1>2 DEF PlusBlockCounts, Sum

LEMMA GridAddersAreOfBlocks ==
  ASSUME TypeOK, LookBackInv, NEW b \in Block, pc[b] = "take"
  PROVE  \E m \in Lane :
           /\ GridAdders(b) = {m}
           /\ seen[b][m] = 2
           /\ \A l \in Lane : l > m => seen[b][l] # 0
           /\ BlockAdders(b) = {l \in Lane : l > m}
<1>. USE DEF LookBackInv, LookBackOf, AtLookBack, AtBlockCount, MaskGeq, NotReady, GridReady
<1>1. PICK i \in GridReady(b) : \A j \in NotReady(b) : ~(j > i)
  OBVIOUS
<1>2. PICK m \in GridReady(b) : \A k \in GridReady(b) : k <= m
  BY <1>1, HighestLane
<1>3. \A l \in Lane : l > m => seen[b][l] # 0
  BY <1>1, <1>2 DEF Lane
<1>4. BlockAdders(b) = {l \in Lane : l > m}
  BY <1>2 DEF BlockAdders, AboveMask, Lane
<1>5. GridAdders(b) = {m}
  BY <1>2 DEF GridAdders, AboveMask, CoversMask, Lane
<1>. QED BY <1>2, <1>3, <1>4, <1>5

LEMMA TypeStep == TypeOK /\ HostInv /\ LookBackInv /\ [Next]_vars => TypeOK'
<1>. SUFFICES ASSUME TypeOK, HostInv, LookBackInv, [Next]_vars PROVE TypeOK'
  OBVIOUS
<1>. USE DEF TypeOK, hostVars, memory, output, window, vars
<1>1. CASE Memset
  BY <1>1 DEF Memset
<1>2. CASE Launch
  BY <1>2 DEF Launch
<1>3. CASE Synchronize
  BY <1>3 DEF Synchronize, HostInv
<1>4. ASSUME NEW b \in Block, Start(b) PROVE TypeOK'
  BY <1>4, SumTypes DEF Start, FirstWindow, Block
<1>5. ASSUME NEW b \in Block, StoreVisible(b) PROVE TypeOK'
  BY <1>5, SumTypes DEF StoreVisible, Drain, Term
<1>6. ASSUME NEW b \in Block, StoreBlockCount(b) PROVE TypeOK'
  BY <1>6 DEF StoreBlockCount
<1>7. ASSUME NEW b \in Block, StoreGridCount(b) PROVE TypeOK'
  BY <1>7 DEF StoreGridCount
<1>8. ASSUME NEW b \in Block, Fence(b) PROVE TypeOK'
  BY <1>8, SumTypes DEF Fence, Drain, FencedStores, Term
<1>9. ASSUME NEW b \in Block, PublishBlockCount(b) PROVE TypeOK'
  BY <1>9 DEF PublishBlockCount, Announce, LoopEntry
<1>10. ASSUME NEW b \in Block, PublishGridCount(b) PROVE TypeOK'
  BY <1>10 DEF PublishGridCount, Announce
<1>11. ASSUME NEW b \in Block, NEW l \in Lane, LoadReady(b, l) PROVE TypeOK'
  <2>1. base[b] + l >= 0 => base[b] + l \in Block
    <3>1. base[b] + WarpSize <= b
      BY <1>11 DEF LoadReady, LookBackInv, LookBackOf, AtLookBack
    <3>2. base[b] \in Int
      OBVIOUS
    <3>. HIDE DEF TypeOK
    <3>. QED BY <3>1, <3>2 DEF Block, Lane
  <2>2. seen' \in [Block -> [Lane -> 0 .. 2]]
    BY <1>11, <2>1 DEF LoadReady
  <2>. QED BY <1>11, <2>2 DEF LoadReady
<1>12. ASSUME NEW b \in Block, LookBackFull(b) PROVE TypeOK'
  <2>1. PlusBlockCounts(b, Lane) \in Sum
    BY PlusBlockCountsType
  <2>2. acc' \in [Block -> Sum]
    BY <1>12, <2>1 DEF LookBackFull
  <2>3. seen' \in [Block -> [Lane -> 0 .. 2]] /\ base' \in [Block -> Int]
    <3>1. base[b] \in Int
      OBVIOUS
    <3>. QED BY <1>12, <3>1 DEF LookBackFull
  <2>4. pc' \in [Block -> {"waiting", "storeBlock", "fenceBlock", "publishBlock",
                          "look", "lookPartial", "take", "storeGrid", "fenceGrid",
                          "publishGrid", "write", "done"}]
    BY <1>12 DEF LookBackFull
  <2>. QED BY <1>12, <2>2, <2>3, <2>4 DEF LookBackFull, Repoll
<1>13. ASSUME NEW b \in Block, LookBackPartial(b) PROVE TypeOK'
  BY <1>13 DEF LookBackPartial, Repoll
<1>14. ASSUME NEW b \in Block, TakePrevious(b) PROVE TypeOK'
  <2>1. PICK m \in Lane : /\ GridAdders(b) = {m}
                          /\ seen[b][m] = 2
                          /\ BlockAdders(b) = {l \in Lane : l > m}
    BY <1>14, GridAddersAreOfBlocks DEF TakePrevious
  <2>2. base[b] + m \in Block
    <3>1. /\ base[b] + WarpSize <= b
          /\ seen[b][m] # 0 => base[b] + m >= 0
      BY <1>14 DEF TakePrevious, LookBackInv, LookBackOf, AtLookBack
    <3>2. base[b] \in Int
      OBVIOUS
    <3>. HIDE DEF TypeOK
    <3>. QED BY <2>1, <3>1, <3>2 DEF Block, Lane
  <2>3. PlusBlockCounts(b, BlockAdders(b)) \in Sum
    BY <2>1, PlusBlockCountsType
  <2>4. acc' = [acc EXCEPT ![b] =
                  Plus(PlusBlockCounts(b, BlockAdders(b)), grid_counts[base[b] + m])]
    BY <1>14, <2>1 DEF TakePrevious
  <2>5. acc' \in [Block -> Sum]
    BY <2>2, <2>3, <2>4, SumTypes
  <2>. QED BY <1>14, <2>5 DEF TakePrevious
<1>15. ASSUME NEW b \in Block, WriteList(b) PROVE TypeOK'
  <2>1. PICK first \in Nat :
          /\ list' = [k \in ListIndex |->
                        IF \E i \in 0 .. Hits[b] - 1 : k = first + i
                        THEN <<b, CHOOSE i \in 0 .. Hits[b] - 1 : k = first + i>>
                        ELSE list[k]]
          /\ len' = IF Last(b) THEN LenInclusive(b, first) ELSE len
    <3>1. Values(acc[b]) \subseteq Nat
      <4>. HIDE DEF TypeOK
      <4>. QED BY DEF Values
    <3>. HIDE DEF TypeOK
    <3>. QED BY <1>15, <3>1 DEF WriteList
  <2>2. list' \in [ListIndex -> Term \X Nat]
    <3>1. \A k \in ListIndex :
            (\E i \in 0 .. Hits[b] - 1 : k = first + i)
              => (CHOOSE i \in 0 .. Hits[b] - 1 : k = first + i) \in Nat
      <4>. HIDE DEF TypeOK
      <4>. QED OBVIOUS
    <3>2. list \in [ListIndex -> Term \X Nat]
      OBVIOUS
    <3>. HIDE DEF TypeOK
    <3>. QED BY <2>1, <3>1, <3>2 DEF Term
  <2>3. len' \in Int
    <3>1. len \in Int
      OBVIOUS
    <3>. HIDE DEF TypeOK
    <3>. QED BY <2>1, <3>1 DEF LenInclusive
  <2>. QED BY <1>15, <2>2, <2>3 DEF WriteList
<1>16. CASE Finished
  BY <1>16 DEF Finished
<1>17. CASE UNCHANGED vars
  BY <1>17
<1>. QED
  BY <1>1, <1>2, <1>3, <1>4, <1>5, <1>6, <1>7, <1>8, <1>9, <1>10, <1>11, <1>12, <1>13, <1>14, <1>15, <1>16, <1>17 DEF Next, HostStep, BlockStep

-----------------------------------------------------------------------------
(* The inductive invariant *)

(* Blocks run only between a launch and its synchronization. *)
LEMMA HostStepInv ==
  ASSUME TypeOK, HostInv, [Next]_vars
  PROVE  HostInv'
<1>. USE DEF TypeOK, HostInv, hostVars, memory, output, window, vars
<1>1. CASE Memset
  BY <1>1 DEF Memset, RepsLeft
<1>2. CASE Launch
  BY <1>2 DEF Launch
<1>3. CASE Synchronize
  BY <1>3 DEF Synchronize
<1>4. ASSUME NEW b \in Block, Start(b) PROVE HostInv'
  BY <1>4 DEF Start, FirstWindow
<1>5. ASSUME NEW b \in Block, StoreVisible(b) PROVE HostInv'
  BY <1>5 DEF StoreVisible, Drain
<1>6. ASSUME NEW b \in Block, StoreBlockCount(b) PROVE HostInv'
  BY <1>6 DEF StoreBlockCount
<1>7. ASSUME NEW b \in Block, StoreGridCount(b) PROVE HostInv'
  BY <1>7 DEF StoreGridCount
<1>8. ASSUME NEW b \in Block, Fence(b) PROVE HostInv'
  BY <1>8 DEF Fence, Drain, FencedStores
<1>9. ASSUME NEW b \in Block, PublishBlockCount(b) PROVE HostInv'
  BY <1>9 DEF PublishBlockCount, Announce, LoopEntry
<1>10. ASSUME NEW b \in Block, PublishGridCount(b) PROVE HostInv'
  BY <1>10 DEF PublishGridCount, Announce
<1>11. ASSUME NEW b \in Block, NEW l \in Lane, LoadReady(b, l) PROVE HostInv'
  BY <1>11 DEF LoadReady
<1>12. ASSUME NEW b \in Block, LookBackFull(b) PROVE HostInv'
  BY <1>12 DEF LookBackFull, Repoll
<1>13. ASSUME NEW b \in Block, LookBackPartial(b) PROVE HostInv'
  BY <1>13 DEF LookBackPartial, Repoll
<1>14. ASSUME NEW b \in Block, TakePrevious(b) PROVE HostInv'
  BY <1>14 DEF TakePrevious
<1>15. ASSUME NEW b \in Block, WriteList(b) PROVE HostInv'
  BY <1>15 DEF WriteList
<1>16. CASE Finished
  BY <1>16 DEF Finished
<1>17. CASE UNCHANGED vars
  BY <1>17
<1>. QED
  BY <1>1, <1>2, <1>3, <1>4, <1>5, <1>6, <1>7, <1>8, <1>9, <1>10, <1>11, <1>12, <1>13, <1>14, <1>15, <1>16, <1>17 DEF Next, HostStep, BlockStep

LEMMA DrainedGridCount ==
  ASSUME PublishInv, ExclusiveScanCorrect, NEW b \in Block,
         "grid" \in pending[b], pc[b] # "fenceBlock"
  PROVE  Plus(acc[b], Ones({b})) = Ones(0 .. b) /\ pc[b] = "fenceGrid"
<1>1. pc[b] = "fenceGrid"
  BY DEF PublishInv
<1>. QED BY <1>1, PlusOwnCount DEF ExclusiveScanCorrect, LookedBack

(* A flag is raised only over memory that is already readable. *)
LEMMA ReadyStep ==
  ASSUME TypeOK, HostInv, ReadyInv, PublishInv, LookBackInv, ExclusiveScanCorrect, [Next]_vars
  PROVE  ReadyInv'
<1>. USE DEF TypeOK, HostInv, ReadyInv, ReadyMeansReadable, PublishInv, AtBlockCount, AtLookBack, AtGridCount, hostVars, memory, output, window, vars
<1>1. CASE Memset
  BY <1>1 DEF Memset, RepsLeft
<1>2. CASE Launch
  BY <1>2 DEF Launch, Block
<1>3. CASE Synchronize
  BY <1>3 DEF Synchronize
<1>4. ASSUME NEW b \in Block, Start(b) PROVE ReadyInv'
  BY <1>4 DEF Start, FirstWindow
<1>5. ASSUME NEW b \in Block, StoreVisible(b) PROVE ReadyInv'
  <2>1. PICK c \in pending[b] : Drain(b, {c})
    BY <1>5 DEF StoreVisible
  <2>2. CASE c = "block"
    BY <1>5, <2>1, <2>2 DEF StoreVisible, Drain
  <2>3. CASE c = "grid"
    <3>1. grid_counts' = [grid_counts EXCEPT ![b] = Ones(0 .. b)]
      <4>. HIDE DEF TypeOK, ReadyInv
      <4>1. pc[b] # "fenceBlock"
        BY <2>3
      <4>. QED BY <2>1, <2>3, <4>1, DrainedGridCount DEF Drain
    <3>. QED BY <1>5, <2>1, <2>3, <3>1 DEF StoreVisible, Drain
  <2>. QED BY <2>2, <2>3
<1>6. ASSUME NEW b \in Block, StoreBlockCount(b) PROVE ReadyInv'
  BY <1>6 DEF StoreBlockCount
<1>7. ASSUME NEW b \in Block, StoreGridCount(b) PROVE ReadyInv'
  BY <1>7 DEF StoreGridCount
<1>8. ASSUME NEW b \in Block, Fence(b) PROVE ReadyInv'
  BY <1>8, DrainedGridCount DEF Fence, Drain, FencedStores
<1>9. ASSUME NEW b \in Block, PublishBlockCount(b) PROVE ReadyInv'
  BY <1>9 DEF PublishBlockCount, Announce, LoopEntry
<1>10. ASSUME NEW b \in Block, PublishGridCount(b) PROVE ReadyInv'
  BY <1>10 DEF PublishGridCount, Announce
<1>11. ASSUME NEW b \in Block, NEW l \in Lane, LoadReady(b, l) PROVE ReadyInv'
  BY <1>11 DEF LoadReady
<1>12. ASSUME NEW b \in Block, LookBackFull(b) PROVE ReadyInv'
  BY <1>12 DEF LookBackFull, Repoll
<1>13. ASSUME NEW b \in Block, LookBackPartial(b) PROVE ReadyInv'
  BY <1>13 DEF LookBackPartial, Repoll
<1>14. ASSUME NEW b \in Block, TakePrevious(b) PROVE ReadyInv'
  BY <1>14 DEF TakePrevious
<1>15. ASSUME NEW b \in Block, WriteList(b) PROVE ReadyInv'
  BY <1>15 DEF WriteList
<1>16. CASE Finished
  BY <1>16 DEF Finished
<1>17. CASE UNCHANGED vars
  BY <1>17
<1>. QED
  BY <1>1, <1>2, <1>3, <1>4, <1>5, <1>6, <1>7, <1>8, <1>9, <1>10, <1>11, <1>12, <1>13, <1>14, <1>15, <1>16, <1>17 DEF Next, HostStep, BlockStep

(* What a block has stored and announced follows where it is. *)
LEMMA PublishStep ==
  ASSUME TypeOK, HostInv, ReadyInv, PublishInv, LookBackInv, ExclusiveScanCorrect, [Next]_vars
  PROVE  PublishInv'
<1>. USE DEF TypeOK, HostInv, ReadyInv, ReadyMeansReadable, PublishInv, AtBlockCount, AtLookBack, AtGridCount, hostVars, memory, output, window, vars
<1>1. CASE Memset
  BY <1>1 DEF Memset, RepsLeft
<1>2. CASE Launch
  BY <1>2 DEF Launch
<1>3. CASE Synchronize
  BY <1>3 DEF Synchronize
<1>4. ASSUME NEW b \in Block, Start(b) PROVE PublishInv'
  BY <1>4 DEF Start, FirstWindow
<1>5. ASSUME NEW b \in Block, StoreVisible(b) PROVE PublishInv'
  BY <1>5, DrainedGridCount DEF StoreVisible, Drain
<1>6. ASSUME NEW b \in Block, StoreBlockCount(b) PROVE PublishInv'
  BY <1>6 DEF StoreBlockCount
<1>7. ASSUME NEW b \in Block, StoreGridCount(b) PROVE PublishInv'
  BY <1>7 DEF StoreGridCount
<1>8. ASSUME NEW b \in Block, Fence(b) PROVE PublishInv'
  BY <1>8, DrainedGridCount DEF Fence, Drain, FencedStores
<1>9. ASSUME NEW b \in Block, PublishBlockCount(b) PROVE PublishInv'
  BY <1>9 DEF PublishBlockCount, Announce, LoopEntry
<1>10. ASSUME NEW b \in Block, PublishGridCount(b) PROVE PublishInv'
  BY <1>10 DEF PublishGridCount, Announce
<1>11. ASSUME NEW b \in Block, NEW l \in Lane, LoadReady(b, l) PROVE PublishInv'
  BY <1>11 DEF LoadReady
<1>12. ASSUME NEW b \in Block, LookBackFull(b) PROVE PublishInv'
  BY <1>12 DEF LookBackFull, Repoll
<1>13. ASSUME NEW b \in Block, LookBackPartial(b) PROVE PublishInv'
  BY <1>13 DEF LookBackPartial, Repoll
<1>14. ASSUME NEW b \in Block, TakePrevious(b) PROVE PublishInv'
  BY <1>14 DEF TakePrevious
<1>15. ASSUME NEW b \in Block, WriteList(b) PROVE PublishInv'
  BY <1>15 DEF WriteList
<1>16. CASE Finished
  BY <1>16 DEF Finished
<1>17. CASE UNCHANGED vars
  BY <1>17
<1>. QED
  BY <1>1, <1>2, <1>3, <1>4, <1>5, <1>6, <1>7, <1>8, <1>9, <1>10, <1>11, <1>12, <1>13, <1>14, <1>15, <1>16, <1>17 DEF Next, HostStep, BlockStep

(* Lanes over readable block counts add each of their blocks once. *)
LEMMA WindowSum ==
  ASSUME NEW b \in Block, base[b] \in Int, NEW L \in SUBSET Lane,
         \A l \in L : block_counts[base[b] + l] = base[b] + l
  PROVE  PlusBlockCounts(b, L)
           = [t \in Term |-> acc[b][t] + IF t - base[b] \in L THEN 1 ELSE 0]
<1>1. ASSUME NEW t \in Term
      PROVE  Cardinality({l \in L : block_counts[base[b] + l] = t})
               = IF t - base[b] \in L THEN 1 ELSE 0
  <2>1. CASE t - base[b] \in L
    <3>1. {l \in L : block_counts[base[b] + l] = t} = {t - base[b]}
      <4>1. base[b] + (t - base[b]) = t /\ \A l \in L : base[b] + l = t <=> l = t - base[b]
        BY DEF Term, Block, Junk, Lane
      <4>. QED BY <2>1, <4>1
    <3>. QED BY <2>1, <3>1, FS_Singleton
  <2>2. CASE t - base[b] \notin L
    <3>1. {l \in L : block_counts[base[b] + l] = t} = {}
      <4>1. \A l \in L : base[b] + l = t <=> l = t - base[b]
        BY DEF Term, Block, Junk, Lane
      <4>. QED BY <2>2, <4>1
    <3>. QED BY <2>2, <3>1, FS_EmptySet
  <2>. QED BY <2>1, <2>2
<1>. QED BY <1>1 DEF PlusBlockCounts

(* Block c's step, if any, is one that leaves its look-back as it is; flags
   are only raised. *)
Quiet(c) ==
  \/ pc'[c] \notin AtBlockCount \cup AtLookBack
  \/ /\ \/ pc'[c] = pc[c]
        \/ /\ pc[c] \in AtBlockCount \cup AtLookBack
           /\ pc'[c] = "look" => base[c] >= 0
           /\ pc'[c] = "take" => ~MaskGeq(NotReady(c), GridReady(c))
     /\ base'[c] = base[c] /\ seen'[c] = seen[c] /\ acc'[c] = acc[c]
     /\ \A a \in Block : block_readys'[a] \in 0 .. 2 /\ block_readys'[a] >= block_readys[a]

(* What a block knows stays right while its registers do not change, whatever
   others announce meanwhile. *)
LEMMA LookBackFrame ==
  ASSUME TypeOK, NEW c \in Block, LookBackOf(c), Quiet(c)
  PROVE  LookBackOf(c)'
<1>. USE DEF LookBackOf, AtBlockCount, AtLookBack, Quiet
<1>1. CASE pc'[c] \notin AtBlockCount \cup AtLookBack
  BY <1>1
<1>2. CASE pc'[c] \in AtBlockCount \cup AtLookBack
  <2>1. NotReady(c)' = NotReady(c) /\ GridReady(c)' = GridReady(c)
    BY <1>2 DEF NotReady, GridReady
  <2>2. ASSUME NEW l \in Lane, seen[c][l] # 0
        PROVE  base[c] + l >= 0 /\ block_readys'[base[c] + l] >= seen[c][l]
    <3>1. /\ base[c] + l >= 0 /\ block_readys[base[c] + l] >= seen[c][l]
          /\ base[c] + WarpSize <= c
      BY <1>2, <2>2
    <3>2. base[c] + l \in Block
      <4>1. base[c] \in Int
        BY DEF TypeOK
      <4>. HIDE DEF Quiet, LookBackOf
      <4>. QED BY <3>1, <4>1 DEF Block, Lane
    <3>3. /\ block_readys[base[c] + l] \in 0 .. 2 /\ seen[c][l] \in 0 .. 2
          /\ block_readys'[base[c] + l] \in 0 .. 2
          /\ block_readys'[base[c] + l] >= block_readys[base[c] + l]
      BY <1>2, <3>2 DEF TypeOK
    <3>. HIDE DEF Quiet, LookBackOf
    <3>. QED BY <3>1, <3>3
  <2>. QED BY <1>2, <2>1, <2>2
<1>. QED BY <1>1, <1>2

(* A full window of block counts extends what a block holds down by a warp;
   the window was not over block 0, whose flag is never 1. *)
LEMMA WindowMovesDown ==
  ASSUME TypeOK, HostInv, ReadyInv, NEW b \in Block, LookBackOf(b), LookBackFull(b),
         NotReady(b) = {}, GridReady(b) = {}
  PROVE  LookBackOf(b)'
<1>1. /\ pc[b] = "look" /\ pc'[b] # "take"
      /\ pc'[b] = "look" => base[b] - WarpSize >= 0
      /\ base'[b] = base[b] - WarpSize /\ acc'[b] = PlusBlockCounts(b, Lane)
      /\ \A l \in Lane : seen'[b][l] = 0
  BY DEF LookBackFull, TypeOK
<1>2. /\ base[b] >= 0 /\ base[b] + WarpSize <= b
      /\ acc[b] = Ones(base[b] + WarpSize .. b - 1)
      /\ \A l \in Lane : /\ seen[b][l] # 0 => block_readys[base[b] + l] >= seen[b][l]
                         /\ base[b] + l = 0 => seen[b][l] # 1
  BY <1>1 DEF LookBackOf, AtLookBack
<1>3. base[b] \in Int
  BY DEF TypeOK
<1>4. \A l \in Lane : seen[b][l] = 1
  BY DEF TypeOK, NotReady, GridReady
<1>5. base[b] > 0
  <2>1. 0 \in Lane
    BY DEF Lane
  <2>. QED BY <1>2, <1>3, <1>4, <2>1
<1>6. \A l \in Lane : block_counts[base[b] + l] = base[b] + l
  <2>. SUFFICES ASSUME NEW l \in Lane PROVE block_counts[base[b] + l] = base[b] + l
    OBVIOUS
  <2>1. base[b] + l \in Block
    BY <1>2, <1>3 DEF Block, Lane
  <2>2. block_readys[base[b] + l] >= 1
    BY <1>2, <1>4
  <2>3. host = "sync"
    BY <1>1 DEF HostInv, TypeOK
  <2>. QED BY <2>1, <2>2, <2>3 DEF ReadyInv, ReadyMeansReadable
<1>7. PlusBlockCounts(b, Lane) = Ones(base[b] .. b - 1)
  <2>1. PlusBlockCounts(b, Lane)
          = [t \in Term |-> acc[b][t] + IF t - base[b] \in Lane THEN 1 ELSE 0]
    BY <1>3, <1>6, WindowSum
  <2>2. \A t \in Term : acc[b][t] + (IF t - base[b] \in Lane THEN 1 ELSE 0)
                          = Ones(base[b] .. b - 1)[t]
    <3>. TAKE t \in Term
    <3>1. t \in Int
      BY DEF Term, Block, Junk
    <3>2. acc[b][t] = IF t \in base[b] + WarpSize .. b - 1 THEN 1 ELSE 0
      BY <1>2 DEF Ones
    <3>3. Ones(base[b] .. b - 1)[t] = IF t \in base[b] .. b - 1 THEN 1 ELSE 0
      BY DEF Ones
    <3>4. (t - base[b] \in Lane) <=> t \in base[b] .. base[b] + WarpSize - 1
      BY <1>3, <3>1 DEF Lane
    <3>5. base[b] + WarpSize <= b /\ b \in Int
      BY <1>2 DEF Block
    <3>6. CASE t \in base[b] .. base[b] + WarpSize - 1
      BY <1>3, <3>1, <3>2, <3>3, <3>4, <3>5, <3>6
    <3>7. CASE t \notin base[b] .. base[b] + WarpSize - 1
      BY <1>3, <3>1, <3>2, <3>3, <3>4, <3>5, <3>7
    <3>. QED BY <3>6, <3>7
  <2>. QED BY <2>1, <2>2 DEF Ones
<1>8. base'[b] + WarpSize = base[b] /\ base[b] <= b
  BY <1>1, <1>2, <1>3 DEF Block
<1>. QED
  BY <1>1, <1>5, <1>7, <1>8 DEF LookBackOf

(* A block that looks back knows only what was announced and has added only
   what lies between its window and itself. *)
LEMMA LookBackStep ==
  ASSUME TypeOK, HostInv, ReadyInv, PublishInv, LookBackInv, [Next]_vars
  PROVE  LookBackInv'
<1>. USE DEF TypeOK, HostInv, PublishInv, Quiet, AtBlockCount, AtLookBack, AtGridCount, hostVars, memory, output, window, vars
<1>1. CASE Memset
  <2>. SUFFICES ASSUME NEW c \in Block PROVE LookBackOf(c)'
    BY DEF LookBackInv
  <2>1. LookBackOf(c)
    BY DEF LookBackInv
  <2>2. Quiet(c)
    BY <1>1 DEF Memset, RepsLeft
  <2>. HIDE DEF TypeOK, Quiet
  <2>. QED BY <2>1, <2>2, LookBackFrame
<1>2. CASE Launch
  <2>. SUFFICES ASSUME NEW c \in Block PROVE LookBackOf(c)'
    BY DEF LookBackInv
  <2>1. LookBackOf(c)
    BY DEF LookBackInv
  <2>2. Quiet(c)
    BY <1>2 DEF Launch
  <2>. HIDE DEF TypeOK, Quiet
  <2>. QED BY <2>1, <2>2, LookBackFrame
<1>3. CASE Synchronize
  <2>. SUFFICES ASSUME NEW c \in Block PROVE LookBackOf(c)'
    BY DEF LookBackInv
  <2>1. LookBackOf(c)
    BY DEF LookBackInv
  <2>2. Quiet(c)
    BY <1>3 DEF Synchronize
  <2>. HIDE DEF TypeOK, Quiet
  <2>. QED BY <2>1, <2>2, LookBackFrame
<1>4. ASSUME NEW b \in Block, Start(b) PROVE LookBackInv'
  <2>. SUFFICES ASSUME NEW c \in Block PROVE LookBackOf(c)'
    BY DEF LookBackInv
  <2>1. LookBackOf(c)
    BY DEF LookBackInv
  <2>2. CASE c # b
    <3>1. Quiet(c)
      BY <1>4, <2>2 DEF Start, FirstWindow
    <3>. HIDE DEF TypeOK, Quiet
    <3>. QED BY <2>1, <3>1, LookBackFrame
  <2>3. CASE c = b
    <3>1. /\ base'[b] = b - WarpSize /\ acc'[b] = Ones({})
          /\ \A l \in Lane : seen'[b][l] = 0
          /\ pc'[b] \in AtBlockCount \cup AtLookBack => b # 0
          /\ pc'[b] # "take" /\ (pc'[b] = "look" => b - WarpSize >= 0)
      BY <1>4 DEF Start, FirstWindow
    <3>2. Ones(b - WarpSize + WarpSize .. b - 1) = Ones({})
      BY DEF Ones, Block
    <3>. HIDE DEF TypeOK, Quiet
    <3>. QED BY <2>3, <3>1, <3>2 DEF LookBackOf, Block
  <2>. QED BY <2>2, <2>3
<1>5. ASSUME NEW b \in Block, StoreVisible(b) PROVE LookBackInv'
  <2>. SUFFICES ASSUME NEW c \in Block PROVE LookBackOf(c)'
    BY DEF LookBackInv
  <2>1. LookBackOf(c)
    BY DEF LookBackInv
  <2>2. Quiet(c)
    BY <1>5 DEF StoreVisible, Drain
  <2>. HIDE DEF TypeOK, Quiet
  <2>. QED BY <2>1, <2>2, LookBackFrame
<1>6. ASSUME NEW b \in Block, StoreBlockCount(b) PROVE LookBackInv'
  <2>. SUFFICES ASSUME NEW c \in Block PROVE LookBackOf(c)'
    BY DEF LookBackInv
  <2>1. LookBackOf(c)
    BY DEF LookBackInv
  <2>2. Quiet(c)
    BY <1>6 DEF StoreBlockCount
  <2>. HIDE DEF TypeOK, Quiet
  <2>. QED BY <2>1, <2>2, LookBackFrame
<1>7. ASSUME NEW b \in Block, StoreGridCount(b) PROVE LookBackInv'
  <2>. SUFFICES ASSUME NEW c \in Block PROVE LookBackOf(c)'
    BY DEF LookBackInv
  <2>1. LookBackOf(c)
    BY DEF LookBackInv
  <2>2. Quiet(c)
    BY <1>7 DEF StoreGridCount
  <2>. HIDE DEF TypeOK, Quiet
  <2>. QED BY <2>1, <2>2, LookBackFrame
<1>8. ASSUME NEW b \in Block, Fence(b) PROVE LookBackInv'
  <2>. SUFFICES ASSUME NEW c \in Block PROVE LookBackOf(c)'
    BY DEF LookBackInv
  <2>1. LookBackOf(c)
    BY DEF LookBackInv
  <2>2. Quiet(c)
    BY <1>8 DEF Fence, Drain, FencedStores
  <2>. HIDE DEF TypeOK, Quiet
  <2>. QED BY <2>1, <2>2, LookBackFrame
<1>9. ASSUME NEW b \in Block, PublishBlockCount(b) PROVE LookBackInv'
  <2>. SUFFICES ASSUME NEW c \in Block PROVE LookBackOf(c)'
    BY DEF LookBackInv
  <2>1. LookBackOf(c)
    BY DEF LookBackInv
  <2>2. Quiet(c)
    BY <1>9 DEF PublishBlockCount, Announce, LoopEntry
  <2>. HIDE DEF TypeOK, Quiet
  <2>. QED BY <2>1, <2>2, LookBackFrame
<1>10. ASSUME NEW b \in Block, PublishGridCount(b) PROVE LookBackInv'
  <2>. SUFFICES ASSUME NEW c \in Block PROVE LookBackOf(c)'
    BY DEF LookBackInv
  <2>1. LookBackOf(c)
    BY DEF LookBackInv
  <2>2. Quiet(c)
    BY <1>10 DEF PublishGridCount, Announce
  <2>. HIDE DEF TypeOK, Quiet
  <2>. QED BY <2>1, <2>2, LookBackFrame
<1>11. ASSUME NEW b \in Block, NEW l \in Lane, LoadReady(b, l) PROVE LookBackInv'
  <2>. SUFFICES ASSUME NEW c \in Block PROVE LookBackOf(c)'
    BY DEF LookBackInv
  <2>1. LookBackOf(c)
    BY DEF LookBackInv
  <2>2. CASE c # b
    <3>1. Quiet(c)
      BY <1>11, <2>2 DEF LoadReady
    <3>. HIDE DEF TypeOK, Quiet
    <3>. QED BY <2>1, <3>1, LookBackFrame
  <2>3. CASE c = b
    <3>1. /\ pc'[b] = pc[b] /\ pc[b] \in {"look", "lookPartial"}
          /\ base'[b] = base[b] /\ acc'[b] = acc[b] /\ block_readys' = block_readys
          /\ \A k \in Lane : k # l => seen'[b][k] = seen[b][k]
          /\ seen'[b][l] = IF base[b] + l >= 0 THEN block_readys[base[b] + l]
                          ELSE seen[b][l]
      BY <1>11 DEF LoadReady
    <3>2. host = "sync" => block_readys[0] # 1
      BY DEF ReadyInv
    <3>3. host = "sync"
      BY <3>1
    <3>4. base[b] + l >= 0 => base[b] + l \in Block
      <4>1. base[b] \in Int /\ base[b] + WarpSize <= b
        BY <2>1, <2>3, <3>1 DEF LookBackOf
      <4>. HIDE DEF TypeOK, Quiet, HostInv, ReadyInv, PublishInv, LookBackInv
      <4>2. l \in Nat /\ l < WarpSize /\ b \in Nat /\ b < NumBlocks
        BY DEF Lane, Block
      <4>. QED BY <4>1, <4>2 DEF Block
    <3>5. base[b] + l >= 0 => block_readys[base[b] + l] \in 0 .. 2
      BY <3>4
    <3>. HIDE DEF TypeOK, Quiet, HostInv, PublishInv
    <3>. QED BY <2>1, <2>3, <3>1, <3>2, <3>3, <3>5 DEF LookBackOf
  <2>. QED BY <2>2, <2>3
<1>12. ASSUME NEW b \in Block, LookBackFull(b) PROVE LookBackInv'
  <2>. SUFFICES ASSUME NEW c \in Block PROVE LookBackOf(c)'
    BY DEF LookBackInv
  <2>1. LookBackOf(c)
    BY DEF LookBackInv
  <2>2. CASE c # b
    <3>1. Quiet(c)
      BY <1>12, <2>2 DEF LookBackFull, Repoll
    <3>. HIDE DEF TypeOK, Quiet
    <3>. QED BY <2>1, <3>1, LookBackFrame
  <2>3. CASE c = b
    <3>1. CASE NotReady(b) # {} \/ GridReady(b) # {}
      <4>1. Quiet(b)
        BY <1>12, <3>1 DEF LookBackFull, MaskGeq
      <4>. HIDE DEF TypeOK, Quiet
      <4>. QED BY <2>1, <2>3, <4>1, LookBackFrame
    <3>2. CASE NotReady(b) = {} /\ GridReady(b) = {}
      BY <1>12, <2>1, <2>3, <3>2, WindowMovesDown
    <3>. QED BY <3>1, <3>2
  <2>. QED BY <2>2, <2>3
<1>13. ASSUME NEW b \in Block, LookBackPartial(b) PROVE LookBackInv'
  <2>. SUFFICES ASSUME NEW c \in Block PROVE LookBackOf(c)'
    BY DEF LookBackInv
  <2>1. LookBackOf(c)
    BY DEF LookBackInv
  <2>2. Quiet(c)
    BY <1>13 DEF LookBackPartial, Repoll
  <2>. HIDE DEF TypeOK, Quiet
  <2>. QED BY <2>1, <2>2, LookBackFrame
<1>14. ASSUME NEW b \in Block, TakePrevious(b) PROVE LookBackInv'
  <2>. SUFFICES ASSUME NEW c \in Block PROVE LookBackOf(c)'
    BY DEF LookBackInv
  <2>1. LookBackOf(c)
    BY DEF LookBackInv
  <2>2. Quiet(c)
    BY <1>14 DEF TakePrevious
  <2>. HIDE DEF TypeOK, Quiet
  <2>. QED BY <2>1, <2>2, LookBackFrame
<1>15. ASSUME NEW b \in Block, WriteList(b) PROVE LookBackInv'
  <2>. SUFFICES ASSUME NEW c \in Block PROVE LookBackOf(c)'
    BY DEF LookBackInv
  <2>1. LookBackOf(c)
    BY DEF LookBackInv
  <2>2. Quiet(c)
    BY <1>15 DEF WriteList
  <2>. HIDE DEF TypeOK, Quiet
  <2>. QED BY <2>1, <2>2, LookBackFrame
<1>16. CASE Finished
  <2>. SUFFICES ASSUME NEW c \in Block PROVE LookBackOf(c)'
    BY DEF LookBackInv
  <2>1. LookBackOf(c)
    BY DEF LookBackInv
  <2>2. Quiet(c)
    BY <1>16 DEF Finished
  <2>. HIDE DEF TypeOK, Quiet
  <2>. QED BY <2>1, <2>2, LookBackFrame
<1>17. CASE UNCHANGED vars
  <2>. SUFFICES ASSUME NEW c \in Block PROVE LookBackOf(c)'
    BY DEF LookBackInv
  <2>1. LookBackOf(c)
    BY DEF LookBackInv
  <2>2. Quiet(c)
    BY <1>17
  <2>. HIDE DEF TypeOK, Quiet
  <2>. QED BY <2>1, <2>2, LookBackFrame
<1>. QED
  BY <1>1, <1>2, <1>3, <1>4, <1>5, <1>6, <1>7, <1>8, <1>9, <1>10, <1>11, <1>12, <1>13, <1>14, <1>15, <1>16, <1>17 DEF Next, HostStep, BlockStep

(* The highest ready grid count and the block counts above it complete the
   exclusive sum. *)
LEMMA TakeIsExclusive ==
  ASSUME TypeOK, HostInv, ReadyInv, LookBackInv, NEW b \in Block, TakePrevious(b)
  PROVE  acc'[b] = Ones(0 .. b - 1)
<1>1. pc[b] = "take" /\ host = "sync"
  BY DEF TakePrevious, HostInv, TypeOK
<1>2. PICK m \in Lane : /\ GridAdders(b) = {m}
                        /\ seen[b][m] = 2
                        /\ \A l \in Lane : l > m => seen[b][l] # 0
                        /\ BlockAdders(b) = {l \in Lane : l > m}
  BY <1>1, GridAddersAreOfBlocks
<1>3. /\ base[b] \in Int /\ base[b] + WarpSize > 0 /\ base[b] + WarpSize <= b
      /\ acc[b] = Ones(base[b] + WarpSize .. b - 1)
      /\ \A l \in Lane : seen[b][l] # 0 => /\ base[b] + l >= 0
                                           /\ block_readys[base[b] + l] >= seen[b][l]
  BY <1>1 DEF LookBackInv, LookBackOf, AtLookBack, TypeOK
<1>4. \A l \in Lane : base[b] + l >= 0 => base[b] + l \in Block
  BY <1>3 DEF Block, Lane
<1>5. \A l \in BlockAdders(b) : block_counts[base[b] + l] = base[b] + l
  <2>. SUFFICES ASSUME NEW l \in Lane, l > m PROVE block_counts[base[b] + l] = base[b] + l
    BY <1>2
  <2>1. base[b] + l \in Block /\ seen[b][l] # 0 /\ block_readys[base[b] + l] >= seen[b][l]
    BY <1>2, <1>3, <1>4
  <2>2. block_readys[base[b] + l] >= 1
    BY <2>1 DEF TypeOK
  <2>. QED BY <1>1, <2>1, <2>2 DEF ReadyInv, ReadyMeansReadable
<1>6. grid_counts[base[b] + m] = Ones(0 .. base[b] + m) /\ base[b] + m \in Block
  <2>1. base[b] + m \in Block /\ block_readys[base[b] + m] >= 2
    BY <1>2, <1>3, <1>4
  <2>2. block_readys[base[b] + m] = 2
    BY <2>1 DEF TypeOK
  <2>. QED BY <1>1, <2>1, <2>2 DEF ReadyInv, ReadyMeansReadable
<1>7. PlusBlockCounts(b, BlockAdders(b))
        = [t \in Term |-> acc[b][t] + IF t - base[b] \in BlockAdders(b) THEN 1 ELSE 0]
  BY <1>2, <1>3, <1>5, WindowSum
<1>8. acc'[b] = Plus(PlusBlockCounts(b, BlockAdders(b)), grid_counts[base[b] + m])
  BY <1>2 DEF TakePrevious, TypeOK
<1>9. \A t \in Term :
        (acc[b][t] + IF t - base[b] \in BlockAdders(b) THEN 1 ELSE 0)
          + Ones(0 .. base[b] + m)[t] = Ones(0 .. b - 1)[t]
  <2>. TAKE t \in Term
  <2>1. t \in Int
    BY DEF Term, Block, Junk
  <2>2. acc[b][t] = IF t \in base[b] + WarpSize .. b - 1 THEN 1 ELSE 0
    BY <1>3 DEF Ones
  <2>3. /\ Ones(0 .. base[b] + m)[t] = IF t \in 0 .. base[b] + m THEN 1 ELSE 0
        /\ Ones(0 .. b - 1)[t] = IF t \in 0 .. b - 1 THEN 1 ELSE 0
    BY DEF Ones
  <2>4. t - base[b] \in BlockAdders(b)
          <=> t \in base[b] + m + 1 .. base[b] + WarpSize - 1
    BY <1>2, <1>3, <2>1 DEF Lane
  <2>5. base[b] + m >= 0 /\ m \in 0 .. WarpSize - 1
    BY <1>2, <1>3 DEF Lane
  <2>6. base[b] \in Int /\ base[b] + WarpSize <= b /\ b \in Int
    BY <1>3 DEF Block
  <2>7. CASE t - base[b] \in BlockAdders(b)
    BY <2>1, <2>2, <2>3, <2>4, <2>5, <2>6, <2>7
  <2>8. CASE t - base[b] \notin BlockAdders(b)
    BY <2>1, <2>2, <2>3, <2>4, <2>5, <2>6, <2>8
  <2>. QED BY <2>7, <2>8
<1>. QED BY <1>6, <1>7, <1>8, <1>9 DEF Plus, Ones

(* A block ends its look-back with every lower block counted once. *)
LEMMA ExclusiveStep ==
  ASSUME TypeOK, HostInv, ReadyInv, LookBackInv, ExclusiveScanCorrect, [Next]_vars
  PROVE  ExclusiveScanCorrect'
<1>. USE DEF TypeOK, HostInv, ExclusiveScanCorrect, LookedBack, hostVars, memory, output, window, vars
<1>1. CASE Memset
  BY <1>1 DEF Memset, RepsLeft
<1>2. CASE Launch
  BY <1>2 DEF Launch
<1>3. CASE Synchronize
  BY <1>3 DEF Synchronize
<1>4. ASSUME NEW b \in Block, Start(b) PROVE ExclusiveScanCorrect'
  BY <1>4 DEF Start, FirstWindow
<1>5. ASSUME NEW b \in Block, StoreVisible(b) PROVE ExclusiveScanCorrect'
  BY <1>5 DEF StoreVisible, Drain
<1>6. ASSUME NEW b \in Block, StoreBlockCount(b) PROVE ExclusiveScanCorrect'
  BY <1>6 DEF StoreBlockCount
<1>7. ASSUME NEW b \in Block, StoreGridCount(b) PROVE ExclusiveScanCorrect'
  BY <1>7 DEF StoreGridCount
<1>8. ASSUME NEW b \in Block, Fence(b) PROVE ExclusiveScanCorrect'
  BY <1>8 DEF Fence, Drain, FencedStores
<1>9. ASSUME NEW b \in Block, PublishBlockCount(b) PROVE ExclusiveScanCorrect'
  BY <1>9 DEF PublishBlockCount, Announce, LoopEntry
<1>10. ASSUME NEW b \in Block, PublishGridCount(b) PROVE ExclusiveScanCorrect'
  BY <1>10 DEF PublishGridCount, Announce
<1>11. ASSUME NEW b \in Block, NEW l \in Lane, LoadReady(b, l) PROVE ExclusiveScanCorrect'
  BY <1>11 DEF LoadReady
<1>12. ASSUME NEW b \in Block, LookBackFull(b) PROVE ExclusiveScanCorrect'
  BY <1>12 DEF LookBackFull, Repoll
<1>13. ASSUME NEW b \in Block, LookBackPartial(b) PROVE ExclusiveScanCorrect'
  BY <1>13 DEF LookBackPartial, Repoll
<1>14. ASSUME NEW b \in Block, TakePrevious(b) PROVE ExclusiveScanCorrect'
  <2>. SUFFICES ASSUME NEW c \in Block, LookedBack(c)' PROVE acc'[c] = Ones(0 .. c - 1)
    BY DEF ExclusiveScanCorrect
  <2>1. CASE c # b
    BY <1>14, <2>1 DEF TakePrevious
  <2>2. CASE c = b
    <3>1. acc'[b] = Ones(0 .. b - 1)
      BY <1>14, TakeIsExclusive DEF LookBackInv
    <3>. QED BY <2>2, <3>1
  <2>. QED BY <2>1, <2>2
<1>15. ASSUME NEW b \in Block, WriteList(b) PROVE ExclusiveScanCorrect'
  BY <1>15 DEF WriteList
<1>16. CASE Finished
  BY <1>16 DEF Finished
<1>17. CASE UNCHANGED vars
  BY <1>17
<1>. QED
  BY <1>1, <1>2, <1>3, <1>4, <1>5, <1>6, <1>7, <1>8, <1>9, <1>10, <1>11, <1>12, <1>13, <1>14, <1>15, <1>16, <1>17 DEF Next, HostStep, BlockStep

-----------------------------------------------------------------------------
(* The list *)

(* The hits below a block are finitely many; the next block adds its own.    *)
HitsUnder(b) == UNION {HitsOf(a) : a \in 0 .. b - 1}

LEMMA HitsAreFinite ==
  ASSUME NEW b \in 0 .. NumBlocks
  PROVE  IsFiniteSet(HitsUnder(b)) /\ HitsBelow(b) \in Nat
<1>1. \A a \in Block : IsFiniteSet(HitsOf(a))
  <2>. TAKE a \in Block
  <2>1. IsFiniteSet({a})
    BY FS_Singleton
  <2>2. Hits[a] - 1 \in Int
    OBVIOUS
  <2>3. IsFiniteSet(0 .. Hits[a] - 1)
    BY <2>2, FS_Interval
  <2>. QED BY <2>1, <2>3, FS_Product DEF HitsOf
<1>. DEFINE f == [a \in 0 .. b - 1 |-> HitsOf(a)]
            T == {HitsOf(a) : a \in 0 .. b - 1}
<1>2. IsFiniteSet(T)
  <2>1. IsFiniteSet(0 .. b - 1)
    BY FS_Interval
  <2>2. f \in Surjection(0 .. b - 1, T)
    BY DEF Surjection
  <2>. QED BY <2>1, <2>2, FS_Surjection
<1>3. \A t \in T : IsFiniteSet(t)
  BY <1>1 DEF Block
<1>4. IsFiniteSet(HitsUnder(b))
  BY <1>2, <1>3, FS_UNION DEF HitsUnder
<1>. QED BY <1>4, FS_CardinalityType DEF HitsBelow, HitsUnder

LEMMA HitsBelowNext ==
  ASSUME NEW b \in Block
  PROVE  HitsBelow(b + 1) = HitsBelow(b) + Hits[b]
<1>1. HitsUnder(b + 1) = HitsUnder(b) \cup HitsOf(b)
  <2>1. 0 .. (b + 1) - 1 = (0 .. b - 1) \cup {b}
    BY DEF Block
  <2>. QED BY <2>1 DEF HitsUnder
<1>2. HitsUnder(b) \cap HitsOf(b) = {}
  <2>1. b \notin 0 .. b - 1
    BY DEF Block
  <2>2. \A c \in 0 .. b - 1 : HitsOf(c) \cap HitsOf(b) = {}
    BY <2>1 DEF HitsOf
  <2>. QED BY <2>2 DEF HitsUnder
<1>3. IsFiniteSet(HitsUnder(b)) /\ HitsBelow(b) \in Nat
  BY HitsAreFinite DEF Block
<1>4. IsFiniteSet(HitsOf(b)) /\ Cardinality(HitsOf(b)) = Hits[b]
  <2>1. IsFiniteSet({b}) /\ Cardinality({b}) = 1
    BY FS_Singleton
  <2>2. Hits[b] \in Nat /\ Hits[b] - 1 \in Int
    OBVIOUS
  <2>3. IsFiniteSet(0 .. Hits[b] - 1) /\ Cardinality(0 .. Hits[b] - 1) = Hits[b]
    BY <2>2, FS_Interval
  <2>. QED BY <2>1, <2>2, <2>3, FS_Product DEF HitsOf
<1>5. Cardinality({}) = 0
  BY FS_EmptySet
<1>6. Cardinality(HitsUnder(b + 1)) = HitsBelow(b) + Hits[b] - 0
  BY <1>1, <1>2, <1>3, <1>4, <1>5, FS_Union DEF HitsBelow, HitsUnder
<1>7. HitsBelow(b + 1) = Cardinality(HitsUnder(b + 1))
  BY DEF HitsBelow, HitsUnder
<1>. QED BY <1>3, <1>6, <1>7

(* The places of the hits of a block end before those of a later block begin. *)
LEMMA HitsBelowMonotone ==
  ASSUME NEW b \in 0 .. NumBlocks, NEW a \in 0 .. b
  PROVE  HitsBelow(a) <= HitsBelow(b)
<1>1. HitsUnder(a) \in SUBSET HitsUnder(b)
  <2>1. 0 .. a - 1 \subseteq 0 .. b - 1
    OBVIOUS
  <2>. QED BY <2>1 DEF HitsUnder
<1>. QED BY <1>1, HitsAreFinite, FS_Subset DEF HitsBelow, HitsUnder

LEMMA PlacesAreApart ==
  ASSUME NEW b \in Block
  PROVE  /\ HitsBelow(b) \in Nat /\ HitsBelow(NumBlocks) \in Nat
         /\ HitsBelow(b) + Hits[b] <= HitsBelow(NumBlocks)
         /\ \A c \in Block : c # b =>
              \/ HitsBelow(c) + Hits[c] <= HitsBelow(b)
              \/ HitsBelow(b) + Hits[b] <= HitsBelow(c)
<1>1. \A c \in Block : HitsBelow(c + 1) = HitsBelow(c) + Hits[c]
  BY HitsBelowNext
<1>2. ASSUME NEW c \in Block, NEW d \in 0 .. NumBlocks, c < d
      PROVE  HitsBelow(c) + Hits[c] <= HitsBelow(d)
  <2>1. c + 1 \in 0 .. d
    BY <1>2 DEF Block
  <2>2. HitsBelow(c + 1) <= HitsBelow(d)
    BY <2>1, HitsBelowMonotone
  <2>. QED BY <2>2, <1>1
<1>3. HitsBelow(b) \in Nat /\ HitsBelow(NumBlocks) \in Nat
  BY HitsAreFinite DEF Block
<1>4. HitsBelow(b) + Hits[b] <= HitsBelow(NumBlocks)
  <2>1. b < NumBlocks /\ NumBlocks \in 0 .. NumBlocks
    BY DEF Block
  <2>. QED BY <2>1, <1>2
<1>5. ASSUME NEW c \in Block, c # b
      PROVE  \/ HitsBelow(c) + Hits[c] <= HitsBelow(b)
             \/ HitsBelow(b) + Hits[b] <= HitsBelow(c)
  <2>1. b \in 0 .. NumBlocks /\ c \in 0 .. NumBlocks /\ (c < b \/ b < c)
    BY <1>5 DEF Block
  <2>. QED BY <2>1, <1>2
<1>. QED BY <1>3, <1>4, <1>5

(* The formal sum of the blocks below b stands for the number of their hits. *)
LEMMA TotalOfOnes ==
  ASSUME NEW b \in Block
  PROVE  Values(Ones(0 .. b - 1)) = {HitsBelow(b)}
<1>. DEFINE s == Ones(0 .. b - 1)
            T == UNION {HitsOf(c) \X (1 .. s[c]) : c \in Block}
<1>1. /\ s[Junk] = 0
      /\ \A c \in Block : c < b => 1 .. s[c] = {1}
      /\ \A c \in Block : ~(c < b) => 1 .. s[c] = {}
  BY DEF Ones, Block, Term, Junk
<1>2. T = HitsUnder(b) \X {1}
  <2>1. \A c \in Block : c < b <=> c \in 0 .. b - 1
    BY DEF Block
  <2>2. 0 .. b - 1 \subseteq Block
    BY DEF Block
  <2>3. ASSUME NEW x \in T PROVE x \in HitsUnder(b) \X {1}
    <3>1. PICK c \in Block : x \in HitsOf(c) \X (1 .. s[c])
      OBVIOUS
    <3>2. c < b
      BY <3>1, <1>1
    <3>. QED BY <3>1, <3>2, <1>1, <2>1 DEF HitsUnder
  <2>4. ASSUME NEW x \in HitsUnder(b) \X {1} PROVE x \in T
    <3>1. PICK c \in 0 .. b - 1 : x \in HitsOf(c) \X {1}
      BY DEF HitsUnder
    <3>2. c \in Block /\ 1 .. s[c] = {1}
      BY <2>1, <2>2, <1>1
    <3>. QED BY <3>1, <3>2
  <2>. HIDE DEF T
  <2>. QED BY <2>3, <2>4
<1>3. IsFiniteSet(HitsUnder(b)) /\ HitsBelow(b) \in Nat
  BY HitsAreFinite DEF Block
<1>4. Cardinality(T) = HitsBelow(b)
  <2>1. IsFiniteSet({1}) /\ Cardinality({1}) = 1
    BY FS_Singleton
  <2>2. Cardinality(HitsUnder(b) \X {1}) = Cardinality(HitsUnder(b)) * 1
    BY <1>3, <2>1, FS_Product
  <2>3. HitsBelow(b) = Cardinality(HitsUnder(b))
    BY DEF HitsBelow, HitsUnder
  <2>. HIDE DEF T
  <2>. QED BY <1>2, <1>3, <2>2, <2>3
<1>5. Total(s) = HitsBelow(b)
  BY <1>4 DEF Total
<1>6. HitsBelow(b) \in 0 .. ListLength
  BY <1>3, PlacesAreApart, ListAssumption
<1>7. \A u : u[Junk] = 0 /\ Total(u) = HitsBelow(b) => Values(u) = {HitsBelow(b)}
  BY <1>6 DEF Values
<1>. QED BY <1>1, <1>5, <1>7, Zenon

(* A block writes its own hits at its own place and the last block the number *)
(* of them all; nothing else writes the list.                                *)
LEMMA WriteListKeepsList ==
  ASSUME TypeOK, HostInv, ExclusiveScanCorrect, ListInv, NEW b \in Block, WriteList(b)
  PROVE  ListInv'
<1>1. /\ pc[b] = "write" /\ host = "sync" /\ host' = host /\ rep' = rep /\ mlen' = mlen
      /\ pc' = [pc EXCEPT ![b] = "done"]
  BY DEF WriteList, HostInv, hostVars
<1>2. Values(acc[b]) = {HitsBelow(b)}
  <2>1. acc[b] = Ones(0 .. b - 1)
    BY <1>1 DEF ExclusiveScanCorrect, LookedBack
  <2>. QED BY <2>1, TotalOfOnes
<1>. DEFINE first == HitsBelow(b)
<1>3. /\ \A k \in ListIndex : \A i \in 0 .. Hits[b] - 1 : k = first + i => list'[k] = <<b, i>>
      /\ \A k \in ListIndex : ~(\E i \in 0 .. Hits[b] - 1 : k = first + i) => list'[k] = list[k]
      /\ len' = IF Last(b) THEN LenInclusive(b, first) ELSE len
  <2>1. /\ list' = [k \in ListIndex |->
                     IF \E i \in 0 .. Hits[b] - 1 : k = first + i
                     THEN <<b, CHOOSE i \in 0 .. Hits[b] - 1 : k = first + i>>
                     ELSE list[k]]
        /\ len' = IF Last(b) THEN LenInclusive(b, first) ELSE len
    BY <1>2 DEF WriteList
  <2>2. first \in Nat
    BY PlacesAreApart
  <2>. HIDE DEF first
  <2>3. ASSUME NEW k \in ListIndex, NEW i \in 0 .. Hits[b] - 1, k = first + i
        PROVE  list'[k] = <<b, i>>
    <3>1. \A j \in 0 .. Hits[b] - 1 : k = first + j <=> j = i
      BY <2>2, <2>3
    <3>2. (CHOOSE j \in 0 .. Hits[b] - 1 : k = first + j) = i
      BY <3>1
    <3>. QED BY <2>1, <2>3, <3>2
  <2>. QED BY <2>1, <2>3
<1>4. ASSUME NEW c \in Block, HasWritten(c)', NEW i \in 0 .. Hits[c] - 1
      PROVE  list'[HitsBelow(c) + i] = <<c, i>>
  <2>1. HitsBelow(c) + i \in ListIndex
    <3>1. /\ HitsBelow(c) \in Nat /\ HitsBelow(NumBlocks) \in Nat
          /\ HitsBelow(c) + Hits[c] <= HitsBelow(NumBlocks)
      BY PlacesAreApart
    <3>. QED BY <3>1, ListAssumption DEF ListIndex
  <2>2. CASE c = b
    BY <2>1, <2>2, <1>3
  <2>3. CASE c # b
    <3>1. HasWritten(c)
      BY <1>1, <1>4, <2>3 DEF HasWritten, TypeOK
    <3>2. list[HitsBelow(c) + i] = <<c, i>>
      BY <3>1 DEF ListInv
    <3>3. \A j \in 0 .. Hits[b] - 1 : HitsBelow(c) + i # first + j
      <4>1. /\ HitsBelow(c) \in Nat /\ first \in Nat /\ Hits[c] \in Nat /\ Hits[b] \in Nat
            /\ \/ HitsBelow(c) + Hits[c] <= first
               \/ first + Hits[b] <= HitsBelow(c)
        BY <2>3, PlacesAreApart
      <4>. HIDE DEF first
      <4>. QED BY <4>1
    <3>. QED BY <2>1, <3>2, <3>3, <1>3
  <2>. QED BY <2>2, <2>3
<1>5. ASSUME NEW k \in ListIndex, k >= HitsBelow(NumBlocks)
      PROVE  list'[k] = NoItem
  <2>1. list[k] = NoItem
    BY <1>5 DEF ListInv
  <2>2. \A j \in 0 .. Hits[b] - 1 : k # first + j
    <3>1. /\ first \in Nat /\ Hits[b] \in Nat /\ HitsBelow(NumBlocks) \in Nat
          /\ first + Hits[b] <= HitsBelow(NumBlocks)
      BY PlacesAreApart
    <3>. HIDE DEF first
    <3>. QED BY <3>1, <1>5 DEF ListIndex
  <2>. QED BY <2>1, <2>2, <1>3
<1>6. HasWritten(NumBlocks - 1)' => len' = HitsBelow(NumBlocks)
  <2>1. CASE Last(b)
    <3>1. HitsBelow(b + 1) = HitsBelow(b) + Hits[b] /\ b + 1 = NumBlocks
      BY <2>1, HitsBelowNext DEF Last, Block
    <3>. QED BY <2>1, <3>1, <1>3 DEF LenInclusive
  <2>2. CASE ~Last(b)
    BY <2>2, <1>1, <1>3 DEF Last, HasWritten, ListInv, TypeOK, Block
  <2>. QED BY <2>1, <2>2
<1>7. ~(host' = "memset" /\ rep' > 0)
  BY <1>1
<1>. QED BY <1>4, <1>5, <1>6, <1>7 DEF ListInv, HitsBelow, HitsOf, HasWritten, ListIndex

(* The other steps leave the list alone; a launch makes every block's part of *)
(* it count as not written, and the host reads the length when all are done. *)
LEMMA ListFrame ==
  ASSUME ListInv, UNCHANGED output, mlen' = mlen,
         \A b \in Block : HasWritten(b)' => HasWritten(b),
         host' = "memset" /\ rep' > 0 => host = "memset" /\ rep > 0
  PROVE  ListInv'
BY DEF ListInv, output, HasWritten, Block

LEMMA ListStep ==
  ASSUME TypeOK, HostInv, ExclusiveScanCorrect, ListInv, [Next]_vars
  PROVE  ListInv'
<1>. USE DEF TypeOK, HostInv, HasWritten, hostVars, memory, output, window, vars
<1>1. CASE Memset
  BY <1>1, ListFrame DEF Memset, RepsLeft
<1>2. CASE Launch
  BY <1>2, ListFrame DEF Launch
<1>3. CASE Synchronize
  <2>1. len = HitsBelow(NumBlocks)
    BY <1>3 DEF Synchronize, ListInv, Block
  <2>. QED BY <1>3, <2>1 DEF Synchronize, ListInv
<1>4. ASSUME NEW b \in Block, Start(b) PROVE ListInv'
  BY <1>4, ListFrame DEF Start, FirstWindow
<1>5. ASSUME NEW b \in Block, StoreVisible(b) PROVE ListInv'
  BY <1>5, ListFrame DEF StoreVisible
<1>6. ASSUME NEW b \in Block, StoreBlockCount(b) PROVE ListInv'
  BY <1>6, ListFrame DEF StoreBlockCount
<1>7. ASSUME NEW b \in Block, StoreGridCount(b) PROVE ListInv'
  BY <1>7, ListFrame DEF StoreGridCount
<1>8. ASSUME NEW b \in Block, Fence(b) PROVE ListInv'
  BY <1>8, ListFrame DEF Fence
<1>9. ASSUME NEW b \in Block, PublishBlockCount(b) PROVE ListInv'
  BY <1>9, ListFrame DEF PublishBlockCount, Announce, LoopEntry
<1>10. ASSUME NEW b \in Block, PublishGridCount(b) PROVE ListInv'
  BY <1>10, ListFrame DEF PublishGridCount, Announce
<1>11. ASSUME NEW b \in Block, NEW l \in Lane, LoadReady(b, l) PROVE ListInv'
  BY <1>11, ListFrame DEF LoadReady
<1>12. ASSUME NEW b \in Block, LookBackFull(b) PROVE ListInv'
  BY <1>12, ListFrame DEF LookBackFull
<1>13. ASSUME NEW b \in Block, LookBackPartial(b) PROVE ListInv'
  BY <1>13, ListFrame DEF LookBackPartial
<1>14. ASSUME NEW b \in Block, TakePrevious(b) PROVE ListInv'
  BY <1>14, ListFrame DEF TakePrevious
<1>15. ASSUME NEW b \in Block, WriteList(b) PROVE ListInv'
  BY <1>15, WriteListKeepsList
<1>16. CASE Finished
  BY <1>16, ListFrame DEF Finished
<1>17. CASE UNCHANGED vars
  BY <1>17, ListFrame
<1>. QED
  BY <1>1, <1>2, <1>3, <1>4, <1>5, <1>6, <1>7, <1>8, <1>9, <1>10, <1>11, <1>12, <1>13, <1>14, <1>15, <1>16, <1>17 DEF Next, HostStep, BlockStep

-----------------------------------------------------------------------------
(* Theorems *)

LEMMA InitInv == Init => IInv
<1>. SUFFICES ASSUME Init PROVE IInv
  OBVIOUS
<1>. USE DEF Init
<1>1. TypeOK
  <2>1. Ones({}) \in Sum /\ Ones({Junk}) \in Sum
    BY SumTypes
  <2>2. NoItem \in Term \X Nat
    BY DEF NoItem, Term
  <2>. QED BY <2>1, <2>2 DEF TypeOK, Term, Junk
<1>2. HostInv /\ ReadyInv /\ PublishInv /\ LookBackInv /\ ExclusiveScanCorrect
  BY DEF HostInv, ReadyInv, ReadyMeansReadable, PublishInv, LookBackInv, LookBackOf,
         ExclusiveScanCorrect, LookedBack, AtBlockCount, AtLookBack, AtGridCount
<1>. QED BY <1>1, <1>2 DEF IInv

(* The inductive invariant holds: Init establishes it and every step keeps it. *)
THEOREM InductiveInvariant == Spec => []IInv
<1>1. IInv /\ [Next]_vars => IInv'
  BY TypeStep, HostStepInv, ReadyStep, PublishStep, LookBackStep, ExclusiveStep DEF IInv
<1>. QED BY <1>1, InitInv, PTL DEF Spec

(* Every variable keeps to its type, and no rep beyond Reps is run. *)
THEOREM TypeCorrect == Spec => []TypeOK
BY InductiveInvariant, PTL DEF IInv

(* For every grid, warp size, residency and start order, a block that has
   looked back (grid_scan of INDEXLIST-Cuda.cpp and INDEXLIST-Hip.cpp) holds
   the count of each lower block exactly once and never an unwritten cell. *)
THEOREM ScanIsExclusive == Spec => []ExclusiveScanCorrect
BY InductiveInvariant, PTL DEF IInv

(* A ready flag is never visible before the memory it announces: the fences
   of grid_scan are enough, whenever stores become visible. *)
THEOREM FlagsAreReleased == Spec => []ReadyMeansReadable
<1>1. IInv => ReadyMeansReadable
  BY DEF IInv, ReadyInv
<1>. QED BY <1>1, InductiveInvariant, PTL

(* The look-back stops at block 0 at the latest: its window always has a lane
   over a block of the grid. *)
THEOREM LookBackStaysInGrid == Spec => []WindowMeetsGrid
<1>1. IInv => WindowMeetsGrid
  BY DEF IInv, LookBackInv, LookBackOf, AtLookBack, WindowMeetsGrid
<1>. QED BY <1>1, InductiveInvariant, PTL

(* For every number of blocks, warp size, residency, start order and number of
   reps: when the host has synchronized, m_len is the number of hits and the
   list holds the hits of every block in the order of the sequential loop of
   INDEXLIST-Seq.cpp; entries past them are never written. *)
THEOREM ListIsSequential == Spec => []ListMatchesSequentialLoop
<1>1. Init => ListInv
  BY DEF Init, ListInv, HasWritten
<1>2. IInv /\ ListInv /\ [Next]_vars => ListInv'
  BY ListStep DEF IInv
<1>3. IInv /\ ListInv => ListMatchesSequentialLoop
  <2>. SUFFICES ASSUME IInv, ListInv, host = "memset", rep > 0
                PROVE  /\ mlen = HitsBelow(NumBlocks)
                       /\ \A b \in Block : \A i \in 0 .. Hits[b] - 1 :
                            list[HitsBelow(b) + i] = <<b, i>>
                       /\ \A k \in ListIndex : k >= mlen => list[k] = NoItem
    BY DEF ListMatchesSequentialLoop
  <2>1. \A b \in Block : HasWritten(b)
    BY DEF IInv, HostInv, HasWritten
  <2>. QED BY <2>1 DEF ListInv
<1>. QED BY <1>1, <1>2, <1>3, InductiveInvariant, PTL DEF Spec

-----------------------------------------------------------------------------
(* What is announced stays *)

LEMMA AnnouncedStep ==
  ASSUME IInv, [Next]_vars
  PROVE  StaysAnnounced
<1>. USE DEF IInv, TypeOK, PublishInv, StaysAnnounced, AtBlockCount, AtLookBack, AtGridCount,
             hostVars, memory, output, window, vars
<1>1. CASE Memset
  BY <1>1 DEF Memset, RepsLeft
<1>2. CASE Launch
  BY <1>2 DEF Launch
<1>3. CASE Synchronize
  BY <1>3 DEF Synchronize
<1>4. ASSUME NEW b \in Block, Start(b) PROVE StaysAnnounced
  BY <1>4 DEF Start, FirstWindow
<1>5. ASSUME NEW b \in Block, StoreVisible(b) PROVE StaysAnnounced
  <2>1. PICK c \in pending[b] : Drain(b, {c})
    BY <1>5 DEF StoreVisible
  <2>2. pc[b] \in {"fenceBlock", "fenceGrid"}
    BY <2>1
  <2>3. block_readys[b] # 2
    BY <2>2
  <2>. QED BY <1>5, <2>1, <2>3 DEF StoreVisible, Drain
<1>6. ASSUME NEW b \in Block, StoreBlockCount(b) PROVE StaysAnnounced
  BY <1>6 DEF StoreBlockCount
<1>7. ASSUME NEW b \in Block, StoreGridCount(b) PROVE StaysAnnounced
  BY <1>7 DEF StoreGridCount
<1>8. ASSUME NEW b \in Block, Fence(b) PROVE StaysAnnounced
  BY <1>8 DEF Fence, Drain, FencedStores
<1>9. ASSUME NEW b \in Block, PublishBlockCount(b) PROVE StaysAnnounced
  BY <1>9 DEF PublishBlockCount, Announce, LoopEntry
<1>10. ASSUME NEW b \in Block, PublishGridCount(b) PROVE StaysAnnounced
  BY <1>10 DEF PublishGridCount, Announce
<1>11. ASSUME NEW b \in Block, NEW l \in Lane, LoadReady(b, l) PROVE StaysAnnounced
  BY <1>11 DEF LoadReady
<1>12. ASSUME NEW b \in Block, LookBackFull(b) PROVE StaysAnnounced
  BY <1>12 DEF LookBackFull, Repoll
<1>13. ASSUME NEW b \in Block, LookBackPartial(b) PROVE StaysAnnounced
  BY <1>13 DEF LookBackPartial, Repoll
<1>14. ASSUME NEW b \in Block, TakePrevious(b) PROVE StaysAnnounced
  BY <1>14 DEF TakePrevious
<1>15. ASSUME NEW b \in Block, WriteList(b) PROVE StaysAnnounced
  BY <1>15 DEF WriteList
<1>16. CASE Finished
  BY <1>16 DEF Finished
<1>17. CASE UNCHANGED vars
  BY <1>17
<1>. QED
  BY <1>1, <1>2, <1>3, <1>4, <1>5, <1>6, <1>7, <1>8, <1>9, <1>10, <1>11, <1>12, <1>13, <1>14, <1>15, <1>16, <1>17 DEF Next, HostStep, BlockStep

(* Nothing a launch has announced as a grid count changes before the launch is
   over: what one block has read, another may still rely on. *)
THEOREM AnnouncedCountsAreStable == Spec => AnnouncedCountsStable
<1>1. IInv /\ [Next]_vars => [StaysAnnounced]_vars
  BY AnnouncedStep
<1>. QED BY <1>1, InductiveInvariant, PTL DEF Spec, AnnouncedCountsStable

-----------------------------------------------------------------------------
(* Refinement *)

Result == [b \in Block |-> IF Delivered(b) THEN {acc[b]} ELSE {}]

LEMMA SumBelowIsOnes == \A b \in Block : Abstract!SumBelow(b) = Ones(0 .. b - 1)
<1>1. Term = -1 .. NumBlocks - 1
  BY DEF Term, Block, Junk
<1>. QED BY <1>1 DEF Abstract!SumBelow, Ones

LEMMA SameBlocks == Abstract!Block = Block
BY DEF Abstract!Block, Block

(* A step at which no block is delivered and no rep ends is a stutter. *)
LEMMA AbstractStutter ==
  ASSUME rep' = rep,
         \A a \in Block : Delivered(a)' = Delivered(a),
         \A a \in Block : Delivered(a) => acc'[a] = acc[a]
  PROVE  UNCHANGED <<rep, Result>>
BY DEF Result

(* The delivery of block b to the abstract scan. *)
LEMMA AbstractDeliver ==
  ASSUME NEW b \in Block, rep' = rep, rep < Reps,
         ~Delivered(b), Delivered(b)', acc'[b] = Ones(0 .. b - 1),
         \A a \in Block \ {b} : Delivered(a)' = Delivered(a),
         \A a \in Block \ {b} : Delivered(a) => acc'[a] = acc[a]
  PROVE  Abstract!Deliver(b)
<1>1. Result[b] = {}
  BY DEF Result
<1>2. Result' = [Result EXCEPT ![b] = {Abstract!SumBelow(b)}]
  BY SumBelowIsOnes DEF Result
<1>. QED BY <1>1, <1>2 DEF Abstract!Deliver, Result

LEMMA RefinementStep ==
  ASSUME IInv, [Next]_vars
  PROVE  Abstract!Next \/ UNCHANGED <<rep, Result>>
<1>. USE DEF IInv, TypeOK, HostInv, Delivered, LookedBack, hostVars, memory, output, window, vars
<1>1. CASE Memset
  <2>1. /\ rep' = rep
        /\ \A a \in Block : Delivered(a)' = Delivered(a)
        /\ \A a \in Block : Delivered(a) => acc'[a] = acc[a]
    BY <1>1 DEF Memset, RepsLeft
  <2>. QED BY <2>1, AbstractStutter
<1>2. CASE Launch
  <2>1. /\ rep' = rep
        /\ \A a \in Block : Delivered(a)' = Delivered(a)
        /\ \A a \in Block : Delivered(a) => acc'[a] = acc[a]
    BY <1>2 DEF Launch
  <2>. QED BY <2>1, AbstractStutter
<1>3. CASE Synchronize
  <2>1. /\ \A a \in Block : Delivered(a)
        /\ \A a \in Block : ~Delivered(a)'
        /\ rep' = rep + 1
    BY <1>3 DEF Synchronize
  <2>2. Abstract!NextRound
    BY <2>1, SameBlocks DEF Abstract!NextRound
  <2>. QED BY <2>2 DEF Abstract!Next
<1>4. ASSUME NEW b \in Block, Start(b) PROVE Abstract!Next \/ UNCHANGED <<rep, Result>>
  <2>1. CASE b = 0
    <3>1. /\ rep' = rep /\ rep < Reps /\ ~Delivered(b) /\ Delivered(b)'
          /\ acc'[b] = Ones({})
          /\ \A a \in Block \ {b} : Delivered(a)' = Delivered(a)
          /\ \A a \in Block \ {b} : Delivered(a) => acc'[a] = acc[a]
      BY <1>4, <2>1 DEF Start, FirstWindow, HostInv
    <3>2. 0 .. b - 1 = {}
      BY <2>1
    <3>. QED BY <3>1, <3>2, AbstractDeliver DEF Abstract!Next, Abstract!Block, Block
  <2>2. CASE b # 0
    <3>1. /\ rep' = rep
          /\ \A a \in Block : Delivered(a)' = Delivered(a)
          /\ \A a \in Block : Delivered(a) => acc'[a] = acc[a]
      BY <1>4, <2>2 DEF Start, FirstWindow
    <3>. QED BY <3>1, AbstractStutter
  <2>. QED BY <2>1, <2>2
<1>5. ASSUME NEW b \in Block, StoreVisible(b) PROVE Abstract!Next \/ UNCHANGED <<rep, Result>>
  <2>1. /\ rep' = rep
        /\ \A a \in Block : Delivered(a)' = Delivered(a)
        /\ \A a \in Block : Delivered(a) => acc'[a] = acc[a]
    BY <1>5 DEF StoreVisible, Drain
  <2>. QED BY <2>1, AbstractStutter
<1>6. ASSUME NEW b \in Block, StoreBlockCount(b) PROVE Abstract!Next \/ UNCHANGED <<rep, Result>>
  <2>1. /\ rep' = rep
        /\ \A a \in Block : Delivered(a)' = Delivered(a)
        /\ \A a \in Block : Delivered(a) => acc'[a] = acc[a]
    BY <1>6 DEF StoreBlockCount
  <2>. QED BY <2>1, AbstractStutter
<1>7. ASSUME NEW b \in Block, StoreGridCount(b) PROVE Abstract!Next \/ UNCHANGED <<rep, Result>>
  <2>1. /\ rep' = rep
        /\ \A a \in Block : Delivered(a)' = Delivered(a)
        /\ \A a \in Block : Delivered(a) => acc'[a] = acc[a]
    BY <1>7 DEF StoreGridCount
  <2>. QED BY <2>1, AbstractStutter
<1>8. ASSUME NEW b \in Block, Fence(b) PROVE Abstract!Next \/ UNCHANGED <<rep, Result>>
  <2>1. /\ rep' = rep
        /\ \A a \in Block : Delivered(a)' = Delivered(a)
        /\ \A a \in Block : Delivered(a) => acc'[a] = acc[a]
    BY <1>8 DEF Fence, Drain, FencedStores
  <2>. QED BY <2>1, AbstractStutter
<1>9. ASSUME NEW b \in Block, PublishBlockCount(b) PROVE Abstract!Next \/ UNCHANGED <<rep, Result>>
  <2>1. /\ rep' = rep
        /\ \A a \in Block : Delivered(a)' = Delivered(a)
        /\ \A a \in Block : Delivered(a) => acc'[a] = acc[a]
    BY <1>9 DEF PublishBlockCount, Announce, LoopEntry
  <2>. QED BY <2>1, AbstractStutter
<1>10. ASSUME NEW b \in Block, PublishGridCount(b) PROVE Abstract!Next \/ UNCHANGED <<rep, Result>>
  <2>1. /\ rep' = rep
        /\ \A a \in Block : Delivered(a)' = Delivered(a)
        /\ \A a \in Block : Delivered(a) => acc'[a] = acc[a]
    BY <1>10 DEF PublishGridCount, Announce
  <2>. QED BY <2>1, AbstractStutter
<1>11. ASSUME NEW b \in Block, NEW l \in Lane, LoadReady(b, l) PROVE Abstract!Next \/ UNCHANGED <<rep, Result>>
  <2>1. /\ rep' = rep
        /\ \A a \in Block : Delivered(a)' = Delivered(a)
        /\ \A a \in Block : Delivered(a) => acc'[a] = acc[a]
    BY <1>11 DEF LoadReady
  <2>. QED BY <2>1, AbstractStutter
<1>12. ASSUME NEW b \in Block, LookBackFull(b) PROVE Abstract!Next \/ UNCHANGED <<rep, Result>>
  <2>1. /\ rep' = rep
        /\ \A a \in Block : Delivered(a)' = Delivered(a)
        /\ \A a \in Block : Delivered(a) => acc'[a] = acc[a]
    BY <1>12 DEF LookBackFull, Repoll
  <2>. QED BY <2>1, AbstractStutter
<1>13. ASSUME NEW b \in Block, LookBackPartial(b) PROVE Abstract!Next \/ UNCHANGED <<rep, Result>>
  <2>1. /\ rep' = rep
        /\ \A a \in Block : Delivered(a)' = Delivered(a)
        /\ \A a \in Block : Delivered(a) => acc'[a] = acc[a]
    BY <1>13 DEF LookBackPartial, Repoll
  <2>. QED BY <2>1, AbstractStutter
<1>14. ASSUME NEW b \in Block, TakePrevious(b) PROVE Abstract!Next \/ UNCHANGED <<rep, Result>>
  <2>1. /\ rep' = rep /\ rep < Reps /\ ~Delivered(b) /\ Delivered(b)'
        /\ \A a \in Block \ {b} : Delivered(a)' = Delivered(a)
        /\ \A a \in Block \ {b} : Delivered(a) => acc'[a] = acc[a]
    BY <1>14 DEF TakePrevious, HostInv
  <2>2. acc'[b] = Ones(0 .. b - 1)
    BY <1>14, TakeIsExclusive DEF IInv
  <2>. QED BY <2>1, <2>2, AbstractDeliver DEF Abstract!Next, Abstract!Block, Block
<1>15. ASSUME NEW b \in Block, WriteList(b) PROVE Abstract!Next \/ UNCHANGED <<rep, Result>>
  <2>1. /\ rep' = rep
        /\ \A a \in Block : Delivered(a)' = Delivered(a)
        /\ \A a \in Block : Delivered(a) => acc'[a] = acc[a]
    BY <1>15 DEF WriteList
  <2>. QED BY <2>1, AbstractStutter
<1>16. CASE Finished
  <2>1. /\ rep' = rep
        /\ \A a \in Block : Delivered(a)' = Delivered(a)
        /\ \A a \in Block : Delivered(a) => acc'[a] = acc[a]
    BY <1>16 DEF Finished
  <2>. QED BY <2>1, AbstractStutter
<1>17. CASE UNCHANGED vars
  <2>1. /\ rep' = rep
        /\ \A a \in Block : Delivered(a)' = Delivered(a)
        /\ \A a \in Block : Delivered(a) => acc'[a] = acc[a]
    BY <1>17 
  <2>. QED BY <2>1, AbstractStutter
<1>. QED
  BY <1>1, <1>2, <1>3, <1>4, <1>5, <1>6, <1>7, <1>8, <1>9, <1>10, <1>11, <1>12, <1>13, <1>14, <1>15, <1>16, <1>17 DEF Next, HostStep, BlockStep

(* The look-back scan implements the abstract exclusive scan: in every rep each
   block receives exactly the sum of the blocks below it, once, and the host
   sees the rep as complete only when all have. *)
THEOREM ScanImplementsExclusiveScan == Spec => ImplementsExclusiveScan
<1>1. Init => Abstract!Init
  BY SameBlocks DEF Init, Abstract!Init, Delivered
<1>2. IInv /\ [Next]_vars => [Abstract!Next]_(Abstract!vars)
  BY RefinementStep DEF Abstract!vars, Result
<1>. QED BY <1>1, <1>2, InductiveInvariant, PTL
         DEF Spec, ImplementsExclusiveScan, Abstract!Spec

=============================================================================
