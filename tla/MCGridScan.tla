----------------------------- MODULE MCGridScan -----------------------------
(***************************************************************************)
(* Instances of GridScan for TLC, and LaneMasks against the unsigned         *)
(* arithmetic of the code on all ballots of a warp of six lanes.             *)
(***************************************************************************)
EXTENDS GridScan, FiniteSetsExt

\* Hits per block: blocks without hits, unequal blocks, hits in the last one.
MCHits == [b \in Block |-> (b + 1) % 3]

Mask(lanes) == MapThenSumSet(LAMBDA l : 2^l, lanes)
warp_index_mask_right(l) == 0 .. l  \* warp_index_mask | (warp_index_mask - 1)

WarpLane == 0 .. 5

(* The loop of INDEXLIST-Cuda.cpp:148 compares masks as unsigned numbers. It *)
(* goes on exactly while MaskGeq says that some lane above the highest ready *)
(* grid has no block count yet: no lane is in both masks.                    *)
ASSUME LoopTestIsUnsignedComparison ==
  \A g \in SUBSET WarpLane : \A n \in SUBSET (WarpLane \ g) :
    MaskGeq(n, g) <=> Mask(n) >= Mask(g)

(* Lines 161-166: the lanes that add a block count are those whose bit is    *)
(* above the mask, and exactly one further lane, the highest ready grid,     *)
(* adds a grid count when some grid is ready.                                *)
ASSUME LaneRolesMatchArithmetic ==
  \A g \in SUBSET WarpLane :
    /\ \A l \in WarpLane :
         /\ AboveMask(l, g) <=> 2^l > Mask(g)
         /\ CoversMask(l, g) <=> Mask(g) = Mask(g \cap warp_index_mask_right(l))
    /\ {l \in WarpLane : ~AboveMask(l, g) /\ CoversMask(l, g)} =
         (IF g = {} THEN {} ELSE {Max(g)})
=============================================================================
