------------------------------ MODULE LaneMasks ------------------------------
(***************************************************************************)
(* The comparisons INDEXLIST's look-back makes on ballot masks, as relations *)
(* between sets of lanes: lane l is in the set when bit l is in the mask.    *)
(***************************************************************************)
EXTENDS Integers

(* n >= g for the masks of disjoint sets: `~blocks_ready >= grids_ready`.    *)
MaskGeq(n, g) == \A i \in g : \E j \in n : j > i

(* `warp_index_mask > grids_ready`: the lane is above every lane of g.       *)
AtOrAboveMask(l, g) == \A i \in g : l >= i
AboveMask(l, g) == \A i \in g : l > i

(* `grids_ready == (grids_ready & warp_index_mask_right)`: no lane of g is   *)
(* above l.                                                                  *)
CoversMask(l, g) == \A i \in g : i <= l

=============================================================================
