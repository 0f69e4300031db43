---------------------------- MODULE ExclusiveScan ----------------------------
(***************************************************************************)
(* What the grid scan promises: in every rep each block is given, once and   *)
(* in any order, the sum of the counts of exactly the blocks below it, and   *)
(* the rep is over only when every block has it.                             *)
(***************************************************************************)
EXTENDS Integers

CONSTANTS NumBlocks, Reps

Block == 0 .. NumBlocks - 1

VARIABLES round,   \* rounds completed
          result   \* [Block -> set of at most one formal sum]

vars == <<round, result>>

\* The formal sum of the blocks below b (see GridScan: index -1 is Junk).
SumBelow(b) == [t \in -1 .. NumBlocks - 1 |-> IF t \in 0 .. b - 1 THEN 1 ELSE 0]

Init == round = 0 /\ result = [b \in Block |-> {}]

Deliver(b) ==
  /\ round < Reps /\ result[b] = {}
  /\ result' = [result EXCEPT ![b] = {SumBelow(b)}]
  /\ UNCHANGED round

NextRound ==
  /\ \A b \in Block : result[b] # {}
  /\ round' = round + 1
  /\ result' = [b \in Block |-> {}]

Next == NextRound \/ \E b \in Block : Deliver(b)

Spec == Init /\ [][Next]_vars

=============================================================================
