-------------------------- MODULE NeighborExchange --------------------------
(***************************************************************************)
(* What a halo exchange promises, without messages, buffers or requests: in  *)
(* every repetition a rank publishes its boundary in each direction, fills   *)
(* each part of its halo with what the neighbor published there in the same  *)
(* repetition, and completes the repetition when both are done everywhere.   *)
(*                                                                           *)
(* A port is a rank and a direction. Partner is the port at the other side.  *)
(***************************************************************************)
EXTENDS Naturals

CONSTANTS Rank, Dir, Partner, Reps

Port == Rank \X Dir

VARIABLES published, \* per port: the last repetition whose boundary is out
          halo,      \* per port: the boundary in that part of the halo
          completed  \* per rank: repetitions completed
vars == <<published, halo, completed>>

Blank == [port |-> <<>>, rep |-> 0]
Boundary(p, k) == [port |-> p, rep |-> k]

Init ==
  /\ published = [p \in Port |-> 0]
  /\ halo = [p \in Port |-> Blank]
  /\ completed = [r \in Rank |-> 0]

Publish(p) ==
  /\ completed[p[1]] < Reps
  /\ published[p] = completed[p[1]]
  /\ published' = [published EXCEPT ![p] = @ + 1]
  /\ UNCHANGED <<halo, completed>>

(* The neighbor's boundary of this repetition, never one of the repetition   *)
(* before or after it.                                                       *)
Take(p) ==
  /\ published[Partner[p]] > completed[p[1]]
  /\ halo' = [halo EXCEPT ![p] = Boundary(Partner[p], completed[p[1]] + 1)]
  /\ UNCHANGED <<published, completed>>

Complete(r) ==
  /\ \A l \in Dir :
       /\ published[<<r, l>>] = completed[r] + 1
       /\ halo[<<r, l>>] = Boundary(Partner[<<r, l>>], completed[r] + 1)
  /\ completed' = [completed EXCEPT ![r] = @ + 1]
  /\ UNCHANGED <<published, halo>>

Next == (\E p \in Port : Publish(p) \/ Take(p)) \/ (\E r \in Rank : Complete(r))
Spec == Init /\ [][Next]_vars

=============================================================================
