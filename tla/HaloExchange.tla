---------------------------- MODULE HaloExchange ----------------------------
(***************************************************************************)
(* HALO_EXCHANGE on the host: the repetitions of Base_Seq, Lambda_Seq and    *)
(* RAJA_Seq, and of the OpenMP variants, whose parallel loops end with a     *)
(* barrier before the host goes on. A rank packs and sends direction after   *)
(* direction and unpacks in the order in which the messages arrive.          *)
(*                                                                           *)
(* Packing leaves the boundary of the repetition in the send buffer: when    *)
(* the buffers are separate the copy follows at once on the same thread.     *)
(***************************************************************************)
EXTENDS HaloMpi

CONSTANT Reps \* run_reps
ASSUME RepsAssumption == Reps \in Nat

VARIABLES pc, rep, next, halo
hostVars == <<pc, rep, next, halo>>
vars == <<mpiVars, hostVars>>

Init ==
  /\ MpiInit
  /\ pc = [r \in Rank |-> "post"]
  /\ rep = [r \in Rank |-> 0]
  /\ next = [r \in Rank |-> 0]
  /\ halo = [p \in Port |-> Blank]

PostReceives(r) ==
  /\ pc[r] = "post" /\ rep[r] < Reps
  /\ IrecvAll(r)
  /\ pc' = [pc EXCEPT ![r] = "pack"]
  /\ next' = [next EXCEPT ![r] = 0]
  /\ UNCHANGED <<sreq, sbuf, rbuf, inFlight, rep, halo>>

PastLast(l) == l = num_neighbors
IsLast(l) == l = num_neighbors - 1
PackAndSend(r) ==
  /\ pc[r] = "pack"
  /\ sbuf' = [sbuf EXCEPT ![<<r, next[r]>>] = Boundary(<<r, next[r]>>, rep[r] + 1)]
  /\ Isend(<<r, next[r]>>)
  /\ next' = [next EXCEPT ![r] = @ + 1]
  /\ pc' = IF IsLast(next[r]) THEN [pc EXCEPT ![r] = "unpack"] ELSE pc
  /\ UNCHANGED <<rreq, rbuf, rep, halo>>

(* MPI_Waitany: some completed receive, in no particular order. *)
AnyArrived(r, l) == TRUE
OthersNull(r, l) == \A k \in Dir \ {l} : rreq[<<r, k>>] = "null"
UnpackOne(r, l) ==
  /\ pc[r] = "unpack" /\ rreq[<<r, l>>] = "complete"
  /\ rreq' = [rreq EXCEPT ![<<r, l>>] = "null"]
  /\ halo' = [halo EXCEPT ![<<r, l>>] = rbuf[<<r, l>>]]
  /\ pc' = IF OthersNull(r, l) THEN [pc EXCEPT ![r] = "wait"] ELSE pc
  /\ UNCHANGED <<sreq, sbuf, rbuf, inFlight, rep, next>>

(* MPI_Waitall; a wrong variant goes on without waiting. *)
NoWait(r) == TRUE
SendsDone(r) == AllComplete(sreq, r)
WaitSends(r) ==
  /\ pc[r] = "wait" /\ SendsDone(r)
  /\ sreq' = NullAll(sreq, r)
  /\ rep' = [rep EXCEPT ![r] = @ + 1]
  /\ pc' = [pc EXCEPT ![r] = "post"]
  /\ UNCHANGED <<rreq, sbuf, rbuf, inFlight, next, halo>>

RankStep(r) ==
  PostReceives(r) \/ PackAndSend(r) \/ (\E l \in Dir : UnpackOne(r, l)) \/ WaitSends(r)
MpiStep ==
  /\ \E p \in Port : BufferSend(p) \/ (\E q \in Port : Deliver(p, q))
  /\ UNCHANGED hostVars
Finished == (\A r \in Rank : rep[r] = Reps) /\ UNCHANGED vars

Next == (\E r \in Rank : RankStep(r)) \/ MpiStep \/ Finished
Spec == Init /\ [][Next]_vars

(* A rank that can go on does, and MPI completes a matched pair; that MPI    *)
(* ever copies a message early is not assumed.                               *)
Fairness ==
  /\ \A r \in Rank : WF_vars(RankStep(r))
  /\ \A p, q \in Port : WF_vars(Deliver(p, q) /\ UNCHANGED hostVars)
LiveSpec == Spec /\ Fairness

-----------------------------------------------------------------------------
(* The boundary of the current repetition has been sent, has arrived, and is *)
(* in the halo.                                                              *)
IsSent(p) ==
  pc[p[1]] \in {"unpack", "wait"} \/ (pc[p[1]] = "pack" /\ p[2] < next[p[1]])
IsUnpacked(p) == pc[p[1]] \in {"unpack", "wait"} /\ rreq[p] = "null"
HasArrived(p) == rreq[p] = "complete" \/ IsUnpacked(p)
Sent(p) == rep[p[1]] + (IF IsSent(p) THEN 1 ELSE 0)
Received(p) == rep[p[1]] + (IF HasArrived(p) THEN 1 ELSE 0)

Data == [port : Port \cup {<<>>}, rep : Int]
TypeOK ==
  /\ sreq \in [Port -> Request] /\ rreq \in [Port -> Request]
  /\ sbuf \in [Port -> Data] /\ rbuf \in [Port -> Data] /\ halo \in [Port -> Data]
  /\ inFlight \in [Port -> Seq(Data)]
  /\ pc \in [Rank -> {"post", "pack", "unpack", "wait"}]
  /\ rep \in [Rank -> 0 .. Reps] /\ next \in [Rank -> 0 .. num_neighbors]

(* When a rank has unpacked everything, each part of its halo holds the      *)
(* boundary its neighbor in that direction packed towards it in the same     *)
(* repetition (HALO_EXCHANGE-Seq.cpp:64-84): not an older one out of a       *)
(* buffer that was reused, and not the newer one of a faster neighbor.       *)
HaloIsOfThisRep ==
  \A r \in Rank : pc[r] = "wait" =>
    \A l \in Dir : halo[<<r, l>>] = Boundary(Partner[<<r, l>>], rep[r] + 1)

(* No barrier separates the repetitions, but neighbors stay within one of    *)
(* each other, and no more than two messages of a port wait to be received.  *)
NeighborsStayClose ==
  \A p \in Port :
    /\ rep[p[1]] <= rep[Neighbor[p]] + 1
    /\ Len(inFlight[p]) <= 2

(* While MPI may still read a send buffer it is not packed again, and while  *)
(* a received message is not unpacked its buffer is not received into        *)
(* (lines 36-62 against the waits at 66 and 86).                             *)
MayBeRead(p) == \E i \in 1 .. Len(inFlight[p]) : inFlight[p][i] = Unread
Keeps(p) ==
  /\ MayBeRead(p) => sbuf'[p] = sbuf[p]
  /\ rreq[p] = "complete" => rbuf'[p] = rbuf[p]
BuffersInUseAreKept == [][\A p \in Port : Keeps(p)]_vars

(* The exchange does what NeighborExchange promises. *)
Abstract == INSTANCE NeighborExchange WITH
  published <- [p \in Port |-> Sent(p)], completed <- rep
ImplementsNeighborExchange == Abstract!Spec

(* No rank waits for ever, however the ranks are paired with themselves or   *)
(* with each other and whether or not MPI buffers messages.                  *)
AllRanksFinish == <>(\A r \in Rank : rep[r] = Reps)

-----------------------------------------------------------------------------
(* The inductive invariant: where a port is against its requests, what is in *)
(* its buffers, and which messages are between it and its partner.           *)
LocalOf(p) ==
  LET r == p[1]
  IN  /\ pc[r] = "post" => sreq[p] = "null" /\ rreq[p] = "null"
      /\ pc[r] # "post" => rep[r] < Reps
      /\ pc[r] = "pack" => next[r] \in Dir /\ rreq[p] # "null"
      /\ pc[r] # "post" => (sreq[p] # "null" <=> IsSent(p))
      /\ pc[r] = "wait" => rreq[p] = "null"
SendOf(p) == sreq[p] # "null" => sbuf[p] = Boundary(p, rep[p[1]] + 1)
ReceiveOf(p) ==
  /\ rreq[p] = "complete" => rbuf[p] = Boundary(Partner[p], rep[p[1]] + 1)
  /\ IsUnpacked(p) => halo[p] = Boundary(Partner[p], rep[p[1]] + 1)
WireOf(p) ==
  LET n == Len(inFlight[p])
  IN  /\ n = Sent(p) - Received(Partner[p])
      /\ sreq[p] = "active" => n > 0
      /\ \A i \in 1 .. n :
           inFlight[p][i] = IF i = n /\ sreq[p] = "active" THEN Unread
                            ELSE Boundary(p, Received(Partner[p]) + i)
PortInv == \A p \in Port : LocalOf(p) /\ SendOf(p) /\ ReceiveOf(p) /\ WireOf(p)
IInv == TypeOK /\ PortInv

=============================================================================
