------------------------------ MODULE HaloMpi -------------------------------
(***************************************************************************)
(* The part of MPI that the halo kernels use: nonblocking sends and receives *)
(* between ranks, matched by source, destination and tag, in the order sent  *)
(* between one pair with one tag. Modelled from how src/comm uses it.        *)
(*                                                                           *)
(* A port is a rank and a direction: it has one send request, one receive    *)
(* request and their buffers. MPI may read a send buffer at any time until   *)
(* the send completes: at once (BufferSend, an eager copy) or when the       *)
(* receive is matched (Deliver, a rendezvous).                               *)
(***************************************************************************)
EXTENDS Integers, Sequences

CONSTANTS Rank,
          num_neighbors,
          Neighbor, \* mpi_ranks: per port, the rank at the other side
          Opposite  \* per direction, the direction with the negated offset

Dir == 0 .. num_neighbors - 1
Port == Rank \X Dir
SendTag(l) == l
OwnDirection(l) == l
RecvTag(l) == Opposite[l]
Partner == [p \in Port |-> <<Neighbor[p], Opposite[p[2]]>>]

(* What HaloTopology shows of every division of the ranks. *)
ASSUME TopologyAssumption ==
  /\ num_neighbors \in Nat \ {0}
  /\ Neighbor \in [Port -> Rank]
  /\ Opposite \in [Dir -> Dir]
  /\ \A l \in Dir : Opposite[Opposite[l]] = l
  /\ \A p \in Port : Neighbor[Partner[p]] = p[1]

VARIABLES sreq,     \* pack_mpi_requests
          rreq,     \* unpack_mpi_requests
          sbuf,     \* send_buffers
          rbuf,     \* recv_buffers
          inFlight  \* per sending port: messages sent and not yet received
mpiVars == <<sreq, rreq, sbuf, rbuf, inFlight>>

Request == {"null", "active", "complete"}
Blank == [port |-> <<>>, rep |-> 0]
Unread == [port |-> <<>>, rep |-> -1] \* a message that is in the send buffer only
Boundary(p, k) == [port |-> p, rep |-> k]

MpiInit ==
  /\ sreq = [p \in Port |-> "null"]
  /\ rreq = [p \in Port |-> "null"]
  /\ sbuf = [p \in Port |-> Blank]
  /\ rbuf = [p \in Port |-> Blank]
  /\ inFlight = [p \in Port |-> <<>>]

(* The next values of the requests for calls of rank r. *)
IrecvAll(r) == rreq' = [p \in Port |-> IF p[1] = r THEN "active" ELSE rreq[p]]
Isend(p) ==
  /\ sreq' = [sreq EXCEPT ![p] = "active"]
  /\ inFlight' = [inFlight EXCEPT ![p] = Append(@, Unread)]
AllComplete(req, r) == \A l \in Dir : req[<<r, l>>] = "complete"
NullAll(req, r) == [p \in Port |-> IF p[1] = r THEN "null" ELSE req[p]]

(* The sends that match the receive of port p. *)
Matching(p) ==
  {q \in Port : Neighbor[p] = q[1] /\ Neighbor[q] = p[1] /\ SendTag(q[2]) = RecvTag(p[2])}

BufferSend(p) ==
  /\ sreq[p] = "active"
  /\ inFlight' = [inFlight EXCEPT ![p] = [inFlight[p] EXCEPT ![Len(inFlight[p])] = sbuf[p]]]
  /\ sreq' = [sreq EXCEPT ![p] = "complete"]
  /\ UNCHANGED <<rreq, sbuf, rbuf>>

Deliver(p, q) ==
  /\ rreq[p] = "active"
  /\ q \in Matching(p) /\ inFlight[q] # <<>>
  /\ LET unread == Head(inFlight[q]) = Unread
     IN  /\ rbuf' = [rbuf EXCEPT ![p] = IF unread THEN sbuf[q] ELSE Head(inFlight[q])]
         /\ sreq' = IF unread THEN [sreq EXCEPT ![q] = "complete"] ELSE sreq
  /\ rreq' = [rreq EXCEPT ![p] = "complete"]
  /\ inFlight' = [inFlight EXCEPT ![q] = Tail(@)]
  /\ UNCHANGED sbuf

=============================================================================
