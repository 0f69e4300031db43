------------------------- MODULE HaloExchangeProofs -------------------------
(***************************************************************************)
(* Proofs about HaloExchange for every set of ranks, every number of         *)
(* neighbors, every topology with mutual neighbors and every number of       *)
(* repetitions.                                                              *)
(***************************************************************************)
EXTENDS HaloExchange, SequenceTheorems, TLAPS

USE TopologyAssumption, RepsAssumption

(* Partner pairs the ports, and a receive matches the sends of its partner.  *)
LEMMA PartnersAreMutual ==
  ASSUME NEW p \in Port
  PROVE  Partner[p] \in Port /\ Partner[Partner[p]] = p /\ Partner[p][1] = Neighbor[p]
BY DEF Partner, Port, Dir

LEMMA OnePartnerMatches ==
  ASSUME NEW p \in Port, NEW q \in Matching(p)
  PROVE  q = Partner[p]
BY DEF Matching, SendTag, RecvTag, Partner, Port, Dir

-----------------------------------------------------------------------------
(* Type correctness *)

LEMMA BoundariesAreData ==
  /\ Blank \in Data /\ Unread \in Data
  /\ \A p \in Port, k \in Int : Boundary(p, k) \in Data /\ Boundary(p, k).rep = k
BY DEF Blank, Unread, Boundary, Data

LEMMA TypeInit == Init => TypeOK
BY BoundariesAreData DEF Init, MpiInit, TypeOK, Request

LEMMA TypePost == ASSUME TypeOK, NEW r \in Rank, PostReceives(r) PROVE TypeOK'
BY DEF TypeOK, PostReceives, IrecvAll, Request

LEMMA TypePack ==
  ASSUME TypeOK, PortInv, NEW r \in Rank, PackAndSend(r) PROVE TypeOK'
<1>1. <<r, 0>> \in Port
  BY DEF Port, Dir
<1>2. next[r] \in Dir /\ rep[r] \in Nat
  BY <1>1 DEF PortInv, LocalOf, PackAndSend, TypeOK
<1>3. <<r, next[r]>> \in Port
  BY <1>2 DEF Port
<1>4. Boundary(<<r, next[r]>>, rep[r] + 1) \in Data /\ Unread \in Data
  BY <1>2, <1>3, BoundariesAreData
<1>5. sbuf' \in [Port -> Data] /\ sreq' \in [Port -> Request]
  BY <1>4 DEF TypeOK, PackAndSend, Isend, Request
<1>6. inFlight' \in [Port -> Seq(Data)]
  <2>1. inFlight \in [Port -> Seq(Data)]
    BY DEF TypeOK
  <2>2. Append(inFlight[<<r, next[r]>>], Unread) \in Seq(Data)
    BY <1>3, <1>4, <2>1
  <2>. QED BY <2>1, <2>2 DEF PackAndSend, Isend
<1>7. /\ next' \in [Rank -> 0 .. num_neighbors]
      /\ pc' \in [Rank -> {"post", "pack", "unpack", "wait"}]
  BY <1>2 DEF TypeOK, PackAndSend, Dir
<1>. QED BY <1>5, <1>6, <1>7 DEF TypeOK, PackAndSend

LEMMA TypeUnpack ==
  ASSUME TypeOK, NEW r \in Rank, NEW l \in Dir, UnpackOne(r, l) PROVE TypeOK'
<1>1. <<r, l>> \in Port
  BY DEF Port
<1>. QED BY <1>1 DEF TypeOK, UnpackOne, Request

LEMMA TypeWait ==
  ASSUME TypeOK, PortInv, NEW r \in Rank, WaitSends(r) PROVE TypeOK'
<1>1. <<r, 0>> \in Port
  BY DEF Port, Dir
<1>2. rep[r] < Reps /\ rep[r] \in 0 .. Reps
  BY <1>1 DEF PortInv, LocalOf, WaitSends, TypeOK
<1>. QED BY <1>2 DEF TypeOK, WaitSends, NullAll, Request

LEMMA TypeBuffer ==
  ASSUME TypeOK, PortInv, NEW p \in Port, BufferSend(p), UNCHANGED hostVars PROVE TypeOK'
<1>1. inFlight[p] \in Seq(Data) /\ sbuf[p] \in Data /\ inFlight \in [Port -> Seq(Data)]
  BY DEF TypeOK
<1>2. Len(inFlight[p]) \in 1 .. Len(inFlight[p])
  BY <1>1 DEF PortInv, WireOf, BufferSend
<1>4. [inFlight[p] EXCEPT ![Len(inFlight[p])] = sbuf[p]] \in Seq(Data)
  BY <1>1, <1>2, ExceptSeq
<1>3. inFlight' \in [Port -> Seq(Data)]
  BY <1>1, <1>4 DEF BufferSend
<1>. QED BY <1>3 DEF TypeOK, BufferSend, hostVars, Request

LEMMA TypeDeliver ==
  ASSUME TypeOK, NEW p \in Port, NEW q \in Port, Deliver(p, q), UNCHANGED hostVars
  PROVE  TypeOK'
<1>1. inFlight \in [Port -> Seq(Data)] /\ inFlight[q] # <<>>
  BY DEF TypeOK, Deliver
<1>2. Head(inFlight[q]) \in Data /\ Tail(inFlight[q]) \in Seq(Data)
  BY <1>1
<1>3. inFlight' \in [Port -> Seq(Data)]
  BY <1>1, <1>2 DEF Deliver
<1>. QED BY <1>2, <1>3 DEF TypeOK, Deliver, hostVars, Request

-----------------------------------------------------------------------------
(* A port about which nothing changes keeps its part of the invariant.       *)
SamePort(p) ==
  /\ sreq'[p] = sreq[p] /\ rreq'[p] = rreq[p]
  /\ sbuf'[p] = sbuf[p] /\ rbuf'[p] = rbuf[p] /\ halo'[p] = halo[p]
  /\ pc'[p[1]] = pc[p[1]] /\ rep'[p[1]] = rep[p[1]] /\ next'[p[1]] = next[p[1]]
HostOf(p) == LocalOf(p) /\ SendOf(p) /\ ReceiveOf(p)

LEMMA SamePortKeeps ==
  ASSUME NEW p \in Port, HostOf(p), SamePort(p)
  PROVE  HostOf(p)' /\ Sent(p)' = Sent(p) /\ Received(p)' = Received(p)
<1>1. IsSent(p)' = IsSent(p) /\ IsUnpacked(p)' = IsUnpacked(p) /\ HasArrived(p)' = HasArrived(p)
  BY DEF SamePort, IsSent, IsUnpacked, HasArrived
<1>2. LocalOf(p)'
  BY <1>1 DEF SamePort, HostOf, LocalOf
<1>3. SendOf(p)' /\ ReceiveOf(p)'
  BY <1>1 DEF SamePort, HostOf, SendOf, ReceiveOf, Boundary
<1>. QED BY <1>1, <1>2, <1>3 DEF SamePort, HostOf, Sent, Received

LEMMA SameWireKeeps ==
  ASSUME NEW q \in Port, WireOf(q), inFlight'[q] = inFlight[q],
         sreq'[q] = "active" <=> sreq[q] = "active",
         Sent(q)' = Sent(q), Received(Partner[q])' = Received(Partner[q])
  PROVE  WireOf(q)'
BY DEF WireOf, Boundary, Unread

LEMMA CountsAreNumbers ==
  ASSUME TypeOK, NEW p \in Port
  PROVE  /\ rep[p[1]] \in Nat /\ Sent(p) \in Nat /\ Received(p) \in Nat
         /\ Sent(p) \in rep[p[1]] .. rep[p[1]] + 1
         /\ Received(p) \in rep[p[1]] .. rep[p[1]] + 1
BY DEF TypeOK, Sent, Received, Port

(* The invariant after a step, from its parts.                               *)
LEMMA InvariantAfter ==
  ASSUME TypeOK', \A p \in Port : HostOf(p)', \A p \in Port : WireOf(p)'
  PROVE  IInv'
BY DEF IInv, PortInv, HostOf

LEMMA InvariantBefore ==
  ASSUME IInv
  PROVE  TypeOK /\ PortInv /\ (\A p \in Port : HostOf(p) /\ WireOf(p))
BY DEF IInv, PortInv, HostOf

-----------------------------------------------------------------------------
(* The invariant is inductive. *)

LEMMA InvariantInit == Init => IInv
<1>. SUFFICES ASSUME Init PROVE IInv
  OBVIOUS
<1>1. TypeOK
  BY TypeInit
<1>2. ASSUME NEW p \in Port
      PROVE  /\ sreq[p] = "null" /\ rreq[p] = "null" /\ inFlight[p] = <<>>
             /\ pc[p[1]] = "post" /\ rep[p[1]] = 0
  BY DEF Init, MpiInit, Port
<1>3. ASSUME NEW p \in Port PROVE Sent(p) = 0 /\ Received(p) = 0
  BY <1>2 DEF Sent, Received, IsSent, HasArrived, IsUnpacked
<1>4. ASSUME NEW p \in Port PROVE LocalOf(p) /\ SendOf(p) /\ ReceiveOf(p)
  BY <1>2 DEF LocalOf, SendOf, ReceiveOf, IsUnpacked
<1>5. ASSUME NEW p \in Port PROVE WireOf(p)
  BY <1>2, <1>3, PartnersAreMutual DEF WireOf
<1>. QED BY <1>1, <1>4, <1>5 DEF IInv, PortInv

LEMMA InvariantPost ==
  ASSUME IInv, NEW r \in Rank, PostReceives(r)
  PROVE  IInv' /\ \A p \in Port : Sent(p)' = Sent(p)
<1>1. TypeOK'
  BY TypePost, InvariantBefore
<1>2. ASSUME NEW p \in Port
      PROVE  HostOf(p)' /\ Sent(p)' = Sent(p) /\ Received(p)' = Received(p)
  <2>1. HostOf(p) /\ TypeOK
    BY InvariantBefore
  <2>2. CASE p[1] # r
    <3>1. SamePort(p)
      BY <2>1, <2>2 DEF SamePort, PostReceives, IrecvAll, TypeOK, Port
    <3>. QED BY <2>1, <3>1, SamePortKeeps
  <2>3. CASE p[1] = r
    <3>1. /\ pc[r] = "post" /\ pc'[r] = "pack" /\ next'[r] = 0 /\ rep'[r] = rep[r] /\ rep[r] < Reps
          /\ sreq[p] = "null" /\ sreq'[p] = "null" /\ rreq[p] = "null" /\ rreq'[p] = "active"
      BY <2>1, <2>3 DEF HostOf, LocalOf, PostReceives, IrecvAll, TypeOK
    <3>2. 0 \in Dir /\ ~(p[2] < 0)
      BY DEF Port, Dir
    <3>3. ~IsSent(p) /\ ~IsSent(p)' /\ ~HasArrived(p) /\ ~HasArrived(p)' /\ ~IsUnpacked(p)'
      BY <2>3, <3>1, <3>2 DEF IsSent, HasArrived, IsUnpacked
    <3>. QED BY <2>3, <3>1, <3>2, <3>3 DEF HostOf, LocalOf, SendOf, ReceiveOf, Sent, Received
  <2>. QED BY <2>2, <2>3
<1>3. ASSUME NEW q \in Port PROVE WireOf(q)'
  <2>1. WireOf(q) /\ inFlight'[q] = inFlight[q] /\ sreq'[q] = sreq[q]
    BY InvariantBefore DEF PostReceives
  <2>. QED BY <1>2, <2>1, PartnersAreMutual, SameWireKeeps
<1>. QED BY <1>1, <1>2, <1>3, InvariantAfter

LEMMA InvariantPack ==
  ASSUME IInv, NEW r \in Rank, PackAndSend(r)
  PROVE  /\ IInv'
         /\ \E x \in Port :
              /\ x[1] = r /\ rep[r] < Reps /\ Sent(x) = rep[r] /\ Sent(x)' = rep[r] + 1
              /\ \A p \in Port \ {x} : Sent(p)' = Sent(p)
<1>1. TypeOK'
  BY TypePack, InvariantBefore
<1>2. TypeOK /\ (\A p \in Port : HostOf(p) /\ WireOf(p)) /\ pc[r] = "pack"
  BY InvariantBefore DEF PackAndSend
<1>3. next[r] \in Dir /\ rep[r] < Reps
  <2>1. <<r, 0>> \in Port
    BY DEF Port, Dir
  <2>. QED BY <1>2, <2>1 DEF HostOf, LocalOf, Port
<1>x. PICK x \in Port : x = <<r, next[r]>>
  BY <1>3 DEF Port
<1>4. /\ rep' = rep /\ rreq' = rreq /\ rbuf' = rbuf /\ halo' = halo
      /\ next'[r] = next[r] + 1
      /\ pc'[r] = IF next[r] = num_neighbors - 1 THEN "unpack" ELSE "pack"
      /\ \A s \in Rank \ {r} : next'[s] = next[s] /\ pc'[s] = pc[s]
  BY <1>2 DEF PackAndSend, IsLast, TypeOK
<1>5. /\ sreq'[x] = "active" /\ sbuf'[x] = Boundary(x, rep[r] + 1)
      /\ inFlight'[x] = Append(inFlight[x], Unread)
      /\ \A p \in Port \ {x} : /\ sreq'[p] = sreq[p] /\ sbuf'[p] = sbuf[p]
                               /\ inFlight'[p] = inFlight[p]
  BY <1>2, <1>3, <1>x DEF PackAndSend, Isend, TypeOK
<1>6. ASSUME NEW p \in Port
      PROVE  /\ HostOf(p)' /\ Received(p)' = Received(p)
             /\ p # x => Sent(p)' = Sent(p)
             /\ p = x => ~IsSent(p) /\ Sent(p)' = Sent(p) + 1
  <2>1. HostOf(p) /\ p \in Rank \X Dir
    BY <1>2 DEF Port
  <2>2. CASE p[1] # r
    <3>1. p # x /\ p[1] \in Rank \ {r}
      BY <2>1, <2>2, <1>x
    <3>2. SamePort(p)
      BY <1>4, <1>5, <3>1 DEF SamePort
    <3>. QED BY <2>1, <3>1, <3>2, SamePortKeeps
  <2>3. CASE p[1] = r
    <3>1. rreq[p] # "null" /\ (sreq[p] # "null" <=> IsSent(p))
      BY <1>2, <2>1, <2>3 DEF HostOf, LocalOf
    <3>2. HasArrived(p)' = HasArrived(p) /\ ~IsUnpacked(p)'
      BY <1>4, <2>3, <3>1 DEF HasArrived, IsUnpacked
    <3>3. CASE p = x
      <4>1. ~IsSent(p) /\ IsSent(p)'
        BY <1>2, <1>3, <1>4, <2>3, <3>3, <1>x DEF IsSent, Dir
      <4>2. next'[r] \in Dir \/ pc'[r] # "pack"
        BY <1>3, <1>4 DEF Dir
      <4>3. rep[r] \in Nat
        BY <1>2 DEF TypeOK
      <4>4. LocalOf(p)' /\ SendOf(p)' /\ ReceiveOf(p)'
        BY <1>2, <1>3, <1>4, <1>5, <2>1, <2>3, <3>1, <3>2, <3>3, <4>1, <4>2
           DEF HostOf, LocalOf, SendOf, ReceiveOf
      <4>. QED BY <1>4, <2>3, <3>2, <3>3, <4>1, <4>3, <4>4 DEF HostOf, Sent, Received
    <3>4. CASE p # x
      <4>1. p[2] # next[r]
        BY <2>1, <2>3, <3>4, <1>x DEF Port
      <4>2. IsSent(p)' <=> IsSent(p)
        <5>1. /\ pc[p[1]] = "pack" /\ next'[p[1]] = next[p[1]] + 1
              /\ pc'[p[1]] = IF next[r] = num_neighbors - 1 THEN "unpack" ELSE "pack"
          BY <1>2, <1>4, <2>3
        <5>2. p[2] < next[r] + 1 <=> p[2] < next[r]
          BY <1>3, <2>1, <4>1 DEF Dir
        <5>3. next[r] = num_neighbors - 1 => p[2] < next[r]
          BY <1>3, <2>1, <4>1 DEF Dir
        <5>. QED BY <2>3, <5>1, <5>2, <5>3 DEF IsSent
      <4>3. next'[r] \in Dir \/ pc'[r] # "pack"
        BY <1>3, <1>4 DEF Dir
      <4>4. LocalOf(p)' /\ SendOf(p)' /\ ReceiveOf(p)'
        BY <1>2, <1>3, <1>4, <1>5, <2>1, <2>3, <3>1, <3>2, <3>4, <4>2, <4>3
           DEF HostOf, LocalOf, SendOf, ReceiveOf
      <4>. QED BY <1>4, <2>3, <3>2, <3>4, <4>2, <4>4 DEF HostOf, Sent, Received
    <3>. QED BY <3>3, <3>4
  <2>. QED BY <2>2, <2>3
<1>7. ASSUME NEW q \in Port PROVE WireOf(q)'
  <2>1. WireOf(q) /\ Partner[q] \in Port
    BY <1>2, PartnersAreMutual
  <2>2. CASE q # x
    BY <1>5, <1>6, <2>1, <2>2, SameWireKeeps
  <2>3. CASE q = x
    <3>1. sreq[q] = "null"
      BY <1>2, <1>3, <1>6, <1>x, <2>3 DEF HostOf, LocalOf
    <3>2. /\ inFlight[q] \in Seq(Data) /\ Sent(q) \in Nat /\ Received(Partner[q]) \in Nat
      BY <1>2, <2>1, CountsAreNumbers DEF TypeOK
    <3>3. /\ Len(inFlight'[q]) = Len(inFlight[q]) + 1
          /\ inFlight'[q][Len(inFlight[q]) + 1] = Unread
          /\ \A i \in 1 .. Len(inFlight[q]) : inFlight'[q][i] = inFlight[q][i]
      BY <1>5, <2>3, <3>2
    <3>4. Sent(q)' = Sent(q) + 1 /\ Received(Partner[q])' = Received(Partner[q]) /\ sreq'[q] = "active"
      BY <1>5, <1>6, <2>1, <2>3
    <3>5. /\ Len(inFlight[q]) = Sent(q) - Received(Partner[q])
          /\ \A i \in 1 .. Len(inFlight[q]) : inFlight[q][i] = Boundary(q, Received(Partner[q]) + i)
      BY <2>1, <3>1 DEF WireOf
    <3>6. ASSUME NEW i \in 1 .. Len(inFlight[q]) + 1
          PROVE  inFlight'[q][i] = IF i = Len(inFlight[q]) + 1 THEN Unread
                                   ELSE Boundary(q, Received(Partner[q]) + i)
      <4>1. Len(inFlight[q]) \in Nat
        BY <3>2
      <4>2. CASE i = Len(inFlight[q]) + 1
        BY <3>3, <4>2
      <4>3. CASE i \in 1 .. Len(inFlight[q])
        <5>1. i # Len(inFlight[q]) + 1
          BY <4>1, <4>3
        <5>. QED BY <3>3, <3>5, <4>3, <5>1
      <4>. QED BY <4>1, <4>2, <4>3
    <3>. QED BY <3>2, <3>3, <3>4, <3>5, <3>6 DEF WireOf, Boundary, Unread
  <2>. QED BY <2>2, <2>3
<1>8. Sent(x) = rep[r] /\ Sent(x)' = rep[r] + 1
  <2>1. ~IsSent(x) /\ Sent(x)' = Sent(x) + 1
    BY <1>6
  <2>2. rep[r] \in Nat /\ x[1] = r
    BY <1>2, <1>x DEF TypeOK
  <2>3. Sent(x) = rep[r]
    BY <2>1, <2>2 DEF Sent
  <2>. QED BY <2>1, <2>3
<1>9. IInv'
  BY <1>1, <1>6, <1>7, InvariantAfter
<1>10. \A p \in Port \ {x} : Sent(p)' = Sent(p)
  BY <1>6
<1>. QED BY <1>3, <1>x, <1>8, <1>9, <1>10

LEMMA InvariantUnpack ==
  ASSUME IInv, NEW r \in Rank, NEW l \in Dir, UnpackOne(r, l)
  PROVE  IInv' /\ \A p \in Port : Sent(p)' = Sent(p)
<1>1. TypeOK'
  BY TypeUnpack, InvariantBefore
<1> DEFINE x == <<r, l>>
<1>2. /\ TypeOK /\ (\A p \in Port : HostOf(p) /\ WireOf(p)) /\ pc[r] = "unpack"
      /\ x \in Port /\ rreq[x] = "complete"
  BY InvariantBefore DEF UnpackOne, Port
<1>3. /\ sreq' = sreq /\ sbuf' = sbuf /\ rbuf' = rbuf /\ inFlight' = inFlight
      /\ rep' = rep /\ next' = next
      /\ rreq'[x] = "null" /\ halo'[x] = rbuf[x]
      /\ \A p \in Port \ {x} : rreq'[p] = rreq[p] /\ halo'[p] = halo[p]
      /\ pc'[r] \in {"unpack", "wait"}
      /\ \A s \in Rank \ {r} : pc'[s] = pc[s]
  BY <1>2 DEF UnpackOne, TypeOK
<1>4. ASSUME pc'[r] = "wait", NEW p \in Port, p[1] = r PROVE rreq'[p] = "null"
  <2>1. p = <<r, p[2]>> /\ p[2] \in Dir
    BY <1>4 DEF Port
  <2>2. OthersNull(r, l)
    BY <1>2, <1>4 DEF UnpackOne, TypeOK
  <2>. QED BY <1>3, <2>1, <2>2 DEF OthersNull
<1>. HIDE DEF x
<1>5. ASSUME NEW p \in Port
      PROVE  HostOf(p)' /\ Sent(p)' = Sent(p) /\ Received(p)' = Received(p)
  <2>1. HostOf(p) /\ p[1] \in Rank
    BY <1>2 DEF Port
  <2>2. CASE p[1] # r
    <3>1. p # x
      BY <2>2 DEF x
    <3>2. SamePort(p)
      BY <1>3, <2>1, <2>2, <3>1 DEF SamePort
    <3>. QED BY <2>1, <3>2, SamePortKeeps
  <2>3. CASE p[1] = r
    <3>1. (IsSent(p)' <=> IsSent(p)) /\ IsSent(p)
      BY <1>2, <1>3, <2>3 DEF IsSent
    <3>2. HasArrived(p)' <=> HasArrived(p)
      BY <1>2, <1>3, <2>3 DEF HasArrived, IsUnpacked
    <3>3. LocalOf(p)' /\ SendOf(p)'
      BY <1>2, <1>3, <1>4, <2>1, <2>3, <3>1 DEF HostOf, LocalOf, SendOf, Boundary
    <3>4. ReceiveOf(p)'
      BY <1>2, <1>3, <2>1, <2>3 DEF HostOf, ReceiveOf, IsUnpacked, Boundary
    <3>. QED BY <1>3, <3>1, <3>2, <3>3, <3>4 DEF HostOf, Sent, Received
  <2>. QED BY <2>2, <2>3
<1>6. ASSUME NEW q \in Port PROVE WireOf(q)'
  BY <1>2, <1>3, <1>5, PartnersAreMutual, SameWireKeeps
<1>. QED BY <1>1, <1>5, <1>6, InvariantAfter

LEMMA InvariantWait ==
  ASSUME IInv, NEW r \in Rank, WaitSends(r)
  PROVE  IInv' /\ \A p \in Port : Sent(p)' = Sent(p)
<1>1. TypeOK'
  BY TypeWait, InvariantBefore
<1>2. TypeOK /\ (\A p \in Port : HostOf(p) /\ WireOf(p)) /\ pc[r] = "wait"
  BY InvariantBefore DEF WaitSends
<1>3. /\ rreq' = rreq /\ sbuf' = sbuf /\ rbuf' = rbuf /\ inFlight' = inFlight
      /\ next' = next /\ halo' = halo
      /\ rep'[r] = rep[r] + 1 /\ pc'[r] = "post"
      /\ \A s \in Rank \ {r} : pc'[s] = pc[s] /\ rep'[s] = rep[s]
      /\ \A p \in Port : sreq'[p] = IF p[1] = r THEN "null" ELSE sreq[p]
  BY <1>2 DEF WaitSends, NullAll, TypeOK
<1>4. ASSUME NEW p \in Port, p[1] = r PROVE sreq[p] = "complete"
  <2>1. p = <<r, p[2]>> /\ p[2] \in Dir
    BY <1>4 DEF Port
  <2>. QED BY <2>1 DEF WaitSends, SendsDone, AllComplete
<1>5. ASSUME NEW p \in Port
      PROVE  HostOf(p)' /\ Sent(p)' = Sent(p) /\ Received(p)' = Received(p)
  <2>1. HostOf(p) /\ p[1] \in Rank
    BY <1>2 DEF Port
  <2>2. CASE p[1] # r
    <3>1. SamePort(p)
      BY <1>3, <2>1, <2>2 DEF SamePort
    <3>. QED BY <2>1, <3>1, SamePortKeeps
  <2>3. CASE p[1] = r
    <3>1. rreq[p] = "null" /\ rreq'[p] = "null" /\ sreq'[p] = "null"
      BY <1>2, <1>3, <2>1, <2>3 DEF HostOf, LocalOf
    <3>2. IsSent(p) /\ ~IsSent(p)'
      BY <1>2, <1>3, <2>3 DEF IsSent
    <3>3. HasArrived(p) /\ ~HasArrived(p)' /\ ~IsUnpacked(p)'
      BY <1>2, <1>3, <2>3, <3>1 DEF HasArrived, IsUnpacked
    <3>4. LocalOf(p)' /\ SendOf(p)' /\ ReceiveOf(p)'
      BY <1>3, <2>3, <3>1, <3>2, <3>3 DEF LocalOf, SendOf, ReceiveOf
    <3>5. rep[r] \in Nat
      BY <1>2 DEF TypeOK
    <3>. QED BY <1>3, <2>3, <3>2, <3>3, <3>4, <3>5 DEF HostOf, Sent, Received
  <2>. QED BY <2>2, <2>3
<1>6. ASSUME NEW q \in Port PROVE WireOf(q)'
  <2>1. sreq'[q] = "active" <=> sreq[q] = "active"
    BY <1>3, <1>4
  <2>. QED BY <1>2, <1>3, <1>5, <2>1, PartnersAreMutual, SameWireKeeps
<1>. QED BY <1>1, <1>5, <1>6, InvariantAfter

LEMMA InvariantBuffer ==
  ASSUME IInv, NEW p \in Port, BufferSend(p), UNCHANGED hostVars
  PROVE  IInv' /\ \A t \in Port : Sent(t)' = Sent(t)
<1>1. TypeOK'
  BY TypeBuffer, InvariantBefore
<1>2. /\ TypeOK /\ (\A t \in Port : HostOf(t) /\ WireOf(t)) /\ sreq[p] = "active"
      /\ sreq'[p] = "complete" /\ \A t \in Port \ {p} : sreq'[t] = sreq[t] /\ inFlight'[t] = inFlight[t]
      /\ inFlight'[p] = [inFlight[p] EXCEPT ![Len(inFlight[p])] = sbuf[p]]
      /\ rreq' = rreq /\ sbuf' = sbuf /\ rbuf' = rbuf
      /\ pc' = pc /\ rep' = rep /\ next' = next /\ halo' = halo
  BY InvariantBefore DEF BufferSend, hostVars, TypeOK
<1>3. ASSUME NEW t \in Port
      PROVE  HostOf(t)' /\ Sent(t)' = Sent(t) /\ Received(t)' = Received(t)
  <2>1. (IsSent(t)' <=> IsSent(t)) /\ (IsUnpacked(t)' <=> IsUnpacked(t)) /\ (HasArrived(t)' <=> HasArrived(t))
    BY <1>2 DEF IsSent, IsUnpacked, HasArrived
  <2>2. sreq'[t] = "null" <=> sreq[t] = "null"
    BY <1>2
  <2>3. LocalOf(t)'
    BY <1>2, <2>1, <2>2 DEF HostOf, LocalOf
  <2>4. SendOf(t)' /\ ReceiveOf(t)'
    BY <1>2, <2>1, <2>2 DEF HostOf, SendOf, ReceiveOf, Boundary
  <2>. QED BY <1>2, <2>1, <2>3, <2>4 DEF HostOf, Sent, Received
<1>4. ASSUME NEW q \in Port PROVE WireOf(q)'
  <2>1. WireOf(q) /\ Partner[q] \in Port /\ Received(Partner[q])' = Received(Partner[q])
    BY <1>2, <1>3, PartnersAreMutual
  <2>2. CASE q # p
    BY <1>2, <1>3, <2>1, <2>2, SameWireKeeps
  <2>3. CASE q = p
    <3>1. inFlight[q] \in Seq(Data) /\ sbuf[q] \in Data /\ Sent(q) \in Nat /\ Received(Partner[q]) \in Nat
      BY <1>2, <2>1, CountsAreNumbers DEF TypeOK
    <3>2. Len(inFlight[q]) \in 1 .. Len(inFlight[q])
      BY <1>2, <2>1, <2>3, <3>1 DEF WireOf
    <3>3. /\ Len(inFlight'[q]) = Len(inFlight[q])
          /\ \A i \in 1 .. Len(inFlight[q]) :
               inFlight'[q][i] = IF i = Len(inFlight[q]) THEN sbuf[q] ELSE inFlight[q][i]
      BY <1>2, <2>3, <3>1, <3>2, ExceptSeq
    <3>4. sbuf[q] = Boundary(q, Sent(q))
      <4>1. sreq[q] # "null" /\ HostOf(q)
        BY <1>2, <2>3
      <4>2. sbuf[q] = Boundary(q, rep[q[1]] + 1) /\ IsSent(q)
        BY <4>1 DEF HostOf, LocalOf, SendOf, IsSent
      <4>. QED BY <4>2 DEF Sent
    <3>5. /\ Len(inFlight[q]) = Sent(q) - Received(Partner[q])
          /\ \A i \in 1 .. Len(inFlight[q]) :
               i # Len(inFlight[q]) => inFlight[q][i] = Boundary(q, Received(Partner[q]) + i)
      BY <2>1 DEF WireOf
    <3>6. ASSUME NEW i \in 1 .. Len(inFlight[q])
          PROVE  inFlight'[q][i] = Boundary(q, Received(Partner[q]) + i)
      <4>1. CASE i = Len(inFlight[q])
        <5>1. Received(Partner[q]) + i = Sent(q)
          BY <3>1, <3>5, <4>1
        <5>. QED BY <3>3, <3>4, <4>1, <5>1
      <4>2. CASE i # Len(inFlight[q])
        BY <3>3, <3>5, <4>2
      <4>. QED BY <4>1, <4>2
    <3>. QED BY <1>2, <1>3, <2>1, <2>3, <3>3, <3>5, <3>6 DEF WireOf, Boundary
  <2>. QED BY <2>2, <2>3
<1>. QED BY <1>1, <1>3, <1>4, InvariantAfter

LEMMA InvariantDeliver ==
  ASSUME IInv, NEW p \in Port, NEW q \in Port, Deliver(p, q), UNCHANGED hostVars
  PROVE  IInv' /\ \A t \in Port : Sent(t)' = Sent(t)
<1>1. TypeOK'
  BY TypeDeliver, InvariantBefore
<1>2. q = Partner[p] /\ Partner[q] = p
  BY OnePartnerMatches, PartnersAreMutual DEF Deliver
<1>3. /\ TypeOK /\ (\A t \in Port : HostOf(t) /\ WireOf(t)) /\ rreq[p] = "active"
      /\ inFlight[q] # <<>> /\ inFlight'[q] = Tail(inFlight[q])
      /\ rreq'[p] = "complete" /\ sbuf' = sbuf
      /\ rbuf'[p] = IF Head(inFlight[q]) = Unread THEN sbuf[q] ELSE Head(inFlight[q])
      /\ sreq'[q] = IF Head(inFlight[q]) = Unread THEN "complete" ELSE sreq[q]
      /\ \A t \in Port \ {p} : rreq'[t] = rreq[t] /\ rbuf'[t] = rbuf[t]
      /\ \A t \in Port \ {q} : sreq'[t] = sreq[t] /\ inFlight'[t] = inFlight[t]
      /\ pc' = pc /\ rep' = rep /\ next' = next /\ halo' = halo
  BY InvariantBefore DEF Deliver, hostVars, TypeOK
(* What is at the head of the queue is the boundary of this repetition, or   *)
(* it is still in the send buffer.                                           *)
<1> DEFINE n == Len(inFlight[q])
<1>4. /\ inFlight[q] \in Seq(Data) /\ n \in Nat /\ n > 0
      /\ rep[p[1]] \in Nat /\ Sent(q) \in Nat /\ Received(p) = rep[p[1]] /\ n = Sent(q) - Received(p)
  <2>1. inFlight[q] \in Seq(Data)
    BY <1>3 DEF TypeOK
  <2>2. ~HasArrived(p)
    BY <1>3 DEF HasArrived, IsUnpacked
  <2>3. rep[p[1]] \in Nat /\ Sent(q) \in Nat
    BY <1>3, CountsAreNumbers
  <2>4. Received(p) = rep[p[1]]
    BY <2>2, <2>3 DEF Received
  <2>. QED BY <1>2, <1>3, <2>1, <2>3, <2>4 DEF WireOf
<1>5. \A i \in 1 .. n : inFlight[q][i] = IF i = n /\ sreq[q] = "active" THEN Unread
                                         ELSE Boundary(q, rep[p[1]] + i)
  <2>1. WireOf(q) /\ Received(Partner[q]) = rep[p[1]]
    BY <1>2, <1>3, <1>4
  <2>. QED BY <2>1 DEF WireOf
<1>6. \A k \in Nat : Boundary(q, k) # Unread
  <2>. TAKE k \in Nat
  <2>1. Boundary(q, k).rep = k /\ Unread.rep = -1
    BY DEF Boundary, Unread
  <2>. QED BY <2>1
<1>7. Head(inFlight[q]) = inFlight[q][1] /\ 1 \in 1 .. n
  <2>1. 1 \in 1 .. n
    BY <1>4
  <2>. QED BY <2>1, <1>4
<1>. HIDE DEF n
<1>8. Head(inFlight[q]) = Unread <=> n = 1 /\ sreq[q] = "active"
  BY <1>4, <1>5, <1>6, <1>7
<1>9. sreq[q] = "active" => sbuf[q] = Boundary(q, Sent(q))
  <2>1. HostOf(q)
    BY <1>3
  <2>2. sreq[q] = "active" => sbuf[q] = Boundary(q, rep[q[1]] + 1) /\ IsSent(q)
    BY <2>1 DEF HostOf, LocalOf, SendOf, IsSent
  <2>. QED BY <2>2 DEF Sent
<1>10. rbuf'[p] = Boundary(Partner[p], rep[p[1]] + 1)
  <2>1. CASE Head(inFlight[q]) = Unread
    <3>1. Sent(q) = rep[p[1]] + 1
      BY <1>4, <1>8, <2>1
    <3>. QED BY <1>2, <1>3, <1>8, <1>9, <2>1, <3>1
  <2>2. CASE Head(inFlight[q]) # Unread
    BY <1>2, <1>3, <1>5, <1>7, <1>8, <2>2
  <2>. QED BY <2>1, <2>2
<1>11. ASSUME NEW t \in Port
       PROVE  /\ HostOf(t)' /\ Sent(t)' = Sent(t)
              /\ t # p => Received(t)' = Received(t)
              /\ t = p => Received(t)' = Received(t) + 1
  <2>1. (IsSent(t)' <=> IsSent(t)) /\ (sreq'[t] = "null" <=> sreq[t] = "null")
    BY <1>3, <1>8 DEF IsSent
  <2>2. LocalOf(t)'
    BY <1>3, <2>1 DEF HostOf, LocalOf
  <2>3. SendOf(t)'
    BY <1>3, <2>1 DEF HostOf, SendOf, Boundary
  <2>4. CASE t # p
    <3>1. (IsUnpacked(t)' <=> IsUnpacked(t)) /\ (HasArrived(t)' <=> HasArrived(t))
      BY <1>3, <2>4 DEF IsUnpacked, HasArrived
    <3>2. ReceiveOf(t)'
      BY <1>3, <2>4, <3>1 DEF HostOf, ReceiveOf, Boundary
    <3>. QED BY <1>3, <2>1, <2>2, <2>3, <2>4, <3>1, <3>2 DEF HostOf, Sent, Received
  <2>5. CASE t = p
    <3>1. ~IsUnpacked(t)' /\ HasArrived(t)'
      BY <1>3, <2>5 DEF IsUnpacked, HasArrived
    <3>2. ReceiveOf(t)'
      BY <1>3, <1>10, <2>5, <3>1 DEF ReceiveOf, Boundary
    <3>. QED BY <1>3, <1>4, <2>1, <2>2, <2>3, <2>5, <3>1, <3>2 DEF HostOf, Sent, Received
  <2>. QED BY <2>4, <2>5
<1>12. ASSUME NEW t \in Port PROVE WireOf(t)'
  <2>1. CASE t # q
    <3>1. Partner[t] \in Port /\ Partner[t] # p
      BY <1>2, <2>1, PartnersAreMutual
    <3>. QED BY <1>3, <1>11, <2>1, <3>1, SameWireKeeps
  <2>2. CASE t = q
    <3>1. /\ Len(inFlight'[q]) = n - 1
          /\ \A i \in 1 .. n - 1 : inFlight'[q][i] = inFlight[q][i + 1]
      BY <1>3, <1>4 DEF n
    <3>2. Received(p)' = rep[p[1]] + 1 /\ Sent(q)' = Sent(q)
      BY <1>4, <1>11
    <3>3. sreq'[q] = "active" <=> sreq[q] = "active" /\ n # 1
      BY <1>3, <1>8
    <3>4. ASSUME NEW i \in 1 .. n - 1
          PROVE  inFlight'[q][i] = IF i = n - 1 /\ sreq'[q] = "active" THEN Unread
                                   ELSE Boundary(q, rep[p[1]] + 1 + i)
      <4>1. n \in Nat /\ i \in Nat /\ rep[p[1]] \in Nat
        BY <1>4
      <4>2. i + 1 \in 1 .. n /\ (i + 1 = n <=> i = n - 1) /\ n # 1
        BY <4>1
      <4>3. rep[p[1]] + (i + 1) = rep[p[1]] + 1 + i
        BY <4>1
      <4>. QED BY <1>5, <3>1, <3>3, <4>2, <4>3
    <3>5. n - 1 = Sent(q)' - Received(p)' /\ (sreq'[q] = "active" => n - 1 > 0)
      BY <1>4, <3>2, <3>3
    <3>. QED BY <1>2, <2>2, <3>1, <3>2, <3>4, <3>5 DEF WireOf, Boundary, Unread
  <2>. QED BY <2>1, <2>2
<1>. QED BY <1>1, <1>11, <1>12, InvariantAfter

LEMMA InvariantStutter ==
  ASSUME IInv, UNCHANGED vars
  PROVE  IInv' /\ \A p \in Port : Sent(p)' = Sent(p)
<1>1. TypeOK /\ (\A p \in Port : HostOf(p) /\ WireOf(p)) /\ UNCHANGED <<mpiVars, hostVars>>
  BY InvariantBefore DEF vars
<1>2. TypeOK'
  BY <1>1 DEF TypeOK, mpiVars, hostVars
<1>3. ASSUME NEW p \in Port
      PROVE  HostOf(p)' /\ Sent(p)' = Sent(p) /\ Received(p)' = Received(p)
  <2>1. SamePort(p)
    BY <1>1 DEF SamePort, mpiVars, hostVars
  <2>. QED BY <1>1, <2>1, SamePortKeeps
<1>4. ASSUME NEW q \in Port PROVE WireOf(q)'
  <2>1. inFlight'[q] = inFlight[q] /\ sreq'[q] = sreq[q]
    BY <1>1 DEF mpiVars
  <2>. QED BY <1>1, <1>3, <2>1, PartnersAreMutual, SameWireKeeps
<1>. QED BY <1>2, <1>3, <1>4, InvariantAfter

LEMMA InvariantStep == IInv /\ [Next]_vars => IInv'
<1>. SUFFICES ASSUME IInv, [Next]_vars PROVE IInv'
  OBVIOUS
<1>1. ASSUME NEW r \in Rank, RankStep(r) PROVE IInv'
  BY <1>1, InvariantPost, InvariantPack, InvariantUnpack, InvariantWait DEF RankStep
<1>2. CASE MpiStep
  BY <1>2, InvariantBuffer, InvariantDeliver DEF MpiStep
<1>3. CASE Finished \/ UNCHANGED vars
  BY <1>3, InvariantStutter DEF Finished
<1>. QED BY <1>1, <1>2, <1>3 DEF Next

LEMMA InductiveInvariant == Spec => []IInv
BY InvariantInit, InvariantStep, PTL DEF Spec

-----------------------------------------------------------------------------
(* Every variable keeps its type: in particular, no rank packs past its last *)
(* direction or goes beyond the last repetition (HALO_EXCHANGE-Seq.cpp:30).  *)
THEOREM TypesHold == Spec => []TypeOK
<1>1. IInv => TypeOK
  BY DEF IInv
<1>. QED BY <1>1, InductiveInvariant, PTL

(* A rank that has unpacked everything has in each part of its halo what its *)
(* neighbor there packed in the same repetition, although no barrier         *)
(* separates the repetitions and buffers are reused (lines 64-84).           *)
THEOREM NoMixedRepetitions == Spec => []HaloIsOfThisRep
<1>1. IInv => HaloIsOfThisRep
  <2>. SUFFICES ASSUME IInv, NEW r \in Rank, pc[r] = "wait", NEW l \in Dir
                PROVE  halo[<<r, l>>] = Boundary(Partner[<<r, l>>], rep[r] + 1)
    BY DEF HaloIsOfThisRep
  <2>1. <<r, l>> \in Port /\ HostOf(<<r, l>>)
    BY InvariantBefore DEF Port
  <2>2. rreq[<<r, l>>] = "null"
    BY <2>1 DEF HostOf, LocalOf
  <2>. QED BY <2>1, <2>2 DEF HostOf, ReceiveOf, IsUnpacked
<1>. QED BY <1>1, InductiveInvariant, PTL

(* What is between a port and its partner, in numbers.                       *)
LEMMA QueueIsShort ==
  ASSUME IInv, NEW q \in Port
  PROVE  /\ rep[q[1]] \in Nat /\ rep[Neighbor[q]] \in Nat
         /\ Received(Partner[q]) <= Sent(q)
         /\ Len(inFlight[q]) = Sent(q) - Received(Partner[q])
         /\ Sent(q) \in rep[q[1]] .. rep[q[1]] + 1
         /\ Received(Partner[q]) \in rep[Neighbor[q]] .. rep[Neighbor[q]] + 1
<1>1. TypeOK /\ WireOf(q) /\ Partner[q] \in Port /\ Partner[q][1] = Neighbor[q]
  BY InvariantBefore, PartnersAreMutual
<1>2. /\ rep[q[1]] \in Nat /\ rep[Neighbor[q]] \in Nat
      /\ Sent(q) \in Nat /\ Received(Partner[q]) \in Nat
      /\ Sent(q) \in rep[q[1]] .. rep[q[1]] + 1
      /\ Received(Partner[q]) \in rep[Neighbor[q]] .. rep[Neighbor[q]] + 1
  BY <1>1, CountsAreNumbers
<1>3. Len(inFlight[q]) = Sent(q) - Received(Partner[q]) /\ Len(inFlight[q]) \in Nat
  <2>1. inFlight[q] \in Seq(Data)
    BY <1>1 DEF TypeOK
  <2>. QED BY <1>1, <2>1 DEF WireOf
<1>4. Received(Partner[q]) <= Sent(q)
  BY <1>2, <1>3
<1>. QED BY <1>2, <1>3, <1>4

(* Neighbors are never more than one repetition apart, and MPI never holds   *)
(* more than two messages of a port: what bounds the unexpected messages     *)
(* (lines 30-88, where only the two waits hold a rank back).                 *)
THEOREM RepsStayClose == Spec => []NeighborsStayClose
<1>1. IInv => NeighborsStayClose
  <2>. SUFFICES ASSUME IInv, NEW p \in Port
                PROVE  rep[p[1]] <= rep[Neighbor[p]] + 1 /\ Len(inFlight[p]) <= 2
    BY DEF NeighborsStayClose
  <2>1. Partner[p] \in Port /\ Partner[Partner[p]] = p /\ Partner[p][1] = Neighbor[p]
        /\ Neighbor[Partner[p]] = p[1]
    BY PartnersAreMutual
  <2>2. rep[p[1]] <= rep[Neighbor[p]] + 1
    BY <2>1, QueueIsShort
  <2>3. rep[Neighbor[p]] <= rep[p[1]] + 1
    BY <2>1, QueueIsShort
  <2>4. rep[p[1]] <= rep[Neighbor[p]] + 1 /\ Len(inFlight[p]) <= 2
    <3>1. /\ rep[p[1]] \in Nat /\ rep[Neighbor[p]] \in Nat
          /\ Len(inFlight[p]) = Sent(p) - Received(Partner[p])
          /\ Sent(p) \in rep[p[1]] .. rep[p[1]] + 1
          /\ Received(Partner[p]) \in rep[Neighbor[p]] .. rep[Neighbor[p]] + 1
      BY QueueIsShort
    <3>. QED BY <2>2, <2>3, <3>1
  <2>. QED BY <2>4
<1>. QED BY <1>1, InductiveInvariant, PTL

-----------------------------------------------------------------------------
(* The buffers that are in use *)

(* A message that is in the send buffer only keeps the request active.       *)
LEMMA UnreadIsActive ==
  ASSUME IInv, NEW p \in Port, MayBeRead(p)
  PROVE  sreq[p] = "active"
<1>1. WireOf(p) /\ Partner[p] \in Port /\ inFlight[p] \in Seq(Data)
  BY InvariantBefore, PartnersAreMutual DEF TypeOK
<1>2. PICK i \in 1 .. Len(inFlight[p]) : inFlight[p][i] = Unread
  BY DEF MayBeRead
<1>3. Received(Partner[p]) \in Nat
  BY <1>1, CountsAreNumbers, InvariantBefore
<1>4. Boundary(p, Received(Partner[p]) + i) # Unread
  <2>1. Received(Partner[p]) + i \in Nat
    BY <1>1, <1>3
  <2>2. Boundary(p, Received(Partner[p]) + i).rep \in Nat /\ Unread.rep = -1
    BY <2>1 DEF Boundary, Unread
  <2>. QED BY <2>2
<1>. QED BY <1>1, <1>2, <1>4 DEF WireOf

(* Packing never overwrites a boundary that MPI may still have to read, and  *)
(* a receive never overwrites one that has not been unpacked: the requests   *)
(* are waited for before the next repetition (lines 36-62, 66 and 86).       *)
THEOREM BuffersAreSafe == Spec => BuffersInUseAreKept
<1>1. IInv /\ [Next]_vars => [\A p \in Port : Keeps(p)]_vars
  <2>. SUFFICES ASSUME IInv, Next, NEW p \in Port PROVE Keeps(p)
    OBVIOUS
  <2>0. TypeOK /\ HostOf(p) /\ p[1] \in Rank
    BY InvariantBefore DEF Port
  <2>1. ASSUME NEW r \in Rank, PostReceives(r) PROVE Keeps(p)
    BY <2>1 DEF Keeps, PostReceives
  <2>2. ASSUME NEW r \in Rank, PackAndSend(r) PROVE Keeps(p)
    <3>1. rbuf' = rbuf /\ pc[r] = "pack"
      BY <2>2 DEF PackAndSend
    <3>2. CASE p = <<r, next[r]>>
      <4>1. next[r] \in Dir /\ ~IsSent(p) /\ p[1] = r
        BY <2>0, <3>1, <3>2 DEF HostOf, LocalOf, IsSent, Dir
      <4>2. sreq[p] = "null"
        BY <2>0, <3>1, <4>1 DEF HostOf, LocalOf
      <4>3. ~MayBeRead(p)
        BY <4>2, UnreadIsActive
      <4>. QED BY <3>1, <4>3 DEF Keeps
    <3>3. CASE p # <<r, next[r]>>
      <4>1. sbuf'[p] = sbuf[p]
        BY <2>0, <2>2, <3>3 DEF PackAndSend, TypeOK
      <4>. QED BY <3>1, <4>1 DEF Keeps
    <3>. QED BY <3>2, <3>3
  <2>3. ASSUME NEW r \in Rank, NEW l \in Dir, UnpackOne(r, l) PROVE Keeps(p)
    BY <2>3 DEF Keeps, UnpackOne
  <2>4. ASSUME NEW r \in Rank, WaitSends(r) PROVE Keeps(p)
    BY <2>4 DEF Keeps, WaitSends
  <2>5. ASSUME NEW q \in Port, BufferSend(q) PROVE Keeps(p)
    BY <2>5 DEF Keeps, BufferSend
  <2>6. ASSUME NEW q \in Port, NEW t \in Port, Deliver(q, t) PROVE Keeps(p)
    <3>1. sbuf' = sbuf /\ rreq[q] = "active" /\ (p # q => rbuf'[p] = rbuf[p])
      BY <2>0, <2>6 DEF Deliver, TypeOK
    <3>. QED BY <3>1 DEF Keeps
  <2>7. CASE Finished
    BY <2>7 DEF Keeps, Finished, vars, mpiVars
  <2>. QED BY <2>1, <2>2, <2>3, <2>4, <2>5, <2>6, <2>7 DEF Next, RankStep, MpiStep
<1>. QED BY <1>1, InductiveInvariant, PTL DEF Spec, BuffersInUseAreKept

-----------------------------------------------------------------------------
(* Refinement *)

Published == [p \in Port |-> Sent(p)]

LEMMA SamePorts == Abstract!Port = Port
BY DEF Abstract!Port, Port

LEMMA AbstractStutter ==
  ASSUME \A p \in Port : Sent(p)' = Sent(p), rep' = rep, halo' = halo
  PROVE  UNCHANGED <<Published, halo, rep>>
BY DEF Published

LEMMA AbstractPublish ==
  ASSUME NEW r \in Rank, PackAndSend(r), IInv
  PROVE  \E x \in Abstract!Port : Abstract!Publish(x)
<1>1. PICK x \in Port : /\ x[1] = r /\ rep[r] < Reps /\ Sent(x) = rep[r] /\ Sent(x)' = rep[r] + 1
                         /\ \A p \in Port \ {x} : Sent(p)' = Sent(p)
  BY InvariantPack
<1>2. [p \in Port |-> Sent(p)]' = [[p \in Port |-> Sent(p)] EXCEPT ![x] = @ + 1]
  BY <1>1
<1>3. rep' = rep /\ halo' = halo
  BY DEF PackAndSend
<1>4. Abstract!Publish(x)
  BY <1>1, <1>2, <1>3 DEF Abstract!Publish
<1>. QED BY <1>4, SamePorts

LEMMA AbstractTake ==
  ASSUME NEW r \in Rank, NEW l \in Dir, UnpackOne(r, l), IInv
  PROVE  Abstract!Take(<<r, l>>) /\ <<r, l>> \in Abstract!Port
<1>x. PICK x \in Port : x = <<r, l>>
  BY DEF Port
<1>1. /\ TypeOK /\ HostOf(x) /\ rreq[x] = "complete" /\ x[1] = r
      /\ Partner[x] \in Port /\ Partner[Partner[x]] = x
  BY <1>x, InvariantBefore, PartnersAreMutual DEF UnpackOne
<1>2. rbuf[x] = Boundary(Partner[x], rep[r] + 1) /\ Received(x) = rep[r] + 1
  BY <1>1 DEF HostOf, ReceiveOf, Received, HasArrived
<1>3. Sent(Partner[x]) > rep[r]
  <2>1. Received(x) <= Sent(Partner[x])
    BY <1>1, QueueIsShort
  <2>2. rep[r] \in Nat /\ Sent(Partner[x]) \in Nat
    BY <1>1, CountsAreNumbers DEF TypeOK
  <2>. QED BY <1>2, <2>1, <2>2
<1>4. halo' = [halo EXCEPT ![x] = Boundary(Partner[x], rep[r] + 1)] /\ rep' = rep
  BY <1>x, <1>2 DEF UnpackOne
<1>5. [p \in Port |-> Sent(p)]' = [p \in Port |-> Sent(p)]
  BY InvariantUnpack
<1>6. Abstract!Take(x)
  BY <1>1, <1>3, <1>4, <1>5 DEF Abstract!Take, Abstract!Boundary, Boundary
<1>. QED BY <1>6, <1>x, SamePorts

LEMMA AbstractComplete ==
  ASSUME NEW r \in Rank, WaitSends(r), IInv
  PROVE  Abstract!Complete(r)
<1>1. ASSUME NEW l \in Dir
      PROVE  /\ <<r, l>> \in Port /\ Sent(<<r, l>>) = rep[r] + 1
             /\ halo[<<r, l>>] = Boundary(Partner[<<r, l>>], rep[r] + 1)
  <2>x. PICK p \in Port : p = <<r, l>>
    BY DEF Port
  <2>1. HostOf(p) /\ pc[r] = "wait" /\ p[1] = r
    BY <2>x, InvariantBefore DEF WaitSends
  <2>2. rreq[p] = "null"
    BY <2>1 DEF HostOf, LocalOf
  <2>3. Sent(p) = rep[r] + 1 /\ halo[p] = Boundary(Partner[p], rep[r] + 1)
    BY <2>1, <2>2 DEF HostOf, ReceiveOf, IsUnpacked, Sent, IsSent
  <2>. QED BY <2>x, <2>3
<1>2. rep' = [rep EXCEPT ![r] = @ + 1] /\ halo' = halo
  BY DEF WaitSends
<1>3. [p \in Port |-> Sent(p)]' = [p \in Port |-> Sent(p)]
  BY InvariantWait
<1>. QED BY <1>1, <1>2, <1>3 DEF Abstract!Complete, Abstract!Boundary, Boundary

LEMMA RefinementStep ==
  ASSUME IInv, [Next]_vars
  PROVE  Abstract!Next \/ UNCHANGED <<Published, halo, rep>>
<1>1. ASSUME NEW r \in Rank, PostReceives(r) PROVE UNCHANGED <<Published, halo, rep>>
  BY <1>1, InvariantPost, AbstractStutter DEF PostReceives
<1>2. ASSUME NEW r \in Rank, PackAndSend(r) PROVE Abstract!Next
  BY <1>2, AbstractPublish DEF Abstract!Next
<1>3. ASSUME NEW r \in Rank, NEW l \in Dir, UnpackOne(r, l) PROVE Abstract!Next
  BY <1>3, AbstractTake DEF Abstract!Next
<1>4. ASSUME NEW r \in Rank, WaitSends(r) PROVE Abstract!Next
  BY <1>4, AbstractComplete DEF Abstract!Next
<1>5. CASE MpiStep
  <2>1. (\A p \in Port : Sent(p)' = Sent(p)) /\ rep' = rep /\ halo' = halo
    BY <1>5, InvariantBuffer, InvariantDeliver DEF MpiStep, hostVars
  <2>. QED BY <2>1, AbstractStutter
<1>6. CASE Finished \/ UNCHANGED vars
  <2>1. UNCHANGED vars
    BY <1>6 DEF Finished
  <2>2. (\A p \in Port : Sent(p)' = Sent(p)) /\ rep' = rep /\ halo' = halo
    BY <2>1, InvariantStutter DEF vars, hostVars
  <2>. QED BY <2>2, AbstractStutter
<1>. QED BY <1>1, <1>2, <1>3, <1>4, <1>5, <1>6 DEF Next, RankStep

(* The messages, requests and buffers together do what NeighborExchange      *)
(* promises: a rank takes from each neighbor the boundary of its own         *)
(* repetition, never before it is published, and completes a repetition only *)
(* when every part of its halo is of that repetition.                        *)
THEOREM HaloExchangeImplementsNeighborExchange == Spec => ImplementsNeighborExchange
<1>1. Init => Abstract!Init
  <2>. SUFFICES ASSUME Init PROVE Abstract!Init
    OBVIOUS
  <2>1. ASSUME NEW p \in Port PROVE Sent(p) = 0
    BY DEF Init, Sent, IsSent, Port
  <2>. QED BY <2>1, SamePorts DEF Init, Abstract!Init, Abstract!Blank, Blank
<1>2. IInv /\ [Next]_vars => [Abstract!Next]_(Abstract!vars)
  BY RefinementStep DEF Abstract!vars, Published
<1>. QED BY <1>1, <1>2, InductiveInvariant, PTL
         DEF Spec, ImplementsNeighborExchange, Abstract!Spec

=============================================================================
