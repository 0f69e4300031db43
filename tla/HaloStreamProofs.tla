-------------------------- MODULE HaloStreamProofs --------------------------
(***************************************************************************)
(* Proofs about HaloExchangeStream for every topology with mutual neighbors, *)
(* every number of repetitions, with and without fusion, when no copy is     *)
(* made at once by the host. The exchange on a device is shown to be one of  *)
(* HaloExchange; what is proved of that holds of it.                         *)
(***************************************************************************)
EXTENDS HaloExchangeStream, SequenceTheorems, TLAPS

USE TopologyAssumption, StreamAssumption

(* Every port has a rank and a direction, and every rank has ports.          *)
LEMMA PortFacts ==
  /\ \A p \in Port : p[1] \in Rank /\ p[2] \in Dir /\ p = <<p[1], p[2]>>
  /\ \A r \in Rank, l \in Dir : <<r, l>> \in Port
  /\ 0 \in Dir /\ \A l \in Dir : l \in Nat /\ l < num_neighbors
  /\ \A p \in Port : Partner[p] \in Port /\ Partner[Partner[p]] = p
<1>1. \A p \in Port : p[1] \in Rank /\ p[2] \in Dir /\ p = <<p[1], p[2]>>
  BY DEF Port
<1>2. \A r \in Rank, l \in Dir : <<r, l>> \in Port
  BY DEF Port
<1>3. 0 \in Dir /\ \A l \in Dir : l \in Nat /\ l < num_neighbors
  BY DEF Dir
<1>4. \A p \in Port : Partner[p] \in Port /\ Partner[Partner[p]] = p
  BY <1>1, <1>2 DEF Partner
<1>. QED BY <1>1, <1>2, <1>3, <1>4

-----------------------------------------------------------------------------
(* The invariant *)

KernelType == [op : {"pack", "unpack"}, dirs : SUBSET Dir]
TypeInv ==
  /\ copy_by \in {"none", "device"} /\ fused \in BOOLEAN
  /\ sreq \in [Port -> Request] /\ rreq \in [Port -> Request]
  /\ sbuf \in [Port -> Data] /\ rbuf \in [Port -> Data]
  /\ pbuf \in [Port -> Data] /\ ubuf \in [Port -> Data] /\ halo \in [Port -> Data]
  /\ inFlight \in [Port -> Seq(Data)]
  /\ stream \in [Rank -> Seq(KernelType)]
  /\ pc \in [Rank -> {"post", "pack", "copy", "send", "unpack", "sync", "wait"}]
  /\ rep \in [Rank -> 0 .. Reps] /\ next \in [Rank -> 0 .. num_neighbors]

(* The kernels on a stream are of one kind, no direction is in two of them,  *)
(* and each has work that the host has not gone past.                        *)
AllOf(r, op) == \A i \in 1 .. Len(stream[r]) : stream[r][i].op = op
InOne(r) == \A i, j \in 1 .. Len(stream[r]) :
              i # j => stream[r][i].dirs \cap stream[r][j].dirs = {}
StreamInv(r) ==
  /\ InOne(r)
  /\ pc[r] \in {"post", "pack", "wait"} => stream[r] = <<>>
  /\ pc[r] \in {"copy", "send"} => AllOf(r, "pack")
  /\ pc[r] \in {"unpack", "sync"} => AllOf(r, "unpack")
  /\ pc[r] \in {"copy", "send"} /\ stream[r] # <<>> =>
       (fused => next[r] = 0) /\ (pc[r] = "send" => ~Separate)
  /\ \A l \in Dir : Uses(r, "pack", l) => l \in Packed(r)
  /\ \A l \in Dir : Uses(r, "unpack", l) => rreq[<<r, l>>] = "null"

PcOf(p) ==
  LET r == p[1]
  IN  /\ pc[r] = "post" => sreq[p] = "null" /\ rreq[p] = "null"
      /\ pc[r] # "post" => rep[r] < Reps
      /\ pc[r] \in {"pack", "copy", "send"} => next[r] \in Dir /\ rreq[p] # "null"
      /\ pc[r] = "pack" /\ fused => next[r] = 0
      /\ pc[r] = "copy" => Separate
      /\ pc[r] # "post" => (sreq[p] # "null" <=> IsSent(p))
      /\ pc[r] \in {"sync", "wait"} => rreq[p] = "null"

(* The boundary of this repetition is in the send buffer, or in the pack     *)
(* buffer; what is to be unpacked is what was received.                      *)
Loaded(p) ==
  \/ IsSent(p)
  \/ pc[p[1]] = "send" /\ p[2] \in Packed(p[1]) /\ ~Uses(p[1], "pack", p[2])
  \/ pc[p[1]] = "copy" /\ fused /\ p[2] < next[p[1]]
BuffersOf(p) ==
  /\ Loaded(p) => sbuf[p] = Boundary(p, rep[p[1]] + 1)
  /\ pc[p[1]] = "copy" /\ p[2] \in Packed(p[1]) /\ ~Uses(p[1], "pack", p[2]) =>
       pbuf[p] = Boundary(p, rep[p[1]] + 1)
  /\ Separate /\ Uses(p[1], "unpack", p[2]) => ubuf[p] = rbuf[p]

(* Only the last message of a port may be in its send buffer alone.          *)
WireOf(p) ==
  /\ sreq[p] = "active" => inFlight[p] # <<>>
  /\ \A i \in 1 .. Len(inFlight[p]) :
       inFlight[p][i] = Unread <=> i = Len(inFlight[p]) /\ sreq[p] = "active"

PortOf(p) == PcOf(p) /\ BuffersOf(p) /\ WireOf(p)
IInv ==
  /\ TypeInv
  /\ \A r \in Rank : StreamInv(r)
  /\ \A p \in Port : PortOf(p)

LEMMA BoundariesAreData ==
  /\ Blank \in Data /\ Unread \in Data
  /\ \A p \in Port, k \in Nat : Boundary(p, k) \in Data /\ Boundary(p, k) # Unread
BY DEF Blank, Unread, Boundary, Data

LEMMA InitIsFine == ASSUME Init, "host" \notin CopyKinds PROVE IInv
<1>1. TypeInv
  BY BoundariesAreData DEF Init, MpiInit, TypeInv, Request
<1>2. ASSUME NEW r \in Rank PROVE StreamInv(r)
  BY DEF Init, StreamInv, InOne, AllOf, Uses
<1>3. ASSUME NEW p \in Port PROVE PortOf(p)
  <2>1. /\ pc[p[1]] = "post" /\ sreq[p] = "null" /\ rreq[p] = "null"
        /\ inFlight[p] = <<>> /\ stream[p[1]] = <<>>
    BY PortFacts DEF Init, MpiInit
  <2>. QED BY <2>1 DEF PortOf, PcOf, BuffersOf, WireOf, Loaded, IsSent, Uses
<1>. QED BY <1>1, <1>2, <1>3 DEF IInv

-----------------------------------------------------------------------------
(* What does not change *)

SameSetting == copy_by' = copy_by /\ fused' = fused
SameRank(r) ==
  /\ pc'[r] = pc[r] /\ rep'[r] = rep[r] /\ next'[r] = next[r] /\ stream'[r] = stream[r]
SamePort(p) ==
  /\ sreq'[p] = sreq[p] /\ rreq'[p] = rreq[p] /\ sbuf'[p] = sbuf[p] /\ rbuf'[p] = rbuf[p]
  /\ pbuf'[p] = pbuf[p] /\ ubuf'[p] = ubuf[p] /\ inFlight'[p] = inFlight[p]

LEMMA SameStream ==
  ASSUME NEW r \in Rank, StreamInv(r), SameSetting, SameRank(r),
         \A l \in Dir : rreq[<<r, l>>] = "null" => rreq'[<<r, l>>] = "null"
  PROVE  StreamInv(r)'
<1>1. /\ \A op, l : Uses(r, op, l)' = Uses(r, op, l)
      /\ InOne(r)' = InOne(r) /\ Packed(r)' = Packed(r)
      /\ \A op : AllOf(r, op)' = AllOf(r, op)
  BY DEF SameRank, SameSetting, Uses, InOne, Packed, AllOf
<1>. QED BY <1>1 DEF StreamInv, SameSetting, SameRank, Separate

LEMMA SamePortKeeps ==
  ASSUME NEW p \in Port, PortOf(p), SameSetting, SameRank(p[1]), SamePort(p)
  PROVE  PortOf(p)'
<1>1. /\ \A op : Uses(p[1], op, p[2])' = Uses(p[1], op, p[2])
      /\ IsSent(p)' = IsSent(p) /\ Loaded(p)' = Loaded(p) /\ Packed(p[1])' = Packed(p[1])
      /\ Separate' = Separate
  BY DEF SameRank, SameSetting, Uses, IsSent, Loaded, Packed, Separate
<1>2. PcOf(p)'
  BY <1>1 DEF PortOf, PcOf, SameSetting, SameRank, SamePort
<1>3. BuffersOf(p)'
  BY <1>1 DEF PortOf, BuffersOf, SameRank, SamePort, Boundary
<1>4. WireOf(p)'
  BY DEF PortOf, WireOf, SamePort, Unread
<1>. QED BY <1>2, <1>3, <1>4 DEF PortOf

(* The host's view of a rank and of a port.                                  *)
SameHost(r) ==
  /\ HostPc(r)' = HostPc(r)
  /\ host_next'[r] = host_next[r]
  /\ \A l \in Dir : /\ HostRequest(<<r, l>>)' = HostRequest(<<r, l>>)
                    /\ Sent(<<r, l>>)' = Sent(<<r, l>>)

LEMMA SameRankSameHost ==
  ASSUME NEW r \in Rank, SameSetting, SameRank(r),
         \A l \in Dir : rreq'[<<r, l>>] = rreq[<<r, l>>]
  PROVE  SameHost(r)
<1>1. \A l \in Dir : /\ HostRequest(<<r, l>>)' = HostRequest(<<r, l>>)
                     /\ Sent(<<r, l>>)' = Sent(<<r, l>>)
  BY DEF SameRank, SameSetting, HostRequest, Uses, Sent, IsSent
<1>2. HostPc(r)' = HostPc(r)
  BY <1>1 DEF SameRank, HostPc
<1>3. host_next'[r] = host_next[r]
  BY DEF host_next, SameRank, SameSetting
<1>. QED BY <1>1, <1>2, <1>3 DEF SameHost

LEMMA SameHostsStutter ==
  ASSUME \A r \in Rank : SameHost(r)
  PROVE  UNCHANGED <<host_pc, host_next, host_rreq, host_sbuf>>
<1>1. ASSUME NEW p \in Port PROVE HostRequest(p)' = HostRequest(p) /\ Sent(p)' = Sent(p)
  <2>1. PICK r \in Rank, l \in Dir : p = <<r, l>>
    BY DEF Port
  <2>. QED BY <2>1, Zenon DEF SameHost
<1>2. host_rreq' = host_rreq
  BY <1>1, Zenon DEF host_rreq
<1>3. host_sbuf' = host_sbuf
  BY <1>1 DEF host_sbuf, Blank, Boundary
<1>4. host_pc' = host_pc
  BY Zenon DEF SameHost, host_pc
<1>5. host_next' = host_next
  BY DEF SameHost, host_next
<1>. QED BY <1>2, <1>3, <1>4, <1>5

(* A step of one rank: the others, and their ports, are as they were.        *)
OnlyRank(r) ==
  /\ SameSetting
  /\ \A q \in Rank : q # r => SameRank(q)
  /\ \A p \in Port : p[1] # r => SamePort(p)

LEMMA OthersKeep ==
  ASSUME IInv, NEW r \in Rank, OnlyRank(r), TypeInv', StreamInv(r)',
         \A l \in Dir : PortOf(<<r, l>>)'
  PROVE  IInv' /\ \A q \in Rank : q # r => SameHost(q)
<1>1. ASSUME NEW q \in Rank, q # r PROVE \A l \in Dir : rreq'[<<q, l>>] = rreq[<<q, l>>]
  <2>1. ASSUME NEW l \in Dir PROVE rreq'[<<q, l>>] = rreq[<<q, l>>]
    <3>1. PICK p \in Port : p = <<q, l>>
      BY DEF Port
    <3>2. p[1] # r
      BY <3>1, <1>1
    <3>. QED BY <3>1, <3>2 DEF OnlyRank, SamePort
  <2>. QED BY <2>1
<1>2. ASSUME NEW q \in Rank PROVE StreamInv(q)'
  BY <1>1, SameStream DEF OnlyRank, IInv
<1>3. ASSUME NEW p \in Port PROVE PortOf(p)'
  <2>1. CASE p[1] # r
    BY <2>1, SamePortKeeps, PortFacts DEF OnlyRank, IInv
  <2>2. CASE p[1] = r
    BY <2>2, PortFacts, Zenon
  <2>. QED BY <2>1, <2>2
<1>4. ASSUME NEW q \in Rank, q # r PROVE SameHost(q)
  BY <1>1, <1>4, SameRankSameHost DEF OnlyRank
<1>. QED BY <1>2, <1>3, <1>4 DEF IInv

LEMMA HostAfter ==
  ASSUME NEW r \in Rank, \A q \in Rank : q # r => SameHost(q)
  PROVE  /\ host_pc' = [host_pc EXCEPT ![r] = HostPc(r)']
         /\ host_next' = [host_next EXCEPT ![r] = host_next'[r]]
         /\ host_rreq' = [p \in Port |-> IF p[1] = r THEN HostRequest(p)' ELSE host_rreq[p]]
         /\ \A p \in Port : p[1] # r => host_sbuf'[p] = host_sbuf[p]
<1>1. ASSUME NEW p \in Port, p[1] # r PROVE HostRequest(p)' = HostRequest(p) /\ Sent(p)' = Sent(p)
  <2>1. PICK q \in Rank, l \in Dir : p = <<q, l>>
    BY DEF Port
  <2>2. q # r
    BY <2>1, <1>1
  <2>. QED BY <2>1, <2>2, Zenon DEF SameHost
<1>2. host_pc' = [host_pc EXCEPT ![r] = HostPc(r)']
  BY DEF host_pc, SameHost
<1>3. host_next' = [host_next EXCEPT ![r] = host_next'[r]]
  <2>1. /\ host_next' = [q \in Rank |-> host_next'[q]]
        /\ host_next = [q \in Rank |-> host_next[q]]
    BY DEF host_next
  <2>2. \A q \in Rank : q # r => host_next'[q] = host_next[q]
    BY DEF SameHost
  <2>. QED BY <2>1, <2>2
<1>4. host_rreq' = [p \in Port |-> IF p[1] = r THEN HostRequest(p)' ELSE host_rreq[p]]
  BY <1>1 DEF host_rreq
<1>5. \A p \in Port : p[1] # r => host_sbuf'[p] = host_sbuf[p]
  BY <1>1 DEF host_sbuf, Blank, Boundary
<1>. QED BY <1>2, <1>3, <1>4, <1>5

LEMMA HostNames ==
  /\ Host!Port = Port /\ Host!Dir = Dir /\ Host!Blank = Blank /\ Host!Unread = Unread
  /\ \A p, k : Host!Boundary(p, k) = Boundary(p, k)
BY DEF Host!Port, Host!Dir, Port, Dir, Host!Blank, Host!Unread, Blank, Unread,
       Host!Boundary, Boundary

-----------------------------------------------------------------------------
(* The steps of the host *)

LEMMA PostStep ==
  ASSUME IInv, NEW r \in Rank, PostReceives(r)
  PROVE  IInv' /\ Host!PostReceives(r)
<1>1. /\ TypeInv /\ StreamInv(r) /\ \A p \in Port : PortOf(p)
      /\ pc[r] = "post" /\ stream[r] = <<>> /\ rep[r] < Reps
  BY DEF IInv, StreamInv, PostReceives
<1>2. /\ SameSetting /\ rreq' = [p \in Port |-> IF p[1] = r THEN "active" ELSE rreq[p]]
      /\ pc' = [pc EXCEPT ![r] = "pack"] /\ next' = [next EXCEPT ![r] = 0]
      /\ UNCHANGED <<sreq, sbuf, rbuf, inFlight, rep, halo, stream, pbuf, ubuf>>
  BY DEF PostReceives, IrecvAll, SameSetting, setting, deviceVars
<1>3. TypeInv'
  BY <1>1, <1>2 DEF TypeInv, SameSetting, Request
<1>4. pc'[r] = "pack" /\ next'[r] = 0 /\ stream'[r] = <<>>
  BY <1>1, <1>2 DEF TypeInv
<1>5. OnlyRank(r)
  BY <1>1, <1>2 DEF OnlyRank, SameRank, SamePort, TypeInv
<1>6. StreamInv(r)'
  BY <1>4 DEF StreamInv, InOne, AllOf, Uses
<1>7. ASSUME NEW l \in Dir PROVE PortOf(<<r, l>>)'
  <2>1. PICK p \in Port : p = <<r, l>>
    BY DEF Port
  <2>2. p[1] = r /\ p[2] \in Nat /\ 0 \in Dir
    BY <2>1, PortFacts
  <2>3. sreq[p] = "null" /\ rreq'[p] = "active" /\ WireOf(p)
    BY <1>1, <1>2, <2>2 DEF PortOf, PcOf
  <2>4. ~IsSent(p)' /\ ~Loaded(p)'
    BY <1>4, <2>2 DEF IsSent, Loaded
  <2>5. PcOf(p)'
    BY <1>1, <1>2, <1>4, <2>2, <2>3, <2>4 DEF PcOf
  <2>6. BuffersOf(p)'
    BY <1>4, <2>2, <2>4 DEF BuffersOf, Uses
  <2>7. WireOf(p)'
    BY <1>2, <2>3 DEF WireOf, Unread
  <2>. QED BY <2>1, <2>5, <2>6, <2>7 DEF PortOf
<1>8. IInv' /\ \A q \in Rank : q # r => SameHost(q)
  BY <1>3, <1>5, <1>6, <1>7, OthersKeep
<1>9. Host!PostReceives(r)
  <2>1. /\ host_pc[r] = "post" /\ HostPc(r)' = "pack" /\ host_next'[r] = 0
    BY <1>1, <1>4 DEF host_pc, HostPc, host_next
  <2>2. host_rreq' = [p \in Port |-> IF p[1] = r THEN "active" ELSE host_rreq[p]]
    <3>1. ASSUME NEW p \in Port, p[1] = r PROVE HostRequest(p)' = "active"
      BY <1>2, <1>4, <3>1 DEF HostRequest, Uses
    <3>. QED BY <3>1, <1>8, HostAfter
  <2>3. host_pc' = [host_pc EXCEPT ![r] = "pack"] /\ host_next' = [host_next EXCEPT ![r] = 0]
    BY <2>1, <1>8, HostAfter
  <2>4. host_sbuf' = host_sbuf
    <3>1. ASSUME NEW p \in Port PROVE host_sbuf'[p] = host_sbuf[p]
      <4>1. CASE p[1] # r
        BY <4>1, <1>8, HostAfter
      <4>2. CASE p[1] = r
        <5>1. ~IsSent(p)' /\ ~IsSent(p)
          BY <1>1, <1>4, <4>2, PortFacts DEF IsSent
        <5>2. Sent(p)' = Sent(p)
          BY <5>1, <1>2 DEF Sent
        <5>. QED BY <5>2 DEF host_sbuf, Boundary, Blank
      <4>. QED BY <4>1, <4>2
    <3>. QED BY <3>1 DEF host_sbuf
  <2>. QED BY <1>1, <1>2, <2>1, <2>2, <2>3, <2>4, HostNames DEF Host!PostReceives, Host!IrecvAll
<1>. QED BY <1>8, <1>9

LEMMA HostStutters ==
  ASSUME \A q \in Rank : SameHost(q), UNCHANGED <<sreq, rbuf, inFlight, rep, halo>>
  PROVE  UNCHANGED Host!vars
BY SameHostsStutter DEF Host!vars, Host!mpiVars, Host!hostVars

LEMMA LaunchPackStep ==
  ASSUME IInv, NEW r \in Rank, LaunchPack(r)
  PROVE  IInv' /\ UNCHANGED Host!vars
<1>1. /\ TypeInv /\ StreamInv(r) /\ \A p \in Port : PortOf(p)
      /\ pc[r] = "pack" /\ stream[r] = <<>>
  BY DEF IInv, StreamInv, LaunchPack
<1>2. /\ SameSetting /\ stream' = [stream EXCEPT ![r] = Append(@, Kernel("pack", Packed(r)))]
      /\ pc' = [pc EXCEPT ![r] = IF Separate THEN "copy" ELSE "send"]
      /\ UNCHANGED <<sreq, rreq, sbuf, rbuf, inFlight, rep, next, halo, pbuf, ubuf>>
  BY DEF LaunchPack, SameSetting, setting, mpiVars
<1>3. next[r] \in Dir /\ (fused => next[r] = 0) /\ Packed(r) \subseteq Dir
  <2>1. PICK p \in Port : p = <<r, 0>>
    BY PortFacts
  <2>2. p[1] = r /\ PcOf(p)
    BY <1>1, <2>1 DEF PortOf
  <2>. QED BY <1>1, <2>2 DEF PcOf, Packed
<1>4. /\ pc'[r] = IF Separate THEN "copy" ELSE "send"
      /\ stream'[r] = <<Kernel("pack", Packed(r))>> /\ next'[r] = next[r]
  BY <1>1, <1>2 DEF TypeInv
<1>5. TypeInv'
  <2>1. Kernel("pack", Packed(r)) \in KernelType
    BY <1>3 DEF Kernel, KernelType
  <2>2. stream' \in [Rank -> Seq(KernelType)]
    BY <1>1, <1>2, <2>1 DEF TypeInv
  <2>. QED BY <1>1, <1>2, <2>2 DEF TypeInv, SameSetting
<1>6. OnlyRank(r)
  BY <1>1, <1>2 DEF OnlyRank, SameRank, SamePort, TypeInv
<1>7. /\ Packed(r)' = Packed(r) /\ Separate' = Separate
      /\ \A l \in Dir : (Uses(r, "pack", l)' <=> l \in Packed(r)) /\ ~Uses(r, "unpack", l)'
  BY <1>2, <1>4 DEF Packed, Separate, SameSetting, Uses, Kernel
<1>8. StreamInv(r)'
  <2>1. InOne(r)' /\ AllOf(r, "pack")'
    BY <1>4 DEF InOne, AllOf, Kernel
  <2>. QED BY <1>2, <1>3, <1>4, <1>7, <2>1 DEF StreamInv, SameSetting
<1>9. ASSUME NEW l \in Dir
      PROVE  /\ PortOf(<<r, l>>)' /\ Sent(<<r, l>>)' = Sent(<<r, l>>)
             /\ HostRequest(<<r, l>>)' = HostRequest(<<r, l>>)
  <2>1. PICK p \in Port : p = <<r, l>>
    BY DEF Port
  <2>2. p[1] = r /\ p[2] = l /\ l \in Nat /\ PcOf(p) /\ BuffersOf(p) /\ WireOf(p)
    BY <1>1, <2>1, PortFacts DEF PortOf
  <2>3. IsSent(p)' <=> IsSent(p)
    BY <1>1, <1>2, <1>3, <1>4, <2>2 DEF IsSent, SameSetting
  <2>4. Loaded(p)' => IsSent(p)
    BY <1>2, <1>3, <1>4, <1>7, <2>2, <2>3 DEF Loaded, SameSetting
  <2>5. PcOf(p)'
    BY <1>1, <1>2, <1>4, <1>7, <2>2, <2>3 DEF PcOf, SameSetting
  <2>6. BuffersOf(p)'
    BY <1>2, <1>7, <2>2, <2>4 DEF BuffersOf, Loaded, Boundary
  <2>7. WireOf(p)'
    BY <1>2, <2>2 DEF WireOf, Unread
  <2>8. Sent(p)' = Sent(p)
    BY <1>2, <2>3 DEF Sent
  <2>9. HostRequest(p)' = HostRequest(p)
    BY <1>1, <1>2, <1>7, <2>2 DEF HostRequest, Uses
  <2>. QED BY <2>1, <2>5, <2>6, <2>7, <2>8, <2>9 DEF PortOf
<1>10. SameHost(r)
  <2>1. HostPc(r)' = HostPc(r)
    BY <1>1, <1>4 DEF HostPc
  <2>2. host_next'[r] = host_next[r]
    BY <1>1, <1>2, <1>3, <1>4 DEF host_next, SameSetting
  <2>. QED BY <1>9, <2>1, <2>2 DEF SameHost
<1>11. IInv' /\ \A q \in Rank : q # r => SameHost(q)
  BY <1>5, <1>6, <1>8, <1>9, OthersKeep
<1>. QED BY <1>2, <1>10, <1>11, HostStutters

(* A copy by the device has waited for the kernels.                          *)
LEMMA CopyStep ==
  ASSUME IInv, NEW r \in Rank, CopyPacked(r)
  PROVE  IInv' /\ UNCHANGED Host!vars
<1>. DEFINE n == next[r]
            goes == fused /\ ~IsLast(n)
<1>1. /\ TypeInv /\ StreamInv(r) /\ \A p \in Port : PortOf(p)
      /\ pc[r] = "copy" /\ stream[r] = <<>>
  BY DEF IInv, CopyPacked, CopyMayRun, TypeInv
<1>2. /\ SameSetting /\ sbuf' = [sbuf EXCEPT ![<<r, n>>] = pbuf[<<r, n>>]]
      /\ pc' = IF goes THEN pc ELSE [pc EXCEPT ![r] = "send"]
      /\ next' = IF fused THEN [next EXCEPT ![r] = IF IsLast(n) THEN 0 ELSE n + 1] ELSE next
      /\ UNCHANGED <<sreq, rreq, rbuf, inFlight, rep, halo, stream, pbuf, ubuf>>
  BY DEF CopyPacked, SameSetting, setting, deviceVars
<1>3. n \in Dir /\ Separate /\ n \in Nat /\ num_neighbors \in Nat
  <2>1. PICK p \in Port : p = <<r, 0>>
    BY PortFacts
  <2>2. p[1] = r /\ PcOf(p)
    BY <1>1, <2>1 DEF PortOf
  <2>. QED BY <1>1, <2>2, PortFacts DEF PcOf
<1>. HIDE DEF n
<1>4. /\ pc'[r] = (IF goes THEN "copy" ELSE "send") /\ stream'[r] = <<>>
      /\ next'[r] = IF goes THEN n + 1 ELSE IF fused THEN 0 ELSE n
  BY <1>1, <1>2 DEF TypeInv, n
<1>5. next'[r] \in Dir
  BY <1>3, <1>4 DEF IsLast, Dir
<1>6. PICK x \in Port : x = <<r, n>>
  BY <1>3, PortFacts
<1>7. pbuf[x] = Boundary(x, rep[r] + 1) /\ sbuf' = [sbuf EXCEPT ![x] = pbuf[x]]
  <2>1. BuffersOf(x) /\ x[1] = r /\ x[2] = n
    BY <1>1, <1>6 DEF PortOf
  <2>2. n \in Packed(r) /\ ~Uses(r, "pack", n)
    BY <1>1, <1>3 DEF Packed, n, Uses
  <2>. QED BY <1>1, <1>2, <1>6, <2>1, <2>2 DEF BuffersOf
<1>8. TypeInv'
  <2>1. next' \in [Rank -> 0 .. num_neighbors]
    <3>1. n + 1 \in 0 .. num_neighbors \/ IsLast(n)
      BY <1>3 DEF Dir, IsLast
    <3>. QED BY <1>1, <1>2, <1>3, <3>1 DEF TypeInv
  <2>. QED BY <1>1, <1>2, <1>6, <2>1 DEF TypeInv, SameSetting
<1>9. OnlyRank(r)
  <2>1. \A p \in Port : p[1] # r => sbuf'[p] = sbuf[p]
    BY <1>1, <1>6, <1>7 DEF TypeInv
  <2>. QED BY <1>1, <1>2, <2>1 DEF OnlyRank, SameRank, SamePort, TypeInv
<1>10. StreamInv(r)'
  BY <1>4 DEF StreamInv, InOne, AllOf, Uses
<1>11. ASSUME NEW l \in Dir
       PROVE  /\ PortOf(<<r, l>>)' /\ Sent(<<r, l>>)' = Sent(<<r, l>>)
              /\ HostRequest(<<r, l>>)' = HostRequest(<<r, l>>)
  <2>1. PICK p \in Port : p = <<r, l>>
    BY DEF Port
  <2>2. p[1] = r /\ p[2] = l /\ l \in Nat /\ l < num_neighbors
        /\ PcOf(p) /\ BuffersOf(p) /\ WireOf(p)
    BY <1>1, <2>1, PortFacts DEF PortOf
  <2>3. IsSent(p)' <=> IsSent(p)
    BY <1>1, <1>2, <1>4, <2>2 DEF IsSent, SameSetting, n
  <2>4. sbuf'[p] = IF l = n THEN Boundary(p, rep[r] + 1) ELSE sbuf[p]
    BY <1>1, <1>6, <1>7, <2>1 DEF TypeInv
  <2>5. Loaded(p)' => Loaded(p) \/ l = n
    <3>1. CASE IsSent(p)'
      BY <3>1, <2>3 DEF Loaded
    <3>2. CASE goes /\ l < n + 1
      BY <3>2, <1>1, <1>3, <2>2 DEF Loaded, n
    <3>3. CASE fused /\ IsLast(n)
      BY <3>3, <1>1, <1>3, <2>2 DEF Loaded, n, IsLast
    <3>4. CASE ~fused /\ l \in Packed(r)'
      BY <3>4, <1>2 DEF Packed, SameSetting, n
    <3>. QED BY <1>2, <1>4, <2>2, <3>1, <3>2, <3>3, <3>4 DEF Loaded, SameSetting
  <2>6. PcOf(p)'
    BY <1>1, <1>2, <1>3, <1>4, <1>5, <2>2, <2>3 DEF PcOf, SameSetting, Separate
  <2>7. BuffersOf(p)'
    <3>1. Loaded(p)' => sbuf'[p] = Boundary(p, rep[r] + 1)
      BY <2>2, <2>4, <2>5 DEF BuffersOf
    <3>2. pc'[r] = "copy" => fused /\ pbuf[p] = Boundary(p, rep[r] + 1)
      BY <1>1, <1>4, <2>2 DEF BuffersOf, Packed, Uses
    <3>3. ~Uses(r, "unpack", l)'
      BY <1>4 DEF Uses
    <3>. QED BY <1>2, <2>2, <3>1, <3>2, <3>3 DEF BuffersOf, Boundary
  <2>8. WireOf(p)'
    BY <1>2, <2>2 DEF WireOf, Unread
  <2>9. Sent(p)' = Sent(p) /\ HostRequest(p)' = HostRequest(p)
    BY <1>2, <2>3 DEF Sent, HostRequest, Uses
  <2>. QED BY <2>1, <2>6, <2>7, <2>8, <2>9 DEF PortOf
<1>12. SameHost(r)
  <2>1. HostPc(r)' = HostPc(r)
    BY <1>1, <1>4 DEF HostPc
  <2>2. host_next'[r] = host_next[r]
    BY <1>1, <1>2, <1>4 DEF host_next, SameSetting, n
  <2>. QED BY <1>11, <2>1, <2>2 DEF SameHost
<1>13. IInv' /\ \A q \in Rank : q # r => SameHost(q)
  BY <1>8, <1>9, <1>10, <1>11, OthersKeep
<1>. QED BY <1>2, <1>12, <1>13, HostStutters

LEMMA SendStep ==
  ASSUME IInv, NEW r \in Rank, SyncAndSend(r)
  PROVE  IInv' /\ Host!PackAndSend(r)
<1>. DEFINE n == next[r]
            pc_r == CASE IsLast(n) -> "unpack"
                      [] ~IsLast(n) /\ fused -> "send"
                      [] OTHER -> "pack"
<1>1. /\ TypeInv /\ StreamInv(r) /\ \A p \in Port : PortOf(p)
      /\ pc[r] = "send" /\ stream[r] = <<>>
  BY DEF IInv, SyncAndSend, StreamDone
<1>2. /\ SameSetting /\ sreq' = [sreq EXCEPT ![<<r, n>>] = "active"]
      /\ inFlight' = [inFlight EXCEPT ![<<r, n>>] = Append(@, Unread)]
      /\ next' = [next EXCEPT ![r] = n + 1] /\ pc' = [pc EXCEPT ![r] = pc_r]
      /\ UNCHANGED <<rreq, sbuf, rbuf, rep, halo, stream, pbuf, ubuf>>
  BY DEF SyncAndSend, Isend, SameSetting, setting, deviceVars
<1>3. n \in Dir /\ n \in Nat /\ num_neighbors \in Nat
  <2>1. PICK p \in Port : p = <<r, 0>>
    BY PortFacts
  <2>2. p[1] = r /\ PcOf(p)
    BY <1>1, <2>1 DEF PortOf
  <2>. QED BY <1>1, <2>2, PortFacts DEF PcOf
<1>. HIDE DEF n
<1>4. pc'[r] = pc_r /\ stream'[r] = <<>> /\ next'[r] = n + 1
  BY <1>1, <1>2 DEF TypeInv
<1>5. n + 1 \in Dir \/ IsLast(n)
  BY <1>3 DEF IsLast, Dir
<1>6. PICK x \in Port : x = <<r, n>>
  BY <1>3, PortFacts
<1>7. /\ sbuf[x] = Boundary(x, rep[r] + 1) /\ sreq[x] = "null" /\ x[1] = r /\ x[2] = n
      /\ ~IsSent(x) /\ rep[r] < Reps
  <2>1. PcOf(x) /\ BuffersOf(x) /\ x[1] = r /\ x[2] = n
    BY <1>1, <1>6 DEF PortOf
  <2>2. n \in Packed(r) /\ ~Uses(r, "pack", n)
    BY <1>1, <1>3 DEF Packed, n, Uses
  <2>3. ~IsSent(x)
    BY <1>1, <1>3, <2>1 DEF IsSent, n
  <2>. QED BY <1>1, <2>1, <2>2, <2>3 DEF BuffersOf, Loaded, PcOf
<1>8. TypeInv'
  <2>1. n + 1 \in 0 .. num_neighbors
    BY <1>3 DEF Dir
  <2>2. Append(inFlight[x], Unread) \in Seq(Data)
    BY <1>1, <1>6, BoundariesAreData DEF TypeInv
  <2>3. inFlight' \in [Port -> Seq(Data)]
    BY <1>1, <1>2, <1>6, <2>2 DEF TypeInv
  <2>. QED BY <1>1, <1>2, <2>1, <2>3 DEF TypeInv, SameSetting, Request
<1>9. OnlyRank(r)
  <2>1. \A p \in Port : p # x => sreq'[p] = sreq[p] /\ inFlight'[p] = inFlight[p]
    BY <1>1, <1>2, <1>6 DEF TypeInv
  <2>. QED BY <1>1, <1>2, <1>7, <2>1 DEF OnlyRank, SameRank, SamePort, TypeInv
<1>10. StreamInv(r)'
  BY <1>4 DEF StreamInv, InOne, AllOf, Uses
<1>11. \A p \in Port : p[1] = r => (IsSent(p)' <=> IsSent(p) \/ p = x)
  <2>1. ASSUME NEW p \in Port, p[1] = r PROVE IsSent(p)' <=> IsSent(p) \/ p = x
    <3>1. p[2] \in Nat /\ p[2] < num_neighbors /\ p = <<r, p[2]>> /\ (p = x <=> p[2] = n)
      BY <2>1, <1>6, <1>7, PortFacts
    <3>2. IsSent(p) <=> p[2] < n
      BY <1>1, <2>1 DEF IsSent, n
    <3>3. IsSent(p)' <=> p[2] < n + 1
      BY <1>2, <1>3, <1>4, <2>1, <3>1 DEF IsSent, IsLast, SameSetting
    <3>4. p[2] < n + 1 <=> p[2] < n \/ p[2] = n
      BY <1>3, <3>1
    <3>. QED BY <3>1, <3>2, <3>3, <3>4
  <2>. QED BY <2>1
<1>12. ASSUME NEW l \in Dir PROVE PortOf(<<r, l>>)'
  <2>1. PICK p \in Port : p = <<r, l>>
    BY DEF Port
  <2>2. p[1] = r /\ p[2] = l /\ l \in Nat /\ PcOf(p) /\ BuffersOf(p) /\ WireOf(p)
    BY <1>1, <2>1, PortFacts DEF PortOf
  <2>3. IsSent(p)' <=> IsSent(p) \/ p = x
    BY <1>11, <2>2
  <2>4. sreq'[p] = IF p = x THEN "active" ELSE sreq[p]
    BY <1>1, <1>2, <1>6 DEF TypeInv
  <2>5. PcOf(p)'
    BY <1>1, <1>2, <1>4, <1>5, <2>2, <2>3, <2>4 DEF PcOf, SameSetting
  <2>6. BuffersOf(p)'
    <3>1. Loaded(p)' => Loaded(p) \/ p = x
      <4>1. CASE IsSent(p)'
        BY <4>1, <2>3 DEF Loaded
      <4>2. CASE fused
        BY <4>2, <1>1, <1>3, <2>2 DEF Loaded, Packed, Uses
      <4>. QED BY <1>2, <1>4, <2>2, <4>1, <4>2 DEF Loaded, SameSetting
    <3>2. Loaded(p) \/ p = x => sbuf[p] = Boundary(p, rep[r] + 1)
      BY <1>7, <2>2 DEF BuffersOf
    <3>3. ~Uses(r, "unpack", l)' /\ pc'[r] # "copy"
      BY <1>4 DEF Uses
    <3>. QED BY <1>2, <2>2, <3>1, <3>2, <3>3 DEF BuffersOf, Boundary
  <2>7. WireOf(p)'
    <3>1. CASE p # x
      <4>1. inFlight'[p] = inFlight[p]
        BY <1>1, <1>2, <1>6, <3>1 DEF TypeInv
      <4>. QED BY <2>2, <2>4, <3>1, <4>1 DEF WireOf, Unread
    <3>2. CASE p = x
      <4>1. inFlight'[p] = Append(inFlight[p], Unread) /\ inFlight[p] \in Seq(Data) /\ Unread \in Data
        BY <1>1, <1>2, <1>6, <3>2, BoundariesAreData DEF TypeInv
      <4>2. \A i \in 1 .. Len(inFlight[p]) : inFlight[p][i] # Unread
        BY <1>7, <2>2, <3>2 DEF WireOf
      <4>3. /\ Len(inFlight'[p]) = Len(inFlight[p]) + 1 /\ Len(inFlight[p]) \in Nat
            /\ \A i \in 1 .. Len(inFlight[p]) : inFlight'[p][i] = inFlight[p][i]
            /\ inFlight'[p][Len(inFlight[p]) + 1] = Unread
        BY <4>1
      <4>4. \A i \in 1 .. Len(inFlight'[p]) : inFlight'[p][i] = Unread <=> i = Len(inFlight'[p])
        BY <4>2, <4>3
      <4>5. inFlight'[p] # <<>>
        BY <4>3
      <4>. QED BY <2>4, <3>2, <4>4, <4>5 DEF WireOf, Unread
    <3>. QED BY <3>1, <3>2
  <2>. QED BY <2>1, <2>5, <2>6, <2>7 DEF PortOf
<1>13. IInv' /\ \A q \in Rank : q # r => SameHost(q)
  BY <1>8, <1>9, <1>10, <1>12, OthersKeep
<1>14. Host!PackAndSend(r)
  <2>1. host_pc[r] = "pack" /\ host_next[r] = n /\ host_next'[r] = n + 1
    BY <1>1, <1>2, <1>4 DEF host_pc, HostPc, host_next, n, SameSetting
  <2>2. host_next' = [host_next EXCEPT ![r] = @ + 1]
    BY <1>13, <2>1, HostAfter DEF host_next
  <2>3. ASSUME NEW p \in Port, p[1] = r
        PROVE  HostRequest(p)' = HostRequest(p) /\ HostRequest(p)' = rreq[p] /\ rreq[p] # "null"
    BY <1>1, <1>2, <1>4, <2>3 DEF HostRequest, Uses, PortOf, PcOf
  <2>4. host_rreq' = host_rreq
    <3>1. host_rreq' = [p \in Port |-> IF p[1] = r THEN HostRequest(p)' ELSE host_rreq[p]]
      BY <1>13, HostAfter
    <3>2. \A p \in Port : p[1] = r => host_rreq[p] = HostRequest(p)'
      BY <2>3 DEF host_rreq
    <3>3. host_rreq' = [p \in Port |-> host_rreq[p]]
      BY <3>1, <3>2
    <3>. QED BY <3>3 DEF host_rreq
  <2>5. host_pc' = IF IsLast(n) THEN [host_pc EXCEPT ![r] = "unpack"] ELSE host_pc
    <3>1. HostRequest(x)' # "null"
      BY <1>7, <2>3
    <3>2. HostPc(r)' = IF IsLast(n) THEN "unpack" ELSE "pack"
      <4>1. x = <<r, x[2]>> /\ x[2] \in Dir
        BY <1>3, <1>6, <1>7
      <4>2. CASE IsLast(n)
        <5>1. pc'[r] = "unpack"
          BY <1>4, <4>2
        <5>2. HostPc(r)' = IF \A l \in Dir : HostRequest(<<r, l>>)' = "null" THEN "wait" ELSE "unpack"
          BY <5>1 DEF HostPc
        <5>. QED BY <3>1, <4>1, <4>2, <5>2, Zenon
      <4>3. CASE ~IsLast(n)
        <5>1. pc'[r] \in {"pack", "send"}
          BY <1>4, <4>3
        <5>. QED BY <4>3, <5>1 DEF HostPc
      <4>. QED BY <4>2, <4>3
    <3>3. host_pc' = [host_pc EXCEPT ![r] = HostPc(r)']
      BY <1>13, HostAfter
    <3>4. host_pc = [q \in Rank |-> host_pc[q]]
      BY DEF host_pc
    <3>. QED BY <2>1, <3>2, <3>3, <3>4
  <2>6. host_sbuf' = [host_sbuf EXCEPT ![x] = Boundary(x, rep[r] + 1)]
    <3>1. ASSUME NEW p \in Port, p # x PROVE host_sbuf'[p] = host_sbuf[p]
      <4>1. CASE p[1] # r
        BY <4>1, <1>13, HostAfter
      <4>2. CASE p[1] = r
        <5>1. Sent(p)' = Sent(p)
          BY <3>1, <4>2, <1>2, <1>11 DEF Sent
        <5>. QED BY <5>1 DEF host_sbuf, Boundary, Blank
      <4>. QED BY <4>1, <4>2
    <3>2. host_sbuf'[x] = Boundary(x, rep[r] + 1)
      <4>1. Sent(x)' = rep[r] + 1 /\ rep[r] \in Nat
        BY <1>1, <1>2, <1>7, <1>11 DEF Sent, TypeInv
      <4>. QED BY <4>1 DEF host_sbuf, Boundary, Blank
    <3>3. host_sbuf' = [p \in Port |-> host_sbuf'[p]] /\ host_sbuf = [p \in Port |-> host_sbuf[p]]
      BY DEF host_sbuf
    <3>. QED BY <3>1, <3>2, <3>3
  <2>7. Host!IsLast(host_next[r]) <=> IsLast(n)
    BY <2>1 DEF Host!IsLast, IsLast
  <2>. QED BY <1>2, <1>6, <2>1, <2>2, <2>4, <2>5, <2>6, <2>7, HostNames
           DEF Host!PackAndSend, Host!Isend
<1>. QED BY <1>13, <1>14

LEMMA WaitStep ==
  ASSUME IInv, NEW r \in Rank, WaitSends(r)
  PROVE  IInv' /\ Host!WaitSends(r)
<1>1. /\ TypeInv /\ StreamInv(r) /\ \A p \in Port : PortOf(p)
      /\ pc[r] = "wait" /\ stream[r] = <<>> /\ AllComplete(sreq, r)
  BY DEF IInv, WaitSends, StreamInv
<1>2. /\ SameSetting /\ sreq' = [p \in Port |-> IF p[1] = r THEN "null" ELSE sreq[p]]
      /\ rep' = [rep EXCEPT ![r] = @ + 1] /\ pc' = [pc EXCEPT ![r] = "post"]
      /\ UNCHANGED <<rreq, sbuf, rbuf, inFlight, next, halo, stream, pbuf, ubuf>>
  BY DEF WaitSends, NullAll, SameSetting, setting, deviceVars
<1>3. rep[r] < Reps /\ rep[r] \in Nat
  <2>1. PICK p \in Port : p = <<r, 0>>
    BY PortFacts
  <2>2. p[1] = r /\ PcOf(p)
    BY <1>1, <2>1 DEF PortOf
  <2>. QED BY <1>1, <2>2 DEF PcOf, TypeInv
<1>4. pc'[r] = "post" /\ stream'[r] = <<>> /\ rep'[r] = rep[r] + 1
  BY <1>1, <1>2 DEF TypeInv
<1>5. TypeInv'
  <2>1. rep' \in [Rank -> 0 .. Reps]
    BY <1>1, <1>2, <1>3 DEF TypeInv
  <2>. QED BY <1>1, <1>2, <2>1 DEF TypeInv, SameSetting, Request
<1>6. OnlyRank(r)
  BY <1>1, <1>2 DEF OnlyRank, SameRank, SamePort, TypeInv
<1>7. StreamInv(r)'
  BY <1>4 DEF StreamInv, InOne, AllOf, Uses
<1>8. ASSUME NEW p \in Port, p[1] = r
      PROVE  /\ PortOf(p)' /\ Sent(p)' = Sent(p)
             /\ HostRequest(p) = "null" /\ HostRequest(p)' = "null"
  <2>1. PcOf(p) /\ WireOf(p) /\ p[2] \in Dir /\ p = <<r, p[2]>>
    BY <1>1, <1>8, PortFacts DEF PortOf
  <2>2. sreq[p] = "complete" /\ sreq'[p] = "null" /\ rreq[p] = "null"
    BY <1>1, <1>2, <1>8, <2>1 DEF AllComplete, PcOf
  <2>3. IsSent(p) /\ ~IsSent(p)' /\ ~Loaded(p)'
    BY <1>1, <1>4, <1>8 DEF IsSent, Loaded
  <2>4. PcOf(p)'
    BY <1>2, <1>4, <1>8, <2>2 DEF PcOf
  <2>5. BuffersOf(p)'
    BY <1>4, <1>8, <2>3 DEF BuffersOf, Uses
  <2>6. WireOf(p)'
    BY <1>2, <2>1, <2>2 DEF WireOf, Unread
  <2>7. Sent(p)' = Sent(p)
    BY <1>3, <1>4, <1>8, <2>3 DEF Sent
  <2>. QED BY <1>1, <1>2, <1>4, <1>8, <2>2, <2>4, <2>5, <2>6, <2>7 DEF PortOf, HostRequest, Uses
<1>9. IInv' /\ \A q \in Rank : q # r => SameHost(q)
  <2>1. ASSUME NEW l \in Dir PROVE PortOf(<<r, l>>)'
    <3>1. PICK p \in Port : p = <<r, l>>
      BY DEF Port
    <3>. QED BY <3>1, <1>8
  <2>. QED BY <2>1, <1>5, <1>6, <1>7, OthersKeep
<1>10. Host!WaitSends(r)
  <2>1. host_pc[r] = "wait" /\ HostPc(r)' = "post" /\ host_next'[r] = host_next[r]
    BY <1>1, <1>2, <1>4 DEF host_pc, HostPc, host_next, SameSetting
  <2>2. host_pc' = [host_pc EXCEPT ![r] = "post"]
    BY <1>9, <2>1, HostAfter
  <2>3. host_next' = host_next
    <3>1. host_next = [q \in Rank |-> host_next[q]]
      BY DEF host_next
    <3>. QED BY <1>9, <2>1, <3>1, HostAfter
  <2>4. host_rreq' = host_rreq
    <3>1. host_rreq' = [p \in Port |-> IF p[1] = r THEN HostRequest(p)' ELSE host_rreq[p]]
      BY <1>9, HostAfter
    <3>2. \A p \in Port : p[1] = r => host_rreq[p] = HostRequest(p)'
      BY <1>8 DEF host_rreq
    <3>3. host_rreq' = [p \in Port |-> host_rreq[p]]
      BY <3>1, <3>2
    <3>. QED BY <3>3 DEF host_rreq
  <2>5. host_sbuf' = host_sbuf
    <3>1. ASSUME NEW p \in Port PROVE host_sbuf'[p] = host_sbuf[p]
      <4>1. CASE p[1] # r
        BY <4>1, <1>9, HostAfter
      <4>2. CASE p[1] = r
        BY <4>2, <1>8 DEF host_sbuf, Boundary, Blank
      <4>. QED BY <4>1, <4>2
    <3>. QED BY <3>1 DEF host_sbuf
  <2>. QED BY <1>1, <1>2, <2>1, <2>2, <2>3, <2>4, <2>5, HostNames
           DEF Host!WaitSends, Host!SendsDone, Host!AllComplete, Host!NullAll, AllComplete
<1>. QED BY <1>9, <1>10

(* The launch of an unpacking kernel for the directions D, after the wait    *)
(* for their receives and the copies.                                        *)
Launch(r, D) ==
  /\ pc[r] = "unpack" /\ D \subseteq Dir /\ \A l \in D : rreq[<<r, l>>] = "complete"
  /\ SameSetting
  /\ rreq' = [p \in Port |-> IF p[1] = r /\ p[2] \in D THEN "null" ELSE rreq[p]]
  /\ ubuf' = IF Separate THEN [p \in Port |-> IF p[1] = r /\ p[2] \in D THEN rbuf[p] ELSE ubuf[p]]
             ELSE ubuf
  /\ stream' = [stream EXCEPT ![r] = Append(@, Kernel("unpack", D))]
  /\ \/ pc' = pc
     \/ pc' = [pc EXCEPT ![r] = "sync"] /\ \A l \in Dir : rreq'[<<r, l>>] = "null"
  /\ UNCHANGED <<sreq, sbuf, rbuf, inFlight, rep, next, halo, pbuf>>

LEMMA LaunchStep ==
  ASSUME IInv, NEW r \in Rank, NEW D, Launch(r, D)
  PROVE  IInv' /\ UNCHANGED Host!vars
<1>1. /\ TypeInv /\ StreamInv(r) /\ \A p \in Port : PortOf(p)
      /\ pc[r] = "unpack" /\ AllOf(r, "unpack") /\ stream[r] \in Seq(KernelType)
      /\ D \subseteq Dir
  BY DEF IInv, StreamInv, Launch, TypeInv
<1>2. /\ SameSetting
      /\ rreq' = [p \in Port |-> IF p[1] = r /\ p[2] \in D THEN "null" ELSE rreq[p]]
      /\ \A l \in D : rreq[<<r, l>>] = "complete"
      /\ UNCHANGED <<sreq, sbuf, rbuf, inFlight, rep, next, halo, pbuf>>
  BY DEF Launch
<1>3. /\ pc'[r] \in {"unpack", "sync"} /\ \A q \in Rank : q # r => pc'[q] = pc[q]
      /\ pc'[r] = "sync" => \A l \in Dir : rreq'[<<r, l>>] = "null"
      /\ pc' \in [Rank -> {"post", "pack", "copy", "send", "unpack", "sync", "wait"}]
  <2>1. pc \in [Rank -> {"post", "pack", "copy", "send", "unpack", "sync", "wait"}]
    BY <1>1 DEF TypeInv
  <2>2. CASE pc' = pc
    BY <1>1, <2>1, <2>2
  <2>3. CASE pc' = [pc EXCEPT ![r] = "sync"] /\ \A l \in Dir : rreq'[<<r, l>>] = "null"
    BY <2>1, <2>3
  <2>. QED BY <2>2, <2>3 DEF Launch
<1>. DEFINE K == Kernel("unpack", D)
            s == stream[r]
<1>4. K \in KernelType /\ K.op = "unpack" /\ K.dirs = D
  BY <1>1 DEF Kernel, KernelType
<1>5. /\ stream'[r] = Append(s, K) /\ \A q \in Rank : q # r => stream'[q] = stream[q]
      /\ stream' \in [Rank -> Seq(KernelType)]
  BY <1>1, <1>4 DEF Launch, TypeInv
<1>6. /\ Len(s) \in Nat /\ Len(stream'[r]) = Len(s) + 1
      /\ \A i \in 1 .. Len(s) : stream'[r][i] = s[i]
      /\ stream'[r][Len(s) + 1] = K
  BY <1>1, <1>4, <1>5
<1>. HIDE DEF s, K
<1>7. \A l \in Dir : Uses(r, "unpack", l) => rreq[<<r, l>>] = "null"
  BY <1>1 DEF StreamInv
<1>8. /\ \A l \in Dir : Uses(r, "unpack", l)' <=> Uses(r, "unpack", l) \/ l \in D
      /\ AllOf(r, "unpack")'
  <2>1. \A i \in 1 .. Len(s) : s[i].op = "unpack"
    BY <1>1 DEF AllOf, s
  <2>2. \A i \in 1 .. Len(s) + 1 : i \in 1 .. Len(s) \/ i = Len(s) + 1
    BY <1>6
  <2>3. AllOf(r, "unpack")'
    BY <1>4, <1>6, <2>1, <2>2 DEF AllOf
  <2>4. ASSUME NEW l \in Dir PROVE Uses(r, "unpack", l)' <=> Uses(r, "unpack", l) \/ l \in D
    <3>1. ASSUME Uses(r, "unpack", l)' PROVE Uses(r, "unpack", l) \/ l \in D
      <4>1. PICK i \in 1 .. Len(s) + 1 : stream'[r][i].op = "unpack" /\ l \in stream'[r][i].dirs
        BY <1>6, <3>1 DEF Uses
      <4>. QED BY <4>1, <1>4, <1>6, <2>2 DEF Uses, s
    <3>2. ASSUME Uses(r, "unpack", l) PROVE Uses(r, "unpack", l)'
      <4>1. PICK i \in 1 .. Len(s) : s[i].op = "unpack" /\ l \in s[i].dirs
        BY <3>2 DEF Uses, s
      <4>2. i \in 1 .. Len(stream'[r])
        BY <4>1, <1>6
      <4>. QED BY <4>1, <4>2, <1>6 DEF Uses
    <3>3. ASSUME l \in D PROVE Uses(r, "unpack", l)'
      <4>1. Len(s) + 1 \in 1 .. Len(stream'[r])
        BY <1>6
      <4>. QED BY <4>1, <3>3, <1>4, <1>6 DEF Uses
    <3>. QED BY <3>1, <3>2, <3>3
  <2>. QED BY <2>3, <2>4
<1>9. InOne(r)'
  <2>1. \A i \in 1 .. Len(s) : s[i].dirs \cap D = {}
    <3>1. ASSUME NEW i \in 1 .. Len(s), NEW l \in s[i].dirs \cap D PROVE FALSE
      <4>1. Uses(r, "unpack", l) /\ l \in Dir
        BY <1>1, <3>1 DEF Uses, AllOf, s
      <4>. QED BY <4>1, <1>2, <1>7
    <3>. QED BY <3>1
  <2>2. \A i, j \in 1 .. Len(s) : i # j => s[i].dirs \cap s[j].dirs = {}
    BY <1>1 DEF StreamInv, InOne, s
  <2>3. \A i \in 1 .. Len(s) + 1 : i \in 1 .. Len(s) \/ i = Len(s) + 1
    BY <1>6
  <2>4. ASSUME NEW i \in 1 .. Len(s) + 1, NEW j \in 1 .. Len(s) + 1, i # j
        PROVE  stream'[r][i].dirs \cap stream'[r][j].dirs = {}
    BY <1>4, <1>6, <2>1, <2>2, <2>3, <2>4
  <2>. QED BY <1>6, <2>4 DEF InOne
<1>10. TypeInv'
  BY <1>1, <1>2, <1>3, <1>5 DEF TypeInv, Launch, SameSetting, Request
<1>11. OnlyRank(r)
  <2>1. \A p \in Port : p[1] # r => ubuf'[p] = ubuf[p] /\ rreq'[p] = rreq[p]
    BY <1>1, <1>2 DEF Launch
  <2>. QED BY <1>2, <1>3, <1>5, <2>1 DEF OnlyRank, SameRank, SamePort
<1>12. \A l \in Dir : rreq'[<<r, l>>] = IF l \in D THEN "null" ELSE rreq[<<r, l>>]
  BY <1>2, PortFacts
<1>13. StreamInv(r)'
  <2>1. \A l \in Dir : ~Uses(r, "pack", l)'
    BY <1>8 DEF Uses, AllOf
  <2>. QED BY <1>3, <1>7, <1>8, <1>9, <1>12, <2>1 DEF StreamInv
<1>14. ASSUME NEW l \in Dir
       PROVE  /\ PortOf(<<r, l>>)' /\ Sent(<<r, l>>)' = Sent(<<r, l>>)
              /\ HostRequest(<<r, l>>)' = HostRequest(<<r, l>>)
  <2>1. PICK p \in Port : p = <<r, l>>
    BY DEF Port
  <2>2. p[1] = r /\ p[2] = l /\ PcOf(p) /\ BuffersOf(p) /\ WireOf(p)
    BY <1>1, <2>1 DEF PortOf
  <2>3. IsSent(p) /\ IsSent(p)' /\ Loaded(p)
    BY <1>1, <1>3, <2>2 DEF IsSent, Loaded
  <2>4. PcOf(p)'
    BY <1>1, <1>2, <1>3, <2>1, <2>2, <2>3 DEF PcOf
  <2>5. BuffersOf(p)'
    <3>1. Separate' /\ Uses(r, "unpack", l)' => ubuf'[p] = rbuf'[p]
      BY <1>2, <1>8, <2>2 DEF Launch, BuffersOf, Separate, SameSetting
    <3>. QED BY <1>2, <1>3, <2>2, <2>3, <3>1 DEF BuffersOf, Boundary
  <2>6. WireOf(p)'
    BY <1>2, <2>2 DEF WireOf, Unread
  <2>7. Sent(p)' = Sent(p)
    BY <1>2, <2>3 DEF Sent
  <2>8. HostRequest(p)' = HostRequest(p)
    <3>1. HostRequest(p)' = IF Uses(r, "unpack", l) \/ l \in D THEN "complete" ELSE rreq'[<<r, l>>]
      BY <1>8, <2>1, <2>2 DEF HostRequest
    <3>2. HostRequest(p) = IF Uses(r, "unpack", l) THEN "complete" ELSE rreq[<<r, l>>]
      BY <2>1, <2>2 DEF HostRequest
    <3>. QED BY <3>1, <3>2, <1>2, <1>12
  <2>. QED BY <2>1, <2>4, <2>5, <2>6, <2>7, <2>8 DEF PortOf
<1>15. SameHost(r)
  <2>1. HostPc(r)' = HostPc(r)
    BY <1>1, <1>3, <1>14 DEF HostPc
  <2>2. host_next'[r] = host_next[r]
    BY <1>1, <1>2, <1>3 DEF host_next, SameSetting
  <2>. QED BY <1>14, <2>1, <2>2 DEF SameHost
<1>16. IInv' /\ \A q \in Rank : q # r => SameHost(q)
  BY <1>10, <1>11, <1>13, <1>14, OthersKeep
<1>17. \A q \in Rank : SameHost(q)
  BY <1>15, <1>16
<1>. QED BY <1>2, <1>16, <1>17, HostStutters

LEMMA LaunchUnpackStep ==
  ASSUME IInv, NEW r \in Rank, (\E l \in Dir : LaunchUnpack(r, l)) \/ LaunchUnpackAll(r)
  PROVE  IInv' /\ UNCHANGED Host!vars
<1>1. TypeInv
  BY DEF IInv
<1>2. ASSUME NEW l \in Dir, LaunchUnpack(r, l) PROVE Launch(r, {l})
  <2>1. PICK x \in Port : x = <<r, l>>
    BY DEF Port
  <2>2. \A p \in Port : p[1] = r /\ p[2] \in {l} <=> p = x
    BY <2>1, PortFacts
  <2>3. /\ pc[r] = "unpack" /\ rreq[x] = "complete" /\ rreq' = [rreq EXCEPT ![x] = "null"]
        /\ ubuf' = IF Separate THEN [ubuf EXCEPT ![x] = rbuf[x]] ELSE ubuf
        /\ pc' = IF \A k \in Dir \ {l} : rreq[<<r, k>>] = "null" THEN [pc EXCEPT ![r] = "sync"] ELSE pc
    BY <1>2, <2>1 DEF LaunchUnpack
  <2>4. rreq' = [p \in Port |-> IF p[1] = r /\ p[2] \in {l} THEN "null" ELSE rreq[p]]
    <3>1. rreq' = [p \in Port |-> IF p = x THEN "null" ELSE rreq[p]]
      BY <1>1, <2>3 DEF TypeInv
    <3>. QED BY <2>2, <3>1
  <2>5. [ubuf EXCEPT ![x] = rbuf[x]]
        = [p \in Port |-> IF p[1] = r /\ p[2] \in {l} THEN rbuf[p] ELSE ubuf[p]]
    <3>1. [ubuf EXCEPT ![x] = rbuf[x]] = [p \in Port |-> IF p = x THEN rbuf[p] ELSE ubuf[p]]
      BY <1>1 DEF TypeInv
    <3>. QED BY <2>2, <3>1
  <2>6. (\A k \in Dir \ {l} : rreq[<<r, k>>] = "null") => \A k \in Dir : rreq'[<<r, k>>] = "null"
    BY <2>4, PortFacts
  <2>. QED BY <1>2, <2>1, <2>3, <2>4, <2>5, <2>6
           DEF Launch, LaunchUnpack, setting, SameSetting
<1>3. ASSUME LaunchUnpackAll(r) PROVE Launch(r, Dir)
  <2>1. \A p \in Port : p[2] \in Dir
    BY PortFacts
  <2>2. \A l \in Dir : rreq'[<<r, l>>] = "null"
    BY <1>3, PortFacts DEF LaunchUnpackAll, NullAll
  <2>3. rreq' = [p \in Port |-> IF p[1] = r /\ p[2] \in Dir THEN "null" ELSE rreq[p]]
    BY <1>3, <2>1 DEF LaunchUnpackAll, NullAll
  <2>4. ubuf' = IF Separate THEN [p \in Port |-> IF p[1] = r /\ p[2] \in Dir THEN rbuf[p] ELSE ubuf[p]]
                ELSE ubuf
    BY <1>3, <2>1 DEF LaunchUnpackAll
  <2>. QED BY <1>3, <2>2, <2>3, <2>4
           DEF Launch, LaunchUnpackAll, AllComplete, setting, SameSetting
<1>. QED BY <1>2, <1>3, LaunchStep

LEMMA SyncStep ==
  ASSUME IInv, NEW r \in Rank, SyncUnpack(r)
  PROVE  IInv' /\ UNCHANGED Host!vars
<1>1. /\ TypeInv /\ StreamInv(r) /\ \A p \in Port : PortOf(p)
      /\ pc[r] = "sync" /\ stream[r] = <<>>
  BY DEF IInv, SyncUnpack, StreamDone
<1>2. /\ SameSetting /\ pc' = [pc EXCEPT ![r] = "wait"]
      /\ UNCHANGED <<sreq, rreq, sbuf, rbuf, inFlight, rep, next, halo, stream, pbuf, ubuf>>
  BY DEF SyncUnpack, SameSetting, setting, deviceVars, mpiVars
<1>3. pc'[r] = "wait" /\ stream'[r] = <<>>
  BY <1>1, <1>2 DEF TypeInv
<1>4. TypeInv'
  BY <1>1, <1>2 DEF TypeInv, SameSetting
<1>5. OnlyRank(r)
  BY <1>1, <1>2 DEF OnlyRank, SameRank, SamePort, TypeInv
<1>6. StreamInv(r)'
  BY <1>3 DEF StreamInv, InOne, AllOf, Uses
<1>7. ASSUME NEW l \in Dir
      PROVE  /\ PortOf(<<r, l>>)' /\ Sent(<<r, l>>)' = Sent(<<r, l>>)
             /\ HostRequest(<<r, l>>)' = HostRequest(<<r, l>>)
             /\ HostRequest(<<r, l>>) = "null"
  <2>1. PICK p \in Port : p = <<r, l>>
    BY DEF Port
  <2>2. p[1] = r /\ p[2] = l /\ PcOf(p) /\ BuffersOf(p) /\ WireOf(p)
    BY <1>1, <2>1 DEF PortOf
  <2>3. IsSent(p) /\ IsSent(p)' /\ Loaded(p)
    BY <1>1, <1>3, <2>2 DEF IsSent, Loaded
  <2>4. PcOf(p)'
    BY <1>1, <1>2, <1>3, <2>2, <2>3 DEF PcOf
  <2>5. BuffersOf(p)'
    BY <1>2, <1>3, <2>2, <2>3 DEF BuffersOf, Boundary, Uses
  <2>6. WireOf(p)'
    BY <1>2, <2>2 DEF WireOf, Unread
  <2>7. Sent(p)' = Sent(p)
    BY <1>2, <2>3 DEF Sent
  <2>8. HostRequest(p)' = HostRequest(p) /\ HostRequest(p) = "null"
    BY <1>1, <1>2, <2>2 DEF HostRequest, Uses, PcOf
  <2>. QED BY <2>1, <2>4, <2>5, <2>6, <2>7, <2>8 DEF PortOf
<1>8. SameHost(r)
  <2>1. HostPc(r)' = HostPc(r)
    BY <1>1, <1>3, <1>7 DEF HostPc
  <2>2. host_next'[r] = host_next[r]
    BY <1>1, <1>2, <1>3 DEF host_next, SameSetting
  <2>. QED BY <1>7, <2>1, <2>2 DEF SameHost
<1>9. IInv' /\ \A q \in Rank : q # r => SameHost(q)
  BY <1>4, <1>5, <1>6, <1>7, OthersKeep
<1>10. \A q \in Rank : SameHost(q)
  BY <1>8, <1>9
<1>. QED BY <1>2, <1>9, <1>10, HostStutters

-----------------------------------------------------------------------------
(* The steps of the device *)

(* A block that ends takes its direction out of the stream.                  *)
LEMMA BlocksEndFacts ==
  ASSUME TypeInv, NEW r \in Rank, NEW op, NEW l \in Dir, Running(r, op, l), BlocksEnd(r, l),
         AllOf(r, op), InOne(r)
  PROVE  /\ stream' \in [Rank -> Seq(KernelType)]
         /\ \A q \in Rank : q # r => stream'[q] = stream[q]
         /\ AllOf(r, op)' /\ InOne(r)'
         /\ \A o, k : Uses(r, o, k)' <=> Uses(r, o, k) /\ k # l
<1>. DEFINE s == stream[r]
            left == s[1].dirs \ {l}
            new == IF left = {} THEN Tail(s) ELSE [s EXCEPT ![1].dirs = left]
<1>1. /\ s \in Seq(KernelType) /\ s # <<>> /\ s[1].op = op /\ l \in s[1].dirs
      /\ stream \in [Rank -> Seq(KernelType)]
  BY DEF TypeInv, Running
<1>2. Len(s) \in Nat \ {0} /\ s[1] \in KernelType /\ 1 \in 1 .. Len(s)
      /\ \A i \in 1 .. Len(s) : s[i] \in KernelType
  BY <1>1
<1>3. stream' = [stream EXCEPT ![r] = new]
  BY DEF BlocksEnd
<1>4. stream'[r] = new /\ \A q \in Rank : q # r => stream'[q] = stream[q]
  BY <1>1, <1>3
<1>5. /\ \A i \in 1 .. Len(s) : s[i].op = op
      /\ \A i, j \in 1 .. Len(s) : i # j => s[i].dirs \cap s[j].dirs = {}
  BY DEF AllOf, InOne
<1>. HIDE DEF s
<1>6. CASE left = {}
  <2>1. /\ new = Tail(s) /\ new \in Seq(KernelType) /\ Len(new) = Len(s) - 1
        /\ \A i \in 1 .. Len(new) : new[i] = s[i + 1]
    BY <1>1, <1>6
  <2>2. s[1].dirs = {l}
    BY <1>1, <1>6
  <2>. HIDE DEF new
  <2>3. \A i \in 1 .. Len(new) : i + 1 \in 1 .. Len(s) /\ i + 1 # 1
    BY <1>2, <2>1
  <2>4. \A j \in 1 .. Len(s) : j # 1 => j - 1 \in 1 .. Len(new) /\ s[j] = new[j - 1]
    BY <1>2, <2>1
  <2>5. AllOf(r, op)'
    BY <1>4, <1>5, <2>1, <2>3 DEF AllOf
  <2>6. InOne(r)'
    <3>1. ASSUME NEW i \in 1 .. Len(new), NEW j \in 1 .. Len(new), i # j
          PROVE  new[i].dirs \cap new[j].dirs = {}
      <4>1. i + 1 # j + 1
        BY <1>2, <2>1, <3>1
      <4>. QED BY <1>5, <2>1, <2>3, <4>1
    <3>. QED BY <3>1, <1>4 DEF InOne
  <2>7. ASSUME NEW o, NEW k PROVE Uses(r, o, k)' <=> Uses(r, o, k) /\ k # l
    <3>1. ASSUME Uses(r, o, k)' PROVE Uses(r, o, k) /\ k # l
      <4>1. PICK i \in 1 .. Len(new) : new[i].op = o /\ k \in new[i].dirs
        BY <3>1, <1>4 DEF Uses
      <4>2. i + 1 \in 1 .. Len(s) /\ i + 1 # 1 /\ s[i + 1].op = o /\ k \in s[i + 1].dirs
        BY <4>1, <2>1, <2>3
      <4>3. k # l
        BY <4>2, <1>1, <1>2, <1>5
      <4>. QED BY <4>2, <4>3 DEF Uses, s
    <3>2. ASSUME Uses(r, o, k), k # l PROVE Uses(r, o, k)'
      <4>1. PICK j \in 1 .. Len(s) : s[j].op = o /\ k \in s[j].dirs
        BY <3>2 DEF Uses, s
      <4>2. j # 1
        BY <4>1, <3>2, <2>2
      <4>. QED BY <4>1, <4>2, <2>4, <1>4 DEF Uses
    <3>. QED BY <3>1, <3>2
  <2>8. stream' \in [Rank -> Seq(KernelType)]
    BY <1>1, <1>3, <2>1
  <2>. QED BY <1>4, <2>5, <2>6, <2>7, <2>8
<1>7. CASE left # {}
  <2>1. /\ new = [s EXCEPT ![1].dirs = left] /\ Len(new) = Len(s)
        /\ new[1].op = op /\ new[1].dirs = left
        /\ \A i \in 1 .. Len(s) : i # 1 => new[i] = s[i]
    BY <1>1, <1>2, <1>7 DEF KernelType
  <2>2. new \in Seq(KernelType)
    <3>1. [s[1] EXCEPT !.dirs = left] \in KernelType
      BY <1>2 DEF KernelType
    <3>2. new = [s EXCEPT ![1] = [s[1] EXCEPT !.dirs = left]]
      BY <1>7
    <3>. HIDE DEF new, left
    <3>3. [s EXCEPT ![1] = [s[1] EXCEPT !.dirs = left]] \in Seq(KernelType)
      BY <1>1, <1>2, <3>1, ExceptSeq
    <3>. QED BY <3>2, <3>3, Zenon
  <2>. HIDE DEF new
  <2>3. \A i \in 1 .. Len(s) : new[i].op = s[i].op /\ new[i].dirs = s[i].dirs \ {l}
    <3>1. ASSUME NEW i \in 1 .. Len(s), i # 1 PROVE l \notin s[i].dirs
      BY <3>1, <1>1, <1>2, <1>5
    <3>2. ASSUME NEW i \in 1 .. Len(s), i # 1
          PROVE  new[i].op = s[i].op /\ new[i].dirs = s[i].dirs \ {l}
      BY <3>1, <3>2, <2>1
    <3>. QED BY <3>2, <2>1, <1>1
  <2>4. AllOf(r, op)'
    BY <1>4, <1>5, <2>1, <2>3 DEF AllOf
  <2>5. InOne(r)'
    <3>1. ASSUME NEW i \in 1 .. Len(s), NEW j \in 1 .. Len(s), i # j
          PROVE  new[i].dirs \cap new[j].dirs = {}
      BY <3>1, <1>5, <2>3
    <3>. QED BY <3>1, <1>4, <2>1 DEF InOne
  <2>6. \A o, k : Uses(r, o, k)' <=> Uses(r, o, k) /\ k # l
    <3>1. ASSUME NEW o, NEW k PROVE Uses(r, o, k)' <=> Uses(r, o, k) /\ k # l
      <4>1. (\E i \in 1 .. Len(s) : new[i].op = o /\ k \in new[i].dirs)
            <=> (\E i \in 1 .. Len(s) : s[i].op = o /\ k \in s[i].dirs) /\ k # l
        BY <2>3
      <4>2. Uses(r, o, k)' <=> \E i \in 1 .. Len(s) : new[i].op = o /\ k \in new[i].dirs
        BY <1>4, <2>1 DEF Uses
      <4>3. Uses(r, o, k) <=> \E i \in 1 .. Len(s) : s[i].op = o /\ k \in s[i].dirs
        BY DEF Uses, s
      <4>. QED BY <4>1, <4>2, <4>3
    <3>. QED BY <3>1
  <2>7. stream' \in [Rank -> Seq(KernelType)]
    BY <1>1, <1>3, <2>2
  <2>. QED BY <1>4, <2>4, <2>5, <2>6, <2>7
<1>. QED BY <1>6, <1>7

LEMMA RunPackStep ==
  ASSUME IInv, NEW r \in Rank, NEW l \in Dir, RunPack(r, l)
  PROVE  IInv' /\ UNCHANGED Host!vars
<1>. DEFINE b == Boundary(<<r, l>>, rep[r] + 1)
<1>1. /\ TypeInv /\ StreamInv(r) /\ \A p \in Port : PortOf(p)
      /\ Running(r, "pack", l) /\ BlocksEnd(r, l) /\ stream[r] # <<>>
      /\ stream[r][1].op = "pack" /\ l \in stream[r][1].dirs
  BY DEF IInv, RunPack, Running
<1>2. /\ SameSetting
      /\ pbuf' = IF Separate THEN [pbuf EXCEPT ![<<r, l>>] = b] ELSE pbuf
      /\ sbuf' = IF Separate THEN sbuf ELSE [sbuf EXCEPT ![<<r, l>>] = b]
      /\ UNCHANGED <<sreq, rreq, rbuf, inFlight, pc, rep, next, halo, ubuf>>
  BY DEF RunPack, SameSetting, hostVars, setting
<1>3. 1 \in 1 .. Len(stream[r])
  BY <1>1 DEF TypeInv
<1>4. pc[r] \in {"copy", "send"} /\ AllOf(r, "pack") /\ Uses(r, "pack", l)
      /\ (fused => next[r] = 0) /\ (pc[r] = "send" <=> ~Separate)
  <2>1. pc[r] \notin {"unpack", "sync"}
    BY <1>1, <1>3 DEF StreamInv, AllOf
  <2>2. pc[r] \in {"copy", "send"}
    BY <1>1, <2>1 DEF StreamInv, TypeInv
  <2>3. PICK p \in Port : p = <<r, l>>
    BY DEF Port
  <2>4. PcOf(p) /\ p[1] = r
    BY <1>1, <2>3 DEF PortOf
  <2>. QED BY <1>1, <1>3, <2>2, <2>4 DEF StreamInv, Uses, PcOf
<1>5. /\ stream' \in [Rank -> Seq(KernelType)]
      /\ \A q \in Rank : q # r => stream'[q] = stream[q]
      /\ AllOf(r, "pack")' /\ InOne(r)'
      /\ \A o, k : Uses(r, o, k)' <=> Uses(r, o, k) /\ k # l
  BY <1>1, <1>4, BlocksEndFacts DEF StreamInv
<1>6. PICK x \in Port : x = <<r, l>>
  BY DEF Port
<1>7. x[1] = r /\ x[2] = l /\ b = Boundary(x, rep[r] + 1) /\ b \in Data
  BY <1>1, <1>6, BoundariesAreData DEF TypeInv
<1>. HIDE DEF b
<1>8. /\ \A p \in Port : p # x => pbuf'[p] = pbuf[p] /\ sbuf'[p] = sbuf[p]
      /\ Separate => pbuf'[x] = b /\ sbuf'[x] = sbuf[x]
      /\ ~Separate => sbuf'[x] = b
      /\ pbuf' \in [Port -> Data] /\ sbuf' \in [Port -> Data]
  BY <1>1, <1>2, <1>6, <1>7 DEF TypeInv
<1>9. TypeInv'
  BY <1>1, <1>2, <1>5, <1>8 DEF TypeInv, SameSetting
<1>10. OnlyRank(r)
  BY <1>2, <1>5, <1>7, <1>8 DEF OnlyRank, SameRank, SamePort
<1>11. Packed(r)' = Packed(r) /\ Separate' = Separate
  BY <1>2 DEF Packed, Separate, SameSetting
<1>12. \A k : ~Uses(r, "unpack", k)
  BY <1>4 DEF Uses, AllOf
<1>13. StreamInv(r)'
  <2>1. \A k \in Dir : Uses(r, "pack", k)' => k \in Packed(r)'
    BY <1>1, <1>5, <1>11, Zenon DEF StreamInv
  <2>2. \A k \in Dir : ~Uses(r, "unpack", k)'
    BY <1>5, <1>12, Zenon
  <2>3. /\ pc'[r] \in {"copy", "send"} /\ (fused' => next'[r] = 0)
        /\ pc'[r] = "send" => ~Separate'
    BY <1>2, <1>4, <1>11 DEF SameSetting
  <2>. QED BY <1>5, <2>1, <2>2, <2>3 DEF StreamInv
<1>14. ASSUME NEW k \in Dir
       PROVE  /\ PortOf(<<r, k>>)' /\ Sent(<<r, k>>)' = Sent(<<r, k>>)
              /\ HostRequest(<<r, k>>)' = HostRequest(<<r, k>>)
  <2>1. PICK p \in Port : p = <<r, k>>
    BY DEF Port
  <2>2. p[1] = r /\ p[2] = k /\ k \in Nat /\ PcOf(p) /\ BuffersOf(p) /\ WireOf(p)
        /\ (p = x <=> k = l)
    BY <1>1, <1>6, <2>1, PortFacts DEF PortOf
  <2>3. IsSent(p)' <=> IsSent(p)
    BY <1>2 DEF IsSent, SameSetting
  <2>4. PcOf(p)'
    BY <1>2, <1>11, <2>2, <2>3 DEF PcOf, SameSetting
  <2>5. BuffersOf(p)'
    <3>1. CASE p = x
      <4>1. ~Separate => sbuf'[p] = Boundary(p, rep[r] + 1)
        BY <3>1, <1>7, <1>8
      <4>2. Separate => pbuf'[p] = Boundary(p, rep[r] + 1) /\ ~IsSent(p) /\ ~Loaded(p)'
        <5>1. ASSUME Separate PROVE pc[r] = "copy" /\ (fused => next[r] = 0) /\ ~(k < 0)
          BY <5>1, <1>4, <2>2
        <5>2. ASSUME Separate PROVE ~fused => k = next[r]
          BY <3>1, <2>2, <1>1, <1>4 DEF StreamInv, Packed
        <5>3. ASSUME Separate PROVE ~IsSent(p) /\ ~Loaded(p)'
          BY <5>1, <5>2, <5>3, <1>1, <1>2, <2>2, <2>3 DEF IsSent, Loaded, SameSetting, TypeInv
        <5>. QED BY <5>3, <3>1, <1>7, <1>8
      <4>. QED BY <1>2, <1>4, <1>5, <1>12, <2>2, <4>1, <4>2 DEF BuffersOf, Boundary
    <3>2. CASE p # x
      <4>1. \A o : Uses(r, o, k)' <=> Uses(r, o, k)
        BY <3>2, <2>2, <1>5
      <4>2. Loaded(p)' <=> Loaded(p)
        BY <4>1, <1>2, <1>11, <2>2, <2>3 DEF Loaded, SameSetting
      <4>. QED BY <1>2, <1>8, <1>11, <2>2, <3>2, <4>1, <4>2 DEF BuffersOf, Boundary
    <3>. QED BY <3>1, <3>2
  <2>6. WireOf(p)'
    BY <1>2, <2>2 DEF WireOf, Unread
  <2>7. Sent(p)' = Sent(p)
    BY <1>2, <2>3 DEF Sent
  <2>8. HostRequest(p)' = HostRequest(p)
    BY <1>2, <1>5, <1>12, <2>2 DEF HostRequest
  <2>. QED BY <2>1, <2>4, <2>5, <2>6, <2>7, <2>8 DEF PortOf
<1>15. SameHost(r)
  <2>1. HostPc(r)' = HostPc(r)
    BY <1>2, <1>14 DEF HostPc
  <2>2. host_next'[r] = host_next[r]
    BY <1>2 DEF host_next, SameSetting
  <2>. QED BY <1>14, <2>1, <2>2 DEF SameHost
<1>16. IInv' /\ \A q \in Rank : q # r => SameHost(q)
  BY <1>9, <1>10, <1>13, <1>14, OthersKeep
<1>17. \A q \in Rank : SameHost(q)
  BY <1>15, <1>16
<1>. QED BY <1>2, <1>16, <1>17, HostStutters

(* A block that has unpacked is what HaloExchange calls unpacking one        *)
(* direction: the halo has what was received.                                *)
LEMMA RunUnpackStep ==
  ASSUME IInv, NEW r \in Rank, NEW l \in Dir, RunUnpack(r, l)
  PROVE  IInv' /\ Host!UnpackOne(r, l)
<1>1. /\ TypeInv /\ StreamInv(r) /\ \A p \in Port : PortOf(p)
      /\ Running(r, "unpack", l) /\ BlocksEnd(r, l) /\ stream[r] # <<>>
      /\ stream[r][1].op = "unpack" /\ l \in stream[r][1].dirs
  BY DEF IInv, RunUnpack, Running
<1>2. /\ SameSetting
      /\ halo' = [halo EXCEPT ![<<r, l>>] = IF Separate THEN ubuf[<<r, l>>] ELSE rbuf[<<r, l>>]]
      /\ UNCHANGED <<sreq, rreq, sbuf, rbuf, inFlight, pc, rep, next, pbuf, ubuf>>
  BY DEF RunUnpack, SameSetting, hostVars, setting, mpiVars
<1>3. 1 \in 1 .. Len(stream[r])
  BY <1>1 DEF TypeInv
<1>4. pc[r] \in {"unpack", "sync"} /\ AllOf(r, "unpack") /\ Uses(r, "unpack", l)
  <2>1. pc[r] \notin {"copy", "send"}
    BY <1>1, <1>3 DEF StreamInv, AllOf
  <2>2. pc[r] \in {"unpack", "sync"}
    BY <1>1, <2>1 DEF StreamInv, TypeInv
  <2>. QED BY <1>1, <1>3, <2>2 DEF StreamInv, Uses
<1>5. /\ stream' \in [Rank -> Seq(KernelType)]
      /\ \A q \in Rank : q # r => stream'[q] = stream[q]
      /\ AllOf(r, "unpack")' /\ InOne(r)'
      /\ \A o, k : Uses(r, o, k)' <=> Uses(r, o, k) /\ k # l
  BY <1>1, <1>4, BlocksEndFacts DEF StreamInv
<1>6. PICK x \in Port : x = <<r, l>>
  BY DEF Port
<1>7. x[1] = r /\ x[2] = l /\ rreq[x] = "null" /\ halo' = [halo EXCEPT ![x] = rbuf[x]]
  <2>1. BuffersOf(x) /\ x[1] = r /\ x[2] = l
    BY <1>1, <1>6 DEF PortOf
  <2>2. Separate => ubuf[x] = rbuf[x]
    BY <1>4, <2>1 DEF BuffersOf
  <2>. QED BY <1>1, <1>2, <1>4, <1>6, <2>1, <2>2 DEF StreamInv
<1>8. TypeInv'
  BY <1>1, <1>2, <1>5, <1>6, <1>7 DEF TypeInv, SameSetting
<1>9. OnlyRank(r)
  BY <1>2, <1>5 DEF OnlyRank, SameRank, SamePort
<1>10. Separate' = Separate
  BY <1>2 DEF Separate, SameSetting
<1>11. \A k : ~Uses(r, "pack", k)
  BY <1>4 DEF Uses, AllOf
<1>12. StreamInv(r)'
  BY <1>1, <1>2, <1>4, <1>5, <1>10, <1>11 DEF StreamInv
<1>13. ASSUME NEW k \in Dir
       PROVE  /\ PortOf(<<r, k>>)' /\ Sent(<<r, k>>)' = Sent(<<r, k>>)
              /\ HostRequest(<<r, k>>)' = IF k = l THEN "null" ELSE HostRequest(<<r, k>>)
  <2>1. PICK p \in Port : p = <<r, k>>
    BY DEF Port
  <2>2. p[1] = r /\ p[2] = k /\ PcOf(p) /\ BuffersOf(p) /\ WireOf(p) /\ (p = x <=> k = l)
    BY <1>1, <1>6, <2>1, PortFacts DEF PortOf
  <2>3. IsSent(p) /\ IsSent(p)' /\ Loaded(p)
    BY <1>2, <1>4, <2>2 DEF IsSent, Loaded
  <2>4. PcOf(p)'
    BY <1>2, <1>4, <2>2, <2>3 DEF PcOf
  <2>5. BuffersOf(p)'
    BY <1>2, <1>4, <1>5, <1>10, <2>2, <2>3 DEF BuffersOf, Boundary
  <2>6. WireOf(p)'
    BY <1>2, <2>2 DEF WireOf, Unread
  <2>7. Sent(p)' = Sent(p)
    BY <1>2, <2>3 DEF Sent
  <2>8. HostRequest(p)' = IF k = l THEN "null" ELSE HostRequest(p)
    BY <1>2, <1>5, <1>7, <2>2 DEF HostRequest
  <2>. QED BY <2>1, <2>4, <2>5, <2>6, <2>7, <2>8 DEF PortOf
<1>14. IInv' /\ \A q \in Rank : q # r => SameHost(q)
  BY <1>8, <1>9, <1>12, <1>13, OthersKeep
<1>15. Host!UnpackOne(r, l)
  <2>1. HostRequest(x) = "complete" /\ host_rreq[x] = "complete"
    BY <1>4, <1>7 DEF HostRequest, host_rreq
  <2>2. host_pc[r] = "unpack"
    <3>1. HostRequest(<<r, l>>) # "null"
      BY <1>6, <2>1
    <3>. QED BY <1>4, <3>1, Zenon DEF HostPc, host_pc
  <2>3. host_next' = host_next
    BY <1>2 DEF host_next, SameSetting
  <2>4. host_rreq' = [host_rreq EXCEPT ![x] = "null"]
    <3>1. ASSUME NEW p \in Port, p[1] = r
          PROVE  HostRequest(p)' = IF p = x THEN "null" ELSE HostRequest(p)
      <4>1. p = <<r, p[2]>> /\ p[2] \in Dir /\ (p = x <=> p[2] = l)
        BY <3>1, <1>6, PortFacts
      <4>. QED BY <1>13, <4>1
    <3>2. host_rreq' = [p \in Port |-> IF p[1] = r THEN HostRequest(p)' ELSE host_rreq[p]]
      BY <1>14, HostAfter
    <3>3. host_rreq = [p \in Port |-> HostRequest(p)]
      BY DEF host_rreq
    <3>. QED BY <1>7, <3>1, <3>2, <3>3
  <2>5. host_sbuf' = host_sbuf
    <3>1. ASSUME NEW p \in Port PROVE host_sbuf'[p] = host_sbuf[p]
      <4>1. CASE p[1] # r
        BY <4>1, <1>14, HostAfter
      <4>2. CASE p[1] = r
        <5>1. p = <<r, p[2]>> /\ p[2] \in Dir
          BY <4>2, PortFacts
        <5>2. Sent(p)' = Sent(p)
          BY <1>13, <5>1
        <5>. QED BY <5>2 DEF host_sbuf, Boundary, Blank
      <4>. QED BY <4>1, <4>2
    <3>. QED BY <3>1 DEF host_sbuf
  <2>6. host_pc' = IF \A k \in Dir \ {l} : host_rreq[<<r, k>>] = "null"
                   THEN [host_pc EXCEPT ![r] = "wait"] ELSE host_pc
    <3>1. \A k \in Dir : host_rreq[<<r, k>>] = HostRequest(<<r, k>>)
      BY PortFacts DEF host_rreq
    <3>2. HostPc(r)' = IF \A k \in Dir : HostRequest(<<r, k>>)' = "null" THEN "wait" ELSE "unpack"
      BY <1>2, <1>4 DEF HostPc
    <3>3. (\A k \in Dir : HostRequest(<<r, k>>)' = "null")
          <=> \A k \in Dir \ {l} : host_rreq[<<r, k>>] = "null"
      BY <1>13, <3>1
    <3>4. host_pc' = [host_pc EXCEPT ![r] = HostPc(r)'] /\ host_pc = [q \in Rank |-> host_pc[q]]
      BY <1>14, HostAfter DEF host_pc
    <3>5. CASE HostPc(r)' = "wait"
      BY <3>2, <3>3, <3>4, <3>5
    <3>6. CASE HostPc(r)' = "unpack"
      <4>1. host_pc' = host_pc
        BY <2>2, <3>4, <3>6
      <4>. QED BY <3>2, <3>3, <3>6, <4>1
    <3>. QED BY <3>2, <3>5, <3>6
  <2>. QED BY <1>2, <1>6, <1>7, <2>1, <2>2, <2>3, <2>4, <2>5, <2>6, HostNames
           DEF Host!UnpackOne, Host!OthersNull
<1>. QED BY <1>14, <1>15

-----------------------------------------------------------------------------
(* The steps of MPI *)

(* They leave the ranks and their streams as they are.                       *)
MpiOnly ==
  /\ SameSetting /\ \A r \in Rank : SameRank(r)
  /\ UNCHANGED <<sbuf, pbuf, ubuf, halo, rep>>

LEMMA MpiKeepsRanks ==
  ASSUME IInv, MpiOnly, \A p \in Port : rreq[p] = "null" <=> rreq'[p] = "null"
  PROVE  \A r \in Rank : StreamInv(r)'
<1>1. ASSUME NEW r \in Rank PROVE StreamInv(r)'
  <2>1. \A l \in Dir : rreq[<<r, l>>] = "null" => rreq'[<<r, l>>] = "null"
    BY PortFacts
  <2>. QED BY <2>1, SameStream DEF IInv, MpiOnly
<1>. QED BY <1>1

LEMMA MpiKeepsPort ==
  ASSUME MpiOnly, NEW p \in Port, PcOf(p), BuffersOf(p),
         sreq[p] = "null" <=> sreq'[p] = "null",
         rreq[p] = "null" <=> rreq'[p] = "null",
         Uses(p[1], "unpack", p[2]) => rbuf'[p] = rbuf[p]
  PROVE  PcOf(p)' /\ BuffersOf(p)'
<1>1. SameRank(p[1]) /\ SameSetting
  BY PortFacts DEF MpiOnly
<1>2. /\ \A op : Uses(p[1], op, p[2])' = Uses(p[1], op, p[2])
      /\ IsSent(p)' = IsSent(p) /\ Loaded(p)' = Loaded(p) /\ Packed(p[1])' = Packed(p[1])
      /\ Separate' = Separate
  BY <1>1 DEF SameRank, SameSetting, Uses, IsSent, Loaded, Packed, Separate
<1>3. PcOf(p)'
  BY <1>1, <1>2 DEF PcOf, SameSetting, SameRank
<1>4. BuffersOf(p)'
  BY <1>1, <1>2 DEF BuffersOf, SameRank, Boundary, MpiOnly
<1>. QED BY <1>3, <1>4

(* While a send is active its buffer holds the boundary it was sent with.    *)
LEMMA ActiveSendBuffer ==
  ASSUME IInv, NEW p \in Port, sreq[p] = "active"
  PROVE  /\ sbuf[p] = host_sbuf[p] /\ sbuf[p] \in Data /\ sbuf[p] # Unread
<1>1. PcOf(p) /\ BuffersOf(p) /\ TypeInv /\ p[1] \in Rank
  BY PortFacts DEF IInv, PortOf
<1>2. IsSent(p)
  BY <1>1 DEF PcOf
<1>3. rep[p[1]] \in Nat
  BY <1>1 DEF TypeInv
<1>4. sbuf[p] = Boundary(p, rep[p[1]] + 1)
  BY <1>1, <1>2 DEF BuffersOf, Loaded
<1>5. Sent(p) = rep[p[1]] + 1 /\ Sent(p) # 0
  BY <1>2, <1>3 DEF Sent
<1>6. host_sbuf[p] = Boundary(p, rep[p[1]] + 1)
  BY <1>5 DEF host_sbuf
<1>. QED BY <1>3, <1>4, <1>6, BoundariesAreData

LEMMA BufferStep ==
  ASSUME IInv, NEW x \in Port, BufferSend(x), UNCHANGED <<hostVars, deviceVars>>
  PROVE  /\ IInv' /\ Host!BufferSend(x) /\ UNCHANGED Host!hostVars
<1>. DEFINE m == inFlight[x]
            sent == [m EXCEPT ![Len(m)] = sbuf[x]]
<1>1. /\ TypeInv /\ \A p \in Port : PortOf(p)
      /\ sreq[x] = "active" /\ m \in Seq(Data) /\ m # <<>>
  BY DEF IInv, TypeInv, BufferSend, PortOf, WireOf
<1>2. /\ MpiOnly /\ UNCHANGED <<rreq, rbuf>>
      /\ sreq' = [sreq EXCEPT ![x] = "complete"] /\ inFlight' = [inFlight EXCEPT ![x] = sent]
  BY DEF BufferSend, MpiOnly, SameSetting, SameRank, hostVars, setting, deviceVars
<1>. HIDE DEF m
<1>3. Len(m) \in 1 .. Len(m)
  BY <1>1
<1>4. /\ sent \in Seq(Data) /\ Len(sent) = Len(m) /\ sent # <<>>
      /\ sent[Len(m)] = sbuf[x] /\ \A i \in 1 .. Len(m) : i # Len(m) => sent[i] = m[i]
  <2>1. sbuf[x] \in Data
    BY <1>1, ActiveSendBuffer
  <2>2. sent \in Seq(Data)
    BY <1>1, <1>3, <2>1, ExceptSeq
  <2>. QED BY <1>1, <1>3, <2>2
<1>. HIDE DEF sent
<1>5. /\ sreq'[x] = "complete" /\ inFlight'[x] = sent
      /\ \A p \in Port : p # x => sreq'[p] = sreq[p] /\ inFlight'[p] = inFlight[p]
  BY <1>1, <1>2 DEF TypeInv
<1>6. TypeInv'
  <2>1. inFlight' \in [Port -> Seq(Data)] /\ sreq' \in [Port -> Request]
    BY <1>1, <1>2, <1>4 DEF TypeInv, Request
  <2>2. UNCHANGED <<copy_by, fused, pbuf, ubuf, halo, stream, pc, rep, next, sbuf>>
    BY DEF BufferSend, hostVars, setting, deviceVars
  <2>. QED BY <1>1, <1>2, <2>1, <2>2 DEF TypeInv
<1>7. ASSUME NEW p \in Port PROVE PortOf(p)'
  <2>1. PcOf(p) /\ BuffersOf(p) /\ WireOf(p)
    BY <1>1 DEF PortOf
  <2>2. sreq[p] = "null" <=> sreq'[p] = "null"
    BY <1>1, <1>5
  <2>3. PcOf(p)' /\ BuffersOf(p)'
    BY <1>2, <2>1, <2>2, MpiKeepsPort
  <2>4. CASE p # x
    BY <1>5, <2>1, <2>3, <2>4 DEF PortOf, WireOf, Unread
  <2>5. CASE p = x
    <3>1. \A i \in 1 .. Len(m) : m[i] = Unread <=> i = Len(m)
      BY <1>1, <2>1, <2>5 DEF WireOf, m
    <3>2. \A i \in 1 .. Len(sent) : sent[i] # Unread
      BY <1>1, <1>4, <3>1, ActiveSendBuffer
    <3>3. WireOf(p)'
      BY <1>5, <2>5, <3>2 DEF WireOf, Unread
    <3>. QED BY <2>3, <3>3 DEF PortOf
  <2>. QED BY <2>4, <2>5
<1>8. IInv'
  BY <1>2, <1>6, <1>7, MpiKeepsRanks DEF IInv
<1>9. \A r \in Rank : SameHost(r)
  BY <1>2, SameRankSameHost DEF MpiOnly
<1>10. UNCHANGED <<host_pc, host_next, host_rreq, host_sbuf>>
  BY <1>9, SameHostsStutter
<1>11. Host!BufferSend(x)
  <2>1. sent = [m EXCEPT ![Len(m)] = host_sbuf[x]]
    BY <1>1, ActiveSendBuffer DEF sent
  <2>. QED BY <1>1, <1>2, <1>10, <2>1 DEF Host!BufferSend, m
<1>. QED BY <1>2, <1>8, <1>10, <1>11 DEF Host!hostVars, MpiOnly

LEMMA DeliverStep ==
  ASSUME IInv, NEW x \in Port, NEW y \in Port, Deliver(x, y), UNCHANGED <<hostVars, deviceVars>>
  PROVE  /\ IInv' /\ Host!Deliver(x, y) /\ UNCHANGED Host!hostVars
<1>. DEFINE m == inFlight[y]
            unread == m[1] = Unread
            got == IF unread THEN sbuf[y] ELSE m[1]
<1>1. /\ TypeInv /\ (\A p \in Port : PortOf(p)) /\ \A r \in Rank : StreamInv(r)
      /\ rreq[x] = "active" /\ m \in Seq(Data) /\ m # <<>> /\ y \in Matching(x)
  BY DEF IInv, TypeInv, Deliver
<1>2. /\ MpiOnly /\ rreq' = [rreq EXCEPT ![x] = "complete"]
      /\ rbuf' = [rbuf EXCEPT ![x] = got]
      /\ sreq' = IF unread THEN [sreq EXCEPT ![y] = "complete"] ELSE sreq
      /\ inFlight' = [inFlight EXCEPT ![y] = Tail(m)]
  BY DEF Deliver, MpiOnly, SameSetting, SameRank, hostVars, setting, deviceVars
<1>3. /\ sreq[y] = "active" => m[Len(m)] = Unread
      /\ \A i \in 1 .. Len(m) : m[i] = Unread <=> i = Len(m) /\ sreq[y] = "active"
  BY <1>1 DEF PortOf, WireOf
<1>. HIDE DEF m
<1>4. /\ Len(m) \in Nat \ {0} /\ 1 \in 1 .. Len(m) /\ m[1] \in Data
      /\ Tail(m) \in Seq(Data) /\ Len(Tail(m)) = Len(m) - 1
      /\ \A i \in 1 .. Len(m) - 1 : Tail(m)[i] = m[i + 1] /\ i + 1 \in 1 .. Len(m)
  BY <1>1
<1>5. unread => sreq[y] = "active" /\ Len(m) = 1
  BY <1>3, <1>4
<1>6. got \in Data /\ (unread => got = host_sbuf[y])
  BY <1>4, <1>5, ActiveSendBuffer
<1>7. ~Uses(x[1], "unpack", x[2])
  <2>1. x[1] \in Rank /\ x[2] \in Dir /\ x = <<x[1], x[2]>>
    BY PortFacts
  <2>. QED BY <1>1, <2>1 DEF StreamInv
<1>. HIDE DEF got, unread
<1>8. /\ rreq'[x] = "complete" /\ \A p \in Port : p # x => rreq'[p] = rreq[p] /\ rbuf'[p] = rbuf[p]
      /\ inFlight'[y] = Tail(m) /\ \A p \in Port : p # y => inFlight'[p] = inFlight[p]
      /\ sreq'[y] = (IF unread THEN "complete" ELSE sreq[y])
      /\ \A p \in Port : p # y => sreq'[p] = sreq[p]
  BY <1>1, <1>2 DEF TypeInv
<1>9. TypeInv'
  <2>1. /\ inFlight' \in [Port -> Seq(Data)] /\ sreq' \in [Port -> Request]
        /\ rreq' \in [Port -> Request] /\ rbuf' \in [Port -> Data]
    BY <1>1, <1>2, <1>4, <1>6 DEF TypeInv, Request
  <2>2. UNCHANGED <<copy_by, fused, pbuf, ubuf, halo, stream, pc, rep, next, sbuf>>
    BY DEF Deliver, hostVars, setting, deviceVars
  <2>. QED BY <1>1, <2>1, <2>2 DEF TypeInv
<1>10. ASSUME NEW p \in Port PROVE PortOf(p)'
  <2>1. PcOf(p) /\ BuffersOf(p) /\ WireOf(p)
    BY <1>1 DEF PortOf
  <2>2. /\ sreq[p] = "null" <=> sreq'[p] = "null"
        /\ rreq[p] = "null" <=> rreq'[p] = "null"
        /\ Uses(p[1], "unpack", p[2]) => rbuf'[p] = rbuf[p]
    BY <1>1, <1>5, <1>7, <1>8
  <2>3. PcOf(p)' /\ BuffersOf(p)'
    BY <1>2, <2>1, <2>2, MpiKeepsPort
  <2>4. CASE p # y
    BY <1>8, <2>1, <2>3, <2>4 DEF PortOf, WireOf, Unread
  <2>5. CASE p = y /\ unread
    <3>1. Len(inFlight'[p]) = 0 /\ sreq'[p] # "active"
      BY <1>4, <1>5, <1>8, <2>5
    <3>2. WireOf(p)'
      BY <3>1 DEF WireOf
    <3>. QED BY <2>3, <3>2 DEF PortOf
  <2>6. CASE p = y /\ ~unread
    <3>1. sreq'[p] = sreq[p] /\ inFlight'[p] = Tail(m) /\ sreq[p] = sreq[y]
      BY <1>8, <2>6
    <3>2. sreq[y] = "active" => Len(m) # 1
      BY <1>3, <2>6 DEF unread
    <3>3. sreq[y] = "active" => Tail(m) # <<>>
      <4>1. sreq[y] = "active" => Len(Tail(m)) # 0
        BY <1>4, <3>2
      <4>2. Len(<<>>) = 0
        OBVIOUS
      <4>. QED BY <4>1, <4>2, Zenon
    <3>4. ASSUME NEW i \in 1 .. Len(Tail(m))
          PROVE  Tail(m)[i] = Unread <=> i = Len(Tail(m)) /\ sreq[y] = "active"
      <4>1. i \in 1 .. Len(m) - 1 /\ (i + 1 = Len(m) <=> i = Len(Tail(m)))
        BY <1>4
      <4>. QED BY <1>3, <1>4, <4>1
    <3>5. WireOf(p)'
      BY <3>1, <3>3, <3>4 DEF WireOf, Unread
    <3>. QED BY <2>3, <3>5 DEF PortOf
  <2>. QED BY <2>4, <2>5, <2>6
<1>11. IInv'
  <2>1. \A p \in Port : rreq[p] = "null" <=> rreq'[p] = "null"
    BY <1>1, <1>8
  <2>. QED BY <1>2, <1>9, <1>10, <2>1, MpiKeepsRanks DEF IInv
<1>12. \A r \in Rank : SameRank(r) /\ SameSetting
  BY <1>2 DEF MpiOnly
<1>13. ASSUME NEW p \in Port
       PROVE  /\ Sent(p)' = Sent(p)
              /\ HostRequest(p)' = IF p = x THEN "complete" ELSE HostRequest(p)
  <2>1. p[1] \in Rank
    BY PortFacts
  <2>2. \A op : Uses(p[1], op, p[2])' = Uses(p[1], op, p[2])
    BY <1>12, <2>1 DEF SameRank, Uses
  <2>3. Sent(p)' = Sent(p)
    BY <1>12, <2>1 DEF SameRank, SameSetting, Sent, IsSent
  <2>. QED BY <1>7, <1>8, <2>2, <2>3 DEF HostRequest
<1>14. HostRequest(x) = "active"
  BY <1>1, <1>7 DEF HostRequest
<1>15. host_sbuf' = host_sbuf
  BY <1>13 DEF host_sbuf, Blank, Boundary
<1>16. host_rreq' = [host_rreq EXCEPT ![x] = "complete"]
  BY <1>13 DEF host_rreq
<1>17. host_next' = host_next
  BY <1>12 DEF host_next, SameRank, SameSetting
<1>18. host_pc' = host_pc
  <2>1. ASSUME NEW r \in Rank PROVE HostPc(r)' = HostPc(r)
    <3>1. \A l \in Dir : HostRequest(<<r, l>>)' = "null" <=> HostRequest(<<r, l>>) = "null"
      BY <1>13, <1>14, PortFacts
    <3>. QED BY <1>12, <3>1 DEF HostPc, SameRank
  <2>. QED BY <2>1 DEF host_pc
<1>19. Host!Deliver(x, y)
  <2>1. host_rreq[x] = "active"
    BY <1>14 DEF host_rreq
  <2>2. y \in Host!Matching(x)
    BY <1>1, HostNames DEF Matching, Host!Matching, SendTag, RecvTag, Host!SendTag, Host!RecvTag
  <2>3. got = IF unread THEN host_sbuf[y] ELSE m[1]
    BY <1>6 DEF got
  <2>4. unread <=> m[1] = Host!Unread
    BY HostNames DEF unread
  <2>5. Head(inFlight[y]) = m[1] /\ inFlight[y] # <<>> /\ Tail(inFlight[y]) = Tail(m)
    BY <1>1 DEF m
  <2>6. sreq' = IF Head(inFlight[y]) = Host!Unread THEN [sreq EXCEPT ![y] = "complete"] ELSE sreq
    BY <1>2, <2>4, <2>5, Zenon
  <2>7. rbuf' = [rbuf EXCEPT ![x] = IF Head(inFlight[y]) = Host!Unread THEN host_sbuf[y]
                                    ELSE Head(inFlight[y])]
    BY <1>2, <2>3, <2>4, <2>5, Zenon
  <2>8. inFlight' = [inFlight EXCEPT ![y] = Tail(inFlight[y])]
    BY <1>2, <2>5, Zenon
  <2>. QED BY <1>15, <1>16, <2>1, <2>2, <2>5, <2>6, <2>7, <2>8, Zenon DEF Host!Deliver
<1>. QED BY <1>2, <1>11, <1>17, <1>18, <1>19 DEF Host!hostVars, MpiOnly

-----------------------------------------------------------------------------
(* Every step is one of HaloExchange, or changes nothing of it               *)

LEMMA StutterStep ==
  ASSUME IInv, UNCHANGED vars
  PROVE  IInv' /\ UNCHANGED Host!vars
<1>1. /\ UNCHANGED <<copy_by, fused, pc, rep, next, halo, stream, pbuf, ubuf>>
      /\ UNCHANGED <<sreq, rreq, sbuf, rbuf, inFlight>>
  BY DEF vars, hostVars, setting, deviceVars, mpiVars
<1>2. TypeInv'
  BY <1>1 DEF IInv, TypeInv
<1>3. /\ SameSetting /\ (\A r \in Rank : SameRank(r)) /\ \A p \in Port : SamePort(p)
  BY <1>1 DEF SameSetting, SameRank, SamePort
<1>4. \A r \in Rank : StreamInv(r)'
  BY <1>1, <1>3, SameStream DEF IInv
<1>5. \A p \in Port : PortOf(p)'
  BY <1>3, SamePortKeeps, PortFacts DEF IInv
<1>6. \A r \in Rank : SameHost(r)
  BY <1>1, <1>3, SameRankSameHost
<1>. QED BY <1>1, <1>2, <1>4, <1>5, <1>6, HostStutters DEF IInv

LEMMA StepIsOfHost ==
  ASSUME IInv, [Next]_vars
  PROVE  IInv' /\ [Host!Next]_(Host!vars)
<1>1. ASSUME NEW r \in Rank, HostStep(r) PROVE IInv' /\ [Host!Next]_(Host!vars)
  <2>1. CASE PostReceives(r)
    BY <2>1, PostStep, Zenon DEF Host!Next, Host!RankStep
  <2>2. CASE LaunchPack(r)
    BY <2>2, LaunchPackStep, Zenon
  <2>3. CASE CopyPacked(r)
    BY <2>3, CopyStep, Zenon
  <2>4. CASE SyncAndSend(r)
    BY <2>4, SendStep, Zenon DEF Host!Next, Host!RankStep
  <2>5. CASE (\E l \in Dir : LaunchUnpack(r, l)) \/ LaunchUnpackAll(r)
    BY <2>5, LaunchUnpackStep, Zenon
  <2>6. CASE SyncUnpack(r)
    BY <2>6, SyncStep, Zenon
  <2>7. CASE WaitSends(r)
    BY <2>7, WaitStep, Zenon DEF Host!Next, Host!RankStep
  <2>. QED BY <1>1, <2>1, <2>2, <2>3, <2>4, <2>5, <2>6, <2>7, Zenon DEF HostStep
<1>2. ASSUME NEW r \in Rank, NEW l \in Dir, RunPack(r, l) PROVE IInv' /\ [Host!Next]_(Host!vars)
  BY <1>2, RunPackStep, Zenon
<1>3. ASSUME NEW r \in Rank, NEW l \in Dir, RunUnpack(r, l)
      PROVE  IInv' /\ [Host!Next]_(Host!vars)
  <2>1. IInv' /\ Host!UnpackOne(r, l) /\ l \in Host!Dir
    BY <1>3, RunUnpackStep, HostNames, Zenon
  <2>. QED BY <2>1, Zenon DEF Host!Next, Host!RankStep
<1>4. ASSUME MpiStep PROVE IInv' /\ [Host!Next]_(Host!vars)
  <2>1. PICK x \in Port : BufferSend(x) \/ \E y \in Port : Deliver(x, y)
    BY <1>4 DEF MpiStep
  <2>2. UNCHANGED <<hostVars, deviceVars>> /\ x \in Host!Port
    BY <1>4, HostNames DEF MpiStep
  <2>3. CASE BufferSend(x)
    BY <2>2, <2>3, BufferStep, Zenon DEF Host!Next, Host!MpiStep
  <2>4. CASE \E y \in Port : Deliver(x, y)
    <3>1. PICK y \in Port : Deliver(x, y)
      BY <2>4
    <3>2. y \in Host!Port
      BY HostNames, Zenon
    <3>. QED BY <2>2, <3>1, <3>2, DeliverStep, Zenon DEF Host!Next, Host!MpiStep
  <2>. QED BY <2>1, <2>3, <2>4
<1>5. ASSUME UNCHANGED vars PROVE IInv' /\ [Host!Next]_(Host!vars)
  BY <1>5, StutterStep, Zenon
<1>. QED BY <1>1, <1>2, <1>3, <1>4, <1>5, Zenon DEF Next, Device, Finished

LEMMA InitIsOfHost == ASSUME Init PROVE Host!Init
<1>1. /\ pc = [r \in Rank |-> "post"] /\ rep = [r \in Rank |-> 0]
      /\ next = [r \in Rank |-> 0] /\ rreq = [p \in Port |-> "null"]
      /\ stream = [r \in Rank |-> <<>>]
  BY DEF Init, MpiInit
<1>2. \A p \in Port : HostRequest(p) = "null" /\ Sent(p) = 0
  BY <1>1, PortFacts DEF HostRequest, Uses, Sent, IsSent
<1>3. host_rreq = [p \in Port |-> "null"] /\ host_sbuf = [p \in Port |-> Blank]
  BY <1>2 DEF host_rreq, host_sbuf
<1>4. host_pc = [r \in Rank |-> "post"]
  BY <1>1 DEF host_pc, HostPc
<1>5. host_next = [r \in Rank |-> 0]
  BY <1>1 DEF host_next
<1>. QED BY <1>3, <1>4, <1>5, HostNames DEF Init, MpiInit, Host!Init, Host!MpiInit

-----------------------------------------------------------------------------
(* The theorems, where no copy is made at once by the host                   *)

LEMMA InductiveInvariant ==
  ASSUME "host" \notin CopyKinds
  PROVE  Spec => []IInv
<1>1. Init => IInv
  BY InitIsFine
<1>2. IInv /\ [Next]_vars => IInv'
  BY StepIsOfHost, Zenon
<1>. QED BY <1>1, <1>2, PTL DEF Spec

(* The device, its buffers and MPI stay within their types.                  *)
THEOREM DeviceTypesHold ==
  ASSUME "host" \notin CopyKinds
  PROVE  Spec => []TypeOK
<1>0. Init => copy_by \in CopyKinds
  BY DEF Init
<1>1. copy_by \in CopyKinds /\ [Next]_vars => (copy_by \in CopyKinds)'
  <2>1. ASSUME [Next]_vars PROVE copy_by' = copy_by
    BY <2>1 DEF Next, vars, hostVars, setting, HostStep, PostReceives, LaunchPack, CopyPacked,
                SyncAndSend, LaunchUnpack, LaunchUnpackAll, SyncUnpack, WaitSends, Device,
                RunPack, RunUnpack, MpiStep, Finished
  <2>. QED BY <2>1
<1>2. IInv /\ copy_by \in CopyKinds => TypeOK
  <2>. SUFFICES ASSUME TypeInv, copy_by \in CopyKinds PROVE TypeOK
    BY DEF IInv
  <2>1. \A p \in Port : inFlight[p] \in Seq(Data)
    BY DEF TypeInv
  <2>2. \A p \in Port : \A i \in 1 .. Len(inFlight[p]) : inFlight[p][i] \in Data
    BY <2>1
  <2>3. \A r \in Rank : stream[r] \in Seq(KernelType)
    BY DEF TypeInv
  <2>4. \A r \in Rank : \A i \in 1 .. Len(stream[r]) : stream[r][i] \in KernelType
    BY <2>3
  <2>. QED BY <2>2, <2>4 DEF TypeInv, TypeOK, KernelType
<1>. QED BY <1>0, <1>1, <1>2, InductiveInvariant, PTL DEF Spec

(* MPI never reads a send buffer that a kernel on the stream will still      *)
(* write, and never receives into one that a kernel will still read          *)
(* (HALO_EXCHANGE-Cuda.cpp:67-102): the synchronizations are enough.         *)
THEOREM BuffersAreNeverShared ==
  ASSUME "host" \notin CopyKinds
  PROVE  Spec => []StreamAndMpiShareNoBuffer
<1>1. IInv => StreamAndMpiShareNoBuffer
  <2>. SUFFICES ASSUME IInv, ~Separate, NEW p \in Port
                PROVE  /\ sreq[p] = "active" => ~Uses(p[1], "pack", p[2])
                       /\ rreq[p] = "active" => ~Uses(p[1], "unpack", p[2])
    BY DEF StreamAndMpiShareNoBuffer
  <2>1. /\ p[1] \in Rank /\ p[2] \in Dir /\ p = <<p[1], p[2]>> /\ p[2] \in Nat
        /\ StreamInv(p[1]) /\ PcOf(p) /\ TypeInv
    BY PortFacts DEF IInv, PortOf
  <2>2. ASSUME sreq[p] = "active", Uses(p[1], "pack", p[2]) PROVE FALSE
    <3>1. IsSent(p) /\ p[2] \in Packed(p[1])
      BY <2>1, <2>2 DEF PcOf, StreamInv
    <3>2. stream[p[1]] # <<>> /\ pc[p[1]] \notin {"unpack", "sync"}
      BY <2>1, <2>2 DEF Uses, StreamInv, AllOf
    <3>3. pc[p[1]] \in {"copy", "send"}
      BY <2>1, <3>2 DEF StreamInv, TypeInv
    <3>4. p[2] < next[p[1]] /\ (fused => next[p[1]] = 0)
      BY <2>1, <3>1, <3>2, <3>3 DEF IsSent, StreamInv
    <3>5. next[p[1]] \in Nat
      BY <2>1 DEF TypeInv
    <3>. QED BY <2>1, <3>1, <3>4, <3>5 DEF Packed, TypeInv
  <2>3. ASSUME rreq[p] = "active", Uses(p[1], "unpack", p[2]) PROVE FALSE
    BY <2>1, <2>3 DEF StreamInv
  <2>. QED BY <2>2, <2>3
<1>. QED BY <1>1, InductiveInvariant, PTL

(* To MPI and its neighbors a rank with a device is one that packs and       *)
(* unpacks itself, with and without fusion.                                  *)
THEOREM DeviceImplementsHost ==
  ASSUME "host" \notin CopyKinds
  PROVE  Spec => ImplementsHaloExchange
<1>1. Init => Host!Init
  BY InitIsOfHost
<1>2. IInv /\ [Next]_vars => [Host!Next]_(Host!vars)
  BY StepIsOfHost, Zenon
<1>. QED BY <1>1, <1>2, InductiveInvariant, PTL DEF Spec, ImplementsHaloExchange, Host!Spec

(* What is proved of HaloExchange is true of the mapped variables.           *)
HP == INSTANCE HaloExchangeProofs WITH
  pc <- host_pc, next <- host_next, rreq <- host_rreq, sbuf <- host_sbuf

LEMMA ProofsApply ==
  /\ Reps \in Nat
  /\ num_neighbors \in Nat \ {0}
  /\ Neighbor \in [HP!Port -> Rank]
  /\ Opposite \in [HP!Dir -> HP!Dir]
  /\ \A l \in HP!Dir : Opposite[Opposite[l]] = l
  /\ \A p \in HP!Port : Neighbor[HP!Partner[p]] = p[1]
BY DEF HP!Port, HP!Dir, HP!Partner, Port, Dir, Partner

LEMMA SameSpec == Host!Spec <=> HP!Spec
<1>1. /\ Host!Port = HP!Port /\ Host!Dir = HP!Dir /\ Host!vars = HP!vars
      /\ Host!mpiVars = HP!mpiVars /\ Host!hostVars = HP!hostVars
  BY DEF Host!Port, HP!Port, Host!Dir, HP!Dir, Host!vars, HP!vars, Host!mpiVars, HP!mpiVars,
         Host!hostVars, HP!hostVars
<1>2. Host!Init <=> HP!Init
  BY DEF Host!Init, HP!Init, Host!MpiInit, HP!MpiInit, Host!Port, HP!Port, Host!Dir, HP!Dir,
         Host!Blank, HP!Blank
<1>3. \A r \in Rank : Host!RankStep(r) <=> HP!RankStep(r)
  <2>1. \A r : Host!PostReceives(r) <=> HP!PostReceives(r)
    BY Zenon DEF Host!PostReceives, HP!PostReceives, Host!IrecvAll, HP!IrecvAll, Host!Port,
                 HP!Port, Host!Dir, HP!Dir
  <2>2. \A r : Host!PackAndSend(r) <=> HP!PackAndSend(r)
    BY Zenon DEF Host!PackAndSend, HP!PackAndSend, Host!Isend, HP!Isend, Host!Boundary,
                 HP!Boundary, Host!Unread, HP!Unread, Host!IsLast, HP!IsLast
  <2>3. \A r, l : Host!UnpackOne(r, l) <=> HP!UnpackOne(r, l)
    BY Zenon DEF Host!UnpackOne, HP!UnpackOne, Host!OthersNull, HP!OthersNull, Host!Dir, HP!Dir
  <2>4. \A r : Host!WaitSends(r) <=> HP!WaitSends(r)
    BY Zenon DEF Host!WaitSends, HP!WaitSends, Host!SendsDone, HP!SendsDone, Host!AllComplete,
                 HP!AllComplete, Host!NullAll, HP!NullAll, Host!Port, HP!Port, Host!Dir, HP!Dir
  <2>. QED BY <1>1, <2>1, <2>2, <2>3, <2>4, Zenon DEF Host!RankStep, HP!RankStep
<1>4. Host!MpiStep <=> HP!MpiStep
  <2>1. \A p : Host!BufferSend(p) <=> HP!BufferSend(p)
    BY Zenon DEF Host!BufferSend, HP!BufferSend
  <2>2. \A p, q : Host!Deliver(p, q) <=> HP!Deliver(p, q)
    BY Zenon DEF Host!Deliver, HP!Deliver, Host!Matching, HP!Matching, Host!SendTag,
                 HP!SendTag, Host!RecvTag, HP!RecvTag, Host!Port, HP!Port, Host!Dir, HP!Dir,
                 Host!Unread, HP!Unread
  <2>3. UNCHANGED Host!hostVars <=> UNCHANGED HP!hostVars
    BY DEF Host!hostVars, HP!hostVars
  <2>. QED BY <1>1, <2>1, <2>2, <2>3, Zenon DEF Host!MpiStep, HP!MpiStep
<1>5. UNCHANGED Host!vars <=> UNCHANGED HP!vars
  BY DEF Host!vars, HP!vars, Host!mpiVars, HP!mpiVars, Host!hostVars, HP!hostVars
<1>6. [Host!Next]_(Host!vars) <=> [HP!Next]_(HP!vars)
  BY <1>3, <1>4, <1>5, Zenon DEF Host!Next, HP!Next, Host!Finished, HP!Finished
<1>. QED BY <1>2, <1>6, PTL DEF Host!Spec, HP!Spec

(* When a rank has synchronized after the unpacking, its halo holds what its *)
(* neighbors packed in the same repetition (HALO_EXCHANGE-Cuda.cpp:55-116):  *)
(* no kernel reads or writes a buffer too late or too early.                 *)
THEOREM DeviceHaloIsOfThisRep ==
  ASSUME "host" \notin CopyKinds
  PROVE  Spec => []HaloIsOfThisRep
<1>1. HP!HaloIsOfThisRep => HaloIsOfThisRep
  <2>. SUFFICES ASSUME HP!HaloIsOfThisRep, NEW r \in Rank, pc[r] = "wait", NEW l \in Dir
                PROVE  halo[<<r, l>>] = Boundary(Partner[<<r, l>>], rep[r] + 1)
    BY DEF HaloIsOfThisRep
  <2>1. host_pc[r] = "wait" /\ l \in HP!Dir
    BY DEF host_pc, HostPc, HP!Dir, Dir
  <2>2. HP!Partner = Partner
    BY DEF HP!Partner, HP!Port, HP!Dir, Partner, Port, Dir
  <2>3. halo[<<r, l>>] = HP!Boundary(HP!Partner[<<r, l>>], rep[r] + 1)
    BY <2>1, Zenon DEF HP!HaloIsOfThisRep
  <2>. QED BY <2>2, <2>3 DEF HP!Boundary, Boundary
<1>2. HP!Spec => []HP!HaloIsOfThisRep
  BY ProofsApply, HP!NoMixedRepetitions, PTL
<1>3. Spec => HP!Spec
  BY DeviceImplementsHost, SameSpec, PTL DEF ImplementsHaloExchange
<1>. QED BY <1>1, <1>2, <1>3, PTL

(* So it promises what the exchange on the host promises: no rank completes  *)
(* a repetition before its neighbors have published theirs.                  *)
THEOREM DeviceImplementsNeighborExchange ==
  ASSUME "host" \notin CopyKinds
  PROVE  Spec => HP!ImplementsNeighborExchange
<1>1. HP!Spec => HP!ImplementsNeighborExchange
  BY ProofsApply, HP!HaloExchangeImplementsNeighborExchange, PTL
<1>2. Spec => HP!Spec
  BY DeviceImplementsHost, SameSpec, PTL DEF ImplementsHaloExchange
<1>. QED BY <1>1, <1>2, PTL

=============================================================================
