------------------------- MODULE HaloExchangeStream -------------------------
(***************************************************************************)
(* HALO_EXCHANGE and HALO_EXCHANGE_FUSED on a GPU (Base_CUDA, RAJA_CUDA,     *)
(* Base_HIP, RAJA_HIP): the host of a rank launches the packing and          *)
(* unpacking kernels on a stream, which runs them in order and later, and    *)
(* waits for the stream before it sends and after it has launched the last   *)
(* unpacking.                                                                *)
(*                                                                           *)
(* The fused kernel packs all directions in one launch before it sends the   *)
(* first of them, and waits for all receives before it unpacks them in one.  *)
(* Its variants on the host and for OpenMP target, and HALO_EXCHANGE for     *)
(* OpenMP target, make the same calls, with loops that have ended when the   *)
(* next call begins: of the behaviours with copies by "device" or "none"    *)
(* they have those in which a kernel runs as soon as it is launched.         *)
(*                                                                           *)
(* copy_by says what copyData does with the buffers of a direction, which    *)
(* depends on where setUp allocates them and does not change afterwards:     *)
(*   "none"    the send and receive buffers are the pack and unpack buffers  *)
(*   "device"  cudaMemcpy or hipMemcpy, which run after the kernels that are *)
(*             launched and return when they are done                        *)
(*   "host"    memcpy, at once: both spaces are host copy spaces, as with    *)
(*             pinned device data and Copy for the MPI buffers               *)
(***************************************************************************)
EXTENDS HaloMpi

CONSTANTS Reps,     \* run_reps
          CopyKinds \* the kinds of copies that setUp may choose from
ASSUME StreamAssumption == Reps \in Nat /\ CopyKinds \subseteq {"none", "device", "host"}

VARIABLES copy_by,
          fused,  \* HALO_EXCHANGE_FUSED
          pc, rep, next, halo,
          stream, \* per rank: kernels launched and not yet run
          pbuf,   \* pack_buffers
          ubuf    \* unpack_buffers
setting == <<copy_by, fused>>
hostVars == <<setting, pc, rep, next>>
deviceVars == <<halo, stream, pbuf, ubuf>>
vars == <<mpiVars, hostVars, deviceVars>>

Separate == copy_by # "none"
Kernel(op, dirs) == [op |-> op, dirs |-> dirs]

Init ==
  /\ MpiInit
  /\ copy_by \in CopyKinds
  /\ fused \in BOOLEAN
  /\ pc = [r \in Rank |-> "post"]
  /\ rep = [r \in Rank |-> 0]
  /\ next = [r \in Rank |-> 0]
  /\ halo = [p \in Port |-> Blank]
  /\ stream = [r \in Rank |-> <<>>]
  /\ pbuf = [p \in Port |-> Blank]
  /\ ubuf = [p \in Port |-> Blank]

PostReceives(r) ==
  /\ pc[r] = "post" /\ rep[r] < Reps
  /\ IrecvAll(r)
  /\ pc' = [pc EXCEPT ![r] = "pack"]
  /\ next' = [next EXCEPT ![r] = 0]
  /\ UNCHANGED <<setting, sreq, sbuf, rbuf, inFlight, rep, deviceVars>>

Packed(r) == IF fused THEN Dir ELSE {next[r]}
LaunchPack(r) ==
  /\ pc[r] = "pack"
  /\ stream' = [stream EXCEPT ![r] = Append(@, Kernel("pack", Packed(r)))]
  /\ pc' = [pc EXCEPT ![r] = IF Separate THEN "copy" ELSE "send"]
  /\ UNCHANGED <<setting, mpiVars, rep, next, halo, pbuf, ubuf>>

(* The end of the stream, as copyData and the synchronizations wait for it.  *)
NoSync(r) == TRUE
StreamDone(r) == stream[r] = <<>>
CopyMayRun(r) == copy_by = "host" \/ stream[r] = <<>>

PastLast(l) == l = num_neighbors
IsLast(l) == l = num_neighbors - 1

(* The fused kernel copies all buffers in a loop before its loop of sends.   *)
CopyPacked(r) ==
  /\ pc[r] = "copy" /\ CopyMayRun(r)
  /\ sbuf' = [sbuf EXCEPT ![<<r, next[r]>>] = pbuf[<<r, next[r]>>]]
  /\ pc' = IF fused /\ ~IsLast(next[r]) THEN pc ELSE [pc EXCEPT ![r] = "send"]
  /\ next' = IF fused THEN [next EXCEPT ![r] = IF IsLast(@) THEN 0 ELSE @ + 1] ELSE next
  /\ UNCHANGED <<setting, sreq, rreq, rbuf, inFlight, rep, deviceVars>>

SyncAndSend(r) ==
  /\ pc[r] = "send" /\ StreamDone(r)
  /\ Isend(<<r, next[r]>>)
  /\ next' = [next EXCEPT ![r] = @ + 1]
  /\ pc' = [pc EXCEPT ![r] = CASE IsLast(next[r]) -> "unpack"
                                 [] ~IsLast(next[r]) /\ fused -> "send"
                                 [] OTHER -> "pack"]
  /\ UNCHANGED <<setting, rreq, sbuf, rbuf, rep, deviceVars>>

(* MPI_Waitany, the copy to the unpack buffer, and the launch.               *)
LaunchUnpack(r, l) ==
  /\ pc[r] = "unpack" /\ ~fused /\ rreq[<<r, l>>] = "complete"
  /\ Separate => CopyMayRun(r)
  /\ rreq' = [rreq EXCEPT ![<<r, l>>] = "null"]
  /\ ubuf' = IF Separate THEN [ubuf EXCEPT ![<<r, l>>] = rbuf[<<r, l>>]] ELSE ubuf
  /\ stream' = [stream EXCEPT ![r] = Append(@, Kernel("unpack", {l}))]
  /\ pc' = IF \A k \in Dir \ {l} : rreq[<<r, k>>] = "null" THEN [pc EXCEPT ![r] = "sync"] ELSE pc
  /\ UNCHANGED <<setting, sreq, sbuf, rbuf, inFlight, rep, next, halo, pbuf>>

(* The fused kernel: MPI_Waitall, the copies to the unpack buffers, and the  *)
(* one launch.                                                               *)
LaunchUnpackAll(r) ==
  /\ pc[r] = "unpack" /\ fused /\ AllComplete(rreq, r)
  /\ Separate => CopyMayRun(r)
  /\ rreq' = NullAll(rreq, r)
  /\ ubuf' = IF Separate THEN [p \in Port |-> IF p[1] = r THEN rbuf[p] ELSE ubuf[p]] ELSE ubuf
  /\ stream' = [stream EXCEPT ![r] = Append(@, Kernel("unpack", Dir))]
  /\ pc' = [pc EXCEPT ![r] = "sync"]
  /\ UNCHANGED <<setting, sreq, sbuf, rbuf, inFlight, rep, next, halo, pbuf>>

SyncUnpack(r) ==
  /\ pc[r] = "sync" /\ StreamDone(r)
  /\ pc' = [pc EXCEPT ![r] = "wait"]
  /\ UNCHANGED <<setting, mpiVars, rep, next, deviceVars>>

WaitSends(r) ==
  /\ pc[r] = "wait" /\ AllComplete(sreq, r)
  /\ sreq' = NullAll(sreq, r)
  /\ rep' = [rep EXCEPT ![r] = @ + 1]
  /\ pc' = [pc EXCEPT ![r] = "post"]
  /\ UNCHANGED <<setting, rreq, sbuf, rbuf, inFlight, next, deviceVars>>

HostStep(r) ==
  \/ PostReceives(r) \/ LaunchPack(r) \/ CopyPacked(r) \/ SyncAndSend(r)
  \/ (\E l \in Dir : LaunchUnpack(r, l)) \/ LaunchUnpackAll(r) \/ SyncUnpack(r) \/ WaitSends(r)

(* The device runs the kernel at the head of the stream, the blocks of the   *)
(* fused kernels in any order. Without separate buffers a packing kernel     *)
(* writes what MPI sends, an unpacking kernel reads what MPI received.       *)
BlocksEnd(r, l) ==
  LET left == Head(stream[r]).dirs \ {l}
  IN  stream' = [stream EXCEPT ![r] = IF left = {} THEN Tail(@) ELSE [@ EXCEPT ![1].dirs = left]]
Running(r, op, l) == stream[r] # <<>> /\ Head(stream[r]).op = op /\ l \in Head(stream[r]).dirs

RunPack(r, l) ==
  /\ Running(r, "pack", l) /\ BlocksEnd(r, l)
  /\ LET p == <<r, l>>
         b == Boundary(p, rep[r] + 1)
     IN  /\ pbuf' = IF Separate THEN [pbuf EXCEPT ![p] = b] ELSE pbuf
         /\ sbuf' = IF Separate THEN sbuf ELSE [sbuf EXCEPT ![p] = b]
  /\ UNCHANGED <<sreq, rreq, rbuf, inFlight, hostVars, halo, ubuf>>

RunUnpack(r, l) ==
  /\ Running(r, "unpack", l) /\ BlocksEnd(r, l)
  /\ halo' = [halo EXCEPT ![<<r, l>>] = IF Separate THEN ubuf[<<r, l>>] ELSE rbuf[<<r, l>>]]
  /\ UNCHANGED <<mpiVars, hostVars, pbuf, ubuf>>

MpiStep ==
  /\ \E p \in Port : BufferSend(p) \/ (\E q \in Port : Deliver(p, q))
  /\ UNCHANGED <<hostVars, deviceVars>>
Finished == (\A r \in Rank : rep[r] = Reps) /\ UNCHANGED vars

Device(r) == \E l \in Dir : RunPack(r, l) \/ RunUnpack(r, l)
Next == (\E r \in Rank : HostStep(r) \/ Device(r)) \/ MpiStep \/ Finished
Spec == Init /\ [][Next]_vars

-----------------------------------------------------------------------------
Data == [port : Port \cup {<<>>}, rep : Int]
TypeOK ==
  /\ copy_by \in CopyKinds /\ fused \in BOOLEAN
  /\ sreq \in [Port -> Request] /\ rreq \in [Port -> Request]
  /\ {sbuf, rbuf, pbuf, ubuf, halo} \subseteq [Port -> Data]
  /\ \A p \in Port : \A i \in 1 .. Len(inFlight[p]) : inFlight[p][i] \in Data
  /\ \A r \in Rank : \A i \in 1 .. Len(stream[r]) :
       stream[r][i] \in [op : {"pack", "unpack"}, dirs : SUBSET Dir]
  /\ pc \in [Rank -> {"post", "pack", "copy", "send", "unpack", "sync", "wait"}]
  /\ rep \in [Rank -> 0 .. Reps] /\ next \in [Rank -> 0 .. num_neighbors]

(* When a rank has synchronized after the unpacking, its halo holds what its *)
(* neighbors packed in the same repetition: send_buffers[l] is sent with     *)
(* what was packed into pack_buffers[l] (HALO_EXCHANGE.hpp:19-35), and the   *)
(* kernels have read every receive buffer.                                   *)
HaloIsOfThisRep ==
  \A r \in Rank : pc[r] = "wait" =>
    \A l \in Dir : halo[<<r, l>>] = Boundary(Partner[<<r, l>>], rep[r] + 1)

(* MPI never reads a send buffer that a kernel on the stream will still      *)
(* write, and never receives into a buffer that a kernel will still read.    *)
Uses(r, op, l) == \E i \in 1 .. Len(stream[r]) : stream[r][i].op = op /\ l \in stream[r][i].dirs
StreamAndMpiShareNoBuffer ==
  ~Separate =>
    \A p \in Port :
      /\ sreq[p] = "active" => ~Uses(p[1], "pack", p[2])
      /\ rreq[p] = "active" => ~Uses(p[1], "unpack", p[2])

(* To MPI and to the neighbors it is HaloExchange: a rank packs a boundary   *)
(* when it sends it, and unpacks one when the device does, one block at a    *)
(* time, until no receive request is left.                                   *)
IsSent(p) ==
  \/ pc[p[1]] \in {"unpack", "sync", "wait"}
  \/ pc[p[1]] \in (IF fused THEN {"send"} ELSE {"pack", "copy", "send"}) /\ p[2] < next[p[1]]
Sent(p) == rep[p[1]] + (IF IsSent(p) THEN 1 ELSE 0)
HostRequest(p) == IF Uses(p[1], "unpack", p[2]) THEN "complete" ELSE rreq[p]
HostPc(r) ==
  CASE pc[r] \in {"pack", "copy", "send"} -> "pack"
    [] pc[r] \in {"unpack", "sync"} ->
         IF \A l \in Dir : HostRequest(<<r, l>>) = "null" THEN "wait" ELSE "unpack"
    [] OTHER -> pc[r]
host_pc == [r \in Rank |-> HostPc(r)]
host_next == [r \in Rank |-> IF fused /\ pc[r] = "copy" THEN 0 ELSE next[r]]
host_rreq == [p \in Port |-> HostRequest(p)]
host_sbuf == [p \in Port |-> IF Sent(p) = 0 THEN Blank ELSE Boundary(p, Sent(p))]
Host == INSTANCE HaloExchange WITH
  pc <- host_pc, next <- host_next, rreq <- host_rreq, sbuf <- host_sbuf
ImplementsHaloExchange == Host!Spec

=============================================================================
