---------------------------- MODULE CommKernels ----------------------------
(***************************************************************************)
(* HALO_PACKING and HALO_PACKING_FUSED (src/comm): one rank that is its    *)
(* own neighbor packs the boundaries of its variables into buffers, and    *)
(* unpacks other buffers into their halos.  Nothing is sent.               *)
(*                                                                         *)
(* The lists are those of HaloTopology for a halo of width 1 around a cube *)
(* of Target3 cells.  PackDirs and PackVars bound the directions, of 26,   *)
(* and the variables, of 3: a face, an edge and a corner have lists of     *)
(* different lengths, so that in the fused kernels none has the average    *)
(* length by which work is shared out.                                     *)
(*                                                                         *)
(* separate: the buffers MPI would use are not those that are packed.      *)
(***************************************************************************)
EXTENDS KernelLoops

CONSTANTS
    PackDirs,   \* a subset of the directions of s_boundary_offsets
    PackVars    \* num_vars

LOCAL Topology == INSTANCE HaloTopology

LOCAL Dirs == SetToSortSeq(PackDirs, <)
LOCAL Vars == Upto(0, PackVars)
LOCAL Width == 1
LOCAL Grid == [d \in 1 .. 3 |-> Cbrt(Target3)]
LOCAL VarSize == Topology!Volume([d \in 1 .. 3 |-> Grid[d] + 2 * Width])

LOCAL IndexLists(op) ==
    [l \in PackDirs |->
        Topology!IndexList(IF op = "pack" THEN Topology!SendExtent(l, Width, Grid)
                                          ELSE Topology!RecvExtent(l, Width, Grid), Width, Grid)]
LOCAL PackLists == IndexLists("pack")
LOCAL UnpackLists == IndexLists("unpack")
LOCAL ListOf(op, l) == IF op = "pack" THEN PackLists[l] ELSE UnpackLists[l]
LOCAL Length(op, l) == Cardinality(DOMAIN ListOf(op, l))

-----------------------------------------------------------------------------
(* Arrays: a variable for each v, a list and up to two buffers for each    *)
(* direction and each way.                                                 *)
LOCAL Of(x, n) == x \o ToString(n)
LOCAL Named(x, S, Size(_)) ==
    [a \in {Of(x, n) : n \in S} |-> Size(CHOOSE n \in S : Of(x, n) = a)]
LOCAL Buffer(op, l) == Of(op \o "_buffer", l)
LOCAL List(op, l) == Of(op \o "_list", l)
LOCAL BufferLength(op, l) == PackVars * Length(op, l)

LOCAL OfEachDir(op, mpi, separate) ==
    Named(op \o "_list", PackDirs, LAMBDA l : Length(op, l))
    @@ Named(op \o "_buffer", PackDirs, LAMBDA l : BufferLength(op, l))
    @@ (IF separate THEN Named(mpi, PackDirs, LAMBDA l : BufferLength(op, l)) ELSE <<>>)

LOCAL Variables == Named("var", Range(Vars), LAMBDA v : VarSize)
LOCAL Halo_Data(kernels, separate) ==
    LET heap == Variables @@ OfEachDir("pack", "send_buffer", separate)
                          @@ OfEachDir("unpack", "recv_buffer", separate)
        sent == Named(IF separate THEN "send_buffer" ELSE "pack_buffer", PackDirs,
                      LAMBDA l : BufferLength("pack", l))
    IN  Data(heap, Variables @@ sent, DOMAIN heap, kernels)

(* buffer[i] = var[list[i]] and var[list[i]] = buffer[i], where the buffer *)
(* of the variable v begins v lengths into that of the direction.          *)
LOCAL InBuffer(op, t) == <<Buffer(op, t[1]), t[2] * Length(op, t[1]) + t[3]>>
LOCAL InVar(op, t) ==
    LET list == ListOf(op, t[1])    \* past its end there is no index of the array
    IN  <<Of("var", t[2]), IF t[3] \in DOMAIN list THEN list[t[3]] ELSE VarSize>>
LOCAL InList(op, t) == <<List(op, t[1]), t[3]>>
HALO_Body(op, t) ==
    IF op = "pack" THEN Body({InList(op, t), InVar(op, t)}, {InBuffer(op, t)})
                   ELSE Body({InList(op, t), InBuffer(op, t)}, {InVar(op, t)})

\* copyData of a whole buffer
LOCAL CopyFrom(from, to, n) ==
    HostLoop("copy", [i \in 1 .. n |-> <<to, i - 1>>],
             LAMBDA c : Body({<<from, c[2]>>}, {c}))
LOCAL CopyToSend(l, separate) ==
    IF separate
    THEN <<CopyFrom(Buffer("pack", l), Of("send_buffer", l), BufferLength("pack", l))>> ELSE <<>>
LOCAL CopyFromRecv(l, separate) ==
    IF separate
    THEN <<CopyFrom(Of("recv_buffer", l), Buffer("unpack", l), BufferLength("unpack", l))>> ELSE <<>>

\* The iterations for direction l and variable v.
LOCAL Its(op, l, v) == [i \in 1 .. Length(op, l) |-> <<l, v, i - 1>>]

LOCAL OverDirs(F(_)) == FlattenSeq([n \in DOMAIN Dirs |-> F(Dirs[n])])
LOCAL OverVars(F(_)) == [n \in DOMAIN Vars |-> F(Vars[n])]

-----------------------------------------------------------------------------
(* HALO_PACKING: a loop for each direction and variable. *)
HALO_PACKING_Data(separate) == Halo_Data(2 * Len(Dirs) * PackVars, separate)
LOCAL Packing(Loop(_, _, _), separate) ==
    OverDirs(LAMBDA l : OverVars(LAMBDA v : Loop("pack", l, v)) \o CopyToSend(l, separate))
    \o OverDirs(LAMBDA l : CopyFromRecv(l, separate) \o OverVars(LAMBDA v : Loop("unpack", l, v)))
HALO_PACKING_Seq(separate) ==
    Packing(LAMBDA op, l, v : SeqLoop(op, Its(op, l, v), LAMBDA t : HALO_Body(op, t)), separate)
HALO_PACKING_OMP(separate) ==
    Packing(LAMBDA op, l, v : OmpFor(op, Its(op, l, v), LAMBDA t : HALO_Body(op, t)), separate)
HALO_PACKING_Target(separate) ==
    Packing(LAMBDA op, l, v : OmpFor(op, Its(op, l, v), LAMBDA t : HALO_Body(op, t)), separate)
HALO_PACKING_CUDA(separate) ==
    Packing(LAMBDA op, l, v : ForallOver(op, 0, Length(op, l), LAMBDA i : <<<<l, v, i>>>>,
                                         LAMBDA t : HALO_Body(op, t)), separate)
HALO_PACKING_HIP(separate) == HALO_PACKING_CUDA(separate)

-----------------------------------------------------------------------------
(* HALO_PACKING_FUSED: the tables of buffers, lists, variables and lengths *)
(* have an entry j for each direction and variable, and one loop goes over *)
(* them.                                                                   *)
HALO_PACKING_FUSED_Data(separate) == Halo_Data(2, separate)
LOCAL Fused(Loop(_), separate) ==
    <<Loop("pack")>>
    \o OverDirs(LAMBDA l : CopyToSend(l, separate))
    \o OverDirs(LAMBDA l : CopyFromRecv(l, separate))
    \o <<Loop("unpack")>>
LOCAL Entries == Nest2(Dirs, Vars)
LOCAL Entry(op, j) == Its(op, j[1], j[2])

\* pack_len_ave: the average length of an entry, rounded up
AverageLength(op) ==
    DivideCeiling(FoldLeft(LAMBDA n, j : n + Length(op, j[1]), 0, Entries), Len(Entries))

\* for (i = first; i < len; i += stride)
LOCAL From(op, j, first, stride) ==
    [n \in 1 .. DivideCeiling(Greatest(Length(op, j[1]) - first, 0), stride) |->
        <<j[1], j[2], first + (n - 1) * stride>>]

HALO_PACKING_FUSED_Seq(separate) ==
    Fused(LAMBDA op : SeqLoop(op, FlattenSeq([n \in DOMAIN Entries |-> Entry(op, Entries[n])]),
                              LAMBDA t : HALO_Body(op, t)), separate)
HALO_PACKING_FUSED_OMP(separate) ==
    Fused(LAMBDA op : ParLoop(op, Entries, LAMBDA j : Entry(op, j),
                              LAMBDA t : HALO_Body(op, t)), separate)
\* collapse(2) over the entries and the average length
HALO_PACKING_FUSED_Target(separate) ==
    Fused(LAMBDA op :
        LET ave == AverageLength(op)
        IN  ParLoop(op, Nest2(Entries, Upto(0, ave)), LAMBDA w : From(op, w[1], w[2], ave),
                    LAMBDA t : HALO_Body(op, t)), separate)
\* A row of blocks for each entry, as many as the average length needs.
HALO_PACKING_FUSED_CUDA(separate) ==
    Fused(LAMBDA op :
        LET row == DivideCeiling(AverageLength(op), BlockSize) * BlockSize
        IN  ParLoop(op, Nest2(Entries, Upto(0, row)), LAMBDA w : From(op, w[1], w[2], row),
                    LAMBDA t : HALO_Body(op, t)), separate)
HALO_PACKING_FUSED_HIP(separate) == HALO_PACKING_FUSED_CUDA(separate)

-----------------------------------------------------------------------------
LOCAL PackingWith(s) ==
    [data |-> HALO_PACKING_Data(s), Seq |-> HALO_PACKING_Seq(s), OpenMP |-> HALO_PACKING_OMP(s),
     OpenMPTarget |-> HALO_PACKING_Target(s), CUDA |-> HALO_PACKING_CUDA(s),
     HIP |-> HALO_PACKING_HIP(s)]
LOCAL FusedWith(s) ==
    [data |-> HALO_PACKING_FUSED_Data(s), Seq |-> HALO_PACKING_FUSED_Seq(s),
     OpenMP |-> HALO_PACKING_FUSED_OMP(s), OpenMPTarget |-> HALO_PACKING_FUSED_Target(s),
     CUDA |-> HALO_PACKING_FUSED_CUDA(s), HIP |-> HALO_PACKING_FUSED_HIP(s)]

\* Each kernel packing straight into the buffers of MPI, and with copies.
CommCatalog ==
    [HALO_PACKING |-> PackingWith(FALSE), HALO_PACKING_COPY |-> PackingWith(TRUE),
     HALO_PACKING_FUSED |-> FusedWith(FALSE), HALO_PACKING_FUSED_COPY |-> FusedWith(TRUE)]
=============================================================================
