---------------------------- MODULE HaloTopology ----------------------------
(***************************************************************************)
(* HALO_base::create_lists: which rank is the neighbor of which in the       *)
(* periodic division of the ranks, the tags of the messages between them,    *)
(* and the index lists that pack a boundary of the grid into a message and   *)
(* unpack a message into the halo around the grid.                           *)
(*                                                                           *)
(* Directions are numbered from 0 as s_boundary_offsets is. A division, a    *)
(* grid and an index are triples.                                            *)
(***************************************************************************)
EXTENDS Integers, Sequences

Faces == << <<-1, 0, 0>>, <<1, 0, 0>>, <<0, -1, 0>>, <<0, 1, 0>>, <<0, 0, -1>>, <<0, 0, 1>> >>
Edges == << <<-1, -1, 0>>, <<-1, 1, 0>>, <<1, -1, 0>>, <<1, 1, 0>>,
            <<-1, 0, -1>>, <<-1, 0, 1>>, <<1, 0, -1>>, <<1, 0, 1>>,
            <<0, -1, -1>>, <<0, -1, 1>>, <<0, 1, -1>>, <<0, 1, 1>> >>
Corners == << <<-1, -1, -1>>, <<-1, -1, 1>>, <<-1, 1, -1>>, <<-1, 1, 1>>,
              <<1, -1, -1>>, <<1, -1, 1>>, <<1, 1, -1>>, <<1, 1, 1>> >>
s_boundary_offsets == Faces \o Edges \o Corners
s_num_neighbors == Len(s_boundary_offsets)

Dir == 0 .. s_num_neighbors - 1
Dim == 1 .. 3
Offset(l) == s_boundary_offsets[l + 1]

Volume(d) == d[1] * d[2] * d[3]
Ranks(dims) == 0 .. Volume(dims) - 1

(* my_mpi_idx of a rank, and the rank of an index. *)
IndexOf(rank, dims) ==
  LET z == rank \div (dims[1] * dims[2])
      y == (rank - z * (dims[1] * dims[2])) \div dims[1]
  IN  <<rank - z * (dims[1] * dims[2]) - y * dims[1], y, z>>
RankOf(idx, dims) == idx[1] + dims[1] * (idx[2] + dims[2] * idx[3])

(* Periodic boundaries; a wrong variant leaves out the wrap below zero. *)
ClampBelow(i, n) == IF i >= n THEN 0 ELSE IF i < 0 THEN 0 ELSE i
Wrap(i, n) == IF i >= n THEN 0 ELSE IF i < 0 THEN n - 1 ELSE i

NeighborIndex(idx, l, dims) == [d \in Dim |-> Wrap(idx[d] + Offset(l)[d], dims[d])]
mpi_ranks(rank, l, dims) == RankOf(NeighborIndex(IndexOf(rank, dims), l, dims), dims)

(* The tag of an offset is its position in s_boundary_offsets. *)
BoundaryIdx(o) == (o[1] + 1) + 3 * (o[2] + 1) + 9 * (o[3] + 1)
TagOf(o) == CHOOSE l \in Dir : BoundaryIdx(Offset(l)) = BoundaryIdx(o)
Negated(o) == [d \in Dim |-> -o[d]]
send_tags(l) == TagOf(Offset(l))
SameTag(l) == TagOf(Offset(l))
recv_tags(l) == TagOf(Negated(Offset(l)))

(* make_boundary_extent: bounds in one dimension, the upper one exclusive. *)
SendBoundsInHalo(o, w, n) ==
  CASE o = -1 -> <<w, w + w>> [] o = 0 -> <<w, w + n>> [] o = 1 -> <<w + n, w + n + w>>
SendBounds(o, w, n) ==
  CASE o = -1 -> <<w, w + w>> [] o = 0 -> <<w, w + n>> [] o = 1 -> <<w + n - w, w + n>>
RecvBounds(o, w, n) ==
  CASE o = -1 -> <<0, w>> [] o = 0 -> <<w, w + n>> [] o = 1 -> <<w + n, w + n + w>>

SendExtent(l, w, grid) == [d \in Dim |-> SendBounds(Offset(l)[d], w, grid[d])]
RecvExtent(l, w, grid) == [d \in Dim |-> RecvBounds(Offset(l)[d], w, grid[d])]

(* The loops over kk, jj and ii: the cell at position p of the list of an     *)
(* extent, as a triple, and its index in the array.                           *)
Side(ext, d) == ext[d][2] - ext[d][1]
ListLength(ext) == Side(ext, 1) * Side(ext, 2) * Side(ext, 3)
CellAt(ext, p) == << ext[1][1] + (p % Side(ext, 1)),
                     ext[2][1] + ((p \div Side(ext, 1)) % Side(ext, 2)),
                     ext[3][1] + (p \div (Side(ext, 1) * Side(ext, 2))) >>
UnpaddedStride(c, w, grid) == c[1] + grid[1] * (c[2] + (grid[2] + 2 * w) * c[3])
ArrayIndex(c, w, grid) == c[1] + (grid[1] + 2 * w) * (c[2] + (grid[2] + 2 * w) * c[3])
IndexList(ext, w, grid) == [p \in 0 .. ListLength(ext) - 1 |-> ArrayIndex(CellAt(ext, p), w, grid)]

=============================================================================
