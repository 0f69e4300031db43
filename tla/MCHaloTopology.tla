--------------------------- MODULE MCHaloTopology ---------------------------
(***************************************************************************)
(* The division of the ranks, then HaloTopology in that division: a rank     *)
(* goes through the directions. With at most MaxVaried ranks the local grid  *)
(* is any of at most MaxCells cells per dimension, and the halo of any width *)
(* up to MaxWidth that fits it; with more ranks it is the smallest grid.     *)
(***************************************************************************)
EXTENDS HaloTopology, MpiDivision, FiniteSets

CONSTANTS MaxCells, MaxWidth,  \* cells per dimension, halo width
          MaxVaried            \* ranks with which these vary
ASSUME BoundsAssumption == {MaxCells, MaxWidth, MaxVaried} \subseteq Nat \ {0}

VARIABLES rank, grid, width, dir
listVars == <<rank, grid, width, dir>>
Idle == -1  \* dir before create_lists

MCInit == Init /\ rank = 0 /\ grid = <<1, 1, 1>> /\ width = 1 /\ dir = Idle

Grids == {g \in [Dim -> 1 .. MaxCells] \X (1 .. MaxWidth) : \A d \in Dim : g[1][d] >= g[2]}
CreateLists ==
  /\ dir = Idle /\ validMPI3DDivision
  /\ rank' \in Ranks(division)
  /\ IF Volume(division) <= MaxVaried
     THEN \E g \in Grids : grid' = g[1] /\ width' = g[2]
     ELSE UNCHANGED <<grid, width>>
  /\ dir' = 0
  /\ UNCHANGED vars
NextDirection ==
  /\ dir \in 0 .. s_num_neighbors - 2
  /\ dir' = dir + 1
  /\ UNCHANGED <<vars, rank, grid, width>>
Dividing == Next /\ UNCHANGED listVars
MCNext == Dividing \/ CreateLists \/ NextDirection
MCSpec == MCInit /\ [][MCNext]_<<vars, listVars>>

HasLists == dir # Idle

Peer == mpi_ranks(rank, dir, division)

(* The neighbor in a direction has this rank as its neighbor in the opposite *)
(* direction, in divisions of one or two ranks per dimension too, where the  *)
(* two directions lead to the same rank (HALO_base.cpp:212-225).             *)
NeighborsAreMutual ==
  HasLists => /\ Peer \in Ranks(division)
              /\ mpi_ranks(Peer, recv_tags(dir), division) = rank

(* The message this rank receives for a direction is the one message of the  *)
(* rep with its source, destination and tag (lines 229 and 262): no two      *)
(* sends of a rank to one destination have the same tag, and the tag of the  *)
(* receive is that of the neighbor's send towards this rank.                 *)
OneMessagePerReceive ==
  HasLists =>
  {l \in Dir : mpi_ranks(Peer, l, division) = rank /\ send_tags(l) = recv_tags(dir)}
    = {CHOOSE l \in Dir : Offset(l) = Negated(Offset(dir))}

(* The global cell of a local cell of a rank; the whole domain is periodic.  *)
Global(r, c) ==
  [d \in Dim |-> (IndexOf(r, division)[d] * grid[d] + c[d] - width) % (division[d] * grid[d])]

(* The k-th cell the neighbor packs is the k-th cell this rank unpacks: the  *)
(* same cell of the domain, with lists of one length on both sides, so the   *)
(* message length of the receive is that of the send (lines 227-291).        *)
HaloGetsNeighborsCells ==
  HasLists =>
  LET sent == SendExtent(recv_tags(dir), width, grid)
      received == RecvExtent(dir, width, grid)
  IN  /\ ListLength(sent) = ListLength(received)
      /\ \A p \in 0 .. ListLength(sent) - 1 :
           Global(Peer, CellAt(sent, p)) = Global(rank, CellAt(received, p))

(* Every cell of the halo is unpacked from exactly one direction, no cell of *)
(* the grid is overwritten, and only cells of the grid are packed.           *)
Cells(ext, d) == ext[d][1] .. ext[d][2] - 1
InExtent(c, ext) == \A d \in Dim : c[d] \in Cells(ext, d)
IsOwn(c) == \A d \in Dim : c[d] \in width .. width + grid[d] - 1
HaloIsPartitioned ==
  HasLists =>
  LET ext == RecvExtent(dir, width, grid)
      packed == SendExtent(dir, width, grid)
  IN  /\ \A p \in 0 .. ListLength(ext) - 1 :
           LET c == CellAt(ext, p)
           IN  ~IsOwn(c) /\ \A l \in Dir \ {dir} : ~InExtent(c, RecvExtent(l, width, grid))
      /\ \A p \in 0 .. ListLength(packed) - 1 : IsOwn(CellAt(packed, p))
      /\ dir = 0 =>
           \A c \in (0 .. grid[1] + 2 * width - 1) \X (0 .. grid[2] + 2 * width - 1)
                      \X (0 .. grid[3] + 2 * width - 1) :
             IsOwn(c) \/ \E l \in Dir : InExtent(c, RecvExtent(l, width, grid))

(* The index lists address distinct elements inside the array of the grid    *)
(* plus halo, and what is unpacked from one direction is neither packed nor  *)
(* unpacked in another one (lines 200-202, 248-252 and 281-285).             *)
Elements(ext) == LET list == IndexList(ext, width, grid) IN {list[p] : p \in DOMAIN list}
ListsAreDisjointAndInBounds ==
  HasLists =>
    LET sent == SendExtent(dir, width, grid)
        received == RecvExtent(dir, width, grid)
        unpacked == Elements(received)
        ArraySize == Volume([d \in Dim |-> grid[d] + 2 * width])
    IN  /\ \A ext \in {sent, received} :
             /\ Elements(ext) \subseteq 0 .. ArraySize - 1
             /\ Cardinality(Elements(ext)) = ListLength(ext)
        /\ \A l \in Dir :
             /\ unpacked \cap Elements(SendExtent(l, width, grid)) = {}
             /\ l # dir => unpacked \cap Elements(RecvExtent(l, width, grid)) = {}

=============================================================================
