--------------------------- MODULE MCHaloExchange ---------------------------
(***************************************************************************)
(* HaloExchange for a division of the ranks in HaloTopology, in the first    *)
(* directions of s_boundary_offsets.                                         *)
(***************************************************************************)
EXTENDS HaloExchange

CONSTANTS RanksInX, RanksInY
T == INSTANCE HaloTopology

Division == <<RanksInX, RanksInY, 1>>
MCRank == T!Ranks(Division)
MCNeighbor == [p \in MCRank \X (0 .. num_neighbors - 1) |-> T!mpi_ranks(p[1], p[2], Division)]
MCOpposite == [l \in 0 .. num_neighbors - 1 |-> T!recv_tags(l)]

=============================================================================
