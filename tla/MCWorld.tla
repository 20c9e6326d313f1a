------------------------------ MODULE MCWorld -------------------------------
(***************************************************************************)
(* Finite patches of the plane for World: chunks of 2 by 2 cells on both   *)
(* sides of the origin, so that neighbourhoods and floods cross a chunk    *)
(* border towards negative coordinates.  Cells are numbered row by row     *)
(* from the top left corner; Geometry says which of them are neighbours.   *)
(***************************************************************************)
EXTENDS World, Geometry, TLC

CONSTANTS alice, bob, nobody,
          Width, Last,    \* columns of the patch, and its last cell
          Left            \* world x of its first column

MCLeft == -2
MCCell == 1 .. Last
At(n) == WorldToChunk(Left + ((n - 1) % Width), (n - 1) \div Width)

\* TLC computes a definition once, but a constant given by one at every use:
\* the tables are definitions of their own and the constants refer to them.
NbrTable == [c \in MCCell |-> {d \in MCCell : At(d) \in Neighbours(At(c))}] @@ <<>>
NearTable == [c \in MCCell |-> {d \in MCCell : At(d) \in Square(At(c), 2)}] @@ <<>>
ChunkTable == [c \in MCCell |-> At(c).chunk.X] @@ <<>>
DistanceTable ==
    [ch \in {ChunkTable[c] : c \in MCCell} |-> ChunkDistance([X |-> ch, Y |-> 0])] @@ <<>>

MCNbr == NbrTable
MCNear == NearTable  \* proximityRadius is 2 in the program
MCChunkOf == ChunkTable
MCDistance == DistanceTable

\* The left chunks are sparse: the points of one cell round to zero there.
MultiplierTable == [ch \in {ChunkTable[c] : c \in MCCell} |-> IF ch < 0 THEN {20} ELSE {100}] @@ <<>>
MCMultiplier == MultiplierTable

MCCriterion ==
    [first_cells |-> [stat |-> "cellsRevealed", atLeast |-> 3],
     flawless    |-> [stat |-> "maxSafeStreak", atLeast |-> 2],
     cleared     |-> [stat |-> "chunksCleared", atLeast |-> 1]]
MCAdvancement == DOMAIN MCCriterion
MCRewarded == {"first_cells", "flawless"}

Symmetry == Permutations(Player)
=============================================================================
