------------------------------ MODULE Geometry ------------------------------
(***************************************************************************)
(* Coordinates of the infinite board (backend/game.go).  A cell is known   *)
(* to the server as a chunk and an index inside that chunk; the rules walk *)
(* over world coordinates and convert each one back, so a step that leaves *)
(* a chunk, in particular towards negative coordinates, has to land on the *)
(* right cell of the right neighbour.                                      *)
(***************************************************************************)
EXTENDS Integers

CONSTANT ChunkSize  \* side of a chunk in cells; 64 in the program

ASSUME ChunkSizeAssumption == ChunkSize \in Nat \ {0}

Chunk == [X : Int, Y : Int]
Index == 0 .. ChunkSize * ChunkSize - 1

\* math.Floor of a quotient, for either sign of the dividend: TLA+'s \div.
WorldToChunk(x, y) ==
    LET cx == x \div ChunkSize
        cy == y \div ChunkSize
    IN  [chunk |-> [X |-> cx, Y |-> cy],
         cell  |-> (y - cy * ChunkSize) * ChunkSize + (x - cx * ChunkSize)]

CellX(cell) == cell % ChunkSize
CellY(cell) == cell \div ChunkSize

\* The inverse the handlers spell out: int(chunkID.X)*ChunkSize + x.
WorldX(at) == at.chunk.X * ChunkSize + CellX(at.cell)
WorldY(at) == at.chunk.Y * ChunkSize + CellY(at.cell)

\* All cells at Chebyshev distance at most r, the double loop over dy and dx.
Square(at, r) ==
    {WorldToChunk(WorldX(at) + dx, WorldY(at) + dy) : dx \in -r .. r, dy \in -r .. r}

Neighbours(at) == Square(at, 1) \ {at}

\* countInteriorMines reads the neighbours of a cell off the edge of its
\* chunk by index arithmetic, without going through world coordinates.
IsInterior(cell) ==
    /\ CellX(cell) \in 1 .. ChunkSize - 2
    /\ CellY(cell) \in 1 .. ChunkSize - 2

InteriorOffsets ==
    {-ChunkSize - 1, -ChunkSize, -ChunkSize + 1, -1,
     1, ChunkSize - 1, ChunkSize, ChunkSize + 1}

InteriorNeighbours(cell) == {cell + d : d \in InteriorOffsets}

Magnitude(n) == IF n < 0 THEN -n ELSE n

\* chebyshevChunkDistance: how far from the origin a chunk is.
ChunkDistance(chunk) ==
    IF Magnitude(chunk.X) > Magnitude(chunk.Y) THEN Magnitude(chunk.X) ELSE Magnitude(chunk.Y)
=============================================================================
