------------------------------- MODULE Board --------------------------------
(***************************************************************************)
(* The rules of the board that do not depend on who plays: which cells are *)
(* adjacent, what a chord counts, and which cells one click opens.         *)
(*                                                                         *)
(* The board is any set of cells with a symmetric neighbour relation.  The *)
(* program's board is the plane of Geometry.tla; the finite boards TLC     *)
(* explores are patches of it.                                             *)
(***************************************************************************)
EXTENDS Integers, FiniteSets

CONSTANTS
    Cell,     \* the cells
    Nbr,      \* Nbr[c]: the (up to eight) cells around c
    Near,     \* Near[c]: the cells within proximityRadius of c, c included
    ChunkOf   \* ChunkOf[c]: the chunk a cell belongs to

ASSUME BoardAssumption ==
    /\ Nbr \in [Cell -> SUBSET Cell]
    /\ Near \in [Cell -> SUBSET Cell]
    /\ \A c \in Cell : IsFiniteSet(Nbr[c]) /\ c \notin Nbr[c]
    /\ \A c, d \in Cell : d \in Nbr[c] => c \in Nbr[d]

\* Chunk coordinates are int64, so the plane is large and finite.
ASSUME FiniteBoardAssumption == IsFiniteSet(Cell)

CellsOf(ch) == {c \in Cell : ChunkOf[c] = ch}

CountAdjacent(c, S) == Cardinality(Nbr[c] \cap S)

\* Cells whose number is zero.
ZeroCells(mines) == {c \in Cell : CountAdjacent(c, mines) = 0}

\* Variant of ChordHave: every revealed cell counts, not only the mines.
VariantChordHave(c, mines, revealed, flagged) ==
    CountAdjacent(c, flagged) + CountAdjacent(c, revealed)

\* What chording c compares: mines around it, and the mines around it that
\* are accounted for by a flag or by an earlier explosion.
ChordNeed(c, mines) == CountAdjacent(c, mines)
ChordHave(c, mines, revealed, flagged) ==
    CountAdjacent(c, flagged) + CountAdjacent(c, revealed \cap mines)

-----------------------------------------------------------------------------
(***************************************************************************)
(* The breadth-first searches of floodFillReveal and of a chord.  Both     *)
(* reveal every cell that leaves the queue and is still hidden, and put    *)
(* the neighbours of a revealed zero on the queue.  The result does not    *)
(* depend on the order of the queue: it is what the seeds and the least    *)
(* set of zeros closed under the search put on it.                         *)
(*   seeds   the cells the queue starts with                               *)
(*   zeros   the cells from which the search goes on                       *)
(*   hidden  the cells neither revealed nor flagged                        *)
(***************************************************************************)
Spread(seeds, Z, hidden) == (seeds \cup UNION {Nbr[z] : z \in Z}) \cap hidden

ClosedZeros(seeds, zeros, hidden) ==
    {Z \in SUBSET (zeros \cap hidden) : Spread(seeds, Z, hidden) \cap zeros \subseteq Z}

OpenedZeros(seeds, zeros, hidden) ==
    LET closed == ClosedZeros(seeds, zeros, hidden)
    IN  {z \in zeros \cap hidden : \A Z \in closed : z \in Z}

Opened(seeds, zeros, hidden) ==
    Spread(seeds, OpenedZeros(seeds, zeros, hidden), hidden)
=============================================================================
