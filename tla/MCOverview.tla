----------------------------- MODULE MCOverview -----------------------------
(***************************************************************************)
(* Two chunks: a wide coarse region, half of it at the same resolution,    *)
(* and all of it at a fine one.                                            *)
(***************************************************************************)
EXTENDS Overview, TLC

CONSTANTS a, b, wide, half, sharp

TwoTiles == {a, b}
ThreeRegions == {wide, half, sharp}
Shape == (wide :> TwoTiles) @@ (half :> {a}) @@ (sharp :> TwoTiles)
Resolution == (wide :> 4) @@ (half :> 4) @@ (sharp :> 64)

\* Play and panning; a lost connection; a restart.
Cases ==
    {[changes |-> 2, views |-> 3, closes |-> 0, saves |-> 0, restarts |-> 0],
     [changes |-> 2, views |-> 2, closes |-> 1, saves |-> 0, restarts |-> 0],
     [changes |-> 2, views |-> 2, closes |-> 0, saves |-> 1, restarts |-> 1]}
=============================================================================
