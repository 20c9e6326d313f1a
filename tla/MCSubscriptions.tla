-------------------------- MODULE MCSubscriptions --------------------------
(* Subscriptions over a row of three chunks. *)
EXTENDS Subscriptions, TLC

CONSTANTS k1, k2, p

MCChunk == 1 .. 3

\* A view that keeps one chunk around it, one that keeps more than the capacity
\* allows, and one over the capacity itself.
MCViews ==
    {[rect |-> {1}, near |-> {1, 2}],
     [rect |-> {3}, near |-> MCChunk],
     [rect |-> MCChunk, near |-> MCChunk]}

MCSymmetry == Permutations(Conn)
=============================================================================
