---------------------------- MODULE DurableStore ----------------------------
(***************************************************************************)
(* What persistence promises the rest of the server: play grows the world, *)
(* a flush makes what was played so far durable, and a kill loses only     *)
(* play that no flush has stored (backend/config.go: "walFlushInterval     *)
(* bounds how much play a hard kill can lose").                            *)
(***************************************************************************)
EXTENDS Integers, FiniteSets

CONSTANT Cells

VARIABLES
    world,  \* the world players see: the board and the score earned on it
    kept    \* what has been stored for good

Worlds == [board : SUBSET Cells, score : 0 .. Cardinality(Cells)]
Covers(w, v) == v.board \subseteq w.board /\ v.score <= w.score

\* No score without the cells that earned it.
Earned(w) == w.score <= Cardinality(w.board)

Init ==
    /\ world = [board |-> {}, score |-> 0]
    /\ kept = world

Play ==
    /\ \E c \in Cells \ world.board :
          world' = [board |-> world.board \cup {c}, score |-> world.score + 1]
    /\ UNCHANGED kept

Keep ==
    /\ kept' \in {w \in Worlds : Covers(w, kept) /\ Covers(world, w)}
    /\ UNCHANGED world

\* A kill and the boot that follows.
Kill ==
    /\ world' \in {w \in Worlds : Covers(w, kept) /\ Covers(world, w) /\ Earned(w)}
    /\ UNCHANGED kept

Next == Play \/ Keep \/ Kill

Spec == Init /\ [][Next]_<<world, kept>>
=============================================================================
