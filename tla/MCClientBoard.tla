--------------------------- MODULE MCClientBoard ---------------------------
(* ClientBoard on a row of five cells in two chunks: a mine, a number and  *)
(* three zeros, one click on which floods into the other chunk.            *)
EXTENDS ClientBoard

MCCell == 1 .. 5
Within(c, n) == {d \in MCCell : d - c \in -n .. n}
MCNbr == [c \in MCCell |-> Within(c, 1) \ {c}]
MCNear == [c \in MCCell |-> Within(c, 2)]
MCChunkOf == [c \in MCCell |-> IF c <= 3 THEN 1 ELSE 2]

MCCircumstances ==
    {[kinds |-> Kinds, clicks |-> 2, others |-> 1, views |-> 1, reconnects |-> 0],
     [kinds |-> Kinds, clicks |-> 1, others |-> 2, views |-> 1, reconnects |-> 0],
     [kinds |-> {"reveal", "flag"}, clicks |-> 1, others |-> 1, views |-> 2, reconnects |-> 0],
     [kinds |-> {"reveal"}, clicks |-> 1, others |-> 1, views |-> 2, reconnects |-> 1]}
=============================================================================
