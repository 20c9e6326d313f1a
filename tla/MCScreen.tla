------------------------------ MODULE MCScreen ------------------------------
(* Screen on four chunks in a row, three of which can be seen: a cell on    *)
(* either side of the edge between the first two, and in the third one at   *)
(* the edge, whose number needs the fourth, and one inside.                 *)
EXTENDS Screen

MCCell == {"edge1", "edge2", "edge3", "in3"}
MCChunkOf == ("edge1" :> 1) @@ ("edge2" :> 2) @@ ("edge3" :> 3) @@ ("in3" :> 3)
MCNeeds == ("edge1" :> {1, 2}) @@ ("edge2" :> {1, 2}) @@ ("edge3" :> {3, 4})
           @@ ("in3" :> {3})
MCOpens == [c \in MCCell |-> IF c = "edge1" THEN {"edge1", "edge2"} ELSE {c}]
MCRects == {{1}, {1, 2, 3}}
MCViews == {[chunks |-> {1}, close |-> TRUE], [chunks |-> {1, 2, 3}, close |-> FALSE]}

None == [others |-> 0, clicks |-> 0, syncs |-> 0, moves |-> 0, evicts |-> 0, breaks |-> 0,
         refusals |-> 0]
MCCircumstances ==
    {[None EXCEPT !.clicks = 1, !.others = 1, !.syncs = 1],
     [None EXCEPT !.clicks = 2, !.syncs = 1],
     [None EXCEPT !.others = 1, !.syncs = 3, !.moves = 1, !.evicts = 1],
     [None EXCEPT !.others = 1, !.syncs = 1, !.moves = 1, !.refusals = 1],
     [None EXCEPT !.others = 1, !.syncs = 2, !.breaks = 1]}
=============================================================================
