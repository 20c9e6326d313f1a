----------------------------- MODULE MCMinimap ------------------------------
(***************************************************************************)
(* Two tiles of two cells; a pixel is one cell, or both.                   *)
(***************************************************************************)
EXTENDS Minimap, TLC

CONSTANTS a, b

TwoTiles == {a, b}
TwoCells == {1, 2}
CoarseAndFine == <<{{1, 2}}, {{1}, {2}}>>

Calm == [changes |-> 0, views |-> 0, joins |-> 0, closes |-> 0, others |-> 0, cap |-> 2,
         scope |-> {a}, scales |-> {1, 2}]

\* One tile in depth; the cap, with two; joins and a reconnect.
Cases ==
    {[Calm EXCEPT !.changes = 2, !.views = 3, !.others = 1],
     [Calm EXCEPT !.changes = 1, !.views = 2, !.cap = 1, !.scope = TwoTiles, !.scales = {2}],
     [Calm EXCEPT !.changes = 2, !.views = 1, !.joins = 2, !.closes = 1, !.scales = {2}]}

\* Two changes and one request.
BetweenPhases == {[Calm EXCEPT !.changes = 2, !.views = 1, !.scales = {2}]}
=============================================================================
