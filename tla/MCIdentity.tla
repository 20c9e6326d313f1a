----------------------------- MODULE MCIdentity -----------------------------
(* Identity with two players, whose default names may be asked for by hand. *)
EXTENDS Identity

CONSTANTS a, b, c, k1

MCDefaultName == [i \in Id |-> IF i = 1 THEN a ELSE b]

\* Names alone in a longer log, and everything in a shorter one.
MCOffers == {[names |-> {a, b, c}, flags |-> {FreeFlag}, entries |-> 4],
             [names |-> {a, BadName}, flags |-> Flag, entries |-> 3]}
=============================================================================
