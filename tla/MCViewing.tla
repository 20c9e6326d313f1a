------------------------------ MODULE MCViewing ------------------------------
(* A camera over a row of chunks. *)
EXTENDS Viewing

MCPlace == {0, 3}
MCSize == {1, 3}
MCStart == [x |-> 0, n |-> 1]

\* The numbers of the code fit: 40 chunks at most on the screen, 8 beyond each
\* edge, a margin of 4 and a radius of 32.
ASSUME CodeAssumption == \A n \in 1 .. 40 : (n + 2 * 8) \div 2 + 4 <= 32
=============================================================================
