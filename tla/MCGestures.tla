----------------------------- MODULE MCGestures -----------------------------
(* Gestures of three fingers and a mouse. *)
EXTENDS Gestures

CONSTANTS f1, f2, f3, m
=============================================================================
