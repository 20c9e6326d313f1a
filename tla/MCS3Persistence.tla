-------------------------- MODULE MCS3Persistence ---------------------------
(* S3Persistence with a handful of cells, in several circumstances. *)
EXTENDS S3Persistence

CONSTANTS c1, c2

Given(what, cells, deaths, errors) ==
    [may |-> what, plays |-> cells, kills |-> deaths, failures |-> errors]

Ordinary == Given({"periodic"}, 2, 1, 1)
Misread  == Given({"periodic", "misread"}, 2, 1, 0)
Skip     == Given({"periodic", "skip"}, 2, 0, 0)
Stop     == Given({"stop"}, 2, 0, 0)

MCCircumstances == {Ordinary, Misread, Skip, Stop}
MCMisread == {Misread}
=============================================================================
