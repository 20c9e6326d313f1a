------------------------- MODULE MCDiskPersistence --------------------------
(* DiskPersistence with two cells and three files, in several circumstances. *)
EXTENDS DiskPersistence

CONSTANTS c1, c2, f1, f2, f3

Given(what, cells, deaths, errors) ==
    [may |-> what, plays |-> cells, kills |-> deaths, failures |-> errors]

MCCircumstances ==
    {Given({}, 2, 2, 1),                    \* power losses, no periodic snapshots
     Given({}, 1, 2, 2),
     Given({"periodic"}, 2, 1, 0),           \* a power loss, or an error
     Given({"periodic"}, 2, 0, 1),
     Given({"stop"}, 2, 0, 0),
     Given({"periodic", "stop"}, 1, 0, 1)}

\* A power loss may tear a record, and nothing else fails.
MCTorn == {Given({}, 2, 1, 0)}

\* Snapshots are saved periodically, and nothing ever fails.
MCPeriodic == {Given({"periodic"}, 1, 0, 0)}

\* A stop while a snapshot is saved periodically, and nothing ever fails.
MCStop == {Given({"periodic", "stop"}, 1, 0, 0)}

Symmetry == Permutations(Cells)
=============================================================================
