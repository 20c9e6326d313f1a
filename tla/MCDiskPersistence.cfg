\* Power losses, errors, periodic snapshots and stops, as MCCircumstances has them.
CONSTANTS
    c1 = c1
    c2 = c2
    f1 = f1
    f2 = f2
    f3 = f3
    NoSnapshot = NoSnapshot
    File = {f1, f2, f3}
    Cells = {c1, c2}
    Circumstances <- MCCircumstances
SPECIFICATION DiskSpec
INVARIANTS
    SnapshotReadable
    PowerLossTakesNothingKept
SYMMETRY Symmetry
CHECK_DEADLOCK FALSE
