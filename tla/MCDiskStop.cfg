\* A stop by signal beside a periodic save.
CONSTANTS
    c1 = c1
    c2 = c2
    f1 = f1
    f2 = f2
    f3 = f3
    NoSnapshot = NoSnapshot
    File = {f1, f2, f3}
    Cells = {c1, c2}
    Circumstances <- MCStop
SPECIFICATION DiskSpec
INVARIANTS
    StopLosesNothing
SYMMETRY Symmetry
CHECK_DEADLOCK FALSE
