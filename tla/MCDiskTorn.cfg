\* A power loss may tear a record of the log.
CONSTANTS
    c1 = c1
    c2 = c2
    f1 = f1
    f2 = f2
    f3 = f3
    NoSnapshot = NoSnapshot
    File = {f1, f2, f3}
    Cells = {c1, c2}
    Circumstances <- MCTorn
SPECIFICATION DiskSpec
INVARIANTS
    FlushBoundsLoss
SYMMETRY Symmetry
CHECK_DEADLOCK FALSE
