\* The log cannot be read at one boot.
CONSTANTS
    c1 = c1
    c2 = c2
    NoSnapshot = NoSnapshot
    Cells = {c1, c2}
    Circumstances <- MCMisread
SPECIFICATION Spec
INVARIANTS
    ListedIsCovered
CHECK_DEADLOCK FALSE
