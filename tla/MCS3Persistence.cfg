\* Two cells; kills, failed uploads, failed reads and deletes, a stop.
CONSTANTS
    c1 = c1
    c2 = c2
    NoSnapshot = NoSnapshot
    Cells = {c1, c2}
    Circumstances <- MCCircumstances
SPECIFICATION LiveSpec
INVARIANTS
    GracefulStopKeepsBoard
PROPERTIES
    ImplementsStore
    PlayIsKept
CHECK_DEADLOCK FALSE
