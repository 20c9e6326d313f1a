\* Two places, far enough apart that chunks are evicted.
CONSTANTS
    Place <- MCPlace
    Size <- MCSize
    Start <- MCStart
    Spawn = 3
    MinPrefetch = 0
    MaxPrefetch = 0
    Margin = 1
    Radius = 2
    MaxMoves = 1
    MaxLosses = 1
    MaxQueue = 2
SPECIFICATION Spec
CHECK_DEADLOCK FALSE
INVARIANTS
    NeverDeaf
PROPERTIES
    ShownIsServed
    ComesBack
