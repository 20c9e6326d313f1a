\* Two connections and one player, room for two subscriptions.
CONSTANTS
    k1 = k1
    k2 = k2
    p = p
    Conn = {k1, k2}
    Player = {p}
    Chunk <- MCChunk
    Views <- MCViews
    MaxSubs = 2
SYMMETRY MCSymmetry
SPECIFICATION Spec
INVARIANTS
    MapsAgree
    NothingLeaks
    ViewIsFresh
