\* One connection is removed while another joins under the same id.
CONSTANTS
    k1 = k1
    k2 = k2
    p = p
    Conn = {k1, k2}
    Player = {p}
    Chunk <- MCChunk
    Views <- MCViews
    MaxSubs = 2
SPECIFICATION Spec
PROPERTIES
    OnlyUnusedCleared
