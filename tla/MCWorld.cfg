\* Two players, two chunks side by side around x = 0, cut off at the corner:
\*   1 2 | 3 4
\*   5 6 |
\* The layouts: a mine in the corner, and a wall that parts the two ends.
CONSTANTS
    alice = alice
    bob = bob
    nobody = nobody
    Width = 4
    Last = 6
    ChunkSize = 2
    Left <- MCLeft
    Boards = {{1}, {2, 3}}
    Player = {alice, bob}
    NoOne = nobody
    Cell <- MCCell
    Nbr <- MCNbr
    Near <- MCNear
    ChunkOf <- MCChunkOf
    Multiplier <- MCMultiplier
    MaxScore = 2147483647
    DenseChunks = {0}
    Distance <- MCDistance
    Advancement <- MCAdvancement
    Criterion <- MCCriterion
    Rewarded <- MCRewarded
    Collector = "collector"
    CollectorNeed = 2
SPECIFICATION Spec
INVARIANTS
    TypeOK
    ResolvedOnce
    ZerosOpen
    RegionConnected
    CreditsAddUp
    UnlocksEarned
    ReplayExact
PROPERTIES
    ChordNeverExplodes
    ResolutionFinal
SYMMETRY Symmetry
