\* The streamed minimap: requests, deltas, full tiles, joins and reconnects.
CONSTANTS
    a = a
    b = b
    Tile <- TwoTiles
    Cell <- TwoCells
    Blocks <- CoarseAndFine
    Finest = 2
    Link = {1, 2}
    Player = 8
    Other = 9
    Circumstances <- Cases
SPECIFICATION MinimapSpec
CHECK_DEADLOCK FALSE
INVARIANTS
    CountsAgree
    AllocatedForSubscribers
    ShownIsCurrent
