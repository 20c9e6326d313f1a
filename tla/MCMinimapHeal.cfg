\* One change before a request, and one between its two phases.
CONSTANTS
    a = a
    b = b
    Tile <- TwoTiles
    Cell <- TwoCells
    Blocks <- CoarseAndFine
    Finest = 2
    Link = {1, 2}
    Player = 8
    Other = 9
    Circumstances <- BetweenPhases
SPECIFICATION MinimapSpec
CHECK_DEADLOCK FALSE
INVARIANTS
    ChangesSelfHeal
