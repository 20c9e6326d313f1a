\* The overview: requests, pictures read in pieces, patches, restarts.
CONSTANTS
    a = a
    b = b
    wide = wide
    half = half
    sharp = sharp
    None = None
    Tile <- TwoTiles
    Region <- ThreeRegions
    Covers <- Shape
    Level <- Resolution
    Previews = {wide}
    Fine = {64}
    Circumstances <- Cases
SPECIFICATION Spec
CHECK_DEADLOCK FALSE
INVARIANTS
    RevisionsHonest
    ViewIsCurrent
    LastViewServed
PROPERTIES
    NeverOlder
