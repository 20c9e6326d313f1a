\* Room for one picture, or for what a frame needs.
CONSTANTS
    Chunk = {1, 2, 3, 4}
    Cell <- MCCell
    ChunkOf <- MCChunkOf
    Needs <- MCNeeds
    Opens <- MCOpens
    Rects <- MCRects
    Views <- MCViews
    RasterCap = 1
    Slack = 0
    Circumstances <- MCCircumstances
SPECIFICATION Spec
INVARIANTS
    PictureIsCurrent
    NoneForgotten
PROPERTIES
    NumbersAppear
CHECK_DEADLOCK FALSE
