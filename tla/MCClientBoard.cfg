\* One client, a queue of three messages.
CONSTANTS
    Cell <- MCCell
    Nbr <- MCNbr
    Near <- MCNear
    ChunkOf <- MCChunkOf
    Mine = {1}
    Circumstances <- MCCircumstances
    SendBufSize = 3
SPECIFICATION ClientSpec
INVARIANTS
    NothingMissing
    NothingInvented
CHECK_DEADLOCK FALSE
