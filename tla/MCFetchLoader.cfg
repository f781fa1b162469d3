SPECIFICATION LoaderSpec
CONSTANTS
    Packet = 2
    MaxChunk = 3
    MaxSize = 4
    MaxCycles = 3
INVARIANTS
    LoaderInv
    CompleteIsWhole
PROPERTIES
    FeedsInOrder
    LoadEnds
CHECK_DEADLOCK FALSE
