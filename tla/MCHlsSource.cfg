SPECIFICATION Spec
CONSTANTS
    Window = 5
    MaxSequence = 9
    Discontinuities = {2, 5}
    LiveEdgeSegments = 3
    MaxRefreshFailures = 2
    TrimAbove = 2
    TrimTo = 1
    StartsEmpty = TRUE
INVARIANTS
    SourceInv
    SeenIsKept
    BreaksAreMarked
PROPERTIES
    SourceEnds
CHECK_DEADLOCK FALSE
