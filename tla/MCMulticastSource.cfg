SPECIFICATION SourceSpec
CONSTANTS
    Viewers = {v, w}
    SeqMod = 12
    Window = 3
    Collect = 2
    BatchCap = 2
    Exact = FALSE
    SentFirst = 10
    SentLast = 14
    MaxMishaps = 1
    MaxJoins = 2
SYMMETRY Symmetry
INVARIANTS
    RegistryInv
    HandoffIntact
CHECK_DEADLOCK FALSE
