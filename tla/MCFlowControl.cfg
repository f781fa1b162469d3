SPECIFICATION Spec
CONSTANTS
    SlotBytes = 2
    Sizes = {1, 2}
    MinBuffers = 8
    BaseBuffers = 128
    FloorBuffers = 4
    MaxBuffers = 48
    ExpandSize = 16
    LowWatermark = 4
    BatchBytes = 11
    WriteBudget = 22
    Debounce = 1
    SendSizes = {0, 3}
    Loads <- MCLoads
INVARIANTS
    FlowInv
PROPERTIES
    LossOnlyWhenLimitMoves
    RelayProgress
    DrainCompletes
CHECK_DEADLOCK FALSE
