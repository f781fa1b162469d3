SPECIFICATION Spec
CONSTANTS
    Kinds = {"hls", "continuous-live-ts", "static-ts-list"}
    ListLength = 1
    MaxGen = 3
    MaxEvents = 1
    MaxFrames = 1
    MaxCommands = 1
INVARIANTS
    SessionInv
    NoStaleData
    EndIsReported
PROPERTIES
    PausedIsQuiet
CHECK_DEADLOCK FALSE
