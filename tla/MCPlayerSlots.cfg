SPECIFICATION Spec
CONSTANTS
    c1 = c1
    c2 = c2
    None = None
    Channels = {c1, c2}
    NumSources = 2
    Catchup <- MCCatchup
    Broken <- MCBroken
    MaxRetries = 1
    MaxActs = 3
    MaxFaults = 1
INVARIANTS
    PlayerInv
    LoadedIsSelected
PROPERTIES
    RevealedHasStarted
    SelectionSettles
CHECK_DEADLOCK FALSE
