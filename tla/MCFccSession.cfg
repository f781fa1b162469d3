SPECIFICATION FairSpec
CONSTANTS
    Servers = {a, b}
    SeqMod = 32
    Window = 4
    Collect = 3
    MaxRedirects = 1
    SignalingTimeout = 1
    UnicastTimeout = 2
    SyncWait = 2
    McastTimeout = 2
    UniFirst <- MCUniFirst
    LiveFirst <- MCLiveFirst
    StreamEnd = 36
    MaxLead = 0
    MaxOverrun = 2
    MaxLosses = 1
    MaxNoise = 1
INVARIANTS
    FccInv
    Seamless
PROPERTIES
    KeptIsDelivered
    TransitionEnds
CHECK_DEADLOCK FALSE
