SPECIFICATION FairSpec
CONSTANTS
    Scripts <- MCScripts
    Unsupported = {"c0"}
    Quota = 3
    MaxBackward = 2
    MinBackward = 1
    Padding = 1
    PauseAhead = 2
    ResumeAhead = 1
    MaxTime = 7
    MaxBacklog = 1
    MaxUpsets = 2
INVARIANTS
    QueueInv
    Lossless
    BothAttached
PROPERTIES
    FeedGoesOn
CHECK_DEADLOCK FALSE
