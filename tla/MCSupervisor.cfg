SPECIFICATION Spec
CONSTANTS
    MaxWorkers = 2
    NumPids = 3
    MaxRestarts = 2
    RestartWindow = 1
    MaxWaits = 1
    MaxEvents = 3
    MaxForkFails = 1
INVARIANTS
    TableInv
    NoneLeftBehind
PROPERTIES
    ShutdownCompletes
    WorkersComeBack
CHECK_DEADLOCK FALSE
