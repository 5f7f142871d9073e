SPECIFICATION Spec
CONSTANTS
    WorkerProcesses = 2
    CachePaths = {}
    MaxProcesses = 7
    MaxPid = 7
    Commands = {"reconfigure", "noaccept", "reopen", "quit", "terminate"}
    MaxCommands = 2
    MaxCrashes = 1
    MaxFailures = 0
INVARIANTS
    EveryChildHasSlot
    NoOrphans
    NoExtraWorkers
    AlwaysServing
CHECK_DEADLOCK FALSE
