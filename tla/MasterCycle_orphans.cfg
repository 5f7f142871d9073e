SPECIFICATION Spec
CONSTANTS
    WorkerProcesses = 1
    CachePaths = {}
    MaxProcesses = 4
    MaxPid = 5
    Commands = {"change_binary", "noaccept", "reconfigure", "quit"}
    MaxCommands = 4
    MaxCrashes = 0
    MaxFailures = 0
INVARIANTS
    NoOrphans
CHECK_DEADLOCK FALSE
