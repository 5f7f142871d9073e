SPECIFICATION Spec
CONSTANTS
    WorkerProcesses = 1
    CachePaths = {}
    MaxProcesses = 4
    MaxPid = 5
    Commands = {"change_binary", "reconfigure"}
    MaxCommands = 2
    MaxCrashes = 0
    MaxFailures = 1
PROPERTIES
    ReloadLoads
CHECK_DEADLOCK FALSE
