SPECIFICATION StubbornSpec
CONSTANTS
    WorkerProcesses = 1
    CachePaths = {"manager", "loader"}
    MaxProcesses = 3
    MaxPid = 4
    Commands = {"terminate", "reconfigure", "io"}
    MaxCommands = 2
    MaxCrashes = 0
    MaxFailures = 3
PROPERTIES
    TerminateExits
CHECK_DEADLOCK FALSE
