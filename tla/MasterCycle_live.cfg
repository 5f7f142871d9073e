SPECIFICATION FairSpec
CONSTANTS
    WorkerProcesses = 1
    CachePaths = {}
    MaxProcesses = 3
    MaxPid = 6
    Commands = {"change_binary", "reconfigure", "noaccept", "quit"}
    MaxCommands = 3
    MaxCrashes = 1
    MaxFailures = 1
PROPERTIES
    QuitExits
    ReloadReplaces
    SettlesAtFullStrength
CHECK_DEADLOCK FALSE
