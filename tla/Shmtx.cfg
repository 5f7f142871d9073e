SPECIFICATION FairSpec
CONSTANTS
    Procs = {p1, p2, p3}
    Master = master
    None = none
    Semaphore = TRUE
    MaxSemErrors = 1
INVARIANTS
    MutualExclusion
    WaitersPaidFor
    NoLostWakeup
PROPERTIES
    ImplementsRobustLock
    FreeLockIsTaken
CHECK_DEADLOCK FALSE
