SPECIFICATION FairSpec
CONSTANTS
    Threads = {t1, t2, t3}
    Tasks = {k1, k2, k3}
    Exit = exit
    None = none
    MaxQueue = 2
    MaxErrors = 1
INVARIANTS
    WaitingCounts
    NoSleepingOnWork
    ActiveOnce
    DestroyedIsQuiet
PROPERTIES
    TaskCompletes
    DestroyEnds
CHECK_DEADLOCK FALSE
