SPECIFICATION FairSpec
CONSTANTS
    Workers = {w1, w2}
    Shared = {s1}
    ReusePort = TRUE
    MultiAccept = TRUE
    ConnectionN = 8
    None = none
    MaxFree = 1
    MaxBacklog = 1
    MaxAcceptErrors = 1
    MaxEventErrors = 1
INVARIANTS
    HolderOwns
    ReleasedBetweenTurns
    OnlyHoldersPoll
PROPERTY
    ConnectionsTaken
CHECK_DEADLOCK FALSE
