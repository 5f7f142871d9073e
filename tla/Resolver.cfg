SPECIFICATION FairSpec
CHECK_DEADLOCK FALSE
CONSTANTS
    c1 = c1
    c2 = c2
    n1 = n1
    n2 = n2
    n3 = n3
    a1 = a1
    Target <- MCTarget
    MayAsk <- MCMayAsk
    Main <- MCMain
    Lookups = {c1, c2}
    Untimed = {c1}
    Names = {n1, n2, n3}
    Addrs = {a1}
    Long = {n2}
    Malformed = {n3}
    Families = {"A", "AAAA"}
    MaxRecursion = 1
    None = none
    MaxErrors = 1
INVARIANTS
    WaitersListed
    QueuesMatch
    ResendArmed
PROPERTIES
    LookupEnds
