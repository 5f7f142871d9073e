SPECIFICATION FairSpec
CHECK_DEADLOCK FALSE
CONSTANTS
    k1 = k1
    k2 = k2
    r1 = r1
    r2 = r2
    Keys = {k1, k2}
    Variant <- MCVariant
    Requests = {r1, r2}
    KeyOf <- MCKeyOf
    Stored = {k1}
    MinUses <- MCMinUses
    UseLock = TRUE
    UseStale = TRUE
    MaxNodes = 1
    MaxSize = 1
    Manager = Manager
    Mortal = {r1, Manager}
    MaxCrashes = 1
INVARIANTS
    CountIsUsers
    UpdatingHasOwner
    SizeIsFiles
PROPERTIES
    RequestEnds
    InactiveRemoved
