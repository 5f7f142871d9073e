SPECIFICATION FairSpec
CHECK_DEADLOCK FALSE
CONSTANTS
    w1 = w1
    w2 = w2
    r1 = r1
    r2 = r2
    Workers = {w1, w2}
    Requests = {r1, r2}
    Homes <- MCHomes
    Primary = {1, 2}
    Backup = {3}
    Weight <- MCWeight
    MaxFails <- MCMaxFails
    MaxConns <- MCMaxConns
    NextTries = 2
    NextUpstream = {"error", "timeout", "http_404", "http_500"}
    NextTimeout = FALSE
    NonIdempotent = {r1}
    Unbuffered = {}
    Cacheable = {r2}
    PoolSize = 2
    MaxCached = 1
    MaxCrashes = 1
INVARIANTS
    ConnsBalanced
    OpenIsOwned
    SentOnce
    WeightsBalanced
    AttemptsBounded
PROPERTY
    RequestAnswered
