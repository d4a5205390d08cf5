SPECIFICATION PartsSpec
CONSTANTS
    SlaveIDs = {1}
    FunctionCodes = {3, 4}
    Values = {0, 1}
    AddrSpace = 2
    TTL = 1
    KeepStale = FALSE
    MaxQuantity = 2
    MaxTime = 3
    c1 = c1  c2 = c2  c3 = c3  k1 = k1  k2 = k2
    None = None
    Callers <- MCCallers
    Keys <- MCTwoKeys
    Payload <- MCTwoKeys
    Fetch <- MCFetch
    Errors = {"ctx"}
INVARIANTS
    SingleFlight
    NoOrphanFollower
    OwnCancellationOnly
    ResultOfOwnKey
PROPERTIES
    ImplementsTTLMap
    NotHeldByLeader
