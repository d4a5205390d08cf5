SPECIFICATION FairSpec
CONSTANTS
    h1 = h1  h2 = h2  h3 = h3
    None = None
    Handlers <- MCTwo
    Requests <- MCReadWrite
    SlaveIDs = {1}
    FunctionCodes = {1, 2, 3, 4}
    AddrSpace = 1
    QuantityLimit <- MCLimit
    TTL = 0
    KeepStale = FALSE
    Errors = {"transport", "ctx"}
    Modes = {"false", "true", "deny"}
    MaxTime = 0
    MaxWrites = 1
    MaxExpired = 2
    MaxChanges = 1
PROPERTIES
    ReadOnlyIsolates
    EveryRequestAnswered
