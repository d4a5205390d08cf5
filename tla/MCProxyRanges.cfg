SPECIFICATION Spec
CONSTANTS
    h1 = h1  h2 = h2  h3 = h3
    None = None
    Handlers <- MCTwo
    Requests <- MCRanges
    SlaveIDs = {1}
    FunctionCodes = {1, 2, 3, 4}
    AddrSpace = 2
    QuantityLimit <- MCLimit
    TTL = 0
    KeepStale = FALSE
    Errors = {"exception", "transport", "ctx"}
    Modes = {"false"}
    MaxTime = 1
    MaxWrites = 1
    MaxExpired = 1
    MaxChanges = 0
INVARIANTS
    CacheCoherent
    ReadsSeeWrites
PROPERTIES
    UsesCoalescer
