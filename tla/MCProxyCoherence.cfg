SPECIFICATION Spec
CONSTANTS
    h1 = h1  h2 = h2  h3 = h3
    None = None
    Handlers <- MCThree
    Requests <- MCTwoReaders
    SlaveIDs = {1}
    FunctionCodes = {1, 2, 3, 4}
    AddrSpace = 1
    QuantityLimit <- MCLimit
    TTL = 0
    KeepStale = TRUE
    Errors = {"transport", "ctx"}
    Modes = {"false"}
    MaxTime = 0
    MaxWrites = 1
    MaxExpired = 1
    MaxChanges = 0
SYMMETRY MCReaderSymmetry
INVARIANTS
    TypeOK
    CacheCoherent
    ReadsSeeWrites
