CONSTANTS
    AddrSpace = 65536
    QuantityLimit <- MCLimit
    Lengths = {0, 1, 2, 5, 6, 8, 9, 253, 254, 255, 257}
    FrameAddrs = {0, 65413, 65535}
    Quantities = {0, 1, 8, 9, 123, 125, 126, 1968, 1969, 2000, 2001, 65529}
    ByteCounts = {0, 1, 2, 246, 247, 250}
    Words = {0, 1, 65280}
    OpaqueFunctions = {65}
    LastAddr = 9
    Devices <- MCDevices
    Paddings <- MCPaddings
    Tails <- MCTails
    MaxFetches = 2
    Unset = Unset
    Bad = Bad
    Envs <- MCEnvs
    MaxDuration = 7
    Codes = {0, 1, 2, 4, 11}
SPECIFICATION WireSpec
INVARIANTS
    SliceInBounds
    ForwardedFits
    AnswersLikeTheDevice
    CacheHoldsDevice
    HitIsDeviceAnswer
    UnwarnedRetryFits
    BudgetCapsAttempts
    DocumentedException
    StaleHidesNoException
CHECK_DEADLOCK FALSE
