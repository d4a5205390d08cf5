SPECIFICATION Spec
CONSTANTS
    c1 = c1  c2 = c2  c3 = c3
    None = None
    Calls <- MCTwo
    Kind <- MCReadWrite
    RequestDelay = 1
    MaxTime = 2
    DegradedWindow = 1
INVARIANTS
    TokenConserved
    WritesSentOnce
    CleanConnection
    OwnDeadline
    HealthMatchesSession
    HealthAfterCall
    DiagnosticsConsistent
PROPERTIES
    RequestsPaced
    ImplementsUpstream
CHECK_DEADLOCK FALSE
