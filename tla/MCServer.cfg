CONSTANTS
    Conns = {c1, c2, c3}
    None = None
SPECIFICATION FairSpec
INVARIANTS
    NoConnSurvivesClose
    NoRequestAfterWait
PROPERTIES
    ServeReturns
    CloseDrains
CHECK_DEADLOCK FALSE
