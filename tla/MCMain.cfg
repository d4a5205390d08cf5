CONSTANTS
    Conns = {c1, c2}
    None = None
SPECIFICATION MainFairSpec
INVARIANTS
    NoRequestReopens
PROPERTIES
    ImplementsServer
    SignalEndsProcess
CHECK_DEADLOCK FALSE
