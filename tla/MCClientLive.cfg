SPECIFICATION FairSpec
CONSTANTS
    c1 = c1  c2 = c2  c3 = c3
    None = None
    Calls <- MCThree
    Kind <- MCReadConnectClose
    RequestDelay = 0
    MaxTime = 1
    DegradedWindow = 1
PROPERTIES
    CallsReturn
CHECK_DEADLOCK FALSE
