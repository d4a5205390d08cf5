CONSTANTS
    Conns = {c1}
    None = None
SPECIFICATION MainSpec
INVARIANT InFlightAnswerable
CHECK_DEADLOCK FALSE
