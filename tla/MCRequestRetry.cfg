CONSTANTS
    Unset = Unset
    Bad = Bad
    Envs <- MCEnvs
    MaxDuration = 7
    Codes = {0, 1, 2, 4, 11}
SPECIFICATION RequestSpec
INVARIANT TransportRetryable
CHECK_DEADLOCK FALSE
