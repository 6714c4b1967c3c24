CONSTANTS
    Workers = {0}
    Radiant = 2
    MaxCPU = 0
    MaxCalls = 3
    MaxRestarts = 1
SPECIFICATION CountersSpec
INVARIANT ResetIsReported
CHECK_DEADLOCK FALSE
