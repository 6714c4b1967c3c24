CONSTANTS
    Workers = {0, 1}
    Radiant = 2
    MaxCPU = 1
    MaxCalls = 4
    MaxRestarts = 1
SPECIFICATION CountersSpec
INVARIANTS
    CountersTypeOK
    NeverOverstated
    ExactWhenNobodyExits
CHECK_DEADLOCK FALSE
