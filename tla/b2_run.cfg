CONSTANTS
    N = 2
    Milli = 1
    MaxRounds = 1
    MaxDeletes = 1
    MaxHiccups = 1
    MaxLag = 2
    Count = 2
SPECIFICATION IndexSpec
INVARIANTS
    TypeOK
    NoLostWake
PROPERTIES
    Settles
    KeepsPromise
CHECK_DEADLOCK FALSE
