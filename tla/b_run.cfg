CONSTANTS
    N = 1
    Milli = 2
    MaxRounds = 2
    MaxDeletes = 2
    MaxHiccups = 1
    MaxLag = 3
    Mine = 0
SPECIFICATION FairSpec
INVARIANTS
    TypeOK
    StampDatesItsValue
    TerminatedMeansDeleted
    NoLostWake
PROPERTIES
    Settles
    KeepsPromise
CHECK_DEADLOCK FALSE
