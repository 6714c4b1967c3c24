CONSTANTS
    N = 1
    Milli = 2
    MaxRounds = 2
    MaxDeletes = 2
    MaxHiccups = 1
SPECIFICATION FairSpec
INVARIANTS
    TypeOK
    StampDatesItsValue
PROPERTIES
    OnlyOrphansRegress
    Settles
    KeepsPromise
\* The harness is bounded, so the system really does come to rest.
CHECK_DEADLOCK FALSE
