CONSTANTS
    N = 2
    Milli = 1
    MaxRounds = 1
    MaxDeletes = 0
    MaxHiccups = 1
SPECIFICATION FairSpec
PROPERTIES
    Settles
\* The harness is bounded, so the system really does come to rest.
CHECK_DEADLOCK FALSE
