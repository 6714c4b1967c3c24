CONSTANTS
    N = 1
    Milli = 1
    MaxRounds = 1
    MaxDeletes = 0
    MaxHiccups = 0
    MaxLag = 2
    Count = 1
SPECIFICATION Spec
INVARIANT NoNegativeReaction
CHECK_DEADLOCK FALSE
