CONSTANTS
    N = 2
    MaxRounds = 2
    MaxWrites = 3
    MaxHiccups = 1
    Milli = 2
SPECIFICATION Spec
INVARIANTS
    TypeOK
    ObservedOnce
    ReactionIsSane
    TicksAreWholeRounds
    SummaryIsObserved
PROPERTY
    WindowEnds
CHECK_DEADLOCK FALSE
