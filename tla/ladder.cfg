CONSTANTS
    Ladders <- MCLadders
    MaxHiccups = 2
SPECIFICATION Spec
INVARIANTS
    TypeOK
    ForeignersCameBack
    MeasuresFreshPrograms
    NoFailureRecorded
PROPERTY
    LadderEnds
CHECK_DEADLOCK FALSE
