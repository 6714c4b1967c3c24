CONSTANTS
    Ladders <- FusedLadder
    MaxHiccups = 0
SPECIFICATION Spec
INVARIANT MeasuresItsOwnSpec
CHECK_DEADLOCK FALSE
