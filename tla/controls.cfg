CONSTANTS
    MaxN = 2
    MaxCommands = 4
    MaxHiccups = 1
SPECIFICATION ControlsSpec
INVARIANTS
    ControlsTypeOK
    ProvedByThisArm
    FixturesAreExact
PROPERTY
    CommandsReturn
CHECK_DEADLOCK FALSE
