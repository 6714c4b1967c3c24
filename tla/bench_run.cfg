CONSTANTS
    Pids = {1, 2, 3}
    Addrs = {"svc", "node"}
    Service = "svc"
    Shared = 5
    Private = 1
    MaxMoves = 2
    MaxLines = 3
    N = 2
    Commands <- MCCommands
SPECIFICATION Spec
INVARIANTS
    TypeOK
    PopulationBracket
    TextCountedOnce
    ConnsBracket
    CodeAgreesWithCloc
    PrintedRunsPassed
CHECK_DEADLOCK FALSE
