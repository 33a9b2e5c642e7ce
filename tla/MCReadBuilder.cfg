SPECIFICATION Spec
CONSTANTS
    Sources <- MCSources
    Places = {"path", "name", "url"}
    Plans <- MCPlans
    Requests <- MCRequests
    MaxTries = 2
    Faults = TRUE
    Int16Max = 3
    Hour = 4
    StartNs = 2
    StepNs = 3
    NULL = NULL
INVARIANTS
    TypeOK
    RowsOnce
    LegacyRoundTrip
    CallersFileKept
    ExitLeavesOnlyUnreturned
PROPERTIES
    CopiesGo
CHECK_DEADLOCK FALSE
