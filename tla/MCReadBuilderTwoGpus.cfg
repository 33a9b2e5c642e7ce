SPECIFICATION Spec
CONSTANTS
    Sources <- MCSources
    Places = {"path"}
    Plans <- WholeFile
    Requests <- MCRequests
    MaxTries = 1
    Faults = FALSE
    Int16Max = 3
    Hour = 4
    StartNs = 2
    StepNs = 3
    NULL = NULL
INVARIANTS
    PlanesRecognised
CHECK_DEADLOCK FALSE
