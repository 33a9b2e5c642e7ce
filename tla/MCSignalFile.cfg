SPECIFICATION Spec
CONSTANTS
    Inputs <- MCInputs
    Rewrites <- RewriteInputs
    Windows <- MCWindows
    EpochHour = 0
    HourLen = 10
    Unit = 2
    NULL = NULL
    NullKey <- MCNullKey
    NoFile = NoFile
    NoGroup = NoGroup
    EmptyGroup = EmptyGroup
    Failed = Failed
    MaxWrites = 3
INVARIANTS
    TypeOK
    BoundsMatchRows
PROPERTIES
    HourSpec
CHECK_DEADLOCK FALSE
