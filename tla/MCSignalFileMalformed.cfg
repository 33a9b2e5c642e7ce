SPECIFICATION Spec
CONSTANTS
    Inputs <- MalformedInputs
    Rewrites <- MalformedInputs
    Windows <- WholeFile
    EpochHour = 0
    HourLen = 10
    Unit = 2
    NULL = NULL
    NullKey <- MCNullKey
    NoFile = NoFile
    NoGroup = NoGroup
    EmptyGroup = EmptyGroup
    Failed = Failed
    MaxWrites = 1
INVARIANTS
    OneValuePerRow
CHECK_DEADLOCK FALSE
