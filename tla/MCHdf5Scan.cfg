SPECIFICATION Spec
CONSTANTS
    Files <- MCFiles
    Shapes <- MCShapes
    TargetBytes = 4
    U32 = 2
    MaxReplaced = 2
    Missing = Missing
    Pending = Pending
    Failed = Failed
INVARIANTS
    TypeOK
    LabelsTrue
    WholeScan
PROPERTIES
    CutAdvances
CHECK_DEADLOCK FALSE
