SPECIFICATION Spec
CONSTANTS
    Rows <- MCRows
    SeriesIds <- MCSeriesIds
    MinLong <- MCMinLong
    MaxLong = 2
    HourLen = 4
    FileHour = 0
    Hours <- MCHours
    MaxLeaves = 3
    NULL = NULL
INVARIANTS
    ExactUnlessNegated
    ConjunctionNarrows
CHECK_DEADLOCK FALSE
