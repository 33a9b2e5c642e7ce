SPECIFICATION Spec
CONSTANTS
    Registrars = {r1}
    Roots <- OneRoot
    Structures = {a, b}
    Uuids = {}
    Calls <- AllCalls
    Stores = {"object"}
    Faults = TRUE
    MaxStarts = 3
    MaxChanges = 2
    NULL = NULL
    NoData = NoData
    Unreadable = Unreadable
    NoTable = NoTable
    Corrupt = Corrupt
    u1 = u1
    u2 = u2
    a = a
    b = b
    id = id
INVARIANTS
    NothingLost
CHECK_DEADLOCK FALSE
