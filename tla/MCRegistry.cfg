SPECIFICATION Spec
CONSTANTS
    Registrars = {r1, r2}
    Roots <- TwoRoots
    Structures = {a, b}
    Uuids = {}
    Calls <- SomeCalls
    Stores = {"local", "object"}
    Faults = TRUE
    MaxStarts = 3
    MaxChanges = 2
    NULL = NULL
    NoData = NoData
    Unreadable = Unreadable
    NoTable = NoTable
    Corrupt = Corrupt
    u1 = u1
    u2 = u2
    a = a
    b = b
    id = id
INVARIANTS
    TypeOK
    KeptUnlessRaced
    CatalogBehindTable
    CountsDistinctFingerprints
    CatalogConformsIfDistinct
SYMMETRY Symmetry
CHECK_DEADLOCK FALSE
