CONSTANTS
    h1 = h1
    h2 = h2
    Sessions <- OneSession
    Hooks <- TwoHooks
    Events <- SomeEvents
    Absent = Absent
    None = None
    COUNT = 1
    Policies <- OnlyRecent
    Tracked <- OneSession
    Ttl = 1
    WorkingMax = 2
    DoneFade = 1
    MaxTime = 3
SPECIFICATION Spec
SYMMETRY Interchangeable
INVARIANTS
    TypeOK
    LatestRevStands
PROPERTY UncertainScansSpareTheLiving
CHECK_DEADLOCK FALSE
