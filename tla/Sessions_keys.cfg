CONSTANTS
    h1 = h1
    h2 = h2
    Sessions <- ThreeSessions
    Hooks <- OneHook
    Events <- OnlyStop
    Absent = Absent
    None = None
    COUNT = 2
    Policies <- TwoPolicies
    Tracked <- Nothing
    Ttl = 1
    WorkingMax = 2
    DoneFade = 1
    MaxTime = 2
SPECIFICATION Spec
INVARIANT KeysGoToTheLit
PROPERTIES
    KeysStayPut
    QuietestGoFirst
CHECK_DEADLOCK FALSE
