CONSTANTS
    i1 = i1
    i2 = i2
    p1 = p1
    p2 = p2
    stop = stop
    start = start
    status = status
    Instances <- TwoInstances
    Stoppers <- OneStop
    Starters <- OneStart
    Watchers <- NoProcess
    Pids <- TwoPids
    NoOne = NoOne
    Free = Free
    Foreign = Foreign
    MaxCrashes = 1
    LockMayFail = FALSE
SPECIFICATION Spec
SYMMETRY Interchangeable
INVARIANTS
    TypeOK
    IdentityPublished
    IdentityReadIsCurrent
    StoppedMeansGone
    CleanShutdown
