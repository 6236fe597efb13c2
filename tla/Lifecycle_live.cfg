CONSTANTS
    i1 = i1
    i2 = i2
    p1 = p1
    p2 = p2
    stop = stop
    start = start
    status = status
    Instances <- OneInstance
    Stoppers <- OneStop
    Starters <- NoProcess
    Watchers <- OneStatus
    Pids <- OnePid
    NoOne = NoOne
    Free = Free
    Foreign = Foreign
    MaxCrashes = 0
    LockMayFail = TRUE
SPECIFICATION FairSpec
PROPERTIES
    StopIsCarriedOut
