CONSTANTS
    a = a
    b = b
    c = c
    d1 = d1
    d2 = d2
    Clients <- TwoClients
    Daemons <- TwoDaemons
    NoOne = NoOne
    MaxCrashes = 1
    MaxFaults = 1
SPECIFICATION FairSpec
CHECK_DEADLOCK FALSE
INVARIANTS
    TypeOK
    MarkerStands
    SerializedUnlessKilled
PROPERTIES
    KeepsPromise
    MailboxDrains
