CONSTANTS
    c1 = c1
    c2 = c2
    Commands <- TwoCommands
    NoOne = NoOne
    MaxCrashes = 2
    MaxOutside = 1
SPECIFICATION Spec
SYMMETRY Interchangeable
CHECK_DEADLOCK FALSE
INVARIANTS
    TypeOK
    LoadedHasManifest
    LaunchdRunsAlone
PROPERTIES
    InstalledIsUp
    StoppedStaysStopped
    RestoredIsRestored
    NeverBypassesLaunchd
