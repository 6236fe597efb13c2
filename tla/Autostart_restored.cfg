CONSTANTS
    c1 = c1
    c2 = c2
    Commands <- TwoCommands
    NoOne = NoOne
    MaxCrashes = 2
    MaxOutside = 1
SPECIFICATION Spec
CHECK_DEADLOCK FALSE
PROPERTY
    RestoredManualStays
