CONSTANTS
    MaxEvents = 3
    MaxRequests = 1
    MaxEpochs = 1
    MaxBuffer = 2
SPECIFICATION Spec
INVARIANT LossCostsOneMessage
CHECK_DEADLOCK FALSE
