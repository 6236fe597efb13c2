CONSTANTS
    MaxEvents = 4
    MaxRequests = 2
    MaxEpochs = 2
    MaxBuffer = 2
SPECIFICATION Spec
INVARIANTS
    TypeOK
    VerifiedLayerIsFresh
    NoContamination
    NothingLeaks
    LossIsBounded
PROPERTY LateRemovalIsHarmless
CHECK_DEADLOCK FALSE
