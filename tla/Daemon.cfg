CONSTANTS
    a1 = a1
    s1 = s1
    s2 = s2
    Keys <- OneKey
    Sessions <- OneSession
    NoSession = NoSession
    GateMode = "frontmost"
    Scope = "outside"
    LayerUnderglow = "off"
    ReclaimAtOnce = FALSE
    LayersAreSeen = TRUE
    MaxEvents = 3
SPECIFICATION FairSpec
INVARIANT TypeOK
PROPERTIES
    OpensOnlyKnownPresses
    YieldsToCodex
    OtherLayersAreLeftAlone
    KeysConverge
    BorderConverges
CHECK_DEADLOCK FALSE
