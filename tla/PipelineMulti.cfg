SPECIFICATION Spec
CONSTANTS
    Kinds <- MCKinds
    Cap <- MCCap
    SingleThread = FALSE
    AutoDemo = TRUE
    Ambients = 1
    AmbientFrame = 1
    MaxItems = 2
    MaxMaps = 1
INVARIANT HandoffExclusive
INVARIANT NoItemLost
INVARIANT AtMostOnce
