SPECIFICATION FairSpec
CONSTANTS
    Kinds <- MCKinds
    Cap <- MCCap
    SingleThread = TRUE
    AutoDemo = TRUE
    Ambients = 0
    AmbientFrame = 0
    MaxItems = 2
    MaxMaps = 2
INVARIANT TypeOK
INVARIANT NoItemLost
INVARIANT OneMapPerFile
PROPERTY NoAutoRestart
PROPERTY ClosedAfterStop
PROPERTY EventuallyWritten
INVARIANT RepeatsFromOlder
PROPERTY OldMapItems
