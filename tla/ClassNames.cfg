SPECIFICATION Spec
CONSTANTS
    NumEdicts = 2
    Names <- MCNames
    NameLength <- MCLength
    PoolSize = 6
    NumHandles = 2
    MaxMaps = 2
    MaxFrames = 2
    MaxChanges = 5
INVARIANT TypeOK
INVARIANT NamesRight
INVARIANT NamedIfRoom
CHECK_DEADLOCK FALSE
