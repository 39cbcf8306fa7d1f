SPECIFICATION Spec
CONSTANTS
    Positions = {100}
    NumEdicts = 2
    PerPacket = 1
    IdMod = 4
    FirstId = 3
    MaxSkips = 1
    MaxSent = 2
    AckUnit = 1
    MaxUpdates = 5
    MaxChanges = 1
    MaxStarts = 2
    Timeouts = TRUE
    Window = 1
    Discards = TRUE
    MaxCopies = 1
    ShortAcks = TRUE
INVARIANT TypeOK
INVARIANT BaselineAgrees
INVARIANT UniqueIds
CHECK_DEADLOCK FALSE
