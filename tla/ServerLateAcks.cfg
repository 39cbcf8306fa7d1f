SPECIFICATION LiveSpec
CONSTANTS
    Positions = {100}
    NumEdicts = 1
    PerPacket = 1
    IdMod = 4
    FirstId = 1
    MaxSkips = 0
    MaxSent = 2
    AckUnit = 1
    MaxUpdates = 0
    MaxChanges = 1
    MaxStarts = 1
    Timeouts = FALSE
    Window = 1
    Discards = FALSE
    MaxCopies = 0
    ShortAcks = FALSE
PROPERTY UnchangedNotSent
CHECK_DEADLOCK FALSE
