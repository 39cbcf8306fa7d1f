SPECIFICATION LiveSpec
CONSTANTS
    Gaps <- MCGaps
    Sizes <- MCSizes
    MaxFrames = 3
    FirstFrame = 100
    Ticks = {512}
    MaxClock = 2560
    LastCommand = 512
    Offsets <- MCOffsets
    Speeds = {0, 1, 3}
    MaxCommands = 2
    Reopening = TRUE
INVARIANT AlignedOnceOpen
INVARIANT TimeMatches
INVARIANT OnlyCutSizesCrash
PROPERTY PlaysInOrder
PROPERTY NeverEarly
PROPERTY ReplayEnds
CHECK_DEADLOCK FALSE
