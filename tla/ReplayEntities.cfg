SPECIFICATION Spec
CONSTANTS
    NumPlayers = 1
    NumSlots = 3
    Ids = {e1, e2, e3, e4, e5}
    Clients = 1
    Positions = {0, 1}
    Looks = {0, l1}
    NoInfo = NoInfo
    Scenes <- MCScenes
INVARIANT NoStrays
INVARIANT ShownRight
INVARIANT BotsLookRight
INVARIANT BeamsAttached
INVARIANT MonstersPlaced
INVARIANT OnlyFullServersCrash
SYMMETRY MCSymmetry
CHECK_DEADLOCK FALSE
