SPECIFICATION Spec
CONSTANTS
    NumPlayers = 1
    Inputs <- MCInputs
    SteamIds = {1, 2}
    MaxChanges = 3
    MaxFrames = 2
INVARIANT PunchBound
INVARIANT ButtonsShown
INVARIANT ShownAreThere
PROPERTY PlaysRecording
CHECK_DEADLOCK FALSE
