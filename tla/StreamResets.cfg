SPECIFICATION Spec
CONSTANTS
    NumEdicts = 2
    Kinds <- MCGeneric
    Positions = {0}
    Seqs = {0}
    Rates = {0, 1}
    FrameValues = {0, 1}
    Restarts = {TRUE, FALSE}
    MaxChanges = 4
    MaxFrames = 2
INVARIANT ResetsReplayed
