SPECIFICATION Spec
CONSTANTS
    NumEdicts = 2
    Kinds <- MCGeneric
    Positions = {0, 128}
    Seqs = {0}
    Rates = {0, 1}
    FrameValues = {0, 1}
    Restarts = {FALSE}
    MaxChanges = 3
    MaxFrames = 2
INVARIANT TypeOK
INVARIANT PlaybackMatches
