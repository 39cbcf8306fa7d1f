SPECIFICATION IndexSpec
CONSTANTS
    NumIndexes = 9
    Near = 3
    Far = 5
INVARIANT IndexesMatch
