SPECIFICATION Spec
CONSTANTS
    w1 = w1
    w2 = w2
    w3 = w3
    Workers = {w1, w2, w3}
    Clearers = {w1}
    MaxBytes = 2
    MaxRecords = 5
    MaxCuts = 1
SYMMETRY Symmetry
INVARIANTS
    Inv
    ClearIsFinal
    NewestAreKept
