SPECIFICATION Spec
CONSTANTS
    INT_MAX <- SmallInt
    Values <- FewValues
    MaxOptions = 3
INVARIANTS
    LastWins
    FrameOf20ms
    RefusesOnlyBad
