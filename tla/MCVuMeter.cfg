SPECIFICATION Spec
CONSTANTS
    Levels = {0, 101, 255}
    Durations <- ShortDurations
    INT_MAX = 32767
INVARIANTS
    BarShowsMean
    LastsAsAsked
    BarFitsMeter
