SPECIFICATION Spec
CONSTANTS
    Levels = {0}
    Durations <- LongDurations
    INT_MAX = 32767
INVARIANT LastsAboutDuration
