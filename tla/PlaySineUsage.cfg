SPECIFICATION Spec
CONSTANTS
    SleepFrames = 5
    Argcs = {1, 2}
INVARIANT RunsAsUsageSays
