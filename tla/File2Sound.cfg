SPECIFICATION Spec
CONSTANT SleepFrames = 5
INVARIANTS
    OnlyPortUnset
    HeardBeforeStopped
    CleanExit
PROPERTIES
    PlaysBackSafely
    PlaysBack
