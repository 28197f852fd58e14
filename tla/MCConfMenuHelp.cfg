SPECIFICATION Spec
CONSTANTS
    NFiles = 2
    Levels = {0}
    MaxApplied = 0
INVARIANT FilesFromSlotOne
