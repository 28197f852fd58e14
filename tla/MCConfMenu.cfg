SPECIFICATION Spec
CONSTANTS
    NFiles = 2
    Levels <- MenuLevels
    MaxApplied = 2
INVARIANTS
    NoDeadPortTouched
    FilesInOrder
    CleanExit
    IInv
PROPERTIES
    AsTyped
    EndsWithInput
    DrivesBoard
