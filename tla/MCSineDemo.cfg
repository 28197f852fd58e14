SPECIFICATION DemoSpec
CONSTANTS
    SleepFrames = 5
    Argcs = {1, 2, 3}
    FrameSizes <- SmallAndReal
    ChannelCounts = {0, 1, 2, 3}
INVARIANTS
    LoopOnLiveTable
    LayersHold
    CleanExit
    ReadsInTable
    FillsFrame
    RightAtDoubleSpeed
PROPERTIES
    PlaysBackSafely
    PlaysBack
