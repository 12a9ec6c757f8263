CONSTANTS
    Cores = {c1, c2}
    Frames = {1, 2, 3, 4}
    Batch = 2
    PerTable = 4
    Guard = 1
    MaxSize = 2
    MaxVaddr = 6
SPECIFICATION FairSpec
CHECK_DEADLOCK FALSE
INVARIANTS
    AccessReachesOwnFrame
    FramesInOnePlace
PROPERTIES
    AllocatorCallsReturn
