CONSTANTS
    N = 3
    NetDevices = FALSE
    MaxKeys = 1
    MaxPanics = 0
    Length <- Files
    P = 2
    MaxFaults = 0
    MaxChanges = 0
SPECIFICATION Spec
CHECK_DEADLOCK FALSE
INVARIANTS
    OthersStoppedBeforeReboot
