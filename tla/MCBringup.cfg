CONSTANTS
    N = 3
    NetDevices = FALSE
    MaxKeys = 1
    MaxPanics = 1
    Length <- Files
    P = 2
    MaxFaults = 1
    MaxChanges = 1
SPECIFICATION FairSpec
CHECK_DEADLOCK FALSE
INVARIANTS
    OneCoreInBootloader
    BarrierHolds
    PanicStopsTasks
    OneStragglerBeforeReboot
    OnePanicNeverResets
    
PROPERTIES
    PanicIsReported
    SoftRebootHappens
