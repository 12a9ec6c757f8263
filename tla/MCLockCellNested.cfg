SPECIFICATION FairSpec
CONSTANTS
    Cores = {1, 2}
    Handlers <- NestAndIntOnOne
    W = 5
    DisablesInterrupts = FALSE
    NoOwner = NoOwner
CHECK_DEADLOCK FALSE
INVARIANTS
    QueueInv
    DeadlockPanicIsReal
PROPERTIES
    FirstComeFirstServed
    SelfDeadlockDetected
    LockProgress
