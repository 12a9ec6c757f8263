SPECIFICATION Spec
CONSTANTS
    Cores = {0, 1}
    Handlers <- NoHandlers
    W = 3
    DisablesInterrupts = FALSE
    NoOwner = NoOwner
CHECK_DEADLOCK FALSE
INVARIANT
    DeadlockPanicIsReal
