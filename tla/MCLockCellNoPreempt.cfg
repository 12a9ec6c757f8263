SPECIFICATION Spec
CONSTANTS
    Cores = {1, 2}
    Handlers <- IntAndExcOnOne
    W = 5
    DisablesInterrupts = TRUE
    NoOwner = NoOwner
CHECK_DEADLOCK FALSE
INVARIANTS
    MutualExclusion
    InterruptsOffWhileHeld
    InterruptsRestored
