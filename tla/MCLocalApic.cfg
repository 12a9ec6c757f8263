CONSTANTS
    Timer = 224
    Stray = {48, 229}
    MaxStrays = 3
    MaxNmis = 3
    MaxKeys = 2
SPECIFICATION FairSpec
CHECK_DEADLOCK FALSE
INVARIANTS
    ServiceMatchesHandler
    
PROPERTIES
    RebootCompletes
