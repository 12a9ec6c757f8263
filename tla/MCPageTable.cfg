SPECIFICATION Spec
CONSTANTS
    Fan = 2
    NFrames = 11
    Requests <- MixedRequests
INVARIANTS
    TablesConsistent
    FreeNeverPanics
PROPERTIES
    AllOrNothing
    ImplementsAddressSpace
CHECK_DEADLOCK FALSE
