CONSTANTS
    Servers = {"s1", "s2"}
    Addrs = {"a1", "a2"}
    Masks = {"m1"}
    Forms <- SomeForms
    Noise <- SomeNoise
    MaxLost = 1
    MaxCalls = 2
SPECIFICATION FairSpec
CHECK_DEADLOCK FALSE
INVARIANTS
    LeaseIsGranted
    AsksForOffered
PROPERTIES
    LeaseReturns
