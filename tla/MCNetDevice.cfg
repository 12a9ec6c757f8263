SPECIFICATION FairSpec
CONSTANTS
    NUM_RX_DESCS = 3
    NUM_TX_DESCS = 2
    Spare = 1
    NBuffers = 8
    Users = {u1, u2}
    Ports = {p1, p2}
    Nobody = Nobody
    NotUdp = NotUdp
    Senders = {u2}
    MaxFrames = 3
    MaxSends = 2
    MaxTraffic = 4
INVARIANTS
    OneOwner
    DmaStaysInItsBuffers
PROPERTIES
    SendsOnce
    ImplementsUdpPorts
    OperationsReturn
