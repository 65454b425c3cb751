SPECIFICATION FairSpec
CONSTANTS
    MaxFaults = 2
    MaxPackets = 3
    Size <- MCCutSize
    Proto <- MCMixedProto
    HeaderLen = 2
    CopyRange = 3
    MaxPacketSize = 4
    QueueMax = 2
    Backlog = 1
    BufCap = 2
INVARIANTS
    BytesInOrder
    FreshConnections
    SenderInv
PROPERTIES
    SenderResumes
    NoStrandedConnection
    DeliveredOnceConnected
CHECK_DEADLOCK FALSE
