SPECIFICATION Spec
CONSTANTS
    MaxFaults = 0
    MaxPackets = 3
    Size <- MCSize
    Proto <- MCMixedProto
    HeaderLen = 2
    CopyRange = 2
    MaxPacketSize = 3
    QueueMax = 2
    Backlog = 1
    BufCap = 3
INVARIANT
    Verbatim
CHECK_DEADLOCK FALSE
