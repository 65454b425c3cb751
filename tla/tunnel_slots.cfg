SPECIFICATION Spec
CONSTANTS
    MaxFaults = 1
    MaxPackets = 3
    Size <- MCSize
    Proto <- MCProto
    HeaderLen = 2
    CopyRange = 3
    MaxPacketSize = 3
    QueueMax = 2
    Backlog = 1
    BufCap = 3
INVARIANT
    SlotBelowMaxLen
CHECK_DEADLOCK FALSE
