SPECIFICATION Spec
CONSTANTS
    MaxFaults = 2
    MaxPackets = 3
    Size <- MCSize
    Proto <- MCProto
    HeaderLen = 2
    CopyRange = 3
    MaxPacketSize = 3
    QueueMax = 2
    Backlog = 1
    BufCap = 3
INVARIANTS
    TypeOK
    NeverWaitForEachOther
    FramesAligned
    LeaksOnlyByFailure
    ReceiverInv
PROPERTIES
    DeliversLossyFifo
    KeepsToLink
CHECK_DEADLOCK FALSE
