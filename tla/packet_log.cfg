SPECIFICATION FairSpec
CONSTANTS
    MaxPacketSize = 64
    QueuePayloads <- MCQueuePayloads
    ReadBuffers <- MCReadBuffers
INVARIANTS
    TypeOK
    
    AgreesWithReceiver
    EveryOptionShown
PROPERTY
    LogEnds
CHECK_DEADLOCK FALSE
