SPECIFICATION FairSpec
CONSTANTS
    MaxFaults = 2
    RecordLen <- MCRecords
    BufStart = 1
    MaxRecordSize = 5
    SockCap = 2
    Backlog = 2
INVARIANTS
    TypeOK
    MalformedOnlyWhenCut
    ConfiguredByItsHost
PROPERTIES
    HandsOverAtOnce
    ServiceIsFreed
    EnclaveConfigured
CHECK_DEADLOCK FALSE
