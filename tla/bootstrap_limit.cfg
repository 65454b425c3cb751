SPECIFICATION Spec
CONSTANTS
    MaxFaults = 1
    RecordLen <- MCRecordAtLimit
    BufStart = 1
    MaxRecordSize = 4
    SockCap = 2
    Backlog = 2
INVARIANT
    RejectsOnlyOversize
CHECK_DEADLOCK FALSE
