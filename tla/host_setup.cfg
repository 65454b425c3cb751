SPECIFICATION Spec
CONSTANTS
    MaxFaults = 2
    MaxPort = 2
    Queue = {0, 1}
    KernelPorts <- MCKernelPorts
    Configs <- MCConfigs
INVARIANTS
    TypeOK
    WorkersFindTheirRules
    CapturedOnlyWithin
CHECK_DEADLOCK FALSE
