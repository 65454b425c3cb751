SPECIFICATION Spec
CONSTANTS
    MaxFaults = 0
    MaxPort = 2
    Queue = {0, 1}
    KernelPorts <- MCKernelPorts
    Configs <- MCConfigs
INVARIANTS
    HostPortsNotCaptured
CHECK_DEADLOCK FALSE
