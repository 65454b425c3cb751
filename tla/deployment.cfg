SPECIFICATION FairSpec
CONSTANTS
    MaxFaults = 3
    MaxLinkFaults = 2
    MaxPort = 2
    Queue = {0, 1}
    EgressQueue = 0
    Address = {"a"}
    Mtu = {1, 2}
    KernelMtu = 2
    HostAddress = "a"
    HostMtu = 1
    HostKernelPorts <- MCKernelPorts
    EnclaveKernelPorts <- MCKernelPorts
    KernelRoutes <- MCKernelRoutes
    Configs <- MCConfigs
INVARIANTS
    TypeOK
    AnswersComeBack
PROPERTIES
    KeepsToInterfaces
    TunnelComesUp
CHECK_DEADLOCK FALSE
