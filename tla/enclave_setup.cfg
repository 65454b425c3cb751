SPECIFICATION FairSpec
CONSTANTS
    MaxFaults = 4
    MaxPort = 2
    Queue = {0}
    EgressQueue = 0
    Address = {"a", "b"}
    Mtu = {1, 2}
    KernelMtu = 2
    KernelPorts <- MCKernelPorts
    KernelRoutes <- MCKernelRoutes
    Records <- MCRecords
INVARIANTS
    TypeOK
    
    RouteNeverRefused
PROPERTIES
    SetupConverges
CHECK_DEADLOCK FALSE
