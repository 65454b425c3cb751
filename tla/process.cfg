SPECIFICATION FairSpec
CONSTANTS
    bootstrap = bootstrap
    ingress = ingress
    egress = egress
    Workers <- HostWorkers
    MaxFaults = 3
INVARIANTS
    TypeOK
    NoHalfDeadProcess
PROPERTIES
    
    FailureStopsProcess
    SignalStopsProcess
