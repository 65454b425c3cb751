---------------------------- MODULE EnclaveSetup ----------------------------
(***************************************************************************)
(* setup of proxy/enclave.rs: the network interface of the enclave gets    *)
(* the address, the default route and the MTU of the bootstrap record, the *)
(* enclave its ephemeral ports, and the packets it sends from its address  *)
(* and ports are routed to the egress queue.  Every step is a request to   *)
(* the kernel that refuses it when what it needs is missing, or is there   *)
(* already; the kernel's state survives the process, which may fail or be  *)
(* killed after any step and starts over with the record of that run.      *)
(***************************************************************************)
EXTENDS NetConfig

CONSTANTS
    Address,            \* IPv4 addresses, each with one prefix
    Mtu,                \* sizes of packets
    Records,            \* the records the host may serve (bound)
    KernelPorts,        \* the ephemeral ports of a kernel nobody configured
    KernelMtu,          \* the MTU of an interface nobody configured
    KernelRoutes,       \* the default routes of an enclave that just booted
    EgressQueue         \* the option of cli/enclave.rs

\* A default route: where its packets come from, and its metric.  The kernel
\* has at most one route of a metric; the ones setup adds have metric 0.
Route == [src : Address \cup {"unset"}, metric : Nat]

Record ==
    [address : Address, mtu : Mtu, ephemeral : Range, service : SUBSET Range]

ASSUME EnclaveSetupAssumption ==
    /\ "unset" \notin Address
    /\ KernelPorts \in Range
    /\ KernelMtu \in Mtu
    /\ KernelRoutes \subseteq Route
    /\ EgressQueue \in Queue

ASSUME RecordsAssumption ==
    \A r \in Records :
        /\ r.address \in Address
        /\ r.mtu \in Mtu
        /\ r.ephemeral \in Range
        /\ r.service \subseteq Range

VARIABLES
    up,         \* IFF_UP
    addresses,  \* the networks assigned to the interface
    routes,     \* its default routes in the main table
    mtu,        \* its MTU
    rec,        \* the record of this run
    epc         \* the next step of setup, or what became of it

linkVars == <<up, addresses, routes, mtu>>
vars == <<faults, netVars, linkVars, rec, epc>>

EnclaveStep ==
    { "bootstrap", "up", "address", "route", "mtu", "ephemeral", "tcp", "udp",
      "workers", "exited" }

TypeOK ==
    /\ FaultsTypeOK
    /\ NetTypeOK
    /\ up \in BOOLEAN
    /\ addresses \subseteq Address
    /\ routes \subseteq Route
    /\ mtu \in Mtu
    /\ rec \in Records
    /\ epc \in EnclaveStep

Init ==
    /\ faults = 0
    /\ NetInit(KernelPorts)
    /\ up = FALSE
    /\ addresses = {}
    /\ routes = KernelRoutes
    /\ mtu = KernelMtu
    /\ rec \in Records
    /\ epc = "bootstrap"

EnclaveGoes(from, to) == epc = from /\ epc' = to

\* bootstrap::get returned what the host serves by now.
GetRecord ==
    /\ EnclaveGoes("bootstrap", "up")
    /\ rec' \in Records
    /\ UNCHANGED <<faults, netVars, linkVars>>

BringInterfaceUp ==
    /\ EnclaveGoes("up", "address")
    /\ up' = TRUE
    /\ UNCHANGED <<faults, netVars, addresses, routes, mtu, rec>>

\* Mutant: EEXIST is an error like the others.
OnlyIfAbsent == IF rec.address \in addresses THEN "exited" ELSE "route"

\* add_ipv4_interface_address: EEXIST is Ok(false).
AfterAddAddress == "route"

AddAddress ==
    /\ EnclaveGoes("address", AfterAddAddress)
    /\ addresses' = addresses \cup {rec.address}
    /\ UNCHANGED <<faults, netVars, up, routes, mtu, rec>>

\* ensure_default_ipv4_route: one by one, every default route is deleted.
DeleteRoute(r) ==
    /\ EnclaveGoes("route", "route")
    /\ r \in routes
    /\ routes' = routes \ {r}
    /\ UNCHANGED <<faults, netVars, up, addresses, mtu, rec>>

\* Mutant: only the routes an earlier setup has added are deleted.
OwnDeleted == \A r \in routes : r.src = "unset"

AllDeleted == routes = {}

OwnRoute == [src |-> rec.address, metric |-> 0]

\* The kernel refuses a route over an interface that is down (ENETDOWN), from
\* an address it does not have (EINVAL), and one it has already (EEXIST).
RouteAccepted ==
    /\ up
    /\ rec.address \in addresses
    /\ \A r \in routes : r.metric # 0

AddRoute ==
    /\ epc = "route"
    /\ AllDeleted
    /\ IF RouteAccepted
       THEN epc' = "mtu" /\ routes' = routes \cup {OwnRoute}
       ELSE epc' = "exited" /\ UNCHANGED routes
    /\ UNCHANGED <<faults, netVars, up, addresses, mtu, rec>>

SetMtu ==
    /\ EnclaveGoes("mtu", "ephemeral")
    /\ mtu' = rec.mtu
    /\ UNCHANGED <<faults, netVars, up, addresses, routes, rec>>

SetEnclaveEphemeral ==
    /\ EnclaveGoes("ephemeral", "tcp")
    /\ SetEphemeral(rec.ephemeral)
    /\ UNCHANGED <<faults, table, linkVars, rec>>

\* The ports the enclave sends from.
SrcPorts == rec.service \cup {rec.ephemeral}

\* TCP first, then UDP; after that the workers are started.
After(p) == IF p = "tcp" THEN "udp" ELSE "workers"

AddEgressSink(p) ==
    /\ EnclaveGoes(p, After(p))
    /\ SendBatch(p, EgressQueue, SrcPorts)
    /\ UNCHANGED <<faults, ephemeral, linkVars, rec>>

EgressSinkFails(p) ==
    /\ EnclaveGoes(p, "exited")
    /\ Fault
    /\ BatchFails(p, EgressQueue, SrcPorts)
    /\ UNCHANGED <<ephemeral, linkVars, rec>>

\* Any other request that fails, or the process is killed.
EnclaveExits ==
    /\ epc # "exited"
    /\ epc' = "exited"
    /\ Fault
    /\ UNCHANGED <<netVars, linkVars, rec>>

Restart ==
    /\ EnclaveGoes("exited", "bootstrap")
    /\ UNCHANGED <<faults, netVars, linkVars, rec>>

Configure ==
    \/ BringInterfaceUp \/ AddAddress
    \/ \E r \in routes : DeleteRoute(r)
    \/ AddRoute
    \/ SetMtu \/ SetEnclaveEphemeral
    \/ \E p \in SinkProtocol : AddEgressSink(p)

SetupFails ==
    \/ \E p \in SinkProtocol : EgressSinkFails(p)
    \/ EnclaveExits

Setup == GetRecord \/ Configure

Next == Setup \/ SetupFails \/ Restart

Spec == Init /\ [][Next]_vars

\* setup runs to its end on one task, and supervisord has autorestart=true.
FairSpec == Spec /\ WF_vars(Setup) /\ WF_vars(Restart)

-----------------------------------------------------------------------------

\* The workers run only in a kernel that is configured as this run's record
\* says, whatever earlier runs have left: the one default route leaves from
\* the record's address, and the rules are of the record's ports
\* (interface.rs:29-91, netfilter.rs:155-158).
WorkersFindTheirKernel ==
    epc = "workers" =>
        /\ up
        /\ rec.address \in addresses
        /\ routes = {OwnRoute}
        /\ mtu = rec.mtu
        /\ ephemeral = rec.ephemeral
        /\ \A p \in SinkProtocol : table[p][EgressQueue] = SrcPorts

\* The order of the steps is one the kernel accepts: whatever state the
\* steps before have left, the new default route is never refused, because
\* the interface is up, has the address, and has no other route
\* (enclave.rs:121-183, interface.rs:49-91).
RouteNeverRefused == epc = "route" /\ AllDeleted => RouteAccepted

\* However setup was interrupted, starting it over leads to running workers:
\* what is there already is no error (enclave.rs:114-297).
SetupConverges == []<>(epc = "workers")
=============================================================================
