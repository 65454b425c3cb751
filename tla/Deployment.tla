----------------------------- MODULE Deployment -----------------------------
(***************************************************************************)
(* Host and enclave as they are brought up together: the host sets up its  *)
(* kernel, starts to serve the bootstrap record and to connect the ingress *)
(* direction; the enclave gets the record, sets up its own kernel, accepts *)
(* ingress and connects egress (proxy/host.rs, proxy/enclave.rs).  Either  *)
(* process may end at any time and is started over while the other runs    *)
(* on; the host also with other options.                                   *)
(*                                                                         *)
(* A direction is a connection of its sending worker here, and the record  *)
(* is handed over in one step: Link and Handover say what that leaves out, *)
(* and Tunnel and Bootstrap, where bytes are carried, implement them.  A   *)
(* worker that gives up connecting after a minute ends its process: that   *)
(* is one of the ends of a process that HostSetup and EnclaveSetup count   *)
(* as a fault.                                                             *)
(***************************************************************************)
EXTENDS Naturals

CONSTANTS
    MaxPort, Queue, MaxFaults,
    MaxLinkFaults,      \* bound on the failures of connections
    Configs, HostKernelPorts,                       \* of HostSetup
    Address, Mtu, KernelMtu, KernelRoutes,          \* of EnclaveSetup
    EnclaveKernelPorts, EgressQueue,
    HostAddress, HostMtu        \* of the host's interface

VARIABLES
    hostFaults, hostEphemeral, hostTable, cfg, hpc,
    enclaveFaults, enclaveEphemeral, enclaveTable,
    up, addresses, routes, mtu, rec, epc,
    link,       \* link[d]: the connection of direction d
    linkFaults,
    outlived    \* the host changed its options after the enclave got its record

H == INSTANCE HostSetup WITH
         faults <- hostFaults, ephemeral <- hostEphemeral, table <- hostTable,
         KernelPorts <- HostKernelPorts

\* Mutant: the wrong one of the two options.
OwnEphemeral(c) ==
    [ address |-> HostAddress, mtu |-> HostMtu,
      ephemeral |-> c.hostEphemeral, service |-> c.enclavePorts ]

\* Record::new
RecordOf(c) ==
    [ address |-> HostAddress, mtu |-> HostMtu,
      ephemeral |-> c.enclaveEphemeral, service |-> c.enclavePorts ]

E == INSTANCE EnclaveSetup WITH
         faults <- enclaveFaults, ephemeral <- enclaveEphemeral,
         table <- enclaveTable, KernelPorts <- EnclaveKernelPorts,
         Records <- {RecordOf(c) : c \in Configs}

T == INSTANCE Faults WITH faults <- linkFaults, MaxFaults <- MaxLinkFaults

ASSUME DeploymentAssumption ==
    /\ H!FaultsAssumption /\ H!PortsAssumption
    /\ H!HostSetupAssumption /\ H!ConfigsAssumption
    /\ E!EnclaveSetupAssumption
    /\ T!FaultsAssumption
    /\ HostAddress \in Address /\ HostMtu \in Mtu

hostVars == <<hostFaults, hostEphemeral, hostTable, cfg, hpc>>
enclaveVars ==
    <<enclaveFaults, enclaveEphemeral, enclaveTable,
      up, addresses, routes, mtu, rec, epc>>
vars == <<hostVars, enclaveVars, link, linkFaults, outlived>>

Direction == {"ingress", "egress"}

HostRuns == hpc = "workers"
EnclaveRuns == epc = "workers"

\* NfqToVsock sends ingress on the host and egress in the enclave.
SenderRuns(d) == IF d = "ingress" THEN HostRuns ELSE EnclaveRuns
ReceiverRuns(d) == IF d = "ingress" THEN EnclaveRuns ELSE HostRuns

Ingress ==
    INSTANCE Link WITH
        sender <- HostRuns, receiver <- EnclaveRuns, link <- link["ingress"]

Egress ==
    INSTANCE Link WITH
        sender <- EnclaveRuns, receiver <- HostRuns, link <- link["egress"]

TypeOK ==
    /\ H!TypeOK /\ E!TypeOK
    /\ link \in [Direction -> Ingress!LinkState]
    /\ T!FaultsTypeOK
    /\ outlived \in BOOLEAN
    /\ \A d \in Direction :
           /\ link[d] # "none" => SenderRuns(d)
           /\ link[d] \in {"pending", "open"} => ReceiverRuns(d)

Init ==
    /\ H!Init /\ E!Init
    /\ link = [d \in Direction |-> "none"]
    /\ linkFaults = 0
    /\ outlived = FALSE

\* The sockets of a process that ends are closed.
LinksLeft(sends, receives) ==
    [link EXCEPT ![sends] = "none",
                 ![receives] = IF @ = "none" THEN @ ELSE "dead"]

-----------------------------------------------------------------------------

HostSetsUp ==
    /\ H!Setup
    /\ UNCHANGED <<enclaveVars, link, linkFaults, outlived>>

HostEnds ==
    /\ H!SetupFails \/ H!Crash
    /\ link' = LinksLeft("ingress", "egress")
    /\ UNCHANGED <<enclaveVars, linkFaults, outlived>>

HostRestarts ==
    /\ H!Restart
    /\ UNCHANGED <<enclaveVars, link, linkFaults, outlived>>

HostReconfigured ==
    /\ H!Reconfigure
    /\ outlived' = TRUE
    /\ UNCHANGED <<enclaveVars, link, linkFaults>>

\* Mutant: the record is served once the ingress worker is connected.
OnceConnected == HostRuns /\ link["ingress"] = "open"

\* Mutant: the service is started before the setup.
ServesAtOnce == hpc # "exited"

\* The bootstrap service is one of the host's workers, started with the
\* others and waiting for none of them.
ServesRecords == HostRuns

EnclaveGetsRecord ==
    /\ ServesRecords
    /\ E!GetRecord
    /\ rec' = RecordOf(cfg)
    /\ outlived' = FALSE
    /\ UNCHANGED <<hostVars, link, linkFaults>>

EnclaveSetsUp ==
    /\ E!Configure
    /\ link' = IF epc' = "exited" THEN LinksLeft("egress", "ingress") ELSE link
    /\ UNCHANGED <<hostVars, linkFaults, outlived>>

EnclaveEnds ==
    /\ E!SetupFails
    /\ link' = LinksLeft("egress", "ingress")
    /\ UNCHANGED <<hostVars, linkFaults, outlived>>

EnclaveRestarts ==
    /\ E!Restart
    /\ UNCHANGED <<hostVars, link, linkFaults, outlived>>

LinkGoes(d, from, to) ==
    /\ link[d] = from
    /\ link' = [link EXCEPT ![d] = to]
    /\ UNCHANGED <<hostVars, enclaveVars, outlived>>

\* Mutant: the sending worker does not wait for its side's setup.
ConnectsEarly(d) ==
    /\ hpc # "exited" /\ epc # "exited"
    /\ ReceiverRuns(d) /\ LinkGoes(d, "none", "pending") /\ T!NoFault

\* new_client_socket_with_backoff finds a listener.
Connect(d) ==
    /\ SenderRuns(d) /\ ReceiverRuns(d)
    /\ LinkGoes(d, "none", "pending")
    /\ T!NoFault

Accept(d) == ReceiverRuns(d) /\ LinkGoes(d, "pending", "open") /\ T!NoFault

\* The next packet finds that the connection is dead, and is lost.
SendFails(d) == LinkGoes(d, "dead", "none") /\ T!NoFault

\* The transport breaks the connection, or the receiver drops it, its read
\* having failed; or a write fails, and the sender knows.
LinkFails(d) ==
    /\ \E from \in {"pending", "open"}, to \in {"dead", "none"} :
           LinkGoes(d, from, to)
    /\ T!Fault

Next ==
    \/ HostSetsUp \/ HostEnds \/ HostRestarts \/ HostReconfigured
    \/ EnclaveGetsRecord \/ EnclaveSetsUp \/ EnclaveEnds \/ EnclaveRestarts
    \/ \E d \in Direction :
           Connect(d) \/ Accept(d) \/ SendFails(d) \/ LinkFails(d)

Spec == Init /\ [][Next]_vars

\* Both processes are supervised and their threads run; nothing obliges
\* anybody to send a packet.
FairSpec ==
    /\ Spec
    /\ WF_vars(HostSetsUp) /\ WF_vars(HostRestarts)
    /\ WF_vars(EnclaveGetsRecord) /\ WF_vars(EnclaveSetsUp)
    /\ WF_vars(EnclaveRestarts)
    /\ \A d \in Direction : WF_vars(Connect(d)) /\ WF_vars(Accept(d))

-----------------------------------------------------------------------------

\* What the enclave's kernel lets out is what the host's kernel takes back:
\* with both sides at work, the ports the one routes to egress are those
\* whose packets the other routes to ingress, and the ephemeral ports of the
\* enclave are among them.  It holds from when the enclave got its record for
\* as long as the host keeps its options, however often either is restarted
\* (enclave.rs:251-256, host.rs:133-134, bootstrap/mod.rs:178-196).
AnswersComeBack ==
    HostRuns /\ EnclaveRuns /\ ~outlived =>
        \A p \in H!SinkProtocol :
            /\ enclaveTable[p][EgressQueue] = hostTable[p][cfg.queue]
            /\ enclaveEphemeral \in hostTable[p][cfg.queue]

\* What the enclave took from the host.
Record ==
    INSTANCE Handover WITH
        serving <- HostRuns,
        offer <- RecordOf(cfg),
        taken <- IF epc \in {"bootstrap", "exited"} THEN {} ELSE {rec}

\* What Deployment builds on is what Tunnel and Bootstrap deliver: each of
\* its steps, in which one process may end two connections and the records
\* it offers, is one of each connection and of the handover, or does not
\* show there (host.rs:38-113, enclave.rs:38-112).
KeepsToInterfaces == Ingress!Spec /\ Egress!Spec /\ Record!Spec

\* Whatever is interrupted and started over, in either order, in the end both
\* directions are connected and stay so: the host needs nothing of an enclave
\* that waits for the host.  A dead connection is one whose sender has had
\* nothing to send since.  Options the host refuses are the operator's to
\* change (host.rs:38-113, enclave.rs:38-112).
TunnelComesUp ==
    <>[](H!NoPortOverlaps(cfg) =>
             \A d \in Direction : link[d] \in {"open", "dead"})
=============================================================================
