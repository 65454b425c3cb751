----------------------------- MODULE HostSetup ------------------------------
(***************************************************************************)
(* setup of proxy/host.rs: the ports are checked, the host's ephemeral     *)
(* ports set, and the packets to the enclave's ports routed to the ingress *)
(* queue.  The process may fail or be killed after any of the steps, and   *)
(* be started again with other options.                                    *)
(***************************************************************************)
EXTENDS NetConfig

CONSTANTS
    Configs,        \* the options it may be started with (bound)
    KernelPorts     \* the ephemeral ports of a kernel nobody configured

Config ==
    [ hostEphemeral : Range, enclaveEphemeral : Range,
      enclavePorts : SUBSET Range, queue : Queue ]

ASSUME HostSetupAssumption == KernelPorts \in Range

ASSUME ConfigsAssumption ==
    \A c \in Configs :
        /\ c.hostEphemeral \in Range
        /\ c.enclaveEphemeral \in Range
        /\ c.enclavePorts \subseteq Range
        /\ c.queue \in Queue

VARIABLES
    cfg,        \* the options of this run
    hpc         \* the next step of setup, or what became of it

vars == <<faults, netVars, cfg, hpc>>

TypeOK ==
    /\ FaultsTypeOK
    /\ NetTypeOK
    /\ cfg \in Configs
    /\ hpc \in {"check", "ephemeral", "tcp", "udp", "workers", "exited"}

Init ==
    /\ faults = 0
    /\ NetInit(KernelPorts)
    /\ cfg \in Configs
    /\ hpc = "check"

HostGoes(from, to) == hpc = from /\ hpc' = to

CheckPorts ==
    /\ HostGoes("check", "ephemeral")
    /\ NoPortOverlaps(cfg)
    /\ UNCHANGED <<faults, netVars, cfg>>

\* Error::GlycerineInvalidConfig: nothing was changed.
RefusePorts ==
    /\ HostGoes("check", "exited")
    /\ ~NoPortOverlaps(cfg)
    /\ UNCHANGED <<faults, netVars, cfg>>

SetHostEphemeral ==
    /\ HostGoes("ephemeral", "tcp")
    /\ SetEphemeral(cfg.hostEphemeral)
    /\ UNCHANGED <<faults, table, cfg>>

EphemeralFails ==
    /\ HostGoes("ephemeral", "exited")
    /\ Fault
    /\ UNCHANGED <<netVars, cfg>>

\* The ports whose packets are the enclave's.
DstPorts == cfg.enclavePorts \cup {cfg.enclaveEphemeral}

\* TCP first, then UDP; after that the workers are started.
After(p) == IF p = "tcp" THEN "udp" ELSE "workers"

AddIngressSink(p) ==
    /\ HostGoes(p, After(p))
    /\ SendBatch(p, cfg.queue, DstPorts)
    /\ UNCHANGED <<faults, ephemeral, cfg>>

IngressSinkFails(p) ==
    /\ HostGoes(p, "exited")
    /\ Fault
    /\ BatchFails(p, cfg.queue, DstPorts)
    /\ UNCHANGED <<ephemeral, cfg>>

Crash ==
    /\ hpc # "exited"
    /\ hpc' = "exited"
    /\ Fault
    /\ UNCHANGED <<netVars, cfg>>

\* By whoever supervises the process.
Restart ==
    /\ HostGoes("exited", "check")
    /\ UNCHANGED <<faults, netVars, cfg>>

\* The operator starts it with other options, counted as a fault.
Reconfigure ==
    /\ HostGoes("exited", "check")
    /\ cfg' \in Configs \ {cfg}
    /\ Fault
    /\ UNCHANGED netVars

Setup ==
    \/ CheckPorts
    \/ SetHostEphemeral
    \/ \E p \in SinkProtocol : AddIngressSink(p)

SetupFails ==
    \/ RefusePorts
    \/ EphemeralFails
    \/ \E p \in SinkProtocol : IngressSinkFails(p)

Next == Setup \/ SetupFails \/ Crash \/ Restart \/ Reconfigure

Spec == Init /\ [][Next]_vars

-----------------------------------------------------------------------------

\* The workers run only in a kernel that is configured as this run's options
\* say, whatever an earlier run has left: its half-finished setup, or rules
\* for other ports in the table of the same queue (netfilter.rs:68-71).
WorkersFindTheirRules ==
    hpc = "workers" =>
        /\ ephemeral = cfg.hostEphemeral
        /\ \A p \in SinkProtocol : table[p][cfg.queue] = DstPorts

\* r is routed to the queue of this run.
Captures(r) == \E p \in SinkProtocol : r \in table[p][cfg.queue]

\* The answers to the host's own connections reach the host: no port it
\* opens them from is routed to its queue.  cli/host.rs:64 says of
\* host-ephemeral-ports that it "must not overlap with --enclave-ports or
\* --enclave-ephemeral-ports"; the check (host.rs:180-200) looks at the ends
\* of the enclave's ranges only.
HostPortsNotCaptured ==
    hpc = "workers" => \A r \in Range : Captures(r) => ~Overlap(ephemeral, r)

\* What that check leaves through has one shape: the host's ports lie
\* strictly within a range of the enclave's.
CapturedOnlyWithin ==
    hpc = "workers" =>
        \A r \in Range :
            Captures(r) /\ Overlap(ephemeral, r) => Within(ephemeral, r)
=============================================================================
