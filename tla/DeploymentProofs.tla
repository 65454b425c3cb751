-------------------------- MODULE DeploymentProofs --------------------------
(***************************************************************************)
(* The deployment, for any ports, queues and options and any number of     *)
(* failures.  Each side of it is a setup (HostImplementsSetup,             *)
(* EnclaveImplementsSetup), so that what is proved of the setups holds of  *)
(* the two kernels here: their invariants are taken over, not proved again.*)
(* What joins the sides is small: the record the enclave holds, which is   *)
(* of the host's present options until these change (RecordIsOurs), and    *)
(* the connections, which are of running workers (LinksOfWorkers).  From   *)
(* these follow that the kernels agree, and that the deployment uses its   *)
(* connections and the bootstrap as Link and Handover allow.               *)
(***************************************************************************)
EXTENDS Deployment, TLAPS

\* The theorems about the setups, of the variables of the deployment.
HP == INSTANCE HostSetupProofs WITH
          faults <- hostFaults, ephemeral <- hostEphemeral, table <- hostTable,
          KernelPorts <- HostKernelPorts

EP == INSTANCE EnclaveSetupProofs WITH
          faults <- enclaveFaults, ephemeral <- enclaveEphemeral,
          table <- enclaveTable, KernelPorts <- EnclaveKernelPorts,
          Records <- {RecordOf(c) : c \in Configs}

-----------------------------------------------------------------------------
(* The assumptions under which the setups are proved correct.              *)

LEMMA HostAssumptions ==
    /\ HP!FaultsAssumption /\ HP!PortsAssumption
    /\ HP!HostSetupAssumption /\ HP!ConfigsAssumption
  BY DeploymentAssumption
  DEF HP!FaultsAssumption, HP!PortsAssumption, HP!HostSetupAssumption,
      HP!ConfigsAssumption, HP!Range, HP!Port, HP!ParsedRange,
      H!FaultsAssumption, H!PortsAssumption, H!HostSetupAssumption,
      H!ConfigsAssumption, H!Range, H!Port, H!ParsedRange

LEMMA EnclaveAssumptions ==
    /\ EP!FaultsAssumption /\ EP!PortsAssumption
    /\ EP!EnclaveSetupAssumption /\ EP!RecordsAssumption
  <1>1. EP!FaultsAssumption /\ EP!PortsAssumption /\ EP!EnclaveSetupAssumption
    BY DeploymentAssumption
    DEF EP!FaultsAssumption, EP!PortsAssumption, EP!EnclaveSetupAssumption,
        EP!Route, EP!Range, EP!Port, EP!ParsedRange,
        H!FaultsAssumption, H!PortsAssumption, E!EnclaveSetupAssumption,
        E!Route, E!Range, E!Port, E!ParsedRange
  <1>2. EP!Range = H!Range
    BY DEF EP!Range, EP!Port, EP!ParsedRange, H!Range, H!Port, H!ParsedRange
  <1>3. EP!RecordsAssumption
    BY <1>2, DeploymentAssumption
    DEF EP!RecordsAssumption, H!ConfigsAssumption, RecordOf
  <1> QED
    BY <1>1, <1>3

-----------------------------------------------------------------------------
(* Each side of the deployment is a setup.                                 *)

LEMMA HostNext == [Next]_vars => [H!Next]_(H!vars)
  <1> SUFFICES ASSUME [Next]_vars PROVE [H!Next]_(H!vars)
    OBVIOUS
  <1>1. CASE HostSetsUp \/ HostEnds \/ HostRestarts \/ HostReconfigured
    BY <1>1 DEF HostSetsUp, HostEnds, HostRestarts, HostReconfigured, H!Next
  <1>2. CASE UNCHANGED hostVars
    BY <1>2 DEF hostVars, H!vars, H!netVars
  <1>3. ASSUME NEW d \in Direction,
               Connect(d) \/ Accept(d) \/ SendFails(d) \/ LinkFails(d)
        PROVE  UNCHANGED hostVars
    BY <1>3 DEF Connect, Accept, SendFails, LinkFails, LinkGoes
  <1> QED
    BY <1>1, <1>2, <1>3
    DEF Next, vars, EnclaveGetsRecord, EnclaveSetsUp, EnclaveEnds, EnclaveRestarts

LEMMA EnclaveNext == [Next]_vars => [E!Next]_(E!vars)
  <1> SUFFICES ASSUME [Next]_vars PROVE [E!Next]_(E!vars)
    OBVIOUS
  <1>1. CASE EnclaveGetsRecord \/ EnclaveSetsUp \/ EnclaveEnds \/ EnclaveRestarts
    BY <1>1
    DEF EnclaveGetsRecord, EnclaveSetsUp, EnclaveEnds, EnclaveRestarts, E!Next, E!Setup
  <1>2. CASE UNCHANGED enclaveVars
    BY <1>2 DEF enclaveVars, E!vars, E!netVars, E!linkVars
  <1>3. ASSUME NEW d \in Direction,
               Connect(d) \/ Accept(d) \/ SendFails(d) \/ LinkFails(d)
        PROVE  UNCHANGED enclaveVars
    BY <1>3 DEF Connect, Accept, SendFails, LinkFails, LinkGoes
  <1> QED
    BY <1>1, <1>2, <1>3
    DEF Next, vars, HostSetsUp, HostEnds, HostRestarts, HostReconfigured

\* With its links and the enclave out of sight, the host is HostSetup.
THEOREM HostImplementsSetup == Spec => H!Spec
  BY HostNext, PTL DEF Spec, Init, H!Spec

\* With its links and the host out of sight, the enclave is EnclaveSetup,
\* with the records of the host's options.
THEOREM EnclaveImplementsSetup == Spec => E!Spec
  BY EnclaveNext, PTL DEF Spec, Init, E!Spec

LEMMA HostSpec == Spec => HP!Spec
  <1>1. H!Init => HP!Init
    BY DEF H!Init, HP!Init, H!NetInit, HP!NetInit, H!SinkProtocol, HP!SinkProtocol
  <1>2. [H!Next]_(H!vars) => [HP!Next]_(HP!vars)
    BY DEF H!Next, H!vars, H!netVars, H!Setup, H!SetupFails, H!CheckPorts,
           H!RefusePorts, H!SetHostEphemeral, H!EphemeralFails, H!AddIngressSink,
           H!IngressSinkFails, H!Crash, H!Restart, H!Reconfigure, H!HostGoes,
           H!NoPortOverlaps, H!AnEndInside, H!Contains, H!SetEphemeral, H!Fault,
           H!DstPorts, H!After, H!SendBatch, H!BatchFails, H!Replaced, H!SinkProtocol,
           HP!Next, HP!vars, HP!netVars, HP!Setup, HP!SetupFails, HP!CheckPorts,
           HP!RefusePorts, HP!SetHostEphemeral, HP!EphemeralFails, HP!AddIngressSink,
           HP!IngressSinkFails, HP!Crash, HP!Restart, HP!Reconfigure, HP!HostGoes,
           HP!NoPortOverlaps, HP!AnEndInside, HP!Contains, HP!SetEphemeral, HP!Fault,
           HP!DstPorts, HP!After, HP!SendBatch, HP!BatchFails, HP!Replaced, HP!SinkProtocol
  <1> QED
    BY <1>1, <1>2, HostImplementsSetup, PTL DEF H!Spec, HP!Spec

LEMMA HostSetupInv == Spec => []HP!SetupInv
  <1>1. HP!Spec => []HP!SetupInv
    BY HP!SetupCorrect, HostAssumptions
    DEF HP!FaultsAssumption, HP!PortsAssumption, HP!HostSetupAssumption,
        HP!ConfigsAssumption
  <1> QED
    BY <1>1, HostSpec, PTL

LEMMA EnclaveSetupInv == Spec => []EP!SetupInv
  <1>1. E!Init => EP!Init
    BY DEF E!Init, EP!Init, E!NetInit, EP!NetInit, E!SinkProtocol, EP!SinkProtocol
  <1>2. [E!Next]_(E!vars) => [EP!Next]_(EP!vars)
    BY DEF E!Next, E!vars, E!netVars, E!linkVars, E!Setup, E!Configure, E!SetupFails,
           E!GetRecord, E!BringInterfaceUp, E!AddAddress, E!AfterAddAddress,
           E!DeleteRoute, E!AddRoute, E!AllDeleted, E!RouteAccepted, E!OwnRoute,
           E!SetMtu, E!SetEnclaveEphemeral, E!SetEphemeral, E!AddEgressSink,
           E!EgressSinkFails, E!EnclaveExits, E!Restart, E!EnclaveGoes, E!Fault,
           E!SrcPorts, E!After, E!SendBatch, E!BatchFails, E!Replaced, E!SinkProtocol,
           EP!Next, EP!vars, EP!netVars, EP!linkVars, EP!Setup, EP!Configure,
           EP!SetupFails, EP!GetRecord, EP!BringInterfaceUp, EP!AddAddress,
           EP!AfterAddAddress, EP!DeleteRoute, EP!AddRoute, EP!AllDeleted,
           EP!RouteAccepted, EP!OwnRoute, EP!SetMtu, EP!SetEnclaveEphemeral,
           EP!SetEphemeral, EP!AddEgressSink, EP!EgressSinkFails, EP!EnclaveExits,
           EP!Restart, EP!EnclaveGoes, EP!Fault, EP!SrcPorts, EP!After, EP!SendBatch,
           EP!BatchFails, EP!Replaced, EP!SinkProtocol
  <1>3. EP!Spec => []EP!SetupInv
    BY EP!SetupCorrect, EnclaveAssumptions
    DEF EP!FaultsAssumption, EP!PortsAssumption, EP!EnclaveSetupAssumption,
        EP!RecordsAssumption
  <1> QED
    BY <1>1, <1>2, <1>3, EnclaveImplementsSetup, PTL DEF E!Spec, EP!Spec

LEMMA HostFacts ==
    ASSUME HP!SetupInv
    PROVE  H!TypeOK /\ H!WorkersFindTheirRules
  <1>1. H!TypeOK
    BY DEF HP!SetupInv, HP!TypeOK, HP!FaultsTypeOK, HP!NetTypeOK, HP!SinkProtocol,
           HP!Range, HP!Port, HP!ParsedRange,
           H!TypeOK, H!FaultsTypeOK, H!NetTypeOK, H!SinkProtocol,
           H!Range, H!Port, H!ParsedRange
  <1>2. H!WorkersFindTheirRules
    BY DEF HP!SetupInv, HP!EphemeralSet, HP!TcpRouted, HP!UdpRouted, HP!DstPorts,
           H!WorkersFindTheirRules, H!SinkProtocol, H!DstPorts
  <1> QED
    BY <1>1, <1>2

LEMMA EnclaveFacts ==
    ASSUME EP!SetupInv
    PROVE  E!TypeOK /\ E!WorkersFindTheirKernel /\ E!RouteNeverRefused
  <1>1. E!TypeOK
    BY DEF EP!SetupInv, EP!TypeOK, EP!FaultsTypeOK, EP!NetTypeOK, EP!SinkProtocol,
           EP!Range, EP!Port, EP!ParsedRange, EP!Route, EP!EnclaveStep,
           E!TypeOK, E!FaultsTypeOK, E!NetTypeOK, E!SinkProtocol,
           E!Range, E!Port, E!ParsedRange, E!Route, E!EnclaveStep
  <1> USE DEF EP!SetupInv, EP!LinkInv, EP!PortsInv, EP!LinkIsUp, EP!AddressIsThere,
              EP!RouteIsOwn, EP!MtuIsSet, EP!EphemeralIsSet, EP!TcpIsRouted,
              EP!UdpIsRouted, EP!AfterUp, EP!AfterAddress, EP!AfterRoute, EP!AfterMtu,
              EP!AfterEphemeral
  <1>2. E!WorkersFindTheirKernel
    BY DEF EP!OwnRoute, EP!SrcPorts, E!WorkersFindTheirKernel, E!OwnRoute, E!SrcPorts,
           E!SinkProtocol
  <1>3. E!RouteNeverRefused
    BY DEF E!RouteNeverRefused, E!AllDeleted, E!RouteAccepted
  <1> QED
    BY <1>1, <1>2, <1>3

\* The host's ports, wherever it is in its setup and whatever the enclave
\* does: what is proved of HostSetup holds in the deployment.
THEOREM HostRulesCorrect == Spec => [](H!WorkersFindTheirRules /\ H!CapturedOnlyWithin)
  <1>1. HP!SetupInv => H!WorkersFindTheirRules
    BY HostFacts
  <1>2. HP!Spec => []HP!CapturedOnlyWithin
    BY HP!CaptureCorrect, HostAssumptions
    DEF HP!FaultsAssumption, HP!PortsAssumption, HP!HostSetupAssumption,
        HP!ConfigsAssumption
  <1>3. HP!CapturedOnlyWithin => H!CapturedOnlyWithin
    BY DEF HP!CapturedOnlyWithin, HP!Captures, HP!Overlap, HP!Within, HP!Contains,
           HP!Range, HP!Port, HP!ParsedRange, HP!SinkProtocol,
           H!CapturedOnlyWithin, H!Captures, H!Overlap, H!Within, H!Contains,
           H!Range, H!Port, H!ParsedRange, H!SinkProtocol
  <1> QED
    BY <1>1, <1>2, <1>3, HostSetupInv, HostSpec, PTL

\* The enclave's kernel, whatever the host does meanwhile, and with whatever
\* record it serves by the time the enclave asks.
THEOREM EnclaveKernelCorrect ==
    Spec => [](E!WorkersFindTheirKernel /\ E!RouteNeverRefused)
  <1>1. EP!SetupInv => E!WorkersFindTheirKernel /\ E!RouteNeverRefused
    BY EnclaveFacts
  <1> QED
    BY <1>1, EnclaveSetupInv, PTL

-----------------------------------------------------------------------------
(* What the enclave was handed is what the host offers.                    *)

RecordIsOurs ==
    /\ outlived \in BOOLEAN
    /\ ~outlived /\ epc \notin {"bootstrap", "exited"} => rec = RecordOf(cfg)

\* The enclave neither gets a record nor goes on with one that was given up.
LEMMA KeepsRecord ==
    ASSUME E!Configure \/ E!SetupFails \/ E!Restart
    PROVE  /\ rec' = rec
           /\ epc' \notin {"bootstrap", "exited"} => epc \notin {"bootstrap", "exited"}
  BY DEF E!Configure, E!SetupFails, E!Restart, E!BringInterfaceUp, E!AddAddress,
         E!AfterAddAddress, E!DeleteRoute, E!AddRoute, E!SetMtu,
         E!SetEnclaveEphemeral, E!AddEgressSink, E!EgressSinkFails, E!EnclaveExits,
         E!EnclaveGoes, E!SinkProtocol

\* Only a host that is started over has other options.
LEMMA KeepsConfig ==
    ASSUME H!Setup \/ H!SetupFails \/ H!Crash \/ H!Restart
    PROVE  cfg' = cfg
  BY DEF H!Setup, H!SetupFails, H!Crash, H!Restart, H!CheckPorts, H!SetHostEphemeral,
         H!AddIngressSink, H!RefusePorts, H!EphemeralFails, H!IngressSinkFails

LEMMA NextRecord == RecordIsOurs /\ [Next]_vars => RecordIsOurs'
  <1> SUFFICES ASSUME RecordIsOurs, [Next]_vars PROVE RecordIsOurs'
    OBVIOUS
  <1> USE DEF RecordIsOurs, RecordOf
  <1>1. CASE HostSetsUp \/ HostEnds \/ HostRestarts
    <2>1. cfg' = cfg
      BY <1>1, KeepsConfig DEF HostSetsUp, HostEnds, HostRestarts
    <2> QED
      BY <1>1, <2>1 DEF HostSetsUp, HostEnds, HostRestarts, enclaveVars
  <1>2. CASE HostReconfigured
    BY <1>2 DEF HostReconfigured
  <1>3. CASE EnclaveGetsRecord
    BY <1>3 DEF EnclaveGetsRecord, hostVars
  <1>4. CASE EnclaveSetsUp \/ EnclaveEnds \/ EnclaveRestarts
    <2>1. /\ rec' = rec
          /\ epc' \notin {"bootstrap", "exited"} => epc \notin {"bootstrap", "exited"}
      BY <1>4, KeepsRecord DEF EnclaveSetsUp, EnclaveEnds, EnclaveRestarts
    <2>2. UNCHANGED <<cfg, outlived>>
      BY <1>4 DEF EnclaveSetsUp, EnclaveEnds, EnclaveRestarts, hostVars
    <2> QED
      BY <2>1, <2>2
  <1>5. ASSUME NEW d \in Direction,
               Connect(d) \/ Accept(d) \/ SendFails(d) \/ LinkFails(d)
        PROVE  RecordIsOurs'
    BY <1>5 DEF Connect, Accept, SendFails, LinkFails, LinkGoes, hostVars, enclaveVars
  <1>6. CASE UNCHANGED vars
    BY <1>6 DEF vars, hostVars, enclaveVars
  <1> QED
    BY <1>1, <1>2, <1>3, <1>4, <1>5, <1>6 DEF Next

LEMMA RecordCorrect == Spec => []RecordIsOurs
  <1>1. Init => RecordIsOurs
    BY DEF Init, E!Init, RecordIsOurs
  <1> QED
    BY <1>1, NextRecord, PTL DEF Spec

\* Whatever fails and is started over, and whatever other options the host
\* was started with before, both kernels route the same ports while the
\* enclave's record is of the host's present options.
THEOREM AnswersCorrect == Spec => []AnswersComeBack
  <1>1. ASSUME HP!SetupInv, EP!SetupInv, RecordIsOurs
        PROVE  AnswersComeBack
    <2> SUFFICES ASSUME HostRuns, EnclaveRuns, ~outlived,
                        NEW p \in H!SinkProtocol
                 PROVE  /\ enclaveTable[p][EgressQueue] = hostTable[p][cfg.queue]
                        /\ enclaveEphemeral \in hostTable[p][cfg.queue]
      BY DEF AnswersComeBack
    <2>1. rec = RecordOf(cfg)
      BY <1>1 DEF RecordIsOurs, EnclaveRuns
    <2>2. E!SrcPorts = H!DstPorts /\ rec.ephemeral \in E!SrcPorts
      BY <2>1 DEF RecordOf, E!SrcPorts, H!DstPorts
    <2>3. hostTable[p][cfg.queue] = H!DstPorts
      BY <1>1, HostFacts DEF H!WorkersFindTheirRules, HostRuns
    <2>4. enclaveTable[p][EgressQueue] = E!SrcPorts /\ enclaveEphemeral = rec.ephemeral
      BY <1>1, EnclaveFacts
      DEF E!WorkersFindTheirKernel, EnclaveRuns, E!SinkProtocol, H!SinkProtocol
    <2> QED
      BY <2>2, <2>3, <2>4
  <1> QED
    BY <1>1, HostSetupInv, EnclaveSetupInv, RecordCorrect, PTL

-----------------------------------------------------------------------------
(* What the steps of either side are to the workers that are connected.    *)

\* Only workers are connected, and only running ones have a connection that
\* is not dead.
LinksOfWorkers ==
    /\ link \in [Direction -> Ingress!LinkState]
    /\ T!FaultsTypeOK
    /\ \A d \in Direction :
           /\ link[d] # "none" => SenderRuns(d)
           /\ link[d] \in {"pending", "open"} => ReceiverRuns(d)

\* Before its workers are started, a side that is set up has none; with the
\* last step it starts them or not, and nothing else.
LEMMA NotYet ==
    /\ HostSetsUp \/ HostRestarts \/ HostReconfigured =>
           /\ ~HostRuns
           /\ UNCHANGED <<EnclaveRuns, link, linkFaults>>
    /\ EnclaveGetsRecord \/ EnclaveRestarts =>
           /\ ~EnclaveRuns /\ ~EnclaveRuns'
           /\ UNCHANGED <<HostRuns, link, linkFaults>>
    /\ HostRestarts \/ HostReconfigured => ~HostRuns'
    /\ EnclaveSetsUp => ~EnclaveRuns /\ UNCHANGED <<HostRuns, linkFaults>>
  BY DEF HostRuns, HostSetsUp, HostRestarts, HostReconfigured, H!Setup,
         H!CheckPorts, H!SetHostEphemeral, H!AddIngressSink, H!SinkProtocol,
         H!Restart, H!Reconfigure, H!HostGoes, EnclaveRuns, EnclaveGetsRecord,
         EnclaveRestarts, EnclaveSetsUp, E!GetRecord, E!Restart, E!Configure,
         E!BringInterfaceUp, E!AddAddress, E!DeleteRoute, E!AddRoute, E!SetMtu,
         E!SetEnclaveEphemeral, E!AddEgressSink, E!SinkProtocol, E!EnclaveGoes,
         hostVars, enclaveVars

LEMMA HostEnding ==
    ASSUME HostEnds
    PROVE  /\ hpc # "exited" /\ ~HostRuns'
           /\ link' = LinksLeft("ingress", "egress")
           /\ UNCHANGED <<EnclaveRuns, linkFaults>>
  BY DEF HostEnds, H!SetupFails, H!Crash, H!RefusePorts, H!EphemeralFails,
         H!IngressSinkFails, H!HostGoes, H!SinkProtocol, HostRuns, EnclaveRuns, enclaveVars

LEMMA EnclaveEnding ==
    ASSUME EnclaveEnds
    PROVE  /\ epc # "exited" /\ epc' = "exited" /\ ~EnclaveRuns'
           /\ link' = LinksLeft("egress", "ingress")
           /\ UNCHANGED <<HostRuns, linkFaults>>
  BY DEF EnclaveEnds, E!SetupFails, E!EgressSinkFails, E!EnclaveExits,
         E!EnclaveGoes, E!SinkProtocol, HostRuns, EnclaveRuns, hostVars

LEMMA LinkSteps ==
    ASSUME NEW d \in Direction, Connect(d) \/ Accept(d) \/ SendFails(d) \/ LinkFails(d)
    PROVE  /\ UNCHANGED <<HostRuns, EnclaveRuns>>
           /\ \E to \in Ingress!LinkState : link' = [link EXCEPT ![d] = to]
  BY DEF Connect, Accept, SendFails, LinkFails, LinkGoes, hostVars, enclaveVars,
         HostRuns, EnclaveRuns, Ingress!LinkState

\* A setup that has no workers yet leaves no connection behind.
LEMMA SetsUpLinks ==
    ASSUME LinksOfWorkers, EnclaveSetsUp
    PROVE  link' = link
  <1>1. ~EnclaveRuns /\ link' \in {link, LinksLeft("egress", "ingress")}
    BY NotYet DEF EnclaveSetsUp
  <1>2. link["egress"] = "none" /\ link["ingress"] \in {"none", "dead"}
    BY <1>1 DEF LinksOfWorkers, Direction, SenderRuns, ReceiverRuns, Ingress!LinkState
  <1>3. LinksLeft("egress", "ingress") = link
    BY <1>2 DEF LinksLeft, LinksOfWorkers, Direction
  <1> QED
    BY <1>1, <1>3

LEMMA NextLinks == LinksOfWorkers /\ [Next]_vars => LinksOfWorkers'
  <1> SUFFICES ASSUME LinksOfWorkers, [Next]_vars PROVE LinksOfWorkers'
    OBVIOUS
  <1> USE DEF LinksOfWorkers, SenderRuns, ReceiverRuns, Direction
  <1>1. CASE HostSetsUp \/ HostRestarts \/ HostReconfigured
    BY <1>1, NotYet DEF T!FaultsTypeOK
  <1>2. CASE HostEnds
    BY <1>2, HostEnding DEF LinksLeft, Ingress!LinkState, T!FaultsTypeOK
  <1>3. CASE EnclaveGetsRecord \/ EnclaveRestarts
    BY <1>3, NotYet DEF T!FaultsTypeOK
  <1>4. CASE EnclaveSetsUp
    BY <1>4, NotYet, SetsUpLinks DEF T!FaultsTypeOK
  <1>5. CASE EnclaveEnds
    BY <1>5, EnclaveEnding DEF LinksLeft, Ingress!LinkState, T!FaultsTypeOK
  <1>6. ASSUME NEW d \in Direction,
               Connect(d) \/ Accept(d) \/ SendFails(d) \/ LinkFails(d)
        PROVE  LinksOfWorkers'
    <2>1. T!FaultsTypeOK'
      BY <1>6, DeploymentAssumption
      DEF Connect, Accept, SendFails, LinkFails, T!Fault, T!NoFault, T!FaultsTypeOK,
          T!FaultsAssumption
    <2>2. UNCHANGED <<HostRuns, EnclaveRuns>>
      BY <1>6, LinkSteps
    <2> QED
      BY <1>6, <2>1, <2>2
      DEF Connect, Accept, SendFails, LinkFails, LinkGoes, Ingress!LinkState
  <1>7. CASE UNCHANGED vars
    BY <1>7 DEF vars, hostVars, enclaveVars, HostRuns, EnclaveRuns, T!FaultsTypeOK
  <1> QED
    BY <1>1, <1>2, <1>3, <1>4, <1>5, <1>6, <1>7 DEF Next

LEMMA LinksCorrect == Spec => []LinksOfWorkers
  <1>1. Init => LinksOfWorkers
    BY DeploymentAssumption
    DEF Init, LinksOfWorkers, Direction, Ingress!LinkState, T!FaultsTypeOK,
        T!FaultsAssumption
  <1> QED
    BY <1>1, NextLinks, PTL DEF Spec

\* Both kernels and both directions keep their types, and a process that has
\* ended or is set up anew is connected to nothing: its sockets were closed
\* with it.
THEOREM DeploymentTypeCorrect == Spec => []TypeOK
  <1>1. ASSUME HP!SetupInv, EP!SetupInv, RecordIsOurs, LinksOfWorkers
        PROVE  TypeOK
    BY <1>1, HostFacts, EnclaveFacts DEF RecordIsOurs, LinksOfWorkers, TypeOK
  <1> QED
    BY <1>1, HostSetupInv, EnclaveSetupInv, RecordCorrect, LinksCorrect, PTL

-----------------------------------------------------------------------------
(* Deployment keeps to the interfaces that Tunnel and Bootstrap implement. *)

LEMMA IngressStep ==
    ASSUME LinksOfWorkers, [Next]_vars
    PROVE  [Ingress!Next]_(Ingress!vars)
  <1> USE DEF Ingress!Next, Ingress!vars, Direction
  <1>b. HostRuns \in BOOLEAN /\ EnclaveRuns \in BOOLEAN
    BY DEF HostRuns, EnclaveRuns
  <1>1. CASE HostSetsUp \/ HostRestarts \/ HostReconfigured
    <2>1. ~HostRuns /\ UNCHANGED <<EnclaveRuns, link>>
      BY <1>1, NotYet
    <2>2. HostRuns' \in BOOLEAN
      BY DEF HostRuns
    <2> QED
      BY <1>b, <2>1, <2>2 DEF Ingress!SenderStarts
  <1>2. CASE HostEnds
    <2>1. /\ ~HostRuns' /\ UNCHANGED EnclaveRuns
          /\ link'["ingress"] = "none"
      BY <1>2, HostEnding DEF LinksLeft, LinksOfWorkers
    <2>2. ~HostRuns => link["ingress"] = "none"
      BY DEF LinksOfWorkers, SenderRuns
    <2>3. HostRuns' = FALSE
      BY <2>1 DEF HostRuns
    <2> QED
      BY <1>b, <2>1, <2>2, <2>3 DEF Ingress!SenderEnds
  <1>3. CASE EnclaveGetsRecord \/ EnclaveRestarts
    <2>1. ~EnclaveRuns /\ ~EnclaveRuns' /\ UNCHANGED <<HostRuns, link>>
      BY <1>3, NotYet
    <2> QED
      BY <1>b, <2>1 DEF EnclaveRuns
  <1>4. CASE EnclaveSetsUp
    <2>1. ~EnclaveRuns /\ UNCHANGED <<HostRuns, link>>
      BY <1>4, NotYet, SetsUpLinks
    <2>2. EnclaveRuns' \in BOOLEAN
      BY DEF EnclaveRuns
    <2> QED
      BY <1>b, <2>1, <2>2 DEF Ingress!ReceiverStarts
  <1>5. CASE EnclaveEnds
    <2>1. /\ UNCHANGED HostRuns
          /\ link'["ingress"] = Ingress!LeftByReceiver
      BY <1>5, EnclaveEnding DEF LinksLeft, LinksOfWorkers, Ingress!LeftByReceiver
    <2>2. ~EnclaveRuns => Ingress!LeftByReceiver = link["ingress"]
      BY DEF LinksOfWorkers, ReceiverRuns, Ingress!LinkState, Ingress!LeftByReceiver
    <2>3. EnclaveRuns' = FALSE
      BY <1>5, EnclaveEnding DEF EnclaveRuns
    <2> QED
      BY <1>b, <2>1, <2>2, <2>3 DEF Ingress!ReceiverEnds
  <1>6. ASSUME NEW d \in Direction,
               Connect(d) \/ Accept(d) \/ SendFails(d) \/ LinkFails(d)
        PROVE  [Ingress!Next]_(Ingress!vars)
    <2>1. UNCHANGED <<HostRuns, EnclaveRuns>>
      BY <1>6, LinkSteps
    <2>2. CASE d = "ingress"
      <3>1. CASE Connect(d)
        BY <2>1, <2>2, <3>1
        DEF Connect, LinkGoes, LinksOfWorkers, SenderRuns, ReceiverRuns,
            Ingress!Connect, Ingress!Becomes
      <3>2. CASE Accept(d)
        BY <2>1, <2>2, <3>2
        DEF Accept, LinkGoes, LinksOfWorkers, ReceiverRuns, Ingress!Accept, Ingress!Becomes
      <3>3. CASE SendFails(d)
        BY <2>1, <2>2, <3>3
        DEF SendFails, LinkGoes, LinksOfWorkers, Ingress!IsGivenUp, Ingress!Becomes
      <3>4. CASE LinkFails(d)
        BY <2>1, <2>2, <3>4
        DEF LinkFails, LinkGoes, LinksOfWorkers, Ingress!Fails, Ingress!Becomes
      <3> QED
        BY <1>6, <3>1, <3>2, <3>3, <3>4
    <2>3. CASE d # "ingress"
      <3>1. link'["ingress"] = link["ingress"]
        BY <1>6, <2>3, LinkSteps DEF LinksOfWorkers
      <3> QED
        BY <2>1, <3>1
    <2> QED
      BY <2>2, <2>3
  <1>7. CASE UNCHANGED vars
    BY <1>7 DEF vars, hostVars, enclaveVars, HostRuns, EnclaveRuns
  <1> QED
    BY <1>1, <1>2, <1>3, <1>4, <1>5, <1>6, <1>7 DEF Next

LEMMA EgressStep ==
    ASSUME LinksOfWorkers, [Next]_vars
    PROVE  [Egress!Next]_(Egress!vars)
  <1> USE DEF Egress!Next, Egress!vars, Direction
  <1>b. HostRuns \in BOOLEAN /\ EnclaveRuns \in BOOLEAN
    BY DEF HostRuns, EnclaveRuns
  <1>1. CASE HostSetsUp \/ HostRestarts \/ HostReconfigured
    <2>1. ~HostRuns /\ UNCHANGED <<EnclaveRuns, link>>
      BY <1>1, NotYet
    <2>2. HostRuns' \in BOOLEAN
      BY DEF HostRuns
    <2> QED
      BY <1>b, <2>1, <2>2 DEF Egress!ReceiverStarts
  <1>2. CASE HostEnds
    <2>1. /\ UNCHANGED EnclaveRuns
          /\ link'["egress"] = Egress!LeftByReceiver
      BY <1>2, HostEnding DEF LinksLeft, LinksOfWorkers, Egress!LeftByReceiver
    <2>2. ~HostRuns => Egress!LeftByReceiver = link["egress"]
      BY DEF LinksOfWorkers, ReceiverRuns, Ingress!LinkState, Egress!LeftByReceiver
    <2>3. HostRuns' = FALSE
      BY <1>2, HostEnding DEF HostRuns
    <2> QED
      BY <1>b, <2>1, <2>2, <2>3 DEF Egress!ReceiverEnds
  <1>3. CASE EnclaveGetsRecord \/ EnclaveRestarts
    <2>1. ~EnclaveRuns /\ ~EnclaveRuns' /\ UNCHANGED <<HostRuns, link>>
      BY <1>3, NotYet
    <2> QED
      BY <1>b, <2>1 DEF EnclaveRuns
  <1>4. CASE EnclaveSetsUp
    <2>1. ~EnclaveRuns /\ UNCHANGED <<HostRuns, link>>
      BY <1>4, NotYet, SetsUpLinks
    <2>2. EnclaveRuns' \in BOOLEAN
      BY DEF EnclaveRuns
    <2> QED
      BY <1>b, <2>1, <2>2 DEF Egress!SenderStarts
  <1>5. CASE EnclaveEnds
    <2>1. /\ ~EnclaveRuns' /\ UNCHANGED HostRuns
          /\ link'["egress"] = "none"
      BY <1>5, EnclaveEnding DEF LinksLeft, LinksOfWorkers
    <2>2. ~EnclaveRuns => link["egress"] = "none"
      BY DEF LinksOfWorkers, SenderRuns
    <2>3. EnclaveRuns' = FALSE
      BY <2>1 DEF EnclaveRuns
    <2> QED
      BY <1>b, <2>1, <2>2, <2>3 DEF Egress!SenderEnds
  <1>6. ASSUME NEW d \in Direction,
               Connect(d) \/ Accept(d) \/ SendFails(d) \/ LinkFails(d)
        PROVE  [Egress!Next]_(Egress!vars)
    <2>1. UNCHANGED <<HostRuns, EnclaveRuns>>
      BY <1>6, LinkSteps
    <2>2. CASE d = "egress"
      <3>1. CASE Connect(d)
        BY <2>1, <2>2, <3>1
        DEF Connect, LinkGoes, LinksOfWorkers, SenderRuns, ReceiverRuns,
            Egress!Connect, Egress!Becomes
      <3>2. CASE Accept(d)
        BY <2>1, <2>2, <3>2
        DEF Accept, LinkGoes, LinksOfWorkers, ReceiverRuns, Egress!Accept, Egress!Becomes
      <3>3. CASE SendFails(d)
        BY <2>1, <2>2, <3>3
        DEF SendFails, LinkGoes, LinksOfWorkers, Egress!IsGivenUp, Egress!Becomes
      <3>4. CASE LinkFails(d)
        BY <2>1, <2>2, <3>4
        DEF LinkFails, LinkGoes, LinksOfWorkers, Egress!Fails, Egress!Becomes
      <3> QED
        BY <1>6, <3>1, <3>2, <3>3, <3>4
    <2>3. CASE d # "egress"
      <3>1. link'["egress"] = link["egress"]
        BY <1>6, <2>3, LinkSteps DEF LinksOfWorkers
      <3> QED
        BY <2>1, <3>1
    <2> QED
      BY <2>2, <2>3
  <1>7. CASE UNCHANGED vars
    BY <1>7 DEF vars, hostVars, enclaveVars, HostRuns, EnclaveRuns
  <1> QED
    BY <1>1, <1>2, <1>3, <1>4, <1>5, <1>6, <1>7 DEF Next

\* What the enclave has of the host, as Handover has it.
Taken == IF epc \in {"bootstrap", "exited"} THEN {} ELSE {rec}

\* A step of the enclave's own either keeps the record or gives it up.
LEMMA KeepsOrLoses ==
    ASSUME E!Configure \/ E!SetupFails \/ E!Restart
    PROVE  Taken' \in {Taken, {}}
  BY KeepsRecord DEF Taken

LEMMA RecordStep == [Next]_vars => [Record!Next]_(Record!vars)
  <1> SUFFICES ASSUME [Next]_vars PROVE [Record!Next]_(Record!vars)
    OBVIOUS
  <1> USE DEF Record!Next, Record!vars
  <1>b. HostRuns \in BOOLEAN /\ HostRuns' \in BOOLEAN
    BY DEF HostRuns
  <1>1. CASE HostSetsUp \/ HostRestarts
    <2>1. ~HostRuns /\ cfg' = cfg /\ UNCHANGED <<epc, rec>>
      BY <1>1, NotYet, KeepsConfig DEF HostSetsUp, HostRestarts, enclaveVars
    <2> QED
      BY <1>b, <2>1 DEF Record!Starts, RecordOf
  <1>2. CASE HostEnds
    <2>1. HostRuns' = FALSE /\ cfg' = cfg /\ UNCHANGED <<epc, rec>>
      BY <1>2, <1>b, HostEnding, KeepsConfig DEF HostEnds, enclaveVars
    <2> QED
      BY <1>b, <2>1 DEF Record!Ends, RecordOf
  <1>3. CASE HostReconfigured
    <2>1. ~HostRuns /\ ~HostRuns' /\ UNCHANGED <<epc, rec>>
      BY <1>3, NotYet DEF HostReconfigured, enclaveVars
    <2> QED
      BY <1>b, <2>1 DEF Record!Reoffers
  <1>4. CASE EnclaveGetsRecord
    <2>1. HostRuns /\ UNCHANGED <<HostRuns, cfg>>
      BY <1>4 DEF EnclaveGetsRecord, ServesRecords, hostVars, HostRuns
    <2>2. epc = "bootstrap" /\ epc' = "up" /\ rec' = RecordOf(cfg)
      BY <1>4 DEF EnclaveGetsRecord, E!GetRecord, E!EnclaveGoes
    <2> QED
      BY <1>b, <2>1, <2>2 DEF Record!Take, RecordOf
  <1>5. CASE EnclaveSetsUp \/ EnclaveEnds \/ EnclaveRestarts
    <2>1. UNCHANGED <<HostRuns, cfg>>
      BY <1>5 DEF EnclaveSetsUp, EnclaveEnds, EnclaveRestarts, hostVars, HostRuns
    <2>2. Taken' \in {Taken, {}}
      BY <1>5, KeepsOrLoses DEF EnclaveSetsUp, EnclaveEnds, EnclaveRestarts
    <2> QED
      BY <2>1, <2>2 DEF Record!Lose, RecordOf, Taken
  <1>6. ASSUME NEW d \in Direction,
               Connect(d) \/ Accept(d) \/ SendFails(d) \/ LinkFails(d)
        PROVE  UNCHANGED <<HostRuns, cfg, epc, rec>>
    BY <1>6
    DEF Connect, Accept, SendFails, LinkFails, LinkGoes, hostVars, enclaveVars, HostRuns
  <1>7. CASE UNCHANGED vars
    BY <1>7 DEF vars, hostVars, enclaveVars, HostRuns, RecordOf
  <1> QED
    BY <1>1, <1>2, <1>3, <1>4, <1>5, <1>6, <1>7 DEF Next, RecordOf

\* The two connections and the record, as Deployment has them, are what
\* Tunnel and Bootstrap are proved to implement: what ends with a process, or
\* is started with it, is one step of each.
THEOREM InterfacesCorrect == Spec => KeepsToInterfaces
  <1>1. Init => Ingress!Init /\ Egress!Init /\ Record!Init
    BY DEF Init, H!Init, E!Init, Ingress!Init, Egress!Init, Record!Init,
           HostRuns, EnclaveRuns, Direction
  <1> QED
    BY <1>1, LinksCorrect, IngressStep, EgressStep, RecordStep, PTL
    DEF Spec, KeepsToInterfaces, Ingress!Spec, Egress!Spec, Record!Spec
=============================================================================
