------------------------- MODULE EnclaveSetupProofs -------------------------
(***************************************************************************)
(* What holds of EnclaveSetup for any addresses, ports, records and routes *)
(* the kernel booted with.  The invariant says, for each step, what the    *)
(* steps before it have established in the kernel and nothing since has    *)
(* undone.                                                                 *)
(***************************************************************************)
EXTENDS EnclaveSetup, TLAPS

\* The steps after a step, as long as the process runs.
AfterEphemeral == {"tcp", "udp", "workers"}
AfterMtu == {"ephemeral"} \cup AfterEphemeral
AfterRoute == {"mtu"} \cup AfterMtu
AfterAddress == {"route"} \cup AfterRoute
AfterUp == {"address"} \cup AfterAddress

LinkIsUp == epc \in AfterUp => up
AddressIsThere == epc \in AfterAddress => rec.address \in addresses
RouteIsOwn == epc \in AfterRoute => routes = {OwnRoute}
MtuIsSet == epc \in AfterMtu => mtu = rec.mtu
EphemeralIsSet == epc \in AfterEphemeral => ephemeral = rec.ephemeral
TcpIsRouted == epc \in {"udp", "workers"} => table["tcp"][EgressQueue] = SrcPorts
UdpIsRouted == epc = "workers" => table["udp"][EgressQueue] = SrcPorts

LinkInv == LinkIsUp /\ AddressIsThere /\ RouteIsOwn /\ MtuIsSet

PortsInv == EphemeralIsSet /\ TcpIsRouted /\ UdpIsRouted

SetupInv == TypeOK /\ LinkInv /\ PortsInv

-----------------------------------------------------------------------------

LEMMA FaultType ==
    ASSUME FaultsTypeOK, Fault
    PROVE  FaultsTypeOK'
BY FaultsAssumption DEF FaultsTypeOK, Fault

\* The rules of a batch, where it is for p and where it is not.
LEMMA ReplacedTable ==
    ASSUME NetTypeOK, NEW p \in SinkProtocol, NEW q \in Queue,
           NEW ranges \in SUBSET Range
    PROVE  /\ Replaced(p, q, ranges) \in [SinkProtocol -> [Queue -> SUBSET Range]]
           /\ Replaced(p, q, ranges)[p][q] = ranges
           /\ \A o \in SinkProtocol :
                  o # p => Replaced(p, q, ranges)[o][q] = table[o][q]
BY DEF NetTypeOK, Replaced

LEMMA RecordType ==
    ASSUME TypeOK
    PROVE  /\ SrcPorts \in SUBSET Range
           /\ OwnRoute \in Route
           /\ rec.address \in Address /\ rec.mtu \in Mtu /\ rec.ephemeral \in Range
BY RecordsAssumption DEF TypeOK, SrcPorts, OwnRoute, Route

\* A process that is not setting up, or is starting over, is owed nothing.
LEMMA NothingOwed ==
    ASSUME epc' \in {"exited", "bootstrap", "up"}
    PROVE  LinkInv' /\ PortsInv'
BY DEF LinkInv, PortsInv, LinkIsUp, AddressIsThere, RouteIsOwn, MtuIsSet,
       EphemeralIsSet, TcpIsRouted, UdpIsRouted, AfterUp, AfterAddress,
       AfterRoute, AfterMtu, AfterEphemeral

LEMMA InitSetupInv == Init => SetupInv
<1> SUFFICES ASSUME Init PROVE SetupInv
  OBVIOUS
<1>1. TypeOK
  <2>1. NetTypeOK
    BY EnclaveSetupAssumption DEF Init, NetInit, NetTypeOK
  <2>2. FaultsTypeOK
    BY FaultsAssumption DEF Init, FaultsTypeOK
  <2>3. addresses \subseteq Address /\ routes \subseteq Route /\ mtu \in Mtu
    BY EnclaveSetupAssumption DEF Init
  <2>4. up \in BOOLEAN /\ rec \in Records /\ epc \in EnclaveStep
    BY DEF Init, EnclaveStep
  <2> QED BY <2>1, <2>2, <2>3, <2>4 DEF TypeOK
<1>2. epc = "bootstrap"
  BY DEF Init
<1> QED
  BY <1>1, <1>2
  DEF SetupInv, LinkInv, PortsInv, LinkIsUp, AddressIsThere, RouteIsOwn,
      MtuIsSet, EphemeralIsSet, TcpIsRouted, UdpIsRouted, AfterUp,
      AfterAddress, AfterRoute, AfterMtu, AfterEphemeral

LEMMA NextSetupInv == SetupInv /\ [Next]_vars => SetupInv'
<1> SUFFICES ASSUME SetupInv, [Next]_vars PROVE SetupInv'
  OBVIOUS
<1>t. TypeOK /\ LinkInv /\ PortsInv
  BY DEF SetupInv
<1>1. CASE GetRecord
  <2>1. TypeOK'
    BY <1>1, <1>t
    DEF GetRecord, EnclaveGoes, netVars, linkVars, TypeOK, FaultsTypeOK,
        NetTypeOK, EnclaveStep
  <2> QED BY <1>1, <2>1, NothingOwed DEF GetRecord, EnclaveGoes, SetupInv
<1>2. CASE BringInterfaceUp
  <2>1. TypeOK'
    BY <1>2, <1>t
    DEF BringInterfaceUp, EnclaveGoes, netVars, TypeOK, FaultsTypeOK,
        NetTypeOK, EnclaveStep
  <2>2. LinkInv' /\ PortsInv'
    BY <1>2
    DEF BringInterfaceUp, EnclaveGoes, LinkInv, PortsInv, LinkIsUp,
        AddressIsThere, RouteIsOwn, MtuIsSet, EphemeralIsSet, TcpIsRouted,
        UdpIsRouted, AfterUp, AfterAddress, AfterRoute, AfterMtu,
        AfterEphemeral
  <2> QED BY <2>1, <2>2 DEF SetupInv
<1>3. CASE AddAddress
  <2>1. TypeOK'
    BY <1>3, <1>t, RecordType
    DEF AddAddress, AfterAddAddress, EnclaveGoes, netVars, TypeOK,
        FaultsTypeOK, NetTypeOK, EnclaveStep
  <2>2. LinkInv' /\ PortsInv'
    BY <1>3, <1>t
    DEF AddAddress, AfterAddAddress, EnclaveGoes, LinkInv, PortsInv, LinkIsUp,
        AddressIsThere, RouteIsOwn, MtuIsSet, EphemeralIsSet, TcpIsRouted,
        UdpIsRouted, AfterUp, AfterAddress, AfterRoute, AfterMtu,
        AfterEphemeral
  <2> QED BY <2>1, <2>2 DEF SetupInv
<1>4. ASSUME NEW r \in routes, DeleteRoute(r) PROVE SetupInv'
  <2>1. TypeOK'
    BY <1>4, <1>t
    DEF DeleteRoute, EnclaveGoes, netVars, TypeOK, FaultsTypeOK, NetTypeOK,
        EnclaveStep
  <2>2. LinkInv' /\ PortsInv'
    BY <1>4, <1>t
    DEF DeleteRoute, EnclaveGoes, LinkInv, PortsInv, LinkIsUp,
        AddressIsThere, RouteIsOwn, MtuIsSet, EphemeralIsSet, TcpIsRouted,
        UdpIsRouted, AfterUp, AfterAddress, AfterRoute, AfterMtu,
        AfterEphemeral
  <2> QED BY <2>1, <2>2 DEF SetupInv
<1>5. CASE AddRoute
  <2>1. epc = "route" /\ RouteAccepted
    BY <1>5, <1>t
    DEF AddRoute, AllDeleted, RouteAccepted, LinkInv, LinkIsUp,
        AddressIsThere, AfterUp, AfterAddress
  <2>2. /\ routes' = {OwnRoute} /\ epc' = "mtu"
        /\ UNCHANGED <<faults, netVars, up, addresses, mtu, rec>>
    BY <1>5, <2>1 DEF AddRoute, AllDeleted
  <2>3. TypeOK'
    BY <1>t, <2>2, RecordType
    DEF netVars, TypeOK, FaultsTypeOK, NetTypeOK, EnclaveStep
  <2>4. OwnRoute' = OwnRoute
    BY <2>2 DEF OwnRoute
  <2>5. LinkInv' /\ PortsInv'
    BY <1>t, <2>1, <2>2, <2>4
    DEF LinkInv, PortsInv, LinkIsUp, AddressIsThere, RouteIsOwn, MtuIsSet,
        EphemeralIsSet, TcpIsRouted, UdpIsRouted, AfterUp, AfterAddress,
        AfterRoute, AfterMtu, AfterEphemeral
  <2> QED BY <2>3, <2>5 DEF SetupInv
<1>6. CASE SetMtu
  <2>1. TypeOK'
    BY <1>6, <1>t, RecordType
    DEF SetMtu, EnclaveGoes, netVars, TypeOK, FaultsTypeOK, NetTypeOK,
        EnclaveStep
  <2>2. OwnRoute' = OwnRoute
    BY <1>6 DEF SetMtu, OwnRoute
  <2>3. LinkInv' /\ PortsInv'
    BY <1>6, <1>t, <2>2
    DEF SetMtu, EnclaveGoes, LinkInv, PortsInv, LinkIsUp,
        AddressIsThere, RouteIsOwn, MtuIsSet, EphemeralIsSet, TcpIsRouted,
        UdpIsRouted, AfterUp, AfterAddress, AfterRoute, AfterMtu,
        AfterEphemeral
  <2> QED BY <2>1, <2>3 DEF SetupInv
<1>7. CASE SetEnclaveEphemeral
  <2>1. TypeOK'
    BY <1>7, <1>t, RecordType
    DEF SetEnclaveEphemeral, SetEphemeral, EnclaveGoes, linkVars, TypeOK,
        FaultsTypeOK, NetTypeOK, EnclaveStep
  <2>2. OwnRoute' = OwnRoute
    BY <1>7 DEF SetEnclaveEphemeral, OwnRoute
  <2>3. LinkInv' /\ PortsInv'
    BY <1>7, <1>t, <2>2
    DEF SetEnclaveEphemeral, SetEphemeral, EnclaveGoes, linkVars, LinkInv,
        PortsInv, LinkIsUp, AddressIsThere, RouteIsOwn, MtuIsSet,
        EphemeralIsSet, TcpIsRouted, UdpIsRouted, AfterUp, AfterAddress,
        AfterRoute, AfterMtu, AfterEphemeral
  <2> QED BY <2>1, <2>3 DEF SetupInv
<1>8. ASSUME NEW p \in SinkProtocol, AddEgressSink(p) PROVE SetupInv'
  <2>1. /\ table' = Replaced(p, EgressQueue, SrcPorts)
        /\ UNCHANGED <<faults, ephemeral, linkVars, rec>>
        /\ epc = p /\ epc' = After(p)
    BY <1>8 DEF AddEgressSink, SendBatch, EnclaveGoes
  <2>2. NetTypeOK /\ EgressQueue \in Queue /\ SrcPorts \in SUBSET Range
    BY <1>t, RecordType, EnclaveSetupAssumption DEF TypeOK
  <2>3. /\ Replaced(p, EgressQueue, SrcPorts)
              \in [SinkProtocol -> [Queue -> SUBSET Range]]
        /\ Replaced(p, EgressQueue, SrcPorts)[p][EgressQueue] = SrcPorts
        /\ \A o \in SinkProtocol :
               o # p => Replaced(p, EgressQueue, SrcPorts)[o][EgressQueue]
                          = table[o][EgressQueue]
    BY <2>2, ReplacedTable
  <2>4. SrcPorts' = SrcPorts /\ OwnRoute' = OwnRoute
    BY <2>1 DEF SrcPorts, OwnRoute
  <2>5. TypeOK'
    BY <1>t, <2>1, <2>3
    DEF linkVars, TypeOK, FaultsTypeOK, NetTypeOK, EnclaveStep, After
  <2>6. LinkInv'
    BY <1>t, <2>1, <2>4
    DEF linkVars, SinkProtocol, After, LinkInv, LinkIsUp, AddressIsThere,
        RouteIsOwn, MtuIsSet, AfterUp, AfterAddress, AfterRoute, AfterMtu,
        AfterEphemeral
  <2>7. PortsInv'
    BY <1>t, <2>1, <2>3, <2>4
    DEF SinkProtocol, After, PortsInv, EphemeralIsSet, TcpIsRouted,
        UdpIsRouted, AfterEphemeral
  <2> QED BY <2>5, <2>6, <2>7 DEF SetupInv
<1>9. ASSUME NEW p \in SinkProtocol, EgressSinkFails(p) PROVE SetupInv'
  <2>1. NetTypeOK /\ EgressQueue \in Queue /\ SrcPorts \in SUBSET Range
    BY <1>t, RecordType, EnclaveSetupAssumption DEF TypeOK
  <2>2. Replaced(p, EgressQueue, SrcPorts)
          \in [SinkProtocol -> [Queue -> SUBSET Range]]
    BY <2>1, ReplacedTable
  <2>3. TypeOK'
    BY <1>9, <1>t, <2>2, FaultType
    DEF EgressSinkFails, BatchFails, EnclaveGoes, linkVars, TypeOK, NetTypeOK,
        EnclaveStep
  <2> QED BY <1>9, <2>3, NothingOwed DEF EgressSinkFails, EnclaveGoes, SetupInv
<1>10. CASE EnclaveExits
  <2>1. TypeOK'
    BY <1>10, <1>t, FaultType
    DEF EnclaveExits, netVars, linkVars, TypeOK, NetTypeOK, EnclaveStep
  <2> QED BY <1>10, <2>1, NothingOwed DEF EnclaveExits, SetupInv
<1>11. CASE Restart
  <2>1. TypeOK'
    BY <1>11, <1>t
    DEF Restart, EnclaveGoes, netVars, linkVars, TypeOK, FaultsTypeOK,
        NetTypeOK, EnclaveStep
  <2> QED BY <1>11, <2>1, NothingOwed DEF Restart, EnclaveGoes, SetupInv
<1>12. CASE UNCHANGED vars
  <2>1. TypeOK'
    BY <1>12, <1>t
    DEF vars, netVars, linkVars, TypeOK, FaultsTypeOK, NetTypeOK
  <2>2. SrcPorts' = SrcPorts /\ OwnRoute' = OwnRoute
    BY <1>12 DEF vars, SrcPorts, OwnRoute
  <2>3. LinkInv' /\ PortsInv'
    BY <1>12, <1>t, <2>2
    DEF vars, netVars, linkVars, LinkInv, PortsInv, LinkIsUp, AddressIsThere,
        RouteIsOwn, MtuIsSet, EphemeralIsSet, TcpIsRouted, UdpIsRouted
  <2> QED BY <2>1, <2>3 DEF SetupInv
<1> QED
  BY <1>1, <1>2, <1>3, <1>4, <1>5, <1>6, <1>7, <1>8, <1>9, <1>10, <1>11,
     <1>12
  DEF Next, Setup, Configure, SetupFails

\* The invariant of the enclave's setup, which the theorems below weaken.
THEOREM SetupCorrect == Spec => []SetupInv
BY InitSetupInv, NextSetupInv, PTL DEF Spec

\* The enclave's kernel only ever holds what records and the boot can give.
THEOREM EnclaveTypeCorrect == Spec => []TypeOK
<1>1. SetupInv => TypeOK
  BY DEF SetupInv
<1> QED BY <1>1, SetupCorrect, PTL

\* Whatever earlier runs, and the boot, have left in the kernel, the workers
\* start with the address, the route, the MTU, the ports and the rules of
\* their own run's record.
THEOREM KernelCorrect == Spec => []WorkersFindTheirKernel
<1>1. SetupInv => WorkersFindTheirKernel
  BY DEF SetupInv, LinkInv, PortsInv, LinkIsUp, AddressIsThere, RouteIsOwn,
         MtuIsSet, EphemeralIsSet, TcpIsRouted, UdpIsRouted, AfterUp,
         AfterAddress, AfterRoute, AfterMtu, AfterEphemeral, SinkProtocol,
         WorkersFindTheirKernel
<1> QED BY <1>1, SetupCorrect, PTL

\* The default route is never refused for what the steps before should have
\* done.
THEOREM RouteCorrect == Spec => []RouteNeverRefused
<1>1. SetupInv => RouteNeverRefused
  BY DEF SetupInv, LinkInv, LinkIsUp, AddressIsThere, AfterUp, AfterAddress,
         RouteNeverRefused, AllDeleted, RouteAccepted
<1> QED BY <1>1, SetupCorrect, PTL
=============================================================================
