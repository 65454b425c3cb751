--------------------------- MODULE HostSetupProofs --------------------------
(***************************************************************************)
(* What holds of HostSetup for any number of ports, queues and options.    *)
(* The argument has two parts: what each step of setup has configured      *)
(* stays until the process exits (SetupInv), and what the port check       *)
(* accepts is arithmetic (AcceptedRanges).                                 *)
(***************************************************************************)
EXTENDS HostSetup, TLAPS

\* A range's ends are ports, in order.
LEMMA RangeBounds ==
    ASSUME NEW r \in Range
    PROVE  r = <<r[1], r[2]>> /\ r[1] \in Port /\ r[2] \in Port /\ r[1] <= r[2]
<1>1. PICK a \in Port, b \in Port : r = ParsedRange(a, b)
  BY DEF Range
<1>2. a \in Int /\ b \in Int
  BY PortsAssumption DEF Port
<1>3. CASE a < b
  BY <1>1, <1>2, <1>3 DEF ParsedRange
<1>4. CASE ~(a < b)
  BY <1>1, <1>2, <1>4 DEF ParsedRange
<1> QED BY <1>3, <1>4

\* Two ranges that overlap, although neither end of the second lies in the
\* first: the first lies strictly within the second.
LEMMA AcceptedRanges ==
    ASSUME NEW r \in Range, NEW s \in Range, ~AnEndInside(r, s), Overlap(r, s)
    PROVE  Within(r, s)
<1>1. PICK p \in Port : Contains(r, p) /\ Contains(s, p)
  BY DEF Overlap
<1>2. /\ p \in Int /\ r[1] \in Int /\ r[2] \in Int
      /\ s[1] \in Int /\ s[2] \in Int
  BY RangeBounds, PortsAssumption DEF Port
<1> QED BY <1>1, <1>2 DEF AnEndInside, Contains, Within

-----------------------------------------------------------------------------

\* How far setup has come: what the steps before hpc have established.
Checked == hpc \in {"ephemeral", "tcp", "udp", "workers"} => NoPortOverlaps(cfg)

EphemeralSet == hpc \in {"tcp", "udp", "workers"} => ephemeral = cfg.hostEphemeral

TcpRouted == hpc \in {"udp", "workers"} => table["tcp"][cfg.queue] = DstPorts

UdpRouted == hpc = "workers" => table["udp"][cfg.queue] = DstPorts

SetupInv == TypeOK /\ Checked /\ EphemeralSet /\ TcpRouted /\ UdpRouted

LEMMA FaultType ==
    ASSUME FaultsTypeOK, Fault
    PROVE  FaultsTypeOK'
BY FaultsAssumption DEF FaultsTypeOK, Fault

\* The rules of a batch, where it is for p and where it is not.
LEMMA ReplacedTable ==
    ASSUME NetTypeOK, NEW p \in SinkProtocol, NEW q \in Queue,
           NEW ranges \in SUBSET Range
    PROVE  /\ Replaced(p, q, ranges) \in [SinkProtocol -> [Queue -> SUBSET Range]]
           /\ Replaced(p, q, ranges)[p][q] = ranges
           /\ \A o \in SinkProtocol :
                  o # p => Replaced(p, q, ranges)[o][q] = table[o][q]
BY DEF NetTypeOK, Replaced

LEMMA DstPortsType ==
    ASSUME TypeOK
    PROVE  DstPorts \in SUBSET Range /\ cfg.queue \in Queue
BY ConfigsAssumption DEF TypeOK, DstPorts

LEMMA InitSetupInv == Init => SetupInv
<1> SUFFICES ASSUME Init PROVE SetupInv
  OBVIOUS
<1>1. NetTypeOK
  BY HostSetupAssumption DEF Init, NetInit, NetTypeOK
<1> QED
  BY <1>1, FaultsAssumption
  DEF Init, SetupInv, TypeOK, FaultsTypeOK, Checked, EphemeralSet, TcpRouted,
      UdpRouted

LEMMA NextSetupInv == SetupInv /\ [Next]_vars => SetupInv'
<1> SUFFICES ASSUME SetupInv, [Next]_vars PROVE SetupInv'
  OBVIOUS
<1> USE DEF SetupInv
<1>1. CASE CheckPorts
  BY <1>1
  DEF CheckPorts, HostGoes, netVars, TypeOK, FaultsTypeOK, NetTypeOK, Checked,
      EphemeralSet, TcpRouted, UdpRouted
<1>2. CASE SetHostEphemeral
  <2>1. cfg.hostEphemeral \in Range
    BY ConfigsAssumption DEF TypeOK
  <2> QED
    BY <1>2, <2>1
    DEF SetHostEphemeral, SetEphemeral, HostGoes, TypeOK, FaultsTypeOK,
        NetTypeOK, Checked, EphemeralSet, TcpRouted, UdpRouted, DstPorts
<1>3. ASSUME NEW p \in SinkProtocol, AddIngressSink(p) PROVE SetupInv'
  <2>1. /\ table' = Replaced(p, cfg.queue, DstPorts)
        /\ UNCHANGED <<faults, ephemeral, cfg>>
        /\ hpc = p /\ hpc' = After(p)
    BY <1>3 DEF AddIngressSink, SendBatch, HostGoes
  <2>2. /\ table' \in [SinkProtocol -> [Queue -> SUBSET Range]]
        /\ table'[p][cfg.queue] = DstPorts
        /\ \A o \in SinkProtocol : o # p => table'[o][cfg.queue] = table[o][cfg.queue]
    <3>1. NetTypeOK /\ cfg.queue \in Queue /\ DstPorts \in SUBSET Range
      BY DstPortsType DEF TypeOK
    <3>2. /\ Replaced(p, cfg.queue, DstPorts)
                \in [SinkProtocol -> [Queue -> SUBSET Range]]
          /\ Replaced(p, cfg.queue, DstPorts)[p][cfg.queue] = DstPorts
          /\ \A o \in SinkProtocol :
                 o # p => Replaced(p, cfg.queue, DstPorts)[o][cfg.queue]
                            = table[o][cfg.queue]
      BY <3>1, ReplacedTable
    <3> QED BY <2>1, <3>2
  <2>3. DstPorts' = DstPorts
    BY <2>1 DEF DstPorts
  <2>4. TypeOK'
    BY <2>1, <2>2 DEF TypeOK, FaultsTypeOK, NetTypeOK, After
  <2>5. CASE p = "tcp"
    BY <2>1, <2>2, <2>3, <2>4, <2>5
    DEF After, Checked, EphemeralSet, TcpRouted, UdpRouted
  <2>6. CASE p = "udp"
    BY <2>1, <2>2, <2>3, <2>4, <2>6
    DEF After, SinkProtocol, Checked, EphemeralSet, TcpRouted, UdpRouted
  <2> QED BY <2>5, <2>6 DEF SinkProtocol
<1>4. CASE RefusePorts
  BY <1>4
  DEF RefusePorts, HostGoes, netVars, TypeOK, FaultsTypeOK, NetTypeOK, Checked,
      EphemeralSet, TcpRouted, UdpRouted
<1>5. CASE EphemeralFails
  BY <1>5, FaultType
  DEF EphemeralFails, HostGoes, netVars, TypeOK, NetTypeOK, Checked,
      EphemeralSet, TcpRouted, UdpRouted
<1>6. ASSUME NEW p \in SinkProtocol, IngressSinkFails(p) PROVE SetupInv'
  <2>1. table' \in [SinkProtocol -> [Queue -> SUBSET Range]]
    BY <1>6, ReplacedTable, DstPortsType
    DEF IngressSinkFails, BatchFails, TypeOK, NetTypeOK
  <2> QED
    BY <1>6, <2>1, FaultType
    DEF IngressSinkFails, HostGoes, TypeOK, NetTypeOK, Checked, EphemeralSet,
        TcpRouted, UdpRouted
<1>7. CASE Crash
  BY <1>7, FaultType
  DEF Crash, netVars, TypeOK, NetTypeOK, Checked, EphemeralSet, TcpRouted,
      UdpRouted
<1>8. CASE Restart
  BY <1>8
  DEF Restart, HostGoes, netVars, TypeOK, FaultsTypeOK, NetTypeOK, Checked,
      EphemeralSet, TcpRouted, UdpRouted
<1>9. CASE Reconfigure
  BY <1>9, FaultType
  DEF Reconfigure, HostGoes, netVars, TypeOK, NetTypeOK, Checked,
      EphemeralSet, TcpRouted, UdpRouted
<1>10. CASE UNCHANGED vars
  BY <1>10
  DEF vars, netVars, TypeOK, FaultsTypeOK, NetTypeOK, Checked, EphemeralSet,
      TcpRouted, UdpRouted, DstPorts
<1> QED
  BY <1>1, <1>2, <1>3, <1>4, <1>5, <1>6, <1>7, <1>8, <1>9, <1>10
  DEF Next, Setup, SetupFails

\* The invariant of setup, which the theorems below weaken.
THEOREM SetupCorrect == Spec => []SetupInv
BY InitSetupInv, NextSetupInv, PTL DEF Spec

\* The kernel's ports and rules are always ranges the options can give, in
\* order and within the ports there are.
THEOREM HostTypeCorrect == Spec => []TypeOK
<1>1. SetupInv => TypeOK
  BY DEF SetupInv
<1> QED BY <1>1, SetupCorrect, PTL

\* Whatever earlier runs have left in the kernel, the workers start with the
\* ports and the rules of their own run's options.
THEOREM RulesCorrect == Spec => []WorkersFindTheirRules
<1>1. SetupInv => WorkersFindTheirRules
  BY DEF SetupInv, WorkersFindTheirRules, EphemeralSet, TcpRouted, UdpRouted,
         SinkProtocol
<1> QED BY <1>1, SetupCorrect, PTL

\* For all 65536 ports and any number of service ranges: the host's own
\* ports are captured only by a range they lie strictly within.
THEOREM CaptureCorrect == Spec => []CapturedOnlyWithin
<1>1. SetupInv => CapturedOnlyWithin
  <2> SUFFICES ASSUME SetupInv, hpc = "workers", NEW r \in Range, Captures(r),
                      Overlap(ephemeral, r)
               PROVE  Within(ephemeral, r)
    BY DEF CapturedOnlyWithin
  <2>1. ephemeral = cfg.hostEphemeral /\ ephemeral \in Range
    BY DEF SetupInv, EphemeralSet, TypeOK, NetTypeOK
  <2>2. r \in DstPorts
    BY DEF SetupInv, Captures, TcpRouted, UdpRouted, SinkProtocol
  <2>3. ~AnEndInside(ephemeral, r)
    BY <2>1, <2>2 DEF SetupInv, Checked, NoPortOverlaps, DstPorts
  <2> QED BY <2>1, <2>3, AcceptedRanges
<1> QED BY <1>1, SetupCorrect, PTL

\* What the port check does refuse is enough for options whose ranges are not
\* nested: of such options HostPortsNotCaptured holds (host.rs:180-200).
THEOREM NotCapturedCorrect ==
    Spec => []((\A r \in DstPorts : ~Within(cfg.hostEphemeral, r))
                   => HostPortsNotCaptured)
<1>1. SetupInv /\ CapturedOnlyWithin =>
          ((\A r \in DstPorts : ~Within(cfg.hostEphemeral, r)) => HostPortsNotCaptured)
  <2> SUFFICES ASSUME SetupInv, CapturedOnlyWithin, hpc = "workers",
                      \A r \in DstPorts : ~Within(cfg.hostEphemeral, r),
                      NEW r \in Range, Captures(r), Overlap(ephemeral, r)
               PROVE  FALSE
    BY DEF HostPortsNotCaptured
  <2>1. ephemeral = cfg.hostEphemeral /\ r \in DstPorts
    BY DEF SetupInv, EphemeralSet, Captures, TcpRouted, UdpRouted, SinkProtocol
  <2> QED BY <2>1 DEF CapturedOnlyWithin
<1> QED BY <1>1, SetupCorrect, CaptureCorrect, PTL
=============================================================================
