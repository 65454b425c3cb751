--------------------------- MODULE BootstrapProofs --------------------------
(***************************************************************************)
(* What holds of Bootstrap for records of any lengths, any growth of the   *)
(* buffer and any number of failures.  The argument follows the bytes:     *)
(* what is on a connection is the beginning of the record of the host's    *)
(* run that it was made in (WireInv), what the enclave has is the          *)
(* beginning of that (BufInv), and it parses it when it has read it to its *)
(* end, unless it was told to stop (ReadToTheEnd).                         *)
(***************************************************************************)
EXTENDS Bootstrap, TLAPS

\* Each run but the first has cost a failure, and so has the end of this one.
RunsArePaid ==
    /\ run <= faults + 1
    /\ hcancel \/ bpc = "exited" => run <= faults

WireInv ==
    \A c \in Conn :
        /\ Len(wire[c]) <= RecordLen[madeIn[c]]
        /\ \A k \in 1..Len(wire[c]) : wire[c][k] = <<madeIn[c], k>>

\* A connection that waits was made in this run, and nothing is on it.
PendingInv ==
    /\ \A c \in Conn : c > accepted => wire[c] = <<>> /\ madeIn[c] = run
    /\ bpc \in {"listen", "exited"} => accepted = Len(wire)

\* The client that is served has the beginning of this run's record.
ServingInv ==
    bpc \in {"half_close", "serve"} =>
        /\ accepted # 0 /\ madeIn[accepted] = run
        /\ bpc = "half_close" => wire[accepted] = <<>>
        /\ bpc = "serve" => Len(wire[accepted]) = pos

BufInv ==
    /\ epc \in {"connect", "half_close", "exited"} => buf = <<>>
    /\ epc \notin {"connect", "exited"} =>
           /\ conn # 0
           /\ Len(buf) <= Len(wire[conn])
           /\ \A k \in 1..Len(buf) : buf[k] = wire[conn][k]

\* There is room for what is read: a read of nothing is the end.
RoomToRead == epc = "reading" => Len(buf) < cap

ReadToTheEnd ==
    epc = "parse" => ecancel \/ (conn \notin tx /\ Len(buf) = Len(wire[conn]))

\* Once the host has closed the connection, what is missing stays missing.
CutForGood ==
    epc = "exited" /\ outcome = "json" =>
        \/ ecancel
        \/ /\ conn # 0 /\ conn \notin tx
           /\ Len(wire[conn]) < RecordLen[madeIn[conn]]

HostInv == RunsArePaid /\ WireInv /\ PendingInv /\ ServingInv

EnclaveInv ==
    BufInv /\ RoomToRead /\ ReadToTheEnd /\ CutForGood /\ ConfiguredByItsHost

BootstrapInv == TypeOK /\ HostInv /\ EnclaveInv
-----------------------------------------------------------------------------

LEMMA InitInv == Init => BootstrapInv
  <1> SUFFICES ASSUME Init PROVE BootstrapInv
    OBVIOUS
  <1>0. 1 \in Run /\ RecordLen[1] \in Nat /\ BufStart \in BufStart..MaxRecordSize
    BY FaultsAssumption, BootstrapAssumption DEF Run
  <1>1. TypeOK
    <2>1. FaultsTypeOK
      BY FaultsAssumption DEF Init, FaultsTypeOK
    <2>2. wire \in Seq(Seq(Unit)) /\ Len(wire) = 0 /\ Len(madeIn) = Len(wire)
      BY DEF Init
    <2>3. madeIn \in Seq(Run) /\ buf \in Seq(Unit) /\ Len(buf) <= cap
      BY BootstrapAssumption DEF Init
    <2>4. tx \subseteq Conn /\ rx \subseteq Conn /\ accepted \in 0..Len(wire) /\ conn \in 0..Len(wire)
      BY <2>2 DEF Init, Conn
    <2>5. run \in Run /\ pos \in 0..RecordLen[run] /\ cap \in BufStart..MaxRecordSize
      BY <1>0 DEF Init
    <2>6. /\ bpc = "listen" /\ epc = "connect" /\ outcome = "none" /\ record = 0
          /\ hcancel \in BOOLEAN /\ ecancel \in BOOLEAN
      BY DEF Init
    <2> QED
      BY <2>1, <2>2, <2>3, <2>4, <2>5, <2>6 DEF TypeOK
  <1>2. HostInv
    BY DEF Init, HostInv, RunsArePaid, WireInv, PendingInv, ServingInv, Conn
  <1>3. EnclaveInv
    BY DEF Init, EnclaveInv, BufInv, RoomToRead, ReadToTheEnd, CutForGood,
           ConfiguredByItsHost
  <1> QED
    BY <1>1, <1>2, <1>3 DEF BootstrapInv

\* The types in the form the steps below need them.
LEMMA Typed ==
    ASSUME TypeOK
    PROVE  /\ wire \in Seq(Seq(Unit)) /\ Len(wire) \in Nat
           /\ \A c \in Conn : /\ wire[c] \in Seq(Unit) /\ Len(wire[c]) \in Nat
                              /\ madeIn[c] \in Run /\ RecordLen[madeIn[c]] \in Nat \ {0}
           /\ run \in Nat /\ RecordLen[run] \in Nat \ {0} /\ pos \in Nat
           /\ accepted \in Nat /\ conn \in Nat /\ faults \in Nat /\ MaxFaults \in Nat
           /\ conn # 0 => conn \in Conn
           /\ accepted # 0 => accepted \in Conn
           /\ Len(buf) \in Nat /\ cap \in Nat \ {0}
  <1>1. /\ wire \in Seq(Seq(Unit)) /\ madeIn \in Seq(Run) /\ Len(madeIn) = Len(wire)
        /\ accepted \in 0..Len(wire) /\ conn \in 0..Len(wire) /\ run \in Run
        /\ pos \in 0..RecordLen[run] /\ buf \in Seq(Unit) /\ cap \in BufStart..MaxRecordSize
    BY DEF TypeOK
  <1>2. Len(wire) \in Nat
    BY <1>1
  <1>3. \A c \in Conn : /\ wire[c] \in Seq(Unit) /\ Len(wire[c]) \in Nat
                        /\ madeIn[c] \in Run
    BY <1>1 DEF Conn
  <1>4. \A h \in Run : RecordLen[h] \in Nat \ {0}
    BY BootstrapAssumption DEF Run
  <1>5. run \in Nat /\ faults \in Nat /\ MaxFaults \in Nat
    BY <1>1, FaultsAssumption DEF Run, TypeOK, FaultsTypeOK
  <1>6. /\ accepted \in Nat /\ conn \in Nat
        /\ conn # 0 => conn \in Conn
        /\ accepted # 0 => accepted \in Conn
    BY <1>1, <1>2 DEF Conn
  <1>7. pos \in Nat
    BY <1>1, <1>4
  <1>8. Len(buf) \in Nat /\ cap \in Nat \ {0}
    BY <1>1, BootstrapAssumption
  <1> QED
    BY <1>1, <1>2, <1>3, <1>4, <1>5, <1>6, <1>7, <1>8

LEMMA FaultType ==
    ASSUME FaultsTypeOK, Fault \/ NoFault \/ UNCHANGED faults
    PROVE  FaultsTypeOK' /\ faults <= faults' /\ (Fault => faults' = faults + 1)
  BY FaultsAssumption DEF FaultsTypeOK, Fault, NoFault

-----------------------------------------------------------------------------
(* What the host's steps do to the connections.                            *)

\* One more unit on the connection that is served.
LEMMA WriteFacts ==
    ASSUME BootstrapInv, WriteUnit
    PROVE  /\ accepted \in Conn /\ accepted \in tx
           /\ pos < RecordLen[run] /\ pos' = pos + 1 /\ bpc = "serve" /\ bpc' = "serve"
           /\ UNCHANGED <<madeIn, tx, rx, accepted, run, hcancel, enclaveVars, faults>>
           /\ wire' \in Seq(Seq(Unit)) /\ Len(wire') = Len(wire)
           /\ \A c \in Conn \ {accepted} : wire'[c] = wire[c]
           /\ Len(wire'[accepted]) = Len(wire[accepted]) + 1
           /\ \A k \in 1..Len(wire[accepted]) : wire'[accepted][k] = wire[accepted][k]
           /\ wire'[accepted][Len(wire[accepted]) + 1] = <<run, pos + 1>>
  <1>1. /\ bpc = "serve" /\ bpc' = bpc /\ pos < RecordLen[run] /\ pos' = pos + 1
        /\ accepted \in tx
        /\ wire' = [wire EXCEPT ![accepted] = Append(@, <<run, pos + 1>>)]
        /\ UNCHANGED <<madeIn, tx, rx, accepted, run, hcancel, enclaveVars, faults>>
    BY DEF WriteUnit
  <1>2. /\ wire \in Seq(Seq(Unit)) /\ accepted \in Conn /\ wire[accepted] \in Seq(Unit)
        /\ run \in Run /\ pos \in Nat
    BY <1>1, Typed DEF BootstrapInv, TypeOK
  <1>3. <<run, pos + 1>> \in Unit
    BY <1>2 DEF Unit
  <1>4. Append(wire[accepted], <<run, pos + 1>>) \in Seq(Unit)
    BY <1>2, <1>3
  <1>5. /\ wire' \in Seq(Seq(Unit)) /\ Len(wire') = Len(wire)
        /\ \A c \in Conn \ {accepted} : wire'[c] = wire[c]
        /\ wire'[accepted] = Append(wire[accepted], <<run, pos + 1>>)
    BY <1>1, <1>2, <1>4 DEF Conn
  <1>6. /\ Len(wire'[accepted]) = Len(wire[accepted]) + 1
        /\ \A k \in 1..Len(wire[accepted]) : wire'[accepted][k] = wire[accepted][k]
        /\ wire'[accepted][Len(wire[accepted]) + 1] = <<run, pos + 1>>
    BY <1>2, <1>3, <1>5
  <1> QED
    BY <1>1, <1>2, <1>5, <1>6

\* The host moves on, and nothing is written.
HostMoves ==
    /\ UNCHANGED <<wire, madeIn, rx, run, enclaveVars>>
    /\ tx' \subseteq tx
    /\ \/ /\ bpc' \in {"loop", "accepting"} /\ accepted' = accepted /\ pos' = pos
          /\ bpc # "exited" /\ hcancel' = hcancel
       \/ /\ bpc = "accepting" /\ bpc' = "half_close" /\ accepted < Len(wire)
          /\ accepted' = accepted + 1 /\ pos' = pos /\ hcancel' = hcancel
       \/ /\ bpc = "half_close" /\ bpc' = "serve" /\ accepted' = accepted /\ pos' = 0
          /\ hcancel' = hcancel
       \/ /\ bpc' = bpc /\ bpc # "exited" /\ accepted' = accepted /\ pos' = pos
          /\ hcancel' = TRUE /\ faults' = faults + 1
       \/ /\ bpc' = "exited" /\ bpc # "exited" /\ accepted' = Len(wire) /\ pos' = pos
          /\ hcancel' = hcancel
          /\ hcancel \/ faults' = faults + 1

LEMMA HostCases ==
    ASSUME TypeOK, HostStep \/ HostFailure
    PROVE  /\ WriteUnit \/ HostRestarts \/ HostMoves
           /\ FaultsTypeOK' /\ faults <= faults'
  <1>0. FaultsTypeOK
    BY DEF TypeOK
  <1>1. FaultsTypeOK' /\ faults <= faults' /\ (Fault => faults' = faults + 1)
    BY <1>0, FaultType
    DEF HostStep, HostFailure, Listen, StartAccept, Accept, StartServing, WriteUnit, ServeDone,
        WriteTimesOut, WriteRefused, HostStops, HostRestarts, AcceptFails, WriteFails,
        HostDies, HostCrashes, HostCancelled
  <1>2. Listen \/ StartAccept \/ AcceptFails => HostMoves
    BY DEF Listen, StartAccept, AcceptFails, HostGoes, connVars, HostMoves
  <1>3. Accept => HostMoves
    BY DEF Accept, HostGoes, HostMoves
  <1>4. StartServing => HostMoves
    BY DEF StartServing, HostGoes, StartPos, connVars, HostMoves
  <1>5. ServeDone \/ WriteTimesOut \/ WriteRefused \/ WriteFails => HostMoves
    BY DEF ServeDone, WriteTimesOut, WriteRefused, WriteFails, NextClient, HostGoes, HostMoves
  <1>6. HostStops \/ HostDies \/ HostCrashes => HostMoves
    BY <1>1 DEF HostStops, HostDies, HostCrashes, HostExits, HostMoves
  <1>7. HostCancelled => HostMoves
    BY <1>1 DEF HostCancelled, connVars, HostMoves
  <1> QED
    BY <1>1, <1>2, <1>3, <1>4, <1>5, <1>6, <1>7 DEF HostStep, HostFailure

-----------------------------------------------------------------------------
(* The host's steps keep the invariant.                                    *)

LEMMA HostKeepsType ==
    ASSUME BootstrapInv, HostStep \/ HostFailure
    PROVE  TypeOK'
  <1>1. TypeOK /\ RunsArePaid
    BY DEF BootstrapInv, HostInv
  <1>2. /\ WriteUnit \/ HostRestarts \/ HostMoves
        /\ FaultsTypeOK' /\ faults <= faults'
    BY <1>1, HostCases
  <1>3. CASE WriteUnit
    <2>1. /\ pos' \in 0..RecordLen[run] /\ bpc' = "serve" /\ wire' \in Seq(Seq(Unit))
          /\ Len(wire') = Len(wire)
          /\ UNCHANGED <<madeIn, tx, rx, accepted, run, hcancel, enclaveVars, faults>>
      <3>1. pos < RecordLen[run] /\ pos' = pos + 1
        BY <1>3, WriteFacts
      <3>2. pos' \in 0..RecordLen[run]
        BY <1>1, <3>1, Typed
      <3> QED
        BY <1>3, <3>2, WriteFacts
    <2> QED
      BY <1>1, <1>2, <2>1 DEF TypeOK, Conn, enclaveVars
  <1>4. CASE HostRestarts
    <2>1. /\ bpc = "exited" /\ bpc' = "listen" /\ run' = run + 1 /\ pos' = 0 /\ hcancel' = FALSE
          /\ UNCHANGED <<connVars, enclaveVars, faults>>
      BY <1>4 DEF HostRestarts, HostGoes
    <2>2. run' \in Run
      BY <1>1, <2>1, FaultsAssumption DEF RunsArePaid, TypeOK, FaultsTypeOK, Run
    <2>3. pos' \in 0..RecordLen[run']
      BY <2>1, <2>2, BootstrapAssumption DEF Run
    <2> QED
      BY <1>1, <1>2, <2>1, <2>2, <2>3 DEF TypeOK, Conn, enclaveVars, connVars
  <1>5. CASE HostMoves
    <2>1. UNCHANGED <<wire, madeIn, rx, run, enclaveVars>> /\ tx' \subseteq tx
      BY <1>5 DEF HostMoves
    <2>2. bpc' \in {"listen", "loop", "accepting", "half_close", "serve", "exited"}
      BY <1>1, <1>5 DEF HostMoves, TypeOK
    <2>3. pos' \in 0..RecordLen[run]
      <3>1. pos' = pos \/ pos' = 0
        BY <1>5 DEF HostMoves
      <3> QED
        BY <1>1, <3>1, Typed DEF TypeOK
    <2>4. accepted' \in 0..Len(wire)
      <3>1. \/ accepted' = accepted \/ accepted' = Len(wire)
            \/ accepted < Len(wire) /\ accepted' = accepted + 1
        BY <1>5 DEF HostMoves
      <3> QED
        BY <1>1, <3>1, Typed DEF TypeOK
    <2>5. hcancel' \in BOOLEAN
      <3>1. hcancel' = hcancel \/ hcancel' = TRUE
        BY <1>5 DEF HostMoves
      <3> QED
        BY <1>1, <3>1 DEF TypeOK
    <2> QED
      BY <1>1, <1>2, <2>1, <2>2, <2>3, <2>4, <2>5 DEF TypeOK, Conn, enclaveVars
  <1> QED
    BY <1>2, <1>3, <1>4, <1>5

LEMMA OneMore ==
    ASSUME NEW r \in Nat, NEW f \in Nat, NEW g \in Nat, r <= f + 1, f <= g
    PROVE  r <= g + 1
  OBVIOUS

LEMMA HostKeepsHostInv ==
    ASSUME BootstrapInv, HostStep \/ HostFailure
    PROVE  HostInv'
  <1>1. /\ TypeOK /\ RunsArePaid /\ WireInv /\ PendingInv /\ ServingInv
    BY DEF BootstrapInv, HostInv
  <1>2. /\ WriteUnit \/ HostRestarts \/ HostMoves
        /\ faults <= faults' /\ faults' \in Nat /\ faults \in Nat
    BY <1>1, HostCases DEF TypeOK, FaultsTypeOK
  <1>3. CASE WriteUnit
    <2>1. /\ accepted \in Conn /\ madeIn[accepted] = run /\ Len(wire[accepted]) = pos
      BY <1>1, <1>3, WriteFacts DEF ServingInv
    <2>2. WireInv'
      <3>1. Conn' = Conn /\ madeIn' = madeIn
        BY <1>3, WriteFacts DEF Conn
      <3>2. ASSUME NEW c \in Conn, c # accepted
            PROVE  /\ Len(wire'[c]) <= RecordLen[madeIn[c]]
                   /\ \A k \in 1..Len(wire'[c]) : wire'[c][k] = <<madeIn[c], k>>
        BY <1>1, <1>3, <3>2, WriteFacts DEF WireInv
      <3>3. Len(wire'[accepted]) <= RecordLen[madeIn[accepted]]
        BY <1>1, <1>3, <2>1, WriteFacts, Typed
      <3>4. ASSUME NEW k \in 1..Len(wire'[accepted])
            PROVE  wire'[accepted][k] = <<madeIn[accepted], k>>
        <4>1. k \in 1..Len(wire[accepted]) \/ k = Len(wire[accepted]) + 1
          BY <1>1, <1>3, <2>1, WriteFacts, Typed
        <4>2. CASE k \in 1..Len(wire[accepted])
          <5>1. wire'[accepted][k] = wire[accepted][k]
            BY <1>3, <4>2, WriteFacts
          <5> QED
            BY <1>1, <2>1, <4>2, <5>1 DEF WireInv
        <4>3. CASE k = Len(wire[accepted]) + 1
          <5>1. wire'[accepted][k] = <<run, pos + 1>>
            BY <1>3, <4>3, WriteFacts
          <5> QED
            BY <2>1, <4>3, <5>1
        <4> QED
          BY <4>1, <4>2, <4>3
      <3> QED
        BY <3>1, <3>2, <3>3, <3>4 DEF WireInv
    <2>3. PendingInv'
      <3>1. /\ Conn' = Conn /\ madeIn' = madeIn /\ accepted' = accepted /\ run' = run
            /\ bpc' = "serve"
            /\ \A c \in Conn \ {accepted} : wire'[c] = wire[c]
        BY <1>3, WriteFacts DEF Conn
      <3>2. \A c \in Conn : c > accepted => c # accepted
        BY <2>1 DEF Conn
      <3> QED
        BY <1>1, <3>1, <3>2 DEF PendingInv
    <2>4. ServingInv'
      <3>1. /\ Len(wire'[accepted]) = pos'
        BY <1>3, <2>1, WriteFacts
      <3>2. madeIn' = madeIn /\ accepted' = accepted /\ run' = run /\ bpc' = "serve"
            /\ bpc = "serve"
        BY <1>3, WriteFacts
      <3> QED
        BY <1>1, <2>1, <3>1, <3>2 DEF ServingInv
    <2>5. RunsArePaid'
      <3>1. run' = run /\ hcancel' = hcancel /\ bpc' = bpc /\ faults' = faults
        BY <1>3, WriteFacts
      <3> QED
        BY <1>1, <3>1 DEF RunsArePaid
    <2> QED
      BY <2>2, <2>3, <2>4, <2>5 DEF HostInv
  <1>4. CASE HostRestarts
    <2>1. /\ bpc = "exited" /\ bpc' = "listen" /\ run' = run + 1 /\ hcancel' = FALSE
          /\ UNCHANGED <<wire, madeIn, accepted, faults>>
      BY <1>4 DEF HostRestarts, HostGoes, connVars
    <2>2. accepted = Len(wire)
      BY <1>1, <2>1 DEF PendingInv
    <2>3. PendingInv'
      <3>1. \A c \in Conn : ~(c > accepted)
        BY <1>1, <2>2, Typed DEF Conn
      <3> QED
        BY <2>1, <2>2, <3>1 DEF PendingInv, Conn
    <2>4. RunsArePaid'
      BY <1>1, <1>2, <2>1, Typed DEF RunsArePaid
    <2>5. WireInv' /\ ServingInv'
      BY <1>1, <2>1 DEF WireInv, ServingInv, Conn
    <2> QED
      BY <2>3, <2>4, <2>5 DEF HostInv
  <1>5. CASE HostMoves
    <2>1. wire' = wire /\ madeIn' = madeIn /\ run' = run /\ Conn' = Conn
      BY <1>5 DEF HostMoves, Conn
    <2>2. RunsArePaid'
      <3>1. run \in Nat /\ faults \in Nat /\ faults' \in Nat
        BY <1>1, <1>2, Typed
      <3>2. run <= faults + 1 /\ faults <= faults'
        BY <1>1, <1>2 DEF RunsArePaid
      <3>3. run <= faults' + 1
        BY <3>1, <3>2, OneMore
      <3>4. ASSUME hcancel' \/ bpc' = "exited"
            PROVE  run <= faults'
        <4>1. CASE faults' = faults + 1
          BY <3>1, <3>2, <4>1
        <4>2. CASE hcancel \/ bpc = "exited"
          <5>1. run <= faults
            BY <1>1, <4>2 DEF RunsArePaid
          <5> QED
            BY <3>1, <3>2, <5>1
        <4> QED
          BY <1>5, <3>4, <4>1, <4>2 DEF HostMoves
      <3> QED
        BY <2>1, <3>3, <3>4 DEF RunsArePaid
    <2>3. WireInv'
      BY <1>1, <2>1 DEF WireInv
    <2>4. PendingInv'
      <3>1. accepted \in Nat /\ Len(wire) \in Nat /\ accepted <= Len(wire)
        BY <1>1, Typed DEF TypeOK
      <3>2. \/ accepted' = accepted
            \/ accepted < Len(wire) /\ accepted' = accepted + 1
            \/ accepted' = Len(wire)
        BY <1>5 DEF HostMoves
      <3>3. \A c \in Conn : c > accepted' => c > accepted
        BY <3>1, <3>2 DEF Conn
      <3>4. bpc' \in {"listen", "exited"} => accepted' = Len(wire)
        BY <1>1, <1>5 DEF HostMoves, PendingInv
      <3> QED
        BY <1>1, <2>1, <3>3, <3>4 DEF PendingInv
    <2>5. ServingInv'
      <3>1. CASE bpc' = bpc /\ accepted' = accepted /\ pos' = pos
        BY <1>1, <2>1, <3>1 DEF ServingInv
      <3>2. CASE bpc' = "half_close" /\ accepted < Len(wire) /\ accepted' = accepted + 1
        <4>1. accepted' \in Conn /\ accepted' > accepted /\ accepted' # 0
          BY <1>1, <3>2, Typed DEF Conn
        <4>2. wire[accepted'] = <<>> /\ madeIn[accepted'] = run
          BY <1>1, <4>1 DEF PendingInv
        <4> QED
          BY <2>1, <3>2, <4>1, <4>2 DEF ServingInv
      <3>3. CASE bpc = "half_close" /\ bpc' = "serve" /\ accepted' = accepted /\ pos' = 0
        BY <1>1, <2>1, <3>3 DEF ServingInv
      <3>4. CASE bpc' \in {"loop", "accepting", "exited"}
        BY <3>4 DEF ServingInv
      <3> QED
        BY <1>5, <3>1, <3>2, <3>3, <3>4 DEF HostMoves
    <2> QED
      BY <2>2, <2>3, <2>4, <2>5 DEF HostInv
  <1> QED
    BY <1>2, <1>3, <1>4, <1>5

\* A connection grows while the host writes to it, and no other does.
LEMMA HostKeepsEnclaveInv ==
    ASSUME BootstrapInv, HostStep \/ HostFailure
    PROVE  EnclaveInv'
  <1>1. /\ TypeOK /\ BufInv /\ RoomToRead /\ ReadToTheEnd /\ CutForGood /\ ConfiguredByItsHost
    BY DEF BootstrapInv, EnclaveInv
  <1>2. WriteUnit \/ HostRestarts \/ HostMoves
    BY <1>1, HostCases
  <1>3. UNCHANGED <<epc, conn, buf, cap, outcome, record, ecancel>>
    BY <1>2 DEF WriteUnit, HostRestarts, HostMoves, enclaveVars
  <1>4. madeIn' = madeIn /\ tx' \subseteq tx /\ Len(wire') = Len(wire)
    <2>1. WriteUnit => madeIn' = madeIn /\ tx' \subseteq tx /\ Len(wire') = Len(wire)
      BY WriteFacts
    <2> QED
      BY <1>2, <2>1 DEF HostRestarts, HostMoves, connVars
  <1>5. ASSUME NEW c \in Conn
        PROVE  /\ Len(wire[c]) <= Len(wire'[c])
               /\ \A k \in 1..Len(wire[c]) : wire'[c][k] = wire[c][k]
               /\ c \notin tx => wire'[c] = wire[c]
    <2>1. Len(wire[c]) \in Nat
      BY <1>1, Typed
    <2>2. CASE wire' = wire
      BY <2>1, <2>2
    <2>3. CASE WriteUnit
      <3>1. CASE c = accepted
        BY <2>1, <2>3, <3>1, WriteFacts
      <3>2. CASE c # accepted
        BY <2>1, <2>3, <3>2, WriteFacts
      <3> QED
        BY <3>1, <3>2
    <2> QED
      BY <1>2, <2>2, <2>3 DEF HostRestarts, HostMoves, connVars
  <1>6. conn # 0 => conn \in Conn
    BY <1>1, Typed
  <1>7. BufInv'
    <2>1. ASSUME epc \notin {"connect", "exited"}
          PROVE  /\ conn # 0
                 /\ Len(buf) <= Len(wire'[conn])
                 /\ \A k \in 1..Len(buf) : buf[k] = wire'[conn][k]
      <3>1. /\ conn # 0 /\ conn \in Conn /\ Len(buf) <= Len(wire[conn])
            /\ \A k \in 1..Len(buf) : buf[k] = wire[conn][k]
        BY <1>1, <1>6, <2>1 DEF BufInv
      <3>2. Len(buf) \in Nat /\ Len(wire[conn]) \in Nat /\ Len(wire'[conn]) \in Nat
        <4>1. TypeOK'
          BY HostKeepsType
        <4>2. conn \in Conn' /\ wire' \in Seq(Seq(Unit))
          BY <1>4, <3>1, <4>1 DEF Conn, TypeOK
        <4>3. wire'[conn] \in Seq(Unit)
          BY <4>2 DEF Conn
        <4> QED
          BY <1>1, <3>1, <4>3, Typed
      <3>3. Len(wire[conn]) <= Len(wire'[conn])
        BY <1>5, <3>1
      <3>4. Len(buf) <= Len(wire'[conn])
        BY <3>1, <3>2, <3>3
      <3>5. \A k \in 1..Len(buf) : k \in 1..Len(wire[conn])
        BY <3>1, <3>2
      <3> QED
        BY <1>5, <3>1, <3>4, <3>5
    <2> QED
      BY <1>1, <1>3, <2>1 DEF BufInv
  <1>8. RoomToRead' /\ ConfiguredByItsHost'
    BY <1>1, <1>3, <1>4 DEF RoomToRead, ConfiguredByItsHost, RecordOf
  <1>9. ReadToTheEnd'
    <2> SUFFICES ASSUME epc = "parse", ~ecancel
                 PROVE  conn \notin tx' /\ Len(buf) = Len(wire'[conn])
      BY <1>3 DEF ReadToTheEnd
    <2>1. conn \notin tx /\ Len(buf) = Len(wire[conn])
      BY <1>1 DEF ReadToTheEnd
    <2>2. conn \in Conn
      BY <1>1, <1>6 DEF BufInv
    <2> QED
      BY <1>4, <1>5, <2>1, <2>2
  <1>10. CutForGood'
    <2> SUFFICES ASSUME epc = "exited", outcome = "json", ~ecancel
                 PROVE  /\ conn # 0 /\ conn \notin tx'
                        /\ Len(wire'[conn]) < RecordLen[madeIn[conn]]
      BY <1>3, <1>4 DEF CutForGood
    <2>1. /\ conn # 0 /\ conn \notin tx
          /\ Len(wire[conn]) < RecordLen[madeIn[conn]]
      BY <1>1 DEF CutForGood
    <2> QED
      BY <1>4, <1>5, <1>6, <2>1
  <1> QED
    BY <1>7, <1>8, <1>9, <1>10 DEF EnclaveInv

-----------------------------------------------------------------------------
(* The enclave's steps keep the invariant.                                 *)

\* All but Connect leave the connections' contents and the host alone.
EnclaveAlone ==
    /\ UNCHANGED <<wire, madeIn, tx, accepted, hostVars, conn>>
    /\ rx' \subseteq rx

LEMMA EnclaveCases ==
    ASSUME TypeOK, EnclaveStep \/ EnclaveFailure
    PROVE  /\ Connect \/ EnclaveAlone
           /\ FaultsTypeOK' /\ faults <= faults'
  <1>0. FaultsTypeOK
    BY DEF TypeOK
  <1>1. FaultsTypeOK' /\ faults <= faults'
    BY <1>0, FaultType
    DEF EnclaveStep, EnclaveFailure, Connect, StartReading, StartRead, StopReading, ReadUnit,
        ReadNothing, GetOversize, GetCancelled, GetBadJson, GetRecord, EnclaveStops,
        EnclaveRestarts, ReadTimesOut, GetIoError, GetGivesUp, EnclaveCrashes,
        EnclaveVanishes, EnclaveCancelled
  <1>2. StartReading \/ StartRead \/ StopReading \/ ReadUnit \/ ReadNothing => EnclaveAlone
    BY DEF StartReading, StartRead, StopReading, ReadUnit, ReadNothing, EnclaveAlone, connVars
  <1>3. GetOversize \/ GetCancelled \/ GetBadJson \/ ReadTimesOut \/ GetIoError \/ GetGivesUp
            => EnclaveAlone
    BY DEF GetOversize, GetCancelled, GetBadJson, ReadTimesOut, GetIoError, GetGivesUp, GetFails,
           EnclaveAlone
  <1>4. EnclaveStops \/ EnclaveCrashes \/ EnclaveVanishes => EnclaveAlone
    BY DEF EnclaveStops, EnclaveCrashes, EnclaveVanishes, EnclaveExits, EnclaveAlone
  <1>5. GetRecord \/ EnclaveCancelled \/ EnclaveRestarts => EnclaveAlone
    BY DEF GetRecord, EnclaveCancelled, EnclaveRestarts, EnclaveAlone, connVars
  <1> QED
    BY <1>1, <1>2, <1>3, <1>4, <1>5 DEF EnclaveStep, EnclaveFailure

LEMMA MoreFaults ==
    ASSUME TypeOK, RunsArePaid, FaultsTypeOK', faults <= faults', UNCHANGED hostVars
    PROVE  RunsArePaid'
  <1>1. run \in Nat /\ faults \in Nat /\ faults' \in Nat
    BY Typed, FaultsAssumption DEF FaultsTypeOK
  <1>2. run <= faults' + 1
    BY <1>1, OneMore DEF RunsArePaid
  <1>3. hcancel \/ bpc = "exited" => run <= faults'
    <2> SUFFICES ASSUME hcancel \/ bpc = "exited" PROVE run <= faults'
      OBVIOUS
    <2>1. run <= faults
      BY DEF RunsArePaid
    <2> QED
      BY <1>1, <2>1
  <1> QED
    BY <1>2, <1>3 DEF RunsArePaid, hostVars

LEMMA AloneKeepsHostInv ==
    ASSUME BootstrapInv, EnclaveAlone, FaultsTypeOK', faults <= faults'
    PROVE  HostInv'
  <1>1. TypeOK /\ RunsArePaid /\ WireInv /\ PendingInv /\ ServingInv
    BY DEF BootstrapInv, HostInv
  <1>2. UNCHANGED <<wire, madeIn, accepted, hostVars>> /\ UNCHANGED <<bpc, run, pos>>
    BY DEF EnclaveAlone, hostVars
  <1>3. RunsArePaid'
    BY <1>1, <1>2, MoreFaults
  <1>4. WireInv' /\ PendingInv' /\ ServingInv'
    BY <1>1, <1>2 DEF WireInv, PendingInv, ServingInv, Conn
  <1> QED
    BY <1>3, <1>4 DEF HostInv

LEMMA AloneKeepsType ==
    ASSUME TypeOK, EnclaveAlone, FaultsTypeOK',
           epc' \in {"connect", "half_close", "loop", "reading", "parse", "configured", "exited"},
           buf' \in Seq(Unit), cap' \in BufStart..MaxRecordSize, Len(buf') <= cap',
           outcome' \in {"none", "ok", "io", "oversize", "json", "shutdown"},
           record' \in {0} \cup Run, ecancel' \in BOOLEAN
    PROVE  TypeOK'
  BY DEF EnclaveAlone, TypeOK, Conn, hostVars

\* A step that empties the buffer
LEMMA Emptied ==
    ASSUME TypeOK, buf' = <<>>, cap' = cap
    PROVE  /\ buf' \in Seq(Unit) /\ Len(buf') <= cap'
           /\ cap' \in BufStart..MaxRecordSize
  <1>1. cap \in BufStart..MaxRecordSize /\ cap \in Nat
    BY Typed DEF TypeOK
  <1>2. Len(buf') = 0
    BY DEF TypeOK
  <1> QED
    BY <1>1, <1>2

LEMMA KeepsBuffer ==
    ASSUME BootstrapInv, EnclaveAlone, FaultsTypeOK',
           StartReading \/ StartRead \/ StopReading \/ ReadNothing \/ EnclaveCancelled
    PROVE  TypeOK' /\ EnclaveInv'
  <1>1. /\ TypeOK /\ BufInv /\ RoomToRead /\ ReadToTheEnd /\ CutForGood /\ ConfiguredByItsHost
    BY DEF BootstrapInv, EnclaveInv
  <1>2. UNCHANGED <<wire, madeIn, tx, conn>>
    BY DEF EnclaveAlone
  <1>3. UNCHANGED <<buf, outcome, record>>
    BY DEF StartReading, StartRead, StopReading, ReadNothing, EnclaveCancelled
  <1>4. /\ buf \in Seq(Unit) /\ Len(buf) <= cap /\ cap \in BufStart..MaxRecordSize
        /\ outcome \in {"none", "ok", "io", "oversize", "json", "shutdown"}
        /\ record \in {0} \cup Run /\ ecancel \in BOOLEAN
        /\ epc \in {"connect", "half_close", "loop", "reading", "parse", "configured", "exited"}
        /\ BufStart \in Nat /\ MaxRecordSize \in Nat /\ BufStart <= MaxRecordSize
        /\ cap \in Nat \ {0} /\ Len(buf) \in Nat
    BY <1>1, Typed, BootstrapAssumption DEF TypeOK
  <1>5. CASE StartReading
    <2>1. epc = "half_close" /\ epc' = "loop" /\ cap' = BufStart /\ ecancel' = ecancel
      BY <1>5 DEF StartReading, EnclaveGoes
    <2>2. buf = <<>> /\ Len(buf) = 0
      BY <1>1, <2>1 DEF BufInv
    <2>3. cap' \in BufStart..MaxRecordSize /\ Len(buf') <= cap'
      BY <1>3, <1>4, <2>1, <2>2
    <2>4. TypeOK'
      BY <1>1, <1>3, <1>4, <2>1, <2>3, AloneKeepsType
    <2>5. EnclaveInv'
      BY <1>1, <1>2, <1>3, <2>1
      DEF EnclaveInv, BufInv, RoomToRead, ReadToTheEnd, CutForGood, ConfiguredByItsHost
    <2> QED
      BY <2>4, <2>5
  <1>6. CASE StartRead
    <2>1. epc = "loop" /\ epc' = "reading" /\ cap' = MakeRoom /\ ecancel' = ecancel /\ ~TooLarge
      BY <1>6 DEF StartRead, EnclaveGoes
    <2>2. cap' \in BufStart..MaxRecordSize /\ Len(buf) < cap'
      BY <1>4, <2>1 DEF MakeRoom, Doubled, TooLarge
    <2>3. Len(buf') <= cap'
      BY <1>3, <1>4, <2>2
    <2>4. TypeOK'
      BY <1>1, <1>3, <1>4, <2>1, <2>2, <2>3, AloneKeepsType
    <2>5. RoomToRead'
      BY <1>3, <2>2 DEF RoomToRead
    <2>6. BufInv' /\ ReadToTheEnd' /\ CutForGood' /\ ConfiguredByItsHost'
      BY <1>1, <1>2, <1>3, <2>1
      DEF BufInv, ReadToTheEnd, CutForGood, ConfiguredByItsHost
    <2> QED
      BY <2>4, <2>5, <2>6 DEF EnclaveInv
  <1>7. CASE StopReading \/ ReadNothing
    <2>1. /\ epc' = "parse" /\ epc \in {"loop", "reading"} /\ cap' = cap /\ ecancel' = ecancel
          /\ ecancel \/ (epc = "reading" /\ (Len(buf) = cap \/ (AllRead /\ conn \notin tx)))
      BY <1>7 DEF StopReading, ReadNothing, EnclaveGoes
    <2>2. ecancel \/ (AllRead /\ conn \notin tx)
      BY <1>1, <1>4, <2>1 DEF RoomToRead
    <2>3. TypeOK'
      BY <1>1, <1>3, <1>4, <2>1, AloneKeepsType
    <2>4. ReadToTheEnd'
      BY <1>2, <1>3, <2>1, <2>2 DEF ReadToTheEnd, AllRead
    <2>5. BufInv' /\ RoomToRead' /\ CutForGood' /\ ConfiguredByItsHost'
      BY <1>1, <1>2, <1>3, <2>1
      DEF BufInv, RoomToRead, CutForGood, ConfiguredByItsHost
    <2> QED
      BY <2>3, <2>4, <2>5 DEF EnclaveInv
  <1>8. CASE EnclaveCancelled
    <2>1. epc' = epc /\ cap' = cap /\ ecancel' = TRUE
      BY <1>8 DEF EnclaveCancelled
    <2>2. TypeOK'
      BY <1>1, <1>3, <1>4, <2>1, AloneKeepsType
    <2>3. EnclaveInv'
      BY <1>1, <1>2, <1>3, <2>1
      DEF EnclaveInv, BufInv, RoomToRead, ReadToTheEnd, CutForGood, ConfiguredByItsHost, RecordOf
    <2> QED
      BY <2>2, <2>3
  <1> QED
    BY <1>5, <1>6, <1>7, <1>8

LEMMA ReadsUnit ==
    ASSUME BootstrapInv, EnclaveAlone, FaultsTypeOK', ReadUnit
    PROVE  TypeOK' /\ EnclaveInv'
  <1>1. /\ TypeOK /\ BufInv
    BY DEF BootstrapInv, EnclaveInv
  <1>2. /\ UNCHANGED <<wire, madeIn, tx, conn, cap, outcome, record, ecancel>>
        /\ epc = "reading" /\ epc' = "loop" /\ Len(buf) < cap /\ ~AllRead
        /\ buf' = Append(buf, wire[conn][Len(buf) + 1])
    BY DEF EnclaveAlone, ReadUnit, EnclaveGoes
  <1>3. /\ conn # 0 /\ Len(buf) <= Len(wire[conn])
        /\ \A k \in 1..Len(buf) : buf[k] = wire[conn][k]
    BY <1>1, <1>2 DEF BufInv
  <1>4. /\ wire[conn] \in Seq(Unit) /\ Len(wire[conn]) \in Nat /\ Len(buf) \in Nat
        /\ cap \in Nat /\ buf \in Seq(Unit)
    BY <1>1, <1>3, Typed DEF TypeOK
  <1>5. Len(buf) + 1 <= Len(wire[conn])
    BY <1>2, <1>3, <1>4 DEF AllRead
  <1>6. wire[conn][Len(buf) + 1] \in Unit
    BY <1>4, <1>5
  <1>7. /\ buf' \in Seq(Unit) /\ Len(buf') = Len(buf) + 1
        /\ \A k \in 1..Len(buf) : buf'[k] = buf[k]
        /\ buf'[Len(buf) + 1] = wire[conn][Len(buf) + 1]
    BY <1>2, <1>4, <1>6
  <1>8. Len(buf') <= cap'
    BY <1>2, <1>4, <1>7
  <1>9. TypeOK'
    BY <1>1, <1>2, <1>7, <1>8, AloneKeepsType DEF TypeOK
  <1>10. \A k \in 1..Len(buf') : buf'[k] = wire[conn][k]
    <2> SUFFICES ASSUME NEW k \in 1..Len(buf') PROVE buf'[k] = wire[conn][k]
      OBVIOUS
    <2>1. k \in 1..Len(buf) \/ k = Len(buf) + 1
      BY <1>4, <1>7
    <2> QED
      BY <1>3, <1>7, <2>1
  <1>11. BufInv'
    BY <1>2, <1>3, <1>5, <1>7, <1>10 DEF BufInv
  <1>12. RoomToRead' /\ ReadToTheEnd' /\ CutForGood' /\ ConfiguredByItsHost'
    BY <1>2 DEF RoomToRead, ReadToTheEnd, CutForGood, ConfiguredByItsHost
  <1> QED
    BY <1>9, <1>11, <1>12 DEF EnclaveInv

\* Two sequences of the same units
LEMMA SameUnits ==
    ASSUME NEW s \in Seq(Unit), NEW t, NEW n \in Nat, Len(s) = n,
           t = [k \in 1..n |-> t[k]], \A k \in 1..n : s[k] = t[k]
    PROVE  s = t
  <1>1. s = [k \in 1..n |-> s[k]]
    OBVIOUS
  <1>2. [k \in 1..n |-> s[k]] = [k \in 1..n |-> t[k]]
    OBVIOUS
  <1> QED
    BY <1>1, <1>2

\* What a parse of a stream read to its end can fail on: a record cut short.
LEMMA WholeRecordParses ==
    ASSUME TypeOK, WireInv, BufInv, epc = "parse", Len(buf) = Len(wire[conn]),
           \A h \in Run : ~Parses(h)
    PROVE  Len(wire[conn]) < RecordLen[madeIn[conn]]
  <1>1. /\ conn # 0 /\ conn \in Conn
        /\ \A k \in 1..Len(buf) : buf[k] = wire[conn][k]
    BY Typed DEF BufInv
  <1>2. /\ madeIn[conn] \in Run /\ RecordLen[madeIn[conn]] \in Nat /\ Len(wire[conn]) \in Nat
        /\ buf \in Seq(Unit)
    BY <1>1, Typed DEF TypeOK
  <1>3. /\ Len(wire[conn]) <= RecordLen[madeIn[conn]]
        /\ \A k \in 1..Len(wire[conn]) : wire[conn][k] = <<madeIn[conn], k>>
    BY <1>1 DEF WireInv
  <1>4. ASSUME Len(wire[conn]) = RecordLen[madeIn[conn]] PROVE FALSE
    <2> DEFINE n == RecordLen[madeIn[conn]]
               t == RecordOf(madeIn[conn])
    <2>1. n \in Nat /\ Len(buf) = n
      BY <1>2, <1>4
    <2>2. t = [k \in 1..n |-> <<madeIn[conn], k>>]
      BY DEF RecordOf
    <2>3. \A k \in 1..n : t[k] = <<madeIn[conn], k>>
      BY <2>2
    <2>4. t = [k \in 1..n |-> t[k]]
      BY <2>2
    <2>5. \A k \in 1..n : buf[k] = t[k]
      BY <1>1, <1>3, <1>4, <2>1, <2>3
    <2> HIDE DEF n, t
    <2>6. buf = t
      BY <1>2, <2>1, <2>4, <2>5, SameUnits
    <2> QED
      BY <1>2, <2>6 DEF t, Parses
  <1> QED
    BY <1>2, <1>3, <1>4

\* get returns an error.
LEMMA GetReturnsError ==
    ASSUME BootstrapInv, EnclaveAlone, FaultsTypeOK',
           \/ GetOversize \/ GetCancelled \/ GetBadJson
           \/ ReadTimesOut \/ GetIoError \/ GetGivesUp
    PROVE  TypeOK' /\ EnclaveInv'
  <1>1. /\ TypeOK /\ BufInv /\ ReadToTheEnd /\ WireInv
    BY DEF BootstrapInv, EnclaveInv, HostInv
  <1>2. \E why \in {"oversize", "shutdown", "json", "io"} :
           GetFails(why) /\ (why = "json" => epc = "parse" /\ \A h \in Run : ~Parses(h))
    BY DEF GetOversize, GetCancelled, GetBadJson, ReadTimesOut, GetIoError, GetGivesUp
  <1>3. /\ epc' = "exited" /\ buf' = <<>>
        /\ UNCHANGED <<wire, madeIn, tx, conn, cap, record, ecancel>>
        /\ outcome' \in {"none", "ok", "io", "oversize", "json", "shutdown"}
        /\ outcome' = "json" => epc = "parse" /\ \A h \in Run : ~Parses(h)
    BY <1>2 DEF GetFails
  <1>4. /\ buf' \in Seq(Unit) /\ Len(buf') <= cap' /\ cap' \in BufStart..MaxRecordSize
    BY <1>1, <1>3, Emptied
  <1>5. TypeOK'
    BY <1>1, <1>3, <1>4, AloneKeepsType DEF TypeOK
  <1>6. CutForGood'
    <2> SUFFICES ASSUME epc = "parse", \A h \in Run : ~Parses(h), ~ecancel
                 PROVE  /\ conn # 0 /\ conn \notin tx
                        /\ Len(wire[conn]) < RecordLen[madeIn[conn]]
      BY <1>3 DEF CutForGood
    <2>1. conn # 0 /\ conn \notin tx /\ Len(buf) = Len(wire[conn])
      BY <1>1 DEF ReadToTheEnd, BufInv
    <2> QED
      BY <1>1, <2>1, WholeRecordParses
  <1>7. BufInv' /\ RoomToRead' /\ ReadToTheEnd' /\ ConfiguredByItsHost'
    BY <1>3 DEF BufInv, RoomToRead, ReadToTheEnd, ConfiguredByItsHost
  <1> QED
    BY <1>5, <1>6, <1>7 DEF EnclaveInv

\* get returns a record: the first unit of it says whose it is.
LEMMA GetReturnsRecord ==
    ASSUME BootstrapInv, EnclaveAlone, FaultsTypeOK', GetRecord
    PROVE  TypeOK' /\ EnclaveInv'
  <1>1. TypeOK /\ BufInv /\ WireInv
    BY DEF BootstrapInv, EnclaveInv, HostInv
  <1>2. /\ epc = "parse" /\ epc' = "configured" /\ outcome' = "ok"
        /\ UNCHANGED <<wire, madeIn, tx, conn, buf, cap, ecancel>>
    BY DEF GetRecord, EnclaveGoes, EnclaveAlone
  <1>3. PICK h \in Run : buf = RecordOf(h) /\ record' = h
    BY DEF GetRecord, Parses
  <1>4. RecordLen[h] \in Nat \ {0}
    BY <1>3, BootstrapAssumption DEF Run
  <1>5. Len(buf) = RecordLen[h] /\ buf[1] = <<h, 1>>
    BY <1>3, <1>4 DEF RecordOf
  <1>6. /\ conn # 0 /\ conn \in Conn /\ Len(buf) <= Len(wire[conn])
        /\ \A k \in 1..Len(buf) : buf[k] = wire[conn][k]
    BY <1>1, <1>2, Typed DEF BufInv
  <1>7. Len(wire[conn]) \in Nat
    BY <1>1, <1>6, Typed
  <1>8. 1 \in 1..Len(buf) /\ 1 \in 1..Len(wire[conn])
    BY <1>4, <1>5, <1>6, <1>7
  <1>9. buf[1] = wire[conn][1] /\ wire[conn][1] = <<madeIn[conn], 1>>
    BY <1>1, <1>6, <1>8 DEF WireInv
  <1>10. h = madeIn[conn]
    BY <1>5, <1>9
  <1>11. TypeOK'
    BY <1>1, <1>2, <1>3, AloneKeepsType DEF TypeOK
  <1>12. ConfiguredByItsHost'
    BY <1>2, <1>3, <1>10 DEF ConfiguredByItsHost, RecordOf
  <1>13. BufInv' /\ RoomToRead' /\ ReadToTheEnd' /\ CutForGood'
    BY <1>1, <1>2, <1>6 DEF BufInv, RoomToRead, ReadToTheEnd, CutForGood
  <1> QED
    BY <1>11, <1>12, <1>13 DEF EnclaveInv

LEMMA EnclaveEnds ==
    ASSUME BootstrapInv, EnclaveAlone, FaultsTypeOK',
           EnclaveStops \/ EnclaveCrashes \/ EnclaveVanishes \/ EnclaveRestarts
    PROVE  TypeOK' /\ EnclaveInv'
  <1>1. TypeOK /\ BufInv
    BY DEF BootstrapInv, EnclaveInv
  <1>2. CASE EnclaveRestarts
    <2>1. /\ epc = "exited" /\ epc' = "connect" /\ record' = 0 /\ ecancel' = FALSE
          /\ UNCHANGED <<wire, madeIn, tx, conn, buf, cap, outcome>>
      BY <1>2 DEF EnclaveRestarts, EnclaveGoes, connVars
    <2>2. TypeOK'
      BY <1>1, <2>1, AloneKeepsType DEF TypeOK
    <2>3. EnclaveInv'
      BY <1>1, <2>1
      DEF EnclaveInv, BufInv, RoomToRead, ReadToTheEnd, CutForGood, ConfiguredByItsHost
    <2> QED
      BY <2>2, <2>3
  <1>3. CASE EnclaveStops \/ EnclaveCrashes \/ EnclaveVanishes
    <2>1. /\ epc' = "exited" /\ outcome' = "none" /\ record' = 0 /\ buf' = <<>>
          /\ UNCHANGED <<cap, ecancel>>
      BY <1>3 DEF EnclaveStops, EnclaveCrashes, EnclaveVanishes, EnclaveExits
    <2>2. /\ buf' \in Seq(Unit) /\ Len(buf') <= cap' /\ cap' \in BufStart..MaxRecordSize
      BY <1>1, <2>1, Emptied
    <2>3. TypeOK'
      BY <1>1, <2>1, <2>2, AloneKeepsType DEF TypeOK
    <2>4. EnclaveInv'
      BY <2>1
      DEF EnclaveInv, BufInv, RoomToRead, ReadToTheEnd, CutForGood, ConfiguredByItsHost
    <2> QED
      BY <2>3, <2>4
  <1> QED
    BY <1>2, <1>3

LEMMA ConnectKeepsInv ==
    ASSUME BootstrapInv, Connect, FaultsTypeOK', faults <= faults'
    PROVE  BootstrapInv'
  <1> DEFINE new == Len(wire) + 1
  <1>1. /\ TypeOK /\ RunsArePaid /\ WireInv /\ PendingInv /\ ServingInv /\ BufInv
    BY DEF BootstrapInv, HostInv, EnclaveInv
  <1>2. /\ epc = "connect" /\ epc' = "half_close" /\ bpc \notin {"listen", "exited"}
        /\ wire' = Append(wire, <<>>) /\ madeIn' = Append(madeIn, run)
        /\ tx' = tx \cup {new} /\ rx' = rx \cup {new} /\ conn' = new /\ outcome' = "none"
        /\ UNCHANGED <<accepted, hostVars, buf, cap, record, ecancel>>
        /\ UNCHANGED <<bpc, run, pos, hcancel>>
    BY DEF Connect, EnclaveGoes, Listening, hostVars
  <1>3. /\ wire \in Seq(Seq(Unit)) /\ madeIn \in Seq(Run) /\ Len(madeIn) = Len(wire)
        /\ Len(wire) \in Nat /\ run \in Run /\ accepted \in 0..Len(wire)
        /\ RecordLen[run] \in Nat
    BY <1>1, Typed DEF TypeOK
  <1>4. /\ wire' \in Seq(Seq(Unit)) /\ Len(wire') = new
        /\ \A c \in Conn : wire'[c] = wire[c]
        /\ wire'[new] = <<>>
    BY <1>2, <1>3 DEF Conn
  <1>5. /\ madeIn' \in Seq(Run) /\ Len(madeIn') = new
        /\ \A c \in Conn : madeIn'[c] = madeIn[c]
        /\ madeIn'[new] = run
    BY <1>2, <1>3 DEF Conn
  <1>6. Conn' = Conn \cup {new} /\ new \notin Conn /\ new # 0
    BY <1>3, <1>4 DEF Conn
  <1>7. TypeOK'
    <2>1. /\ accepted' \in 0..Len(wire') /\ conn' \in 0..Len(wire')
      BY <1>2, <1>3, <1>4
    <2>2. tx' \subseteq Conn' /\ rx' \subseteq Conn'
      BY <1>1, <1>2, <1>6 DEF TypeOK
    <2> QED
      BY <1>1, <1>2, <1>4, <1>5, <2>1, <2>2 DEF TypeOK
  <1>8. RunsArePaid'
    BY <1>1, <1>2, MoreFaults
  <1>9. WireInv'
    <2>1. /\ Len(wire'[new]) <= RecordLen[madeIn'[new]]
          /\ \A k \in 1..Len(wire'[new]) : wire'[new][k] = <<madeIn'[new], k>>
      <3>1. Len(wire'[new]) = 0
        BY <1>4
      <3> QED
        BY <1>3, <1>5, <3>1
    <2>2. ASSUME NEW c \in Conn
          PROVE  /\ Len(wire'[c]) <= RecordLen[madeIn'[c]]
                 /\ \A k \in 1..Len(wire'[c]) : wire'[c][k] = <<madeIn'[c], k>>
      BY <1>1, <1>4, <1>5 DEF WireInv
    <2> QED
      BY <1>6, <2>1, <2>2 DEF WireInv
  <1>10. PendingInv'
    <2>1. \A c \in Conn' : c > accepted' => wire'[c] = <<>> /\ madeIn'[c] = run'
      BY <1>1, <1>2, <1>4, <1>5, <1>6 DEF PendingInv
    <2> QED
      BY <1>2, <2>1 DEF PendingInv
  <1>11. ServingInv'
    <2>1. accepted # 0 => accepted \in Conn
      BY <1>1, Typed
    <2> QED
      BY <1>1, <1>2, <1>4, <1>5, <2>1 DEF ServingInv
  <1>12. BufInv'
    <2>1. buf = <<>>
      BY <1>1, <1>2 DEF BufInv
    <2>2. Len(buf) = 0 /\ Len(wire'[new]) = 0
      BY <1>4, <2>1
    <2>3. Len(buf) <= Len(wire'[new]) /\ \A k \in 1..Len(buf) : buf[k] = wire'[new][k]
      BY <2>2
    <2> QED
      BY <1>2, <1>6, <2>1, <2>3 DEF BufInv
  <1>13. RoomToRead' /\ ReadToTheEnd' /\ CutForGood' /\ ConfiguredByItsHost'
    BY <1>2 DEF RoomToRead, ReadToTheEnd, CutForGood, ConfiguredByItsHost
  <1> QED
    BY <1>7, <1>8, <1>9, <1>10, <1>11, <1>12, <1>13 DEF BootstrapInv, HostInv, EnclaveInv

-----------------------------------------------------------------------------
(* The theorems                                                            *)

LEMMA StepInv == BootstrapInv /\ [Next]_vars => BootstrapInv'
  <1> SUFFICES ASSUME BootstrapInv, [Next]_vars PROVE BootstrapInv'
    OBVIOUS
  <1>1. CASE UNCHANGED vars
    BY <1>1
    DEF BootstrapInv, TypeOK, FaultsTypeOK, HostInv, RunsArePaid, WireInv, PendingInv, ServingInv,
        EnclaveInv, BufInv, RoomToRead, ReadToTheEnd, CutForGood, ConfiguredByItsHost, RecordOf,
        Conn, vars, connVars, hostVars, enclaveVars
  <1>2. CASE HostStep \/ HostFailure
    BY <1>2, HostKeepsType, HostKeepsHostInv, HostKeepsEnclaveInv DEF BootstrapInv
  <1>3. CASE EnclaveStep \/ EnclaveFailure
    <2>1. /\ Connect \/ EnclaveAlone
          /\ FaultsTypeOK' /\ faults <= faults'
      BY <1>3, EnclaveCases DEF BootstrapInv
    <2>2. CASE Connect
      BY <2>1, <2>2, ConnectKeepsInv
    <2>3. CASE EnclaveAlone /\ ~Connect
      <3>1. HostInv'
        BY <2>1, <2>3, AloneKeepsHostInv
      <3>2. \/ StartReading \/ StartRead \/ StopReading \/ ReadNothing \/ EnclaveCancelled
            \/ ReadUnit \/ GetRecord
            \/ GetOversize \/ GetCancelled \/ GetBadJson
            \/ ReadTimesOut \/ GetIoError \/ GetGivesUp
            \/ EnclaveStops \/ EnclaveCrashes \/ EnclaveVanishes \/ EnclaveRestarts
        BY <1>3, <2>3 DEF EnclaveStep, EnclaveFailure
      <3>3. TypeOK' /\ EnclaveInv'
        BY <2>1, <2>3, <3>2, KeepsBuffer, ReadsUnit, GetReturnsRecord, GetReturnsError, EnclaveEnds
      <3> QED
        BY <3>1, <3>3 DEF BootstrapInv
    <2> QED
      BY <2>1, <2>2, <2>3
  <1> QED
    BY <1>1, <1>2, <1>3 DEF Next

LEMMA InvHolds == Spec => []BootstrapInv
  BY InitInv, StepInv, PTL DEF Spec

\* Type correctness: among the rest, the host has never more runs than its
\* failures account for, and the buffer never has more than its length.
THEOREM BootstrapTypeCorrect == Spec => []TypeOK
  <1>1. BootstrapInv => TypeOK
    BY DEF BootstrapInv
  <1> QED
    BY <1>1, InvHolds, PTL

\* The enclave is configured by the record of the host's run it connected
\* to, for records of any lengths and any interleaving of failures of either
\* process: units of two records are never mixed (get and serve).
THEOREM ConfiguredCorrect == Spec => []ConfiguredByItsHost
  <1>1. BootstrapInv => ConfiguredByItsHost
    BY DEF BootstrapInv, EnclaveInv
  <1> QED
    BY <1>1, InvHolds, PTL

\* A record served whole always parses: the growth of the buffer loses none
\* of it, whatever its length and that of the buffer (get's doubling).
THEOREM MalformedCorrect == Spec => []MalformedOnlyWhenCut
  <1>1. BootstrapInv => MalformedOnlyWhenCut
    BY DEF BootstrapInv, EnclaveInv, CutForGood, MalformedOnlyWhenCut
  <1> QED
    BY <1>1, InvHolds, PTL

\* A record that was refused as too large fills the largest buffer.
RefusedInv ==
    outcome = "oversize" =>
        conn \in Conn /\ RecordLen[madeIn[conn]] >= MaxRecordSize

LEMMA RefusedStep ==
    ASSUME BootstrapInv, RefusedInv, [Next]_vars
    PROVE  RefusedInv'
  <1>1. CASE GetOversize
    <2>1. conn # 0 /\ conn \in Conn /\ Len(buf) <= Len(wire[conn])
      BY <1>1 DEF GetOversize, BootstrapInv, EnclaveInv, BufInv, TypeOK, Conn
    <2>2. Len(buf) >= MaxRecordSize
      BY <1>1 DEF GetOversize, TooLarge
    <2>3. Len(wire[conn]) <= RecordLen[madeIn[conn]]
      BY <2>1 DEF BootstrapInv, HostInv, WireInv
    <2>4. /\ Len(buf) \in Nat /\ Len(wire[conn]) \in Nat /\ MaxRecordSize \in Nat
          /\ RecordLen[madeIn[conn]] \in Nat
      <3>1. buf \in Seq(Unit) /\ wire \in Seq(Seq(Unit)) /\ madeIn \in Seq(Run)
        BY DEF BootstrapInv, TypeOK
      <3>2. conn \in 1..Len(wire) /\ Len(madeIn) = Len(wire)
        BY <2>1 DEF BootstrapInv, TypeOK, Conn
      <3>3. wire[conn] \in Seq(Unit) /\ madeIn[conn] \in Run
        BY <3>1, <3>2
      <3> QED
        BY <3>1, <3>3, BootstrapAssumption DEF Run
    <2>5. UNCHANGED <<wire, madeIn, conn>>
      BY <1>1 DEF GetOversize, GetFails
    <2> QED
      BY <2>1, <2>2, <2>3, <2>4, <2>5 DEF RefusedInv, Conn
  <1>2. CASE UNCHANGED <<outcome, conn, madeIn>> /\ Len(wire') = Len(wire)
    BY <1>2 DEF RefusedInv, Conn
  <1>3. CASE outcome' # "oversize"
    BY <1>3 DEF RefusedInv
  <1>4. CASE HostStep \/ HostFailure
    <2>1. UNCHANGED <<outcome, conn, madeIn>>
      BY <1>4
      DEF HostStep, HostFailure, Listen, StartAccept, Accept, StartServing, WriteUnit,
          ServeDone, WriteTimesOut, WriteRefused, HostStops, HostRestarts, AcceptFails,
          WriteFails, HostDies, HostCrashes, HostCancelled, HostExits, NextClient,
          connVars, enclaveVars
    <2>2. UNCHANGED wire \/ \E u : wire' = [wire EXCEPT ![accepted] = Append(@, u)]
      BY <1>4
      DEF HostStep, HostFailure, Listen, StartAccept, Accept, StartServing, WriteUnit,
          ServeDone, WriteTimesOut, WriteRefused, HostStops, HostRestarts, AcceptFails,
          WriteFails, HostDies, HostCrashes, HostCancelled, HostExits, NextClient,
          connVars, enclaveVars
    <2>3. Len(wire') = Len(wire)
      BY <2>2 DEF BootstrapInv, TypeOK
    <2> QED
      BY <1>2, <2>1, <2>3
  <1>5. CASE EnclaveStep \/ EnclaveFailure
    <2>1. ASSUME ~GetOversize, outcome' = "oversize"
          PROVE  UNCHANGED <<outcome, conn, madeIn, wire>>
      BY <1>5, <2>1
      DEF EnclaveStep, EnclaveFailure, Connect, StartReading, StartRead, StopReading,
          ReadUnit, ReadNothing, GetCancelled, GetBadJson, GetRecord, EnclaveStops,
          EnclaveRestarts, ReadTimesOut, GetIoError, GetGivesUp, EnclaveCrashes,
          EnclaveVanishes, EnclaveCancelled, GetFails, EnclaveExits, connVars
    <2> QED
      BY <1>1, <1>2, <1>3, <2>1
  <1>6. CASE UNCHANGED vars
    BY <1>2, <1>6 DEF vars, connVars, enclaveVars
  <1> QED
    BY <1>4, <1>5, <1>6 DEF Next

\* What is left of RejectsOnlyOversize: the record that get refuses is never
\* smaller than the maximum, whatever the buffer started with.
THEOREM RefusedCorrect ==
    Spec => [](outcome = "oversize" => RecordLen[madeIn[conn]] >= MaxRecordSize)
  <1>1. Init => RefusedInv
    BY DEF Init, RefusedInv
  <1>2. RefusedInv => (outcome = "oversize" => RecordLen[madeIn[conn]] >= MaxRecordSize)
    BY DEF RefusedInv
  <1>3. BootstrapInv /\ RefusedInv /\ [Next]_vars => RefusedInv'
    BY RefusedStep
  <1> QED
    BY <1>1, <1>2, <1>3, InvHolds, PTL DEF Spec

-----------------------------------------------------------------------------
(* Bootstrap implements Handover.                                          *)

\* Only the write that completes the record of the connection the enclave
\* reads hands it anything.
LEMMA WriteHandsOver ==
    ASSUME BootstrapInv, WriteUnit
    PROVE  [Record!Next]_(Record!vars)
  <1>1. TypeOK /\ WireInv /\ ServingInv /\ BufInv
    BY DEF BootstrapInv, HostInv, EnclaveInv
  <1>2. /\ bpc = "serve" /\ bpc' = "serve" /\ pos < RecordLen[run] /\ pos' = pos + 1
        /\ UNCHANGED <<madeIn, accepted, run>>
        /\ UNCHANGED <<epc, conn, record>>
    BY WriteFacts DEF enclaveVars
  <1>3. /\ accepted \in Conn /\ madeIn[accepted] = run /\ Len(wire[accepted]) = pos
        /\ Len(wire'[accepted]) = pos + 1
    BY <1>1, <1>2, WriteFacts DEF ServingInv
  <1>4. Listening /\ Listening'
    BY <1>2 DEF Listening
  <1>5. CASE conn = accepted /\ epc \in {"half_close", "loop", "reading", "parse"}
    <2>1. Handed = {}
      BY <1>2, <1>3, <1>5, Typed, <1>1 DEF Handed
    <2>2. Handed' \in {{}, {run}}
      BY <1>2, <1>3, <1>5 DEF Handed
    <2> QED
      BY <1>2, <1>4, <2>1, <2>2 DEF Record!Next, Record!Take, Record!vars
  <1>6. CASE ~(conn = accepted /\ epc \in {"half_close", "loop", "reading", "parse"})
    <2>1. epc \in {"half_close", "loop", "reading", "parse"} => wire'[conn] = wire[conn]
      BY <1>1, <1>6, WriteFacts, Typed DEF BufInv
    <2>2. Handed' = Handed
      BY <1>2, <2>1 DEF Handed
    <2> QED
      BY <1>2, <1>4, <2>2 DEF Record!vars
  <1> QED
    BY <1>5, <1>6

LEMMA HostHandsOver ==
    ASSUME BootstrapInv, HostStep \/ HostFailure
    PROVE  [Record!Next]_(Record!vars)
  <1>1. WriteUnit \/ HostRestarts \/ HostMoves
    BY HostCases DEF BootstrapInv
  <1>2. CASE HostRestarts
    <2>1. /\ bpc = "exited" /\ bpc' = "listen"
          /\ UNCHANGED <<wire, madeIn, epc, conn, record>>
      BY <1>2 DEF HostRestarts, HostGoes, connVars, enclaveVars
    <2>2. ~Listening /\ UNCHANGED <<Listening, Handed>>
      BY <2>1 DEF Listening, Handed
    <2> QED
      BY <2>2 DEF Record!Next, Record!Reoffers
  <1>3. CASE HostMoves
    <2>1. UNCHANGED <<wire, madeIn, run, epc, conn, record>>
      BY <1>3 DEF HostMoves, enclaveVars
    <2>2. Handed' = Handed
      BY <2>1 DEF Handed
    <2>3. Listening \in BOOLEAN /\ Listening' \in BOOLEAN
      BY DEF Listening
    <2> QED
      BY <2>1, <2>2, <2>3
      DEF Record!Next, Record!Starts, Record!Ends, Record!vars
  <1> QED
    BY <1>1, <1>2, <1>3, WriteHandsOver

\* What the enclave returns from get is what it had been handed whole.
LEMMA GetKeepsHanded ==
    ASSUME BootstrapInv, BootstrapInv', EnclaveAlone, GetRecord
    PROVE  Handed' = Handed
  <1>1. TypeOK /\ WireInv /\ BufInv /\ ConfiguredByItsHost'
    BY DEF BootstrapInv, HostInv, EnclaveInv
  <1>2. /\ epc = "parse" /\ epc' = "configured"
        /\ UNCHANGED <<wire, madeIn, conn, buf>>
    BY DEF GetRecord, EnclaveGoes, EnclaveAlone
  <1>3. record' = madeIn[conn] /\ buf = RecordOf(madeIn[conn])
    BY <1>1, <1>2 DEF ConfiguredByItsHost, RecordOf
  <1>4. /\ conn \in Conn /\ Len(buf) <= Len(wire[conn])
        /\ Len(wire[conn]) \in Nat /\ RecordLen[madeIn[conn]] \in Nat
    BY <1>1, <1>2, Typed DEF BufInv
  <1>5. Len(buf) = RecordLen[madeIn[conn]]
    BY <1>3, <1>4 DEF RecordOf
  <1>6. Len(wire[conn]) = RecordLen[madeIn[conn]]
    BY <1>1, <1>4, <1>5 DEF WireInv
  <1> QED
    BY <1>2, <1>3, <1>6 DEF Handed

LEMMA EnclaveIsHanded ==
    ASSUME BootstrapInv, BootstrapInv', EnclaveStep \/ EnclaveFailure
    PROVE  [Record!Next]_(Record!vars)
  <1>0. TypeOK
    BY DEF BootstrapInv
  <1>1. CASE Connect
    <2>1. /\ epc = "connect" /\ epc' = "half_close" /\ conn' = Len(wire) + 1
          /\ wire' = Append(wire, <<>>) /\ madeIn' = Append(madeIn, run)
          /\ UNCHANGED <<bpc, run>>
      BY <1>1 DEF Connect, EnclaveGoes, hostVars
    <2>2. /\ wire'[conn'] = <<>> /\ madeIn'[conn'] = run
          /\ RecordLen[run] \in Nat \ {0}
      BY <1>0, <2>1, Typed DEF TypeOK
    <2>3. Handed = {} /\ Handed' = {}
      BY <2>1, <2>2 DEF Handed
    <2> QED
      BY <2>1, <2>3 DEF Record!vars, Listening
  <1>2. CASE EnclaveAlone /\ ~Connect
    <2>1. UNCHANGED <<wire, madeIn, conn, bpc, run>>
      BY <1>2 DEF EnclaveAlone, hostVars
    <2>2. CASE \/ StartReading \/ StartRead \/ StopReading \/ ReadNothing
               \/ EnclaveCancelled \/ ReadUnit
      <3>1. Handed' = Handed
        BY <2>1, <2>2
        DEF StartReading, StartRead, StopReading, ReadNothing, EnclaveCancelled, ReadUnit,
            EnclaveGoes, Handed
      <3> QED
        BY <2>1, <3>1 DEF Record!vars, Listening
    <2>3. CASE GetRecord
      BY <1>2, <2>1, <2>3, GetKeepsHanded DEF Record!vars, Listening
    <2>4. CASE \/ GetOversize \/ GetCancelled \/ GetBadJson
               \/ ReadTimesOut \/ GetIoError \/ GetGivesUp
               \/ EnclaveStops \/ EnclaveCrashes \/ EnclaveVanishes \/ EnclaveRestarts
      <3>1. epc' \in {"exited", "connect"}
        BY <2>4
        DEF GetOversize, GetCancelled, GetBadJson, ReadTimesOut, GetIoError, GetGivesUp,
            GetFails, EnclaveStops, EnclaveCrashes, EnclaveVanishes, EnclaveExits,
            EnclaveRestarts, EnclaveGoes
      <3>2. Handed' = {}
        BY <3>1 DEF Handed
      <3> QED
        BY <2>1, <3>2 DEF Record!Next, Record!Lose, Record!vars, Listening
    <2> QED
      BY <1>2, <2>2, <2>3, <2>4 DEF EnclaveStep, EnclaveFailure
  <1> QED
    BY <1>0, <1>1, <1>2, EnclaveCases

\* However the record is cut into units, whatever is lost, cut short or
\* refused on the way and whichever process ends when: to the enclave it is
\* one step, in which it takes the record of the host that serves then.
THEOREM HandoverCorrect == Spec => HandsOverAtOnce
  <1>1. Init => Record!Init
    BY DEF Init, Record!Init, Listening, Handed
  <1>2. BootstrapInv /\ BootstrapInv' /\ [Next]_vars => [Record!Next]_(Record!vars)
    <2> SUFFICES ASSUME BootstrapInv, BootstrapInv', [Next]_vars
                 PROVE  [Record!Next]_(Record!vars)
      OBVIOUS
    <2>1. CASE UNCHANGED vars
      BY <2>1 DEF vars, connVars, hostVars, enclaveVars, Record!vars, Listening, Handed
    <2> QED
      BY <2>1, HostHandsOver, EnclaveIsHanded DEF Next
  <1> QED
    BY <1>1, <1>2, InvHolds, PTL DEF Spec, HandsOverAtOnce, Record!Spec
=============================================================================
