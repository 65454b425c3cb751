----------------------------- MODULE Bootstrap ------------------------------
(***************************************************************************)
(* How the enclave gets its configuration, bootstrap/mod.rs.  The host     *)
(* serves the record of its present run to one connection after another    *)
(* and closes it; the enclave connects, reads up to the end of the stream  *)
(* into a buffer that grows by doubling, and parses what it has.           *)
(*                                                                         *)
(* The record of the host's run h is <<h, 1>>, ..., <<h, RecordLen[h]>>, a *)
(* unit being a run of bytes.  wire[c] is what was written to connection c *)
(* and madeIn[c] the host's run it was made in; tx and rx hold the         *)
(* connections whose writing, whose reading end is open.                   *)
(***************************************************************************)
EXTENDS Faults, Sequences, FiniteSets

CONSTANTS
    RecordLen,      \* RecordLen[h]: units of the record of the host's run h
    BufStart,       \* length of the enclave's buffer at first
    MaxRecordSize,  \* and at most
    SockCap,        \* units a connection holds before the writer blocks
    Backlog         \* connections that wait to be accepted, at most

ASSUME BootstrapAssumption ==
    /\ RecordLen \in [1..(MaxFaults + 1) -> Nat \ {0}]
    /\ BufStart \in Nat \ {0}
    /\ MaxRecordSize \in Nat
    /\ BufStart <= MaxRecordSize
    /\ SockCap \in Nat \ {0}
    /\ Backlog \in Nat \ {0}

VARIABLES
    wire, madeIn, tx, rx,   \* the connections
    accepted,       \* connections 1..accepted are no longer pending
    bpc,            \* where the host's service is
    run,            \* the host's run: its record is made when it starts
    pos,            \* units of the record written to connection `accepted'
    hcancel,        \* the host's shutdown_signal is cancelled
    epc,            \* where the enclave is
    conn,           \* its connection
    buf,            \* what it has read, buf[..read]
    cap,            \* length of its buffer, buf.len()
    outcome,        \* how its last call of get ended
    record,         \* the run whose record it is configured by, or 0
    ecancel         \* the enclave's shutdown_signal is cancelled

connVars == <<wire, madeIn, tx, rx, accepted>>
hostVars == <<bpc, run, pos, hcancel>>
enclaveVars == <<epc, conn, buf, cap, outcome, record, ecancel>>
vars == <<faults, connVars, hostVars, enclaveVars>>

Conn == 1..Len(wire)
Run == 1..(MaxFaults + 1)
RecordOf(h) == [k \in 1..RecordLen[h] |-> <<h, k>>]
Unit == Run \X Nat

TypeOK ==
    /\ FaultsTypeOK
    /\ wire \in Seq(Seq(Unit))
    /\ madeIn \in Seq(Run) /\ Len(madeIn) = Len(wire)
    /\ tx \subseteq Conn /\ rx \subseteq Conn
    /\ accepted \in 0..Len(wire)
    /\ bpc \in {"listen", "loop", "accepting", "half_close", "serve", "exited"}
    /\ run \in Run
    /\ pos \in 0..RecordLen[run]
    /\ hcancel \in BOOLEAN
    /\ epc \in {"connect", "half_close", "loop", "reading", "parse",
                "configured", "exited"}
    /\ conn \in 0..Len(wire)
    /\ buf \in Seq(Unit)
    /\ cap \in BufStart..MaxRecordSize /\ Len(buf) <= cap
    /\ outcome \in {"none", "ok", "io", "oversize", "json", "shutdown"}
    /\ record \in {0} \cup Run
    /\ ecancel \in BOOLEAN

Init ==
    /\ faults = 0
    /\ wire = <<>> /\ madeIn = <<>> /\ tx = {} /\ rx = {} /\ accepted = 0
    /\ bpc = "listen" /\ run = 1 /\ pos = 0 /\ hcancel = FALSE
    /\ epc = "connect" /\ conn = 0 /\ buf = <<>> /\ cap = BufStart
    /\ outcome = "none" /\ record = 0 /\ ecancel = FALSE

-----------------------------------------------------------------------------
(* The host: Bootstrap::run and serve.                                     *)

HostGoes(from, to) == bpc = from /\ bpc' = to

Listening == bpc \notin {"listen", "exited"}

\* new_listener_socket_with_backoff
Listen ==
    /\ HostGoes("listen", "loop")
    /\ ~hcancel
    /\ UNCHANGED <<connVars, run, pos, hcancel, enclaveVars, faults>>

\* The loop and accept_connection_with_backoff test the signal; accept blocks.
StartAccept ==
    /\ HostGoes("loop", "accepting")
    /\ ~hcancel
    /\ UNCHANGED <<connVars, run, pos, hcancel, enclaveVars, faults>>

Accept ==
    /\ HostGoes("accepting", "half_close")
    /\ accepted < Len(wire)
    /\ accepted' = accepted + 1
    /\ UNCHANGED <<wire, madeIn, tx, rx, run, pos, hcancel, enclaveVars, faults>>

\* accept fails, or the peer has another CID: the signal is tested again.
AcceptFails ==
    /\ HostGoes("accepting", "loop")
    /\ Fault
    /\ UNCHANGED <<connVars, run, pos, hcancel, enclaveVars>>

\* let mut pos: usize = 0
StartPos == 0

\* shutdown(Read) and set_write_timeout, then serve begins.
StartServing ==
    /\ HostGoes("half_close", "serve")
    /\ pos' = StartPos
    /\ UNCHANGED <<connVars, run, hcancel, enclaveVars, faults>>

\* Units of connection c that its reader has taken
Taken(c) == IF c = conn THEN Len(buf) ELSE 0

Full(c) == Len(wire[c]) - Taken(c) >= SockCap

WriteUnit ==
    /\ bpc = "serve" /\ UNCHANGED bpc
    /\ pos < RecordLen[run] /\ ~hcancel
    /\ accepted \in tx \cap rx /\ ~Full(accepted)
    /\ wire' = [wire EXCEPT ![accepted] = Append(@, <<run, pos + 1>>)]
    /\ pos' = pos + 1
    /\ UNCHANGED <<madeIn, tx, rx, accepted, run, hcancel, enclaveVars, faults>>

\* Mutant: the socket is kept.
KeepsClient ==
    /\ HostGoes("serve", "loop")
    /\ UNCHANGED <<connVars, run, pos, hcancel, enclaveVars>>

\* The client's socket goes out of scope and the service waits for another.
NextClient ==
    /\ HostGoes("serve", "loop")
    /\ tx' = tx \ {accepted}
    /\ UNCHANGED <<wire, madeIn, rx, accepted, run, pos, hcancel, enclaveVars>>

\* serve returns Ok when all is written, and when it is told to stop.
ServeDone == NextClient /\ (pos = RecordLen[run] \/ hcancel) /\ NoFault

\* Mutant: there is no write timeout.
NeverTimesOut == FALSE

\* The process that made connection c is there to read it.
HasReader(c) == c = conn /\ epc \notin {"connect", "exited"}

\* A connection nobody reads costs the service one second.
WriteTimesOut ==
    /\ NextClient
    /\ pos < RecordLen[run] /\ Full(accepted) /\ ~HasReader(accepted)
    /\ NoFault

WriteRefused == NextClient /\ pos < RecordLen[run] /\ accepted \notin rx /\ NoFault

\* Any other write error, and the timeout of a client that is slow to read.
WriteFails == NextClient /\ Fault

\* Every connection made in this run ends with it.
HostExits ==
    /\ bpc # "exited"
    /\ bpc' = "exited"
    /\ tx' = {}
    /\ accepted' = Len(wire)
    /\ UNCHANGED <<wire, madeIn, rx, run, pos, hcancel, enclaveVars>>

\* A cancelled service returns where it looks at the signal; elsewhere its
\* process is ended five seconds later (main.rs).
HostStops == hcancel /\ HostExits /\ NoFault

\* Errors that run does not catch: the half-close, and a backoff given up.
HostDies == bpc \in {"listen", "accepting", "half_close"} /\ Fault /\ HostExits

HostCrashes == Fault /\ HostExits

\* A signal, or the error of another worker of the process.
HostCancelled ==
    /\ ~hcancel /\ bpc # "exited"
    /\ Fault
    /\ hcancel' = TRUE
    /\ UNCHANGED <<connVars, bpc, run, pos, enclaveVars>>

\* Bootstrap::new makes the record anew, from the configuration of the run.
HostRestarts ==
    /\ HostGoes("exited", "listen")
    /\ run' = run + 1
    /\ pos' = 0
    /\ hcancel' = FALSE
    /\ UNCHANGED <<connVars, enclaveVars, faults>>

-----------------------------------------------------------------------------
(* The enclave: get, and the run it configures.                            *)

EnclaveGoes(from, to) == epc = from /\ epc' = to

\* Bound: an enclave that was refused the record of the host's present run
\* would be refused again, and again; the repetition is left out.
RefusedInThisRun == outcome = "oversize" /\ madeIn[conn] = run

\* new_client_socket_with_backoff
Connect ==
    /\ EnclaveGoes("connect", "half_close")
    /\ ~ecancel /\ ~RefusedInThisRun
    /\ Listening /\ Len(wire) - accepted < Backlog
    /\ wire' = Append(wire, <<>>)
    /\ madeIn' = Append(madeIn, run)
    /\ tx' = tx \cup {Len(wire) + 1}
    /\ rx' = rx \cup {Len(wire) + 1}
    /\ conn' = Len(wire) + 1
    /\ outcome' = "none"
    /\ UNCHANGED <<accepted, hostVars, buf, cap, record, ecancel, faults>>

\* shutdown(Write), set_read_timeout and the buffer.
StartReading ==
    /\ EnclaveGoes("half_close", "loop")
    /\ cap' = BufStart
    /\ UNCHANGED <<connVars, hostVars, conn, buf, outcome, record, ecancel, faults>>

\* Mutant: nothing bounds the buffer.
DoubledFreely(n) == 2 * n

\* (buf.len() * 2).min(MAX_RECORD_SIZE)
Doubled(n) == IF 2 * n < MaxRecordSize THEN 2 * n ELSE MaxRecordSize

\* Mutant: the buffer keeps its length.
SameRoom == cap

\* Ensure there is always room to read into.
MakeRoom == IF Len(buf) = cap THEN Doubled(cap) ELSE cap

\* A full buffer that may not grow any more
TooLarge == Len(buf) = cap /\ cap >= MaxRecordSize

StartRead ==
    /\ EnclaveGoes("loop", "reading")
    /\ ~ecancel /\ ~TooLarge
    /\ cap' = MakeRoom
    /\ UNCHANGED <<connVars, hostVars, conn, buf, outcome, record, ecancel, faults>>

\* while !shutdown_signal.is_cancelled(): what was read is parsed anyway.
StopReading ==
    /\ EnclaveGoes("loop", "parse")
    /\ ecancel
    /\ UNCHANGED <<connVars, hostVars, conn, buf, cap, outcome, record, ecancel, faults>>

AllRead == Len(buf) = Len(wire[conn])

ReadUnit ==
    /\ EnclaveGoes("reading", "loop")
    /\ ~AllRead /\ Len(buf) < cap
    /\ buf' = Append(buf, wire[conn][Len(buf) + 1])
    /\ UNCHANGED <<connVars, hostVars, conn, cap, outcome, record, ecancel, faults>>

\* read() returns Ok(0): at the end of the stream, or without room.
ReadNothing ==
    /\ EnclaveGoes("reading", "parse")
    /\ Len(buf) = cap \/ (AllRead /\ conn \notin tx)
    /\ UNCHANGED <<connVars, hostVars, conn, buf, cap, outcome, record, ecancel, faults>>

\* get returns an error and the enclave's process exits.
GetFails(why) ==
    /\ epc' = "exited"
    /\ rx' = rx \ {conn}
    /\ outcome' = why
    /\ buf' = <<>>
    /\ UNCHANGED <<wire, madeIn, tx, accepted, hostVars, conn, cap, record, ecancel>>

GetOversize == epc = "loop" /\ ~ecancel /\ TooLarge /\ GetFails("oversize") /\ NoFault

\* One second without an answer.
ReadTimesOut ==
    epc = "reading" /\ AllRead /\ conn \in tx /\ Fault /\ GetFails("io")

\* Half-close or read fail.
GetIoError == epc \in {"half_close", "reading"} /\ Fault /\ GetFails("io")

\* The connecting backoff gives up, or finds the signal cancelled.
GetGivesUp == epc = "connect" /\ Fault /\ GetFails("io")
GetCancelled == epc = "connect" /\ ecancel /\ GetFails("shutdown") /\ NoFault

\* Mutant: part of a record is taken for a record.
ParsesInPart(h) == buf # <<>> /\ buf = SubSeq(RecordOf(h), 1, Len(buf))

\* serde_json::from_slice: the whole of a record, and nothing less, parses.
Parses(h) == buf = RecordOf(h)

GetBadJson == epc = "parse" /\ (\A h \in Run : ~Parses(h)) /\ GetFails("json") /\ NoFault

\* get returns the record, which setup and the workers use from then on.
GetRecord ==
    /\ EnclaveGoes("parse", "configured")
    /\ \E h \in Run : Parses(h) /\ record' = h
    /\ rx' = rx \ {conn}
    /\ outcome' = "ok"
    /\ UNCHANGED <<wire, madeIn, tx, accepted, hostVars, conn, buf, cap, ecancel, faults>>

EnclaveExits(closed) ==
    /\ epc # "exited"
    /\ epc' = "exited"
    /\ rx' = rx \ closed
    /\ outcome' = "none"
    /\ record' = 0
    /\ buf' = <<>>
    /\ UNCHANGED <<wire, madeIn, tx, accepted, hostVars, conn, cap, ecancel>>

\* A cancelled enclave whose workers run stops, within five seconds.
EnclaveStops == epc = "configured" /\ ecancel /\ EnclaveExits({conn}) /\ NoFault

EnclaveCrashes == Fault /\ EnclaveExits({conn})

\* The whole enclave is terminated: its end is neither read nor closed.
EnclaveVanishes == Fault /\ conn \in rx /\ EnclaveExits({})

EnclaveCancelled ==
    /\ ~ecancel /\ epc # "exited"
    /\ Fault
    /\ ecancel' = TRUE
    /\ UNCHANGED <<connVars, hostVars, epc, conn, buf, cap, outcome, record>>

EnclaveRestarts ==
    /\ EnclaveGoes("exited", "connect")
    /\ record' = 0
    /\ ecancel' = FALSE
    /\ UNCHANGED <<connVars, hostVars, conn, buf, cap, outcome, faults>>

-----------------------------------------------------------------------------

HostStep ==
    \/ Listen \/ StartAccept \/ Accept \/ StartServing \/ WriteUnit
    \/ ServeDone \/ WriteTimesOut \/ WriteRefused \/ HostStops \/ HostRestarts

HostFailure ==
    \/ AcceptFails \/ WriteFails \/ HostDies \/ HostCrashes \/ HostCancelled

EnclaveStep ==
    \/ Connect \/ StartReading \/ StartRead \/ StopReading \/ ReadUnit
    \/ ReadNothing \/ GetOversize \/ GetCancelled \/ GetBadJson \/ GetRecord
    \/ EnclaveStops \/ EnclaveRestarts

EnclaveFailure ==
    \/ ReadTimesOut \/ GetIoError \/ GetGivesUp
    \/ EnclaveCrashes \/ EnclaveVanishes \/ EnclaveCancelled

Next == HostStep \/ HostFailure \/ EnclaveStep \/ EnclaveFailure

Spec == Init /\ [][Next]_vars

\* Each process has a thread that runs, and a supervisor (autorestart=true)
\* that starts it again when it has ended.
FairSpec == Spec /\ WF_vars(HostStep) /\ WF_vars(EnclaveStep)

-----------------------------------------------------------------------------

\* A record that was served whole is not reported as malformed: whatever
\* its length, the buffer's growth loses nothing of it.  A parse error means
\* that the host stopped short, or that the enclave was told to stop.
MalformedOnlyWhenCut ==
    epc = "exited" /\ outcome = "json"
        => ecancel \/ Len(wire[conn]) < RecordLen[madeIn[conn]]

\* What the enclave is configured by is the record of the host's run that
\* it connected to, although either process may have ended since.
ConfiguredByItsHost ==
    epc = "configured" => record = madeIn[conn] /\ buf = RecordOf(record)

\* The host's run whose record the enclave has, or has the whole of on its
\* connection.
Handed ==
    IF epc = "configured" THEN {record}
    ELSE IF /\ epc \in {"half_close", "loop", "reading", "parse"}
            /\ Len(wire[conn]) = RecordLen[madeIn[conn]]
         THEN {madeIn[conn]}
    ELSE {}

Record ==
    INSTANCE Handover WITH serving <- Listening, offer <- run, taken <- Handed

\* To the enclave all this is one step, in which it takes the record of the
\* host that serves at that moment: neither the connection, the buffer nor
\* the end of either process half-way hands it anything else, or takes back
\* what it has (bootstrap/mod.rs:118-167, 278-362).
HandsOverAtOnce == Record!Spec

\* "bootstrap record exceeds maximum size" (bootstrap/mod.rs:321)
RejectsOnlyOversize ==
    outcome = "oversize" => RecordLen[madeIn[conn]] > MaxRecordSize

\* A client that stopped reading does not keep the service from the others.
ServiceIsFreed == bpc = "serve" ~> bpc \in {"loop", "exited"}

\* In the end the enclave is configured, whichever of the two processes
\* failed and in whatever order they came back, unless the record that the
\* host is left with fills the largest buffer.
EnclaveConfigured ==
    <>[](epc = "configured" \/ RecordLen[run] >= MaxRecordSize)
=============================================================================
