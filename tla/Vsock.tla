-------------------------------- MODULE Vsock -------------------------------
(***************************************************************************)
(* The vsock stream sockets between host and enclave, as vsock.rs uses     *)
(* them.  Connections are numbered in the order they are made, which is    *)
(* the order a listener accepts them in.  stream[c] is everything that was *)
(* written to connection c and not lost with it.  tx and rx hold the       *)
(* connections whose writing, whose reading end is still open: one that    *)
(* waits to be accepted has both.  A listener's worker reads one           *)
(* connection at a time, the one it accepted last.                         *)
(***************************************************************************)
EXTENDS Packets, Faults

CONSTANTS
    Backlog,    \* connections a listener holds before they are accepted
    BufCap      \* units a connection holds before the writer blocks

ASSUME VsockAssumption == Backlog \in Nat \ {0} /\ BufCap \in Nat \ {0}

VARIABLES
    stream,     \* stream[c]: the units written to connection c
    tx, rx,     \* connections open for writing, for reading
    accepted,   \* connections 1..accepted are no longer pending
    nread,      \* units read from connection `accepted'
    listening   \* there is a listener

vsockVars == <<stream, tx, rx, accepted, nread, listening>>

Conn == 1..Len(stream)

VsockTypeOK ==
    /\ stream \in Seq(Seq(Unit))
    /\ tx \subseteq Conn
    /\ rx \subseteq Conn
    /\ accepted \in 0..Len(stream)
    /\ nread \in Nat
    /\ listening \in BOOLEAN

VsockInit ==
    /\ stream = <<>>
    /\ tx = {}
    /\ rx = {}
    /\ accepted = 0
    /\ nread = 0
    /\ listening = FALSE

CanConnect == listening /\ Len(stream) - accepted < Backlog

\* new_client_socket: the kernel of the peer answers as soon as it listens.
OpenConnection ==
    /\ CanConnect
    /\ stream' = Append(stream, <<>>)
    /\ tx' = tx \cup {Len(stream) + 1}
    /\ rx' = rx \cup {Len(stream) + 1}
    /\ UNCHANGED <<accepted, nread, listening>>

\* send: one unit at a time, so that every split of a packet occurs.
Write(c, u) ==
    /\ stream' = [stream EXCEPT ![c] = Append(@, u)]
    /\ UNCHANGED <<tx, rx, accepted, nread, listening>>

\* Units of connection c that its reader has taken.
Taken(c) == IF c = accepted THEN nread ELSE 0

HasRoom(c) == Len(stream[c]) - Taken(c) < BufCap

\* read_exact takes what is there, one unit at a time.
Readable(c) == nread < Len(stream[c])

ReadUnit ==
    /\ Readable(accepted)
    /\ nread' = nread + 1
    /\ UNCHANGED <<stream, tx, rx, accepted, listening>>

CloseTx(cs) ==
    /\ tx' = tx \ cs
    /\ UNCHANGED <<stream, rx, accepted, nread, listening>>

CloseRx(cs) ==
    /\ rx' = rx \ cs
    /\ UNCHANGED <<stream, tx, accepted, nread, listening>>

\* accept_connection: the oldest pending connection, closed or not.
TakeConnection ==
    /\ accepted < Len(stream)
    /\ accepted' = accepted + 1
    /\ nread' = 0
    /\ UNCHANGED <<stream, tx, rx, listening>>

OpenListener ==
    /\ ~listening
    /\ listening' = TRUE
    /\ UNCHANGED <<stream, tx, rx, accepted, nread>>

\* The listener goes away with its worker, and what waits in it is reset.
CloseListener ==
    /\ listening' = FALSE
    /\ rx' = {}
    /\ accepted' = Len(stream)
    /\ nread' = 0
    /\ UNCHANGED <<stream, tx>>

\* The transport resets connection c: all but the first n units are lost.
Reset(c, n) ==
    /\ n \in Taken(c)..Len(stream[c])
    /\ stream' = [stream EXCEPT ![c] = SubSeq(@, 1, n)]
    /\ tx' = tx \ {c}
    /\ rx' = rx \ {c}
    /\ UNCHANGED <<accepted, nread, listening>>
=============================================================================
