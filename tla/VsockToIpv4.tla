----------------------------- MODULE VsockToIpv4 ----------------------------
(***************************************************************************)
(* The receiving worker, VsockToIpv4 in proxy/worker/ipv4.rs: it accepts   *)
(* one vsock connection at a time, cuts the bytes it reads from it back    *)
(* into packets by the length in each IPv4 header, and writes TCP and UDP  *)
(* packets to raw sockets.  A failed read costs it the connection and a    *)
(* failed write the raw socket; it replaces whichever was lost.            *)
(***************************************************************************)
EXTENDS Vsock, FiniteSets

VARIABLES
    rpc,        \* where the worker is
    got,        \* units of the current packet in the payload buffer
    size,       \* its total length and
    proto,      \* its protocol, once the header is read
    sinks,      \* the raw sockets that are open
    rcancel,    \* its process's shutdown_signal is cancelled
    out         \* packets written to the raw sockets, oldest first

receiverVars == <<rpc, got, size, proto, sinks, rcancel, out>>

SinkProtocols == {"tcp", "udp"}

\* Where the worker holds a connection it has accepted.
Serving == {"half_close", "sink", "loop", "header", "decode", "body", "inject"}

VsockToIpv4TypeOK ==
    /\ rpc \in Serving \cup {"listen", "accept", "accepting", "exited"}
    /\ got \in 0..MaxPacketSize
    /\ size \in 0..MaxPacketSize
    /\ proto \in Protocols
    /\ sinks \subseteq SinkProtocols
    /\ rcancel \in BOOLEAN
    /\ out \in Seq(Seq(Unit))

VsockToIpv4Init ==
    /\ rpc = "listen"
    /\ got = 0
    /\ size = 0
    /\ proto = "other"
    /\ sinks = {}
    /\ rcancel = FALSE
    /\ out = <<>>

ReceiverGoes(from, to) == rpc = from /\ rpc' = to

\* new_listener_socket_with_backoff
Listen ==
    /\ ReceiverGoes("listen", "accept")
    /\ ~rcancel
    /\ OpenListener
    /\ UNCHANGED <<got, size, proto, sinks, rcancel, out, faults>>

\* accept_connection_with_backoff: the signal, and then a blocking accept.
StartAccept ==
    /\ ReceiverGoes("accept", "accepting")
    /\ ~rcancel
    /\ UNCHANGED <<vsockVars, got, size, proto, sinks, rcancel, out, faults>>

Accept ==
    /\ ReceiverGoes("accepting", "half_close")
    /\ TakeConnection
    /\ UNCHANGED <<got, size, proto, sinks, rcancel, out, faults>>

\* accept fails, or the peer's CID is not the expected one: tried again.
AcceptFails ==
    /\ ReceiverGoes("accepting", "accept")
    /\ Fault
    /\ UNCHANGED <<vsockVars, got, size, proto, sinks, rcancel, out>>

\* Both raw sockets are opened at the start, one is when it was lost.
AfterSinks(open) == IF open = SinkProtocols THEN "loop" ELSE "sink"

\* shutdown(Write) on the accepted socket.
ServeConnection ==
    /\ ReceiverGoes("half_close", AfterSinks(sinks))
    /\ UNCHANGED <<vsockVars, got, size, proto, sinks, rcancel, out, faults>>

\* new_sink_socket_with_backoff
OpenSink(s) ==
    /\ ReceiverGoes("sink", AfterSinks(sinks \cup {s}))
    /\ ~rcancel
    /\ s \notin sinks
    /\ s = "udp" => "tcp" \in sinks
    /\ sinks' = sinks \cup {s}
    /\ UNCHANGED <<vsockVars, got, size, proto, rcancel, out, faults>>

ReceiverContinues ==
    /\ ReceiverGoes("loop", "header")
    /\ ~rcancel
    /\ UNCHANGED <<vsockVars, got, size, proto, sinks, rcancel, out, faults>>

\* read_exact of the fixed part of the header
ReadHeader ==
    /\ ReceiverGoes("header", IF got + 1 < HeaderLen THEN "header" ELSE "decode")
    /\ ReadUnit
    /\ got' = got + 1
    /\ UNCHANGED <<size, proto, sinks, rcancel, out, faults>>

\* The units of the current packet that are in the payload buffer.
Buffered == SubSeq(stream[accepted], nread - got + 1, nread)

\* What follows when n units of a packet of length s and protocol p are in.
AfterRead(n, s, p) ==
    IF n < s THEN "body" ELSE IF p \in SinkProtocols THEN "inject" ELSE "loop"

\* Units of the buffer that are still needed: none before the next packet.
Keep(n, next) == IF next = "loop" THEN 0 ELSE n

\* ipv4_total_len accepts the header.
Decode ==
    /\ rpc = "decode"
    /\ \E a \in Answers(Buffered) :
           /\ a.ok
           /\ rpc' = AfterRead(got, a.size, a.proto)
           /\ got' = Keep(got, rpc')
           /\ size' = a.size
           /\ proto' = a.proto
    /\ UNCHANGED <<vsockVars, sinks, rcancel, out, faults>>

\* read_exact of the rest of the packet
ReadBody ==
    /\ ReceiverGoes("body", AfterRead(got + 1, size, proto))
    /\ ReadUnit
    /\ got' = Keep(got + 1, rpc')
    /\ UNCHANGED <<size, proto, sinks, rcancel, out, faults>>

\* Mutant: the worker reads on where the read failed.
ReadsOn == "loop"

\* A read ends at the end of the stream, or fails.  Rather than keep half a
\* packet the worker drops the connection and accepts another one.
AfterReadError == "accept"

\* Mutant: the connection is kept until another replaces it.
ReadErrorKeepsSocket ==
    /\ rpc \in {"header", "body"}
    /\ rpc' = AfterReadError
    /\ got' = 0
    /\ UNCHANGED <<vsockVars, size, proto, sinks, rcancel, out>>

\* The connection is dropped, with what was read of a packet.
ReadError ==
    /\ rpc \in {"header", "body"}
    /\ rpc' = AfterReadError
    /\ CloseRx({accepted})
    /\ got' = 0
    /\ UNCHANGED <<size, proto, sinks, rcancel, out>>

EndOfStream == ReadError /\ ~Readable(accepted) /\ accepted \notin tx /\ NoFault

ReadFails == Fault /\ ReadError

\* send_to with the header included: the packet as it was read.
Inject ==
    /\ ReceiverGoes("inject", "loop")
    /\ proto \in sinks
    /\ out' = Append(out, Buffered)
    /\ got' = 0
    /\ UNCHANGED <<vsockVars, size, proto, sinks, rcancel, faults>>

\* Mutant: the write is repeated although the packet may be out.
InjectsAgain ==
    /\ ReceiverGoes("inject", "inject")
    /\ Fault
    /\ out' = Append(out, Buffered)
    /\ UNCHANGED <<vsockVars, got, size, proto, sinks, rcancel>>

\* The packet is lost with the raw socket.
InjectFails ==
    /\ ReceiverGoes("inject", "sink")
    /\ Fault
    /\ sinks' = sinks \ {proto}
    /\ got' = 0
    /\ UNCHANGED <<vsockVars, size, proto, rcancel, out>>

ReceiverExits ==
    /\ rpc # "exited"
    /\ rpc' = "exited"
    /\ CloseListener
    /\ got' = 0 /\ sinks' = {}
    /\ UNCHANGED <<size, proto, rcancel, out>>

\* As for the sending worker: at a test of the signal, or five seconds on.
ReceiverStops == rcancel /\ ReceiverExits /\ NoFault

\* Errors that run does not catch: a header that is none, the half-close
\* of an accepted socket, a backoff that gave up.
BadHeader ==
    /\ rpc = "decode"
    /\ \E a \in Answers(Buffered) : ~a.ok
    /\ ReceiverExits
    /\ NoFault

ReceiverDies ==
    /\ rpc \in {"listen", "accepting", "half_close", "sink"}
    /\ Fault
    /\ ReceiverExits

ReceiverCrashes == Fault /\ ReceiverExits

CancelReceiver ==
    /\ ~rcancel /\ rpc # "exited"
    /\ Fault
    /\ rcancel' = TRUE
    /\ UNCHANGED <<vsockVars, rpc, got, size, proto, sinks, out>>

ReceiverRestarts ==
    /\ ReceiverGoes("exited", "listen")
    /\ rcancel' = FALSE
    /\ UNCHANGED <<vsockVars, got, size, proto, sinks, out, faults>>

\* What the worker and its supervisor do unless something fails.
ReceiverStep ==
    \/ Listen \/ StartAccept \/ Accept \/ ServeConnection
    \/ \E s \in SinkProtocols : OpenSink(s)
    \/ ReceiverContinues \/ ReadHeader \/ Decode \/ ReadBody
    \/ EndOfStream \/ Inject \/ BadHeader
    \/ ReceiverStops \/ ReceiverRestarts

ReceiverFailure ==
    \/ AcceptFails \/ ReadFails \/ InjectFails
    \/ ReceiverDies \/ ReceiverCrashes \/ CancelReceiver
=============================================================================
