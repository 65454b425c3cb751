----------------------------- MODULE PacketLog ------------------------------
(***************************************************************************)
(* DumpPayload of proxy/worker/debug.rs, which both workers put into their *)
(* trace: the sending worker between sending a packet and its verdict      *)
(* (nfq.rs:142), the receiving worker after it framed a packet in its      *)
(* buffer and injected it (ipv4.rs:211).  It walks over bytes that came    *)
(* from the network.  In Rust an index or a slice beyond the end is a      *)
(* panic; a panic ends the worker without inspect_err and the cancellation *)
(* in it (host.rs:76-82), so that the process would go on without it.      *)
(*                                                                         *)
(* The slice a step works on is payload[at..end].  What the log says of    *)
(* the packet as a whole is `said', and `options' the places where it says *)
(* that a TCP option is.  How it words them is left out.                   *)
(***************************************************************************)
EXTENDS Ipv4Header

CONSTANTS
    QueuePayloads,  \* what get_payload may return (bound)
    ReadBuffers     \* the receiving worker's buffer after a packet was read
                    \* into it, with what earlier packets left (bound)

ASSUME PayloadsAssumption ==
    /\ \A b \in QueuePayloads : b \in Seq(Byte) /\ Len(b) <= MaxPacketSize
    /\ \A b \in ReadBuffers : b \in Seq(Byte) /\ Len(b) = MaxPacketSize

VARIABLES
    payload,    \* the bytes
    source,     \* which worker has them
    lpc,        \* which part is looked at, or how that ended
    at, end,    \* the slice that is looked at
    said,
    options

vars == <<payload, source, lpc, at, end, said, options>>

Tcp == 6
Udp == 17
TcpEol == 0
TcpNop == 1

\* What is said of a packet whose header and length are as they should be.
Whole == {"tcp", "tcp-truncated", "udp", "udp-truncated", "other"}

Init ==
    /\ \/ source = "queue" /\ payload \in QueuePayloads /\ lpc = "ip"
       \/ source = "stream" /\ payload \in ReadBuffers /\ lpc = "frame"
    /\ at = 0 /\ end = Len(payload)
    /\ said = "nothing" /\ options = {}

At(part) == lpc = part /\ UNCHANGED <<payload, source>>

\* The byte at index i of the slice
ByteAt(i) == payload[at + i + 1]

Size == end - at

\* The step reads the first n bytes of the slice and goes on with [i..j].
Slice(n, i, j, next) ==
    IF n <= Size /\ i <= j /\ j <= Size
    THEN lpc' = next /\ at' = at + i /\ end' = at + j
    ELSE lpc' = "panicked" /\ UNCHANGED <<at, end>>

Ends(n, what) == said' = what /\ UNCHANGED options /\ Slice(n, 0, Size, "done")

-----------------------------------------------------------------------------

Logged == {Tcp, Udp}

\* pump: the header, and the rest of the packet as ipv4_total_len says.
Frame ==
    /\ At("frame")
    /\ Accepted(payload) /\ Protocol(payload) \in Logged
    /\ Slice(TotalLen(payload), 0, TotalLen(payload), "ip")
    /\ UNCHANGED <<said, options>>

\* "invalid ipv4 packet" or an unsupported protocol: nothing is logged.
Reject ==
    /\ At("frame")
    /\ ~Accepted(payload) \/ Protocol(payload) \notin Logged
    /\ lpc' = "rejected"
    /\ UNCHANGED <<at, end, said, options>>

IsVersion4 == Version(payload) = 4

\* Ipv4Packet::parse returns Some.
HeaderIsThere ==
    /\ Size >= MinHeaderLen
    /\ HeaderLen(payload) >= MinHeaderLen /\ Size >= HeaderLen(payload)

\* None, another version, or a total length that cannot be.
IpMalformed ==
    /\ At("ip")
    /\ \/ Size < MinHeaderLen /\ Ends(0, "truncated")
       \/ Size >= MinHeaderLen /\ ~HeaderIsThere /\ Ends(1, "truncated")
       \/ HeaderIsThere /\ ~IsVersion4 /\ Ends(MinHeaderLen, "version")
       \/ /\ HeaderIsThere /\ IsVersion4
          /\ TotalLen(payload) < HeaderLen(payload)
          /\ Ends(MinHeaderLen, "invalid")
       \/ /\ HeaderIsThere /\ IsVersion4
          /\ HeaderLen(payload) <= TotalLen(payload) /\ Size < TotalLen(payload)
          /\ Ends(MinHeaderLen, "cut")

PartOf(protocol) ==
    CASE protocol = Tcp -> "tcp" [] protocol = Udp -> "udp" [] OTHER -> "done"

IpPayload ==
    /\ At("ip")
    /\ HeaderIsThere /\ IsVersion4
    /\ HeaderLen(payload) <= TotalLen(payload) /\ TotalLen(payload) <= Size
    /\ Slice(MinHeaderLen, HeaderLen(payload), TotalLen(payload),
             PartOf(Protocol(payload)))
    /\ said' = IF PartOf(Protocol(payload)) = "done" THEN "other" ELSE said
    /\ UNCHANGED options

DataOffset == 4 * High(ByteAt(12))

TcpTruncated ==
    /\ At("tcp")
    /\ \/ Size < MinHeaderLen /\ Ends(0, "tcp-truncated")
       \/ /\ Size >= MinHeaderLen
          /\ DataOffset < MinHeaderLen \/ Size < DataOffset
          /\ Ends(13, "tcp-truncated")

\* Mutant: the options are taken to begin with the segment.
FromTheStart == 0

OptionsFrom == MinHeaderLen

WriteTcp ==
    /\ At("tcp")
    /\ Size >= MinHeaderLen
    /\ DataOffset >= MinHeaderLen /\ Size >= DataOffset
    /\ IF DataOffset > MinHeaderLen
       THEN Slice(MinHeaderLen, OptionsFrom, DataOffset, "options")
       ELSE Slice(MinHeaderLen, 0, Size, "done")
    /\ said' = "tcp"
    /\ UNCHANGED options

WriteUdp ==
    /\ At("udp")
    /\ IF Size < UdpHeaderLen THEN Ends(0, "udp-truncated") ELSE Ends(6, "udp")

-----------------------------------------------------------------------------
(* TcpOptions: one step for each turn of its loop.                         *)

ShowsOne == options' = options \cup {at} /\ UNCHANGED said

Kind == ByteAt(0)
OptionLen == ByteAt(1)

OptionsEnd ==
    /\ At("options")
    /\ Size = 0
    /\ lpc' = "done"
    /\ UNCHANGED <<at, end, said, options>>

\* Mutant: the end of the options does not end the loop.
EolGoesOn == "options"

AfterEol == "done"

Eol ==
    /\ At("options")
    /\ Size > 0 /\ Kind = TcpEol
    /\ ShowsOne /\ Slice(1, 0, Size, AfterEol)

Nop ==
    /\ At("options")
    /\ Size > 0 /\ Kind = TcpNop
    /\ ShowsOne /\ Slice(1, 1, Size, "options")

\* Mutant: only an option that is too long is refused.
NotTooLong == Size >= 2 /\ OptionLen <= Size

\* The option has its length, which counts the two bytes before the data.
WellFormed == Size >= 2 /\ 2 <= OptionLen /\ OptionLen <= Size

Malformed ==
    /\ At("options")
    /\ Size > 0 /\ Kind \notin {TcpEol, TcpNop} /\ ~WellFormed
    /\ ShowsOne /\ Slice(IF Size < 2 THEN 1 ELSE 2, 0, Size, "done")

\* Mutant: the two bytes of kind and length are not counted.
PastTheData == OptionLen - 2

PastTheOption == OptionLen

\* The data is options[2..option_len], the rest options[option_len..].
ShowOption ==
    /\ At("options")
    /\ Size > 0 /\ Kind \notin {TcpEol, TcpNop} /\ WellFormed
    /\ ShowsOne
    /\ IF 2 <= OptionLen
       THEN Slice(OptionLen, PastTheOption, Size, "options")
       ELSE lpc' = "panicked" /\ UNCHANGED <<at, end>>

Next ==
    \/ Frame \/ Reject \/ IpMalformed \/ IpPayload
    \/ TcpTruncated \/ WriteTcp \/ WriteUdp
    \/ OptionsEnd \/ Eol \/ Nop \/ Malformed \/ ShowOption

Spec == Init /\ [][Next]_vars

\* The worker's thread runs, and nothing in here waits.
FairSpec == Spec /\ WF_vars(Next)

-----------------------------------------------------------------------------

Ended == {"done", "rejected", "panicked"}

\* The options lie behind the fixed part of the TCP header, and within what
\* the IPv4 header says is the packet.
TypeOK ==
    /\ \/ source = "queue" /\ payload \in QueuePayloads
       \/ source = "stream" /\ payload \in ReadBuffers
    /\ lpc \in {"frame", "ip", "tcp", "udp", "options"} \cup Ended
    /\ at \in Nat /\ end \in Nat /\ at <= end /\ end <= Len(payload)
    /\ said \in {"nothing", "truncated", "version", "invalid", "cut"} \cup Whole
    /\ options \subseteq Nat
    /\ lpc = "options" =>
           /\ HeaderLen(payload) + MinHeaderLen <= at
           /\ end <= TotalLen(payload)

\* No byte beyond the end of a slice is asked for, whatever the network
\* sent: the log never takes its worker down.
NeverPanics == lpc # "panicked"

\* The log and ipv4_total_len, each with a parser of its own, agree about
\* which bytes are a packet: the log calls neither truncated nor invalid
\* what the receiving worker accepts, nor complete what that would refuse.
AgreesWithReceiver ==
    /\ source = "stream" /\ lpc = "done" => said \in Whole
    /\ source = "queue" /\ lpc = "done" =>
           (said \in Whole <=>
                /\ Len(payload) >= MinHeaderLen
                /\ Accepted(payload)
                /\ TotalLen(payload) <= Len(payload))

-----------------------------------------------------------------------------
(* What TCP options are, for reference: one byte, or as many as the second *)
(* byte says, and the next option begins behind them.                      *)

OptionsAt == HeaderLen(payload) + MinHeaderLen
OptionsTo == HeaderLen(payload) + 4 * High(payload[HeaderLen(payload) + 13])

LenOf(p) ==
    IF payload[p + 1] = TcpNop THEN {1}
    ELSE IF payload[p + 1] = TcpEol \/ p + 1 = OptionsTo THEN {}
    ELSE {payload[p + 2]} \ {0, 1}

\* Where the option behind the one at p begins, if there is any
Behind(p) == {q \in {p + n : n \in LenOf(p)} : q < OptionsTo}

BehindAny(S) == UNION {Behind(p) : p \in S}

FirstOption == {p \in {OptionsAt} : p < OptionsTo}

\* A log of a TCP segment shows the option at the first place, and behind
\* each option shown the next one: none is left out, taken twice, or found in
\* the middle of another, whatever lengths the options claim.
EveryOptionShown ==
    lpc = "done" /\ said = "tcp" =>
        options = FirstOption \cup BehindAny(options)

\* The log of every packet ends: the worker comes to its verdict.
LogEnds == <>(lpc \in Ended)
=============================================================================
