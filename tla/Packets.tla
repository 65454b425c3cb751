------------------------------- MODULE Packets ------------------------------
(***************************************************************************)
(* The data the tunnel carries.  Packets are numbered in the order the     *)
(* kernel routes them to the netfilter queue, and packet p is the sequence *)
(* <<p, 1>>, <<p, 2>>, ..., <<p, Size[p]>> of units.  A unit stands for a  *)
(* run of bytes: the first HeaderLen units are the fixed 20-byte part of   *)
(* the IPv4 header that the receiving worker reads first, Size[p] is the   *)
(* header's total length and Proto[p] its protocol field.                  *)
(***************************************************************************)
EXTENDS Naturals, Sequences

CONSTANTS
    MaxPackets,     \* packets the kernel routes to the queue (bound)
    Size,           \* Size[p]: total length of packet p, in units
    Proto,          \* Proto[p]: its protocol
    HeaderLen,      \* units of the header read before its length is known
    CopyRange,      \* units of a packet netlink copies to user space
    MaxPacketSize   \* longest total length a header can announce

Packet == 1..MaxPackets
Protocols == {"tcp", "udp", "other"}

ASSUME PacketsAssumption ==
    /\ MaxPackets \in Nat
    /\ HeaderLen \in Nat \ {0}
    /\ CopyRange \in Nat \ {0}
    /\ MaxPacketSize \in Nat
    /\ HeaderLen <= MaxPacketSize
    /\ Size \in [Packet -> HeaderLen..MaxPacketSize]
    /\ Proto \in [Packet -> Protocols]

Unit == Packet \X (1..MaxPacketSize)

\* What get_payload returns of packet p: netlink may have cut it short.
PayloadLen(p) == IF Size[p] <= CopyRange THEN Size[p] ELSE CopyRange

\* Packet p as the kernel had it.
Wire(p) == [k \in 1..Size[p] |-> <<p, k>>]

\* Unit u comes before unit v in what the queue was given.
Before(u, v) == u[1] < v[1] \/ (u[1] = v[1] /\ u[2] < v[2])

\* ipv4_total_len's answers for the units h of a header: the length and the
\* protocol of the packet they begin, and for units that are no header
\* either an error or whatever the misread bytes happen to say.
Answers(h) ==
    IF \E p \in Packet : h = [k \in 1..HeaderLen |-> <<p, k>>]
    THEN {[ok |-> TRUE, size |-> Size[h[1][1]], proto |-> Proto[h[1][1]]]}
    ELSE [ok : BOOLEAN, size : HeaderLen..MaxPacketSize, proto : Protocols]
=============================================================================
