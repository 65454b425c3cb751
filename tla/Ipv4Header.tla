----------------------------- MODULE Ipv4Header -----------------------------
(***************************************************************************)
(* The bytes of a packet that Glycerine looks at itself, and what          *)
(* ipv4_total_len (proxy/worker/ipv4.rs) makes of them.  A packet is a     *)
(* sequence of bytes, and the byte the code calls payload[i] is b[i + 1].  *)
(***************************************************************************)
EXTENDS Integers, Sequences

CONSTANT MaxPacketSize  \* MAX_PACKET_SIZE, 65535 in system/ipv4.rs

Byte == 0..255

MinHeaderLen == 20      \* of an IPv4 header, and of a TCP header
UdpHeaderLen == 8

ASSUME Ipv4HeaderAssumption ==
    MaxPacketSize \in Nat /\ MinHeaderLen <= MaxPacketSize

High(byte) == byte \div 16
Low(byte) == byte % 16

Version(b) == High(b[1])
HeaderLen(b) == 4 * Low(b[1])
TotalLen(b) == 256 * b[3] + b[4]    \* u16::from_be_bytes
Protocol(b) == b[10]

\* Mutant: the length of the header is taken for granted.
AnyHeaderLen(b) ==
    /\ Version(b) = 4
    /\ MinHeaderLen <= TotalLen(b) /\ TotalLen(b) <= MaxPacketSize

\* ipv4_total_len returns Ok for a header of 20 bytes.
Accepted(b) ==
    /\ Version(b) = 4
    /\ MinHeaderLen <= HeaderLen(b)
    /\ HeaderLen(b) <= TotalLen(b) /\ TotalLen(b) <= MaxPacketSize
=============================================================================
