-------------------------------- MODULE Ports -------------------------------
(***************************************************************************)
(* The port ranges of the host's command line (cli/host.rs), how they are  *)
(* parsed (cli/parsers.rs) and which of them are refused (proxy/host.rs).  *)
(***************************************************************************)
EXTENDS Integers

CONSTANT MaxPort        \* 65535, the largest u16

ASSUME PortsAssumption == MaxPort \in Nat

Port == 0..MaxPort

\* PortRangeParser: "a-b", in either order; "a" stands for "a-a".
ParsedRange(a, b) == IF a < b THEN <<a, b>> ELSE <<b, a>>

Range == {ParsedRange(a, b) : a \in Port, b \in Port}

\* The ports of a range, as the rules of netfilter.rs match them (both ends
\* included) and as ip_local_port_range has them.
PortsOf(r) == r[1]..r[2]

\* RangeInclusive::contains
Contains(r, p) == r[1] <= p /\ p <= r[2]

\* Mutant: only the first port of each range is looked at.
FirstEndInside(r, s) == Contains(r, s[1])

\* One of the ends of s lies in r.
AnEndInside(r, s) == Contains(r, s[1]) \/ Contains(r, s[2])

\* ensure_no_port_overlaps returns Ok.
NoPortOverlaps(cfg) ==
    /\ ~AnEndInside(cfg.hostEphemeral, cfg.enclaveEphemeral)
    /\ \A s \in cfg.enclavePorts : ~AnEndInside(cfg.hostEphemeral, s)

-----------------------------------------------------------------------------

Overlap(r, s) == \E p \in Port : Contains(r, p) /\ Contains(s, p)

\* r lies within s and touches neither of its ends.
Within(r, s) == s[1] < r[1] /\ r[2] < s[2]
=============================================================================
