----------------------------- MODULE NetConfig ------------------------------
(***************************************************************************)
(* What both sides' setup changes in their kernel: the ephemeral ports     *)
(* (system/ipv4.rs) and, for each queue number that was ever used, one     *)
(* nftables table for TCP and one for UDP (system/netfilter.rs,            *)
(* system/nftnl.rs).  The state outlives the process, so that a setup      *)
(* starts with what earlier ones have left, the ones included that failed  *)
(* half-way.                                                               *)
(***************************************************************************)
EXTENDS Faults, Ports

CONSTANT Queue          \* the numbers of netfilter queues

VARIABLES
    ephemeral,  \* ip_local_port_range
    table       \* table[p][q]: the ranges whose packets go to queue q

netVars == <<ephemeral, table>>

SinkProtocol == {"tcp", "udp"}

NetTypeOK ==
    /\ ephemeral \in Range
    /\ table \in [SinkProtocol -> [Queue -> SUBSET Range]]

\* Nothing of an earlier setup, and the ephemeral ports the kernel had.
NetInit(kernelDefault) ==
    /\ ephemeral = kernelDefault
    /\ table = [p \in SinkProtocol |-> [q \in Queue |-> {}]]

\* Mutant: the last port is written first.
SetBackwards(r) == ephemeral' = <<r[2], r[1]>>

\* set_ephemeral_ports: written unless it is there already.
SetEphemeral(r) == ephemeral' = r

\* Mutant: the table is not deleted before it is added.
AddedTo(p, q, ranges) == [table EXCEPT ![p][q] = @ \cup ranges]

\* The batch of add_ingress_ and add_egress_netfilter_packets_sink: add the
\* table, delete it with whatever was in it, and add it with these rules.
Replaced(p, q, ranges) == [table EXCEPT ![p][q] = ranges]

\* The kernel commits a batch as a whole and only then acknowledges it.
SendBatch(p, q, ranges) == table' = Replaced(p, q, ranges)

\* send_and_process fails: before the batch was committed, or after it.
BatchFails(p, q, ranges) == table' \in {table, Replaced(p, q, ranges)}
=============================================================================
