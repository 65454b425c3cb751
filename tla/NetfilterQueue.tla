--------------------------- MODULE NetfilterQueue ---------------------------
(***************************************************************************)
(* The kernel's netfilter queue, seen from user space: packets that the    *)
(* rules of netfilter.rs route to the queue wait in it until the worker    *)
(* receives them, and hold their slot until the worker issues a verdict.   *)
(* Closing the handle flushes the queue.  A packet that finds no slot, or  *)
(* no reader, is dropped by the kernel, and one that does not fit netlink  *)
(* receive buffer is dropped and reported to the next recv as ENOBUFS.     *)
(***************************************************************************)
EXTENDS Packets, Faults, FiniteSets

CONSTANT QueueMax       \* set_queue_max_len

ASSUME QueueAssumption == QueueMax \in Nat \ {0}

VARIABLES
    arrived,    \* packets routed to the queue so far
    queue,      \* packets no recv has returned yet
    undecided,  \* packets received that still hold their slot
    bound,      \* a handle is bound to the queue
    overflow    \* an ENOBUFS report is pending

nfqVars == <<arrived, queue, undecided, bound, overflow>>

NetfilterQueueTypeOK ==
    /\ arrived \in 0..MaxPackets
    /\ queue \in Seq(Packet)
    /\ undecided \subseteq Packet
    /\ bound \in BOOLEAN
    /\ overflow \in BOOLEAN

NetfilterQueueInit ==
    /\ arrived = 0
    /\ queue = <<>>
    /\ undecided = {}
    /\ bound = FALSE
    /\ overflow = FALSE

HasSlot == bound /\ Len(queue) + Cardinality(undecided) < QueueMax

NextPacket == arrived < MaxPackets /\ arrived' = arrived + 1

PacketQueued ==
    /\ NextPacket
    /\ HasSlot
    /\ queue' = Append(queue, arrived + 1)
    /\ UNCHANGED <<undecided, bound, overflow>>

PacketRefused ==
    /\ NextPacket
    /\ ~HasSlot
    /\ UNCHANGED <<queue, undecided, bound, overflow>>

PacketOverflows ==
    /\ NextPacket
    /\ HasSlot
    /\ overflow' = TRUE
    /\ UNCHANGED <<queue, undecided, bound>>

\* Queue::open, bind and the options set on it; only one handle can bind.
BindQueue ==
    /\ ~bound
    /\ bound' = TRUE
    /\ UNCHANGED <<arrived, queue, undecided, overflow>>

\* The handle is dropped, by the worker or with its process.
CloseQueue ==
    /\ bound' = FALSE
    /\ overflow' = FALSE
    /\ queue' = <<>>
    /\ undecided' = {}
    /\ UNCHANGED arrived

TakePacket ==
    /\ queue # <<>> /\ ~overflow
    /\ queue' = Tail(queue)
    /\ undecided' = undecided \cup {Head(queue)}
    /\ UNCHANGED <<arrived, bound, overflow>>

TakeOverflow ==
    /\ overflow
    /\ overflow' = FALSE
    /\ UNCHANGED <<arrived, queue, undecided, bound>>

Verdict(p) ==
    /\ undecided' = undecided \ {p}
    /\ UNCHANGED <<arrived, queue, bound, overflow>>
=============================================================================
