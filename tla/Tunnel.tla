------------------------------- MODULE Tunnel -------------------------------
(***************************************************************************)
(* One direction of the tunnel: packets go from a netfilter queue through  *)
(* NfqToVsock, a vsock connection and VsockToIpv4 to raw sockets on the    *)
(* other side.  Ingress has its sending worker on the host and egress in   *)
(* the enclave; the two directions share nothing but their processes, and  *)
(* a process that ends takes both of its workers with it (Process.tla).    *)
(***************************************************************************)
EXTENDS NfqToVsock, VsockToIpv4

vars == <<faults, nfqVars, vsockVars, senderVars, receiverVars>>

Init ==
    /\ faults = 0
    /\ NetfilterQueueInit
    /\ VsockInit
    /\ NfqToVsockInit
    /\ VsockToIpv4Init

KernelStep ==
    /\ PacketQueued \/ PacketRefused
    /\ UNCHANGED <<faults, vsockVars, senderVars, receiverVars>>

KernelFailure ==
    /\ Fault
    /\ PacketOverflows
    /\ UNCHANGED <<vsockVars, senderVars, receiverVars>>

\* The transport may reset a connection that either side still uses.
TransportFailure ==
    /\ Fault
    /\ \E c \in tx \cup rx : \E n \in 0..Len(stream[c]) : Reset(c, n)
    /\ UNCHANGED <<nfqVars, senderVars, receiverVars>>

SenderNext == (SenderStep \/ SenderFailure) /\ UNCHANGED receiverVars

ReceiverNext ==
    (ReceiverStep \/ ReceiverFailure) /\ UNCHANGED <<nfqVars, senderVars>>

Next ==
    \/ KernelStep \/ KernelFailure \/ TransportFailure
    \/ SenderNext \/ ReceiverNext

Spec == Init /\ [][Next]_vars

-----------------------------------------------------------------------------
(* Each worker runs on a thread of its own (spawn_blocking) and the        *)
(* supervisor restarts a process that ends (autorestart=true), so neither  *)
(* side stops for ever while it can move.  Nothing obliges the kernel to   *)
(* route a packet, or anything to fail.                                    *)

FairSpec ==
    /\ Spec
    /\ WF_vars(SenderStep /\ UNCHANGED receiverVars)
    /\ WF_vars(ReceiverStep /\ UNCHANGED <<nfqVars, senderVars>>)

-----------------------------------------------------------------------------

TypeOK ==
    /\ FaultsTypeOK
    /\ NetfilterQueueTypeOK
    /\ VsockTypeOK
    /\ NfqToVsockTypeOK
    /\ VsockToIpv4TypeOK

\* What one direction promises, whatever fails: nfq.rs drops a packet whose
\* sending failed, ipv4.rs one that it could not read or write, and neither
\* changes, repeats or reorders the others.
Promise == INSTANCE LossyFifo WITH arrived <- arrived, out <- out

DeliversLossyFifo == Promise!Spec

\* The connection whose failure would be noticed by the next write: between
\* connecting and the half-close already the new one.
Current ==
    IF spc = "half_close" THEN Len(stream) ELSE IF spc = "connect" THEN 0 ELSE dst

Broken == Current # 0 /\ Current \notin tx \cap rx

\* What becomes of it; "stranded" is no state of a link.
CurrentLink ==
    IF Current = 0 THEN "none"
    ELSE IF Broken THEN "dead"
    ELSE IF Current > accepted THEN "pending"
    ELSE IF Current = accepted /\ rpc \in Serving THEN "open"
    ELSE "stranded"

Connection ==
    INSTANCE Link WITH
        sender <- spc # "exited", receiver <- rpc # "exited", link <- CurrentLink

\* The sender's connection is waiting to be accepted, or it is the one that
\* is read, or it is broken: nothing else, whatever the two workers replace
\* and whenever (nfq.rs:71-84, ipv4.rs:61-88).
KeepsToLink == Connection!Spec

\* Every write to a raw socket is a packet exactly as the kernel queued it.
Verbatim ==
    \A i \in 1..Len(out) : \E p \in 1..arrived : out[i] = Wire(p)

\* Even when netlink cuts packets short, no byte reaches the raw sockets
\* twice, and none before a byte that was queued earlier.
BytesInOrder ==
    \A i, j \in 1..Len(out) : \A k \in 1..Len(out[i]), l \in 1..Len(out[j]) :
        i < j \/ (i = j /\ k < l) => Before(out[i][k], out[j][l])

\* A connection that replaces another never carries on with what the other
\* carried: the packets on it are all later ones, and the first is whole.
FreshConnections ==
    \A c, d \in Conn : c < d =>
        /\ \A i \in 1..Len(stream[c]), j \in 1..Len(stream[d]) :
               stream[c][i][1] < stream[d][j][1]
        /\ stream[d] # <<>> => stream[d][1][2] = 1

\* Wherever the receiving worker starts a packet, one starts in the stream.
FramesAligned ==
    rpc \in Serving /\ got = 0 /\ Readable(accepted)
        => stream[accepted][nread + 1][2] = 1

\* Packets the worker is done with that still hold a slot of the queue.
Leaked == undecided \ (IF spc \in {"send", "verdict"} THEN {msg} ELSE {})

\* A slot is lost only to a failure, and to each failure only one.
LeaksOnlyByFailure == bound => Cardinality(Leaked) <= faults

\* The queue takes a packet whenever fewer than its maximum wait in it or
\* are being forwarded (cli/host.rs:114, "max length for ingress netfilter
\* queue").  The code breaks it: nfq.rs:144 leaves pump with no verdict.
SlotBelowMaxLen ==
    bound /\ Len(queue) + Cardinality(undecided \ Leaked) < QueueMax => HasSlot

\* The sender waits for the receiver: to accept a connection, so that there
\* is room for another, or to read from the one it writes to.
SenderWaits ==
    \/ spc = "connect" /\ listening /\ ~CanConnect
    \/ spc = "send" /\ dst \in tx \cap rx /\ ~HasRoom(dst)

\* The receiver waits for the sender: to connect, or to write.
ReceiverWaits ==
    \/ rpc = "accepting" /\ accepted = Len(stream)
    \/ rpc \in {"header", "body"} /\ ~Readable(accepted) /\ accepted \in tx

\* No read, no write and no accept of the workers has a timeout, and yet they
\* never wait for each other (nfq.rs:71-84, ipv4.rs:98-104, vsock.rs:33-110).
NeverWaitForEachOther == ~(SenderWaits /\ ReceiverWaits)

-----------------------------------------------------------------------------

\* A worker that lost its queue or its connection gets going again, unless
\* its process ends: nothing it waits for is held by itself or by the peer.
SenderResumes ==
    spc \in {"queue", "connect", "half_close"} ~> spc \in {"recv", "exited"}

\* The connection that the sending worker uses is, in the end, the one that
\* the receiving worker reads, unless either of them has given it up.
NoStrandedConnection ==
    \A c \in 1..(MaxFaults + MaxPackets) :
        (dst = c /\ c \in tx \cap rx)
            ~> (dst # c \/ c \notin tx \cap rx \/ accepted = c)

Connected ==
    /\ dst # 0 /\ dst = accepted /\ dst \in tx \cap rx
    /\ spc \in {"loop", "recv", "send", "verdict"} /\ ~scancel
    /\ rpc \in Serving /\ ~rcancel

Delivered(p) == \E i \in 1..Len(out) : out[i] = Wire(p)

\* No packet on the connection, in the worker's hands, or in the queue up to
\* p was cut short, so that the receiving worker misreads none of them.
NoneCutUpTo(p) ==
    LET Whole(q) == PayloadLen(q) = Size[q]
    IN  /\ \A i \in 1..Len(stream[dst]) : Whole(stream[dst][i][1])
        /\ spc \in {"send", "verdict"} => Whole(msg)
        /\ \A i \in 1..Len(queue) : queue[i] <= p => Whole(queue[i])

\* Once the workers are connected and nothing fails any more, each packet
\* that waits in the queue is delivered.
DeliveredOnceConnected ==
    \A p \in Packet : \A f \in 0..MaxFaults :
        ( /\ Connected /\ faults = f
          /\ Proto[p] \in SinkProtocols /\ NoneCutUpTo(p)
          /\ \E i \in 1..Len(queue) : queue[i] = p )
            ~> (Delivered(p) \/ faults > f)
=============================================================================
