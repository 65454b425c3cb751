--------------------------- MODULE TunnelInvariant --------------------------
(***************************************************************************)
(* Why Tunnel's safety properties hold: an invariant that every step       *)
(* preserves.  TLC checks it on the instances of MCTunnel, TunnelProofs    *)
(* proves it inductive.  SenderInv and BytesInv hold of every instance;    *)
(* ReceiverInv and SlotsInv need payloads that are complete.               *)
(***************************************************************************)
EXTENDS Tunnel

\* Netlink hands every packet over whole.
Untruncated == \A p \in Packet : Size[p] <= CopyRange

-----------------------------------------------------------------------------
(* What the workers' positions mean, whatever the payloads are.            *)

\* The message under way has units left to send.
SentInBounds == spc = "send" => msg # 0 /\ sent < PayloadLen(msg)

\* The buffer is part of what was read, and no longer than its packet.
GotInBounds ==
    /\ rpc \notin {"header", "decode", "body", "inject"} => got = 0
    /\ rpc \in Serving =>
        /\ accepted # 0
        /\ nread <= Len(stream[accepted])
        /\ got <= nread
    /\ rpc = "header" => got < HeaderLen
    /\ rpc = "decode" => got = HeaderLen
    /\ rpc = "body" => got # 0 /\ got < size
    /\ rpc = "inject" => got # 0 /\ got = size

InBounds == SentInBounds /\ GotInBounds

-----------------------------------------------------------------------------
(* What the sending worker has written and is about to write.              *)

\* The queue holds packets in the order they arrived in.
QueueOrdered ==
    \A i \in 1..Len(queue) :
        /\ queue[i] <= arrived
        /\ \A j \in 1..Len(queue) : i < j => queue[i] < queue[j]

\* Units are in order on each connection, and across connections.
StreamsOrdered ==
    \A c, d \in Conn : \A i \in 1..Len(stream[c]), j \in 1..Len(stream[d]) :
        /\ c < d => stream[c][i][1] < stream[d][j][1]
        /\ c = d /\ i < j => Before(stream[c][i], stream[d][j])

\* What was written came out of the queue, and lies within its payload.
UnitsWereQueued ==
    \A c \in Conn : \A i \in 1..Len(stream[c]) :
        /\ stream[c][i][1] <= arrived
        /\ stream[c][i][2] <= PayloadLen(stream[c][i][1])
        /\ \A k \in 1..Len(queue) : stream[c][i][1] < queue[k]

\* The message came out of the queue too.
MsgWasQueued ==
    spc \in {"send", "verdict"} =>
        /\ msg \in 1..arrived
        /\ \A k \in 1..Len(queue) : msg < queue[k]

\* While a message is sent, everything else on the connections is older.
MsgIsNewest ==
    spc = "send" =>
        /\ \A c \in Conn : \A i \in 1..Len(stream[c]) :
               \/ stream[c][i][1] < msg
               \/ c = dst /\ stream[c][i][1] = msg /\ stream[c][i][2] <= sent
        /\ dst \in tx /\ sent > 0 =>
               /\ stream[dst] # <<>>
               /\ stream[dst][Len(stream[dst])] = <<msg, sent>>

\* The worker writes to the connection it made last.
DstIsLast ==
    /\ spc \in {"loop", "recv", "send", "verdict"} => dst # 0
    /\ spc \in {"queue", "loop", "recv", "send", "verdict"} /\ dst # 0
           => dst = Len(stream)
    /\ spc = "half_close" =>
           Len(stream) # 0 /\ dst < Len(stream) /\ stream[Len(stream)] = <<>>
    /\ spc = "exited" => dst = 0

StartsAtFirstUnit ==
    \A c \in Conn : stream[c] # <<>> => stream[c][1][2] = 1

SenderInv ==
    /\ QueueOrdered
    /\ StreamsOrdered
    /\ UnitsWereQueued
    /\ MsgWasQueued
    /\ MsgIsNewest
    /\ DstIsLast
    /\ StartsAtFirstUnit

-----------------------------------------------------------------------------
(* What the receiving worker has read and is about to read.                *)

Complete(u) == u[2] = Size[u[1]]

\* On every connection packets follow one another whole.
StreamsFramed ==
    \A c \in Conn : \A i \in 1..(Len(stream[c]) - 1) :
        LET u == stream[c][i]
            v == stream[c][i + 1]
        IN  IF Complete(u) THEN v[2] = 1 ELSE v = <<u[1], u[2] + 1>>

\* Between messages the last packet on the connection is a whole one.
SenderAtBoundary ==
    ( /\ dst # 0 /\ dst \in tx /\ stream[dst] # <<>>
      /\ spc \in {"queue", "loop", "recv", "verdict"} \/ (spc = "send" /\ sent = 0) )
        => Complete(stream[dst][Len(stream[dst])])

\* The payload buffer holds the first units of one packet.
Holds(q) ==
    /\ got <= Size[q]
    /\ \A k \in 1..got : stream[accepted][nread - got + k] = <<q, k>>

ReceiverInFrame ==
    rpc \in Serving =>
        /\ got = 0 /\ nread # 0 => Complete(stream[accepted][nread])
        /\ got # 0 => \E q \in Packet :
               /\ Holds(q)
               /\ rpc \in {"body", "inject"} => size = Size[q]

\* Unit j of connection c is not part of anything delivered or dropped yet.
Pending(c, j) ==
    \/ c > accepted
    \/ c = accepted /\ rpc \in Serving /\ j > nread - got

\* What was delivered is older than all that may still be.
OutIsOldest ==
    \A i \in 1..Len(out) :
        /\ \A c \in Conn : \A j \in 1..Len(stream[c]) :
               Pending(c, j) => out[i][1][1] < stream[c][j][1]
        /\ \A k \in 1..Len(queue) : out[i][1][1] < queue[k]
        /\ spc = "send" => out[i][1][1] < msg

InOrder ==
    \A i, j \in 1..Len(out) : i < j => out[i][1][1] < out[j][1][1]

ReceiverInv ==
    /\ StreamsFramed
    /\ SenderAtBoundary
    /\ ReceiverInFrame
    /\ Verbatim
    /\ InOrder
    /\ OutIsOldest

-----------------------------------------------------------------------------
(* The order of what is delivered, whatever the payloads are.              *)

\* What was delivered came out of the queue before all that may still be.
OutBeforePending ==
    \A i \in 1..Len(out) : \A k \in 1..Len(out[i]) :
        /\ out[i][k][1] <= arrived
        /\ \A c \in Conn : \A j \in 1..Len(stream[c]) :
               Pending(c, j) => Before(out[i][k], stream[c][j])
        /\ \A m \in 1..Len(queue) : out[i][k][1] < queue[m]
        /\ spc = "send" => Before(out[i][k], <<msg, sent + 1>>)

BytesInv == BytesInOrder /\ OutBeforePending

-----------------------------------------------------------------------------
(* Which ends of which connections the workers hold.                       *)

LinkInv ==
    /\ listening <=> rpc \notin {"listen", "exited"}
    /\ \A c \in rx : c > accepted \/ (c = accepted /\ rpc \in Serving)
    /\ \A c \in tx : c = dst \/ c = Current
    /\ spc = "connect" /\ dst # 0 => dst = Len(stream)

-----------------------------------------------------------------------------
(* Why a failure costs one slot of the queue at most.                      *)

One(b) == IF b THEN 1 ELSE 0

\* A failure breaks the connection, or lets the receiving worker break it
\* when it stops, and only a broken connection costs a slot.
SlotsInv ==
    Cardinality(Leaked) + One(Broken) + One(rcancel /\ rpc # "exited") <= faults
=============================================================================
