--------------------------- MODULE TunnelTypeProofs -------------------------
(***************************************************************************)
(* Tunnel's type invariant, for every value of its constants.              *)
(***************************************************************************)
EXTENDS TunnelInvariant, TLAPS

\* The first n units of a sequence of units.
LEMMA PrefixProperties ==
    ASSUME NEW S, NEW s \in Seq(S), NEW n \in 0..Len(s)
    PROVE  /\ SubSeq(s, 1, n) \in Seq(S)
           /\ Len(SubSeq(s, 1, n)) = n
           /\ \A i \in 1..n : SubSeq(s, 1, n)[i] = s[i]
  OBVIOUS

\* One more connection, which nothing was written to.
LEMMA OpenStream ==
    ASSUME stream \in Seq(Seq(Unit)), stream' = Append(stream, <<>>)
    PROVE  /\ stream' \in Seq(Seq(Unit))
           /\ Len(stream') = Len(stream) + 1
           /\ \A c \in Conn : stream'[c] = stream[c]
           /\ stream'[Len(stream) + 1] = <<>>
  BY DEF Conn

\* One more unit on connection c.
LEMMA WriteStream ==
    ASSUME stream \in Seq(Seq(Unit)),
           NEW c \in Conn, NEW u \in Unit,
           stream' = [stream EXCEPT ![c] = Append(@, u)]
    PROVE  /\ stream' \in Seq(Seq(Unit))
           /\ Len(stream') = Len(stream)
           /\ \A d \in Conn \ {c} : stream'[d] = stream[d]
           /\ stream'[c] = Append(stream[c], u)
           /\ Len(stream'[c]) = Len(stream[c]) + 1
           /\ \A i \in 1..Len(stream[c]) : stream'[c][i] = stream[c][i]
           /\ stream'[c][Len(stream[c]) + 1] = u
  <1>1. stream[c] \in Seq(Unit)
    BY DEF Conn
  <1>2. Append(stream[c], u) \in Seq(Unit)
    BY <1>1
  <1>3. /\ stream' \in Seq(Seq(Unit))
        /\ Len(stream') = Len(stream)
        /\ \A d \in Conn \ {c} : stream'[d] = stream[d]
        /\ stream'[c] = Append(stream[c], u)
    BY <1>2 DEF Conn
  <1> QED
    BY <1>1, <1>3

\* Connection c loses all but its first n units.
LEMMA CutStream ==
    ASSUME stream \in Seq(Seq(Unit)),
           NEW c \in Conn, NEW n \in 0..Len(stream[c]),
           stream' = [stream EXCEPT ![c] = SubSeq(@, 1, n)]
    PROVE  /\ stream' \in Seq(Seq(Unit))
           /\ Len(stream') = Len(stream)
           /\ \A d \in Conn \ {c} : stream'[d] = stream[d]
           /\ Len(stream'[c]) = n
           /\ \A i \in 1..n : stream'[c][i] = stream[c][i]
  <1>1. stream[c] \in Seq(Unit)
    BY DEF Conn
  <1>2. /\ SubSeq(stream[c], 1, n) \in Seq(Unit)
        /\ Len(SubSeq(stream[c], 1, n)) = n
        /\ \A i \in 1..n : SubSeq(stream[c], 1, n)[i] = stream[c][i]
    BY <1>1, PrefixProperties
  <1>3. /\ stream' \in Seq(Seq(Unit))
        /\ Len(stream') = Len(stream)
        /\ \A d \in Conn \ {c} : stream'[d] = stream[d]
        /\ stream'[c] = SubSeq(stream[c], 1, n)
    BY <1>2 DEF Conn
  <1> QED
    BY <1>2, <1>3

\* ipv4_total_len answers with a length and a protocol.
LEMMA AnswersTyped ==
    ASSUME NEW h \in Seq(Unit), HeaderLen <= Len(h), NEW a \in Answers(h)
    PROVE  a.size \in HeaderLen..MaxPacketSize /\ a.proto \in Protocols
  <1>1. CASE \E p \in Packet : h = [k \in 1..HeaderLen |-> <<p, k>>]
    <2>1. PICK p \in Packet : h = [k \in 1..HeaderLen |-> <<p, k>>]
      BY <1>1
    <2>2. h[1][1] = p
      BY <2>1, PacketsAssumption
    <2>3. a = [ok |-> TRUE, size |-> Size[p], proto |-> Proto[p]]
      BY <1>1, <2>2 DEF Answers
    <2> QED
      BY <2>3, PacketsAssumption
  <1>2. CASE ~ \E p \in Packet : h = [k \in 1..HeaderLen |-> <<p, k>>]
    <2>1. a \in [ok : BOOLEAN, size : HeaderLen..MaxPacketSize, proto : Protocols]
      BY <1>2 DEF Answers
    <2> QED
      BY <2>1
  <1> QED
    BY <1>1, <1>2

\* The payload buffer is a sequence of units.
LEMMA BufferedTyped ==
    ASSUME TypeOK, GotInBounds, rpc \in Serving
    PROVE  /\ Buffered \in Seq(Unit)
           /\ Len(Buffered) = got
           /\ \A k \in 1..got : Buffered[k] = stream[accepted][nread - got + k]
  <1>1. stream[accepted] \in Seq(Unit)
    BY DEF TypeOK, VsockTypeOK, GotInBounds, Conn
  <1>2. nread \in Nat /\ got \in Nat /\ got <= nread /\ nread <= Len(stream[accepted])
    BY PacketsAssumption
    DEF TypeOK, VsockTypeOK, VsockToIpv4TypeOK, GotInBounds
  <1> QED
    BY <1>1, <1>2 DEF Buffered

LEMMA TypeInit == Init => TypeOK /\ InBounds
  <1> SUFFICES ASSUME Init PROVE TypeOK /\ InBounds
    OBVIOUS
  <1>1. FaultsTypeOK
    BY FaultsAssumption DEF Init, FaultsTypeOK
  <1>2. NetfilterQueueTypeOK
    <2>1. arrived = 0 /\ queue = <<>> /\ undecided = {}
      BY DEF Init, NetfilterQueueInit
    <2>2. bound \in BOOLEAN /\ overflow \in BOOLEAN
      BY Zenon DEF Init, NetfilterQueueInit
    <2> QED
      BY <2>1, <2>2, PacketsAssumption DEF NetfilterQueueTypeOK
  <1>3. VsockTypeOK
    <2>1. stream = <<>> /\ tx = {} /\ rx = {} /\ accepted = 0 /\ nread = 0
      BY DEF Init, VsockInit
    <2>2. listening \in BOOLEAN
      BY Zenon DEF Init, VsockInit
    <2> QED
      BY <2>1, <2>2 DEF VsockTypeOK, Conn
  <1>4. NfqToVsockTypeOK
    <2>1. spc = "queue" /\ msg = 0 /\ sent = 0 /\ dst = 0
      BY DEF Init, NfqToVsockInit
    <2>2. scancel \in BOOLEAN
      BY Zenon DEF Init, NfqToVsockInit
    <2> QED
      BY <1>3, <2>1, <2>2, PacketsAssumption DEF NfqToVsockTypeOK, VsockTypeOK
  <1>5. VsockToIpv4TypeOK
    <2>1. /\ rpc = "listen" /\ got = 0 /\ size = 0 /\ proto = "other"
          /\ sinks = {} /\ out = <<>>
      BY DEF Init, VsockToIpv4Init
    <2>2. rcancel \in BOOLEAN
      BY Zenon DEF Init, VsockToIpv4Init
    <2> QED
      BY <2>1, <2>2, PacketsAssumption DEF VsockToIpv4TypeOK, Protocols
  <1>6. InBounds
    BY DEF Init, InBounds, SentInBounds, GotInBounds, Serving, NfqToVsockInit,
           VsockToIpv4Init
  <1> QED
    BY <1>1, <1>2, <1>3, <1>4, <1>5, <1>6 DEF TypeOK

-----------------------------------------------------------------------------
(* The operations on the netfilter queue and on vsock keep their types.    *)

QueueOp ==
    \/ PacketQueued \/ PacketRefused \/ PacketOverflows
    \/ BindQueue \/ CloseQueue \/ TakePacket \/ TakeOverflow
    \/ (\E p : Verdict(p)) \/ UNCHANGED nfqVars

LEMMA QueueTyped ==
    ASSUME NetfilterQueueTypeOK, QueueOp
    PROVE  NetfilterQueueTypeOK'
  <1>1. bound' \in BOOLEAN /\ overflow' \in BOOLEAN
    BY Zenon
    DEF NetfilterQueueTypeOK, QueueOp, PacketQueued, PacketRefused, PacketOverflows,
        BindQueue, CloseQueue, TakePacket, TakeOverflow, Verdict, nfqVars
  <1>2. arrived' \in 0..MaxPackets
    BY PacketsAssumption
    DEF NetfilterQueueTypeOK, QueueOp, PacketQueued, PacketRefused, PacketOverflows,
        NextPacket, BindQueue, CloseQueue, TakePacket, TakeOverflow, Verdict, nfqVars
  <1>3. CASE PacketQueued
    BY <1>1, <1>2, <1>3, PacketsAssumption
    DEF NetfilterQueueTypeOK, PacketQueued, NextPacket, Packet
  <1>4. CASE CloseQueue
    BY <1>1, <1>2, <1>4 DEF NetfilterQueueTypeOK, CloseQueue
  <1>5. CASE TakePacket
    BY <1>1, <1>2, <1>5 DEF NetfilterQueueTypeOK, TakePacket
  <1>6. CASE \/ PacketRefused \/ PacketOverflows \/ BindQueue \/ TakeOverflow
             \/ (\E p : Verdict(p)) \/ UNCHANGED nfqVars
    <2>1. queue' = queue /\ undecided' \subseteq undecided
      BY <1>6
      DEF PacketRefused, PacketOverflows, BindQueue, TakeOverflow, Verdict, nfqVars
    <2> QED
      BY <1>1, <1>2, <2>1 DEF NetfilterQueueTypeOK
  <1> QED
    BY <1>3, <1>4, <1>5, <1>6 DEF QueueOp

\* All operations on vsock but those that change what was written.
PlainVsockOp ==
    \/ (\E cs : CloseTx(cs) \/ CloseRx(cs))
    \/ TakeConnection \/ ReadUnit \/ OpenListener \/ CloseListener
    \/ UNCHANGED vsockVars

VsockOp ==
    \/ PlainVsockOp \/ OpenConnection
    \/ (\E c \in Conn, u \in Unit : Write(c, u))
    \/ (\E c \in Conn : \E n \in 0..Len(stream[c]) : Reset(c, n))

LEMMA PlainVsockTyped ==
    ASSUME VsockTypeOK, PlainVsockOp
    PROVE  VsockTypeOK' /\ stream' = stream
  <1>1. listening' \in BOOLEAN
    BY Zenon
    DEF VsockTypeOK, PlainVsockOp, CloseTx, CloseRx, TakeConnection, ReadUnit,
        OpenListener, CloseListener, vsockVars
  <1>2. /\ stream' = stream /\ tx' \subseteq tx /\ rx' \subseteq rx
        /\ accepted' \in 0..Len(stream) /\ nread' \in Nat
    BY DEF VsockTypeOK, PlainVsockOp, CloseTx, CloseRx, TakeConnection, ReadUnit,
           OpenListener, CloseListener, vsockVars, Conn
  <1> QED
    BY <1>1, <1>2 DEF VsockTypeOK, Conn

LEMMA OneMore ==
    ASSUME NEW n \in Nat, NEW S, S \subseteq 1..n
    PROVE  S \cup {n + 1} \subseteq 1..(n + 1)
  OBVIOUS

LEMMA VsockTyped ==
    ASSUME VsockTypeOK, VsockOp
    PROVE  VsockTypeOK' /\ Len(stream) <= Len(stream')
  <1>1. CASE PlainVsockOp
    BY <1>1, PlainVsockTyped DEF VsockTypeOK
  <1>2. CASE OpenConnection
    <2>1. stream' = Append(stream, <<>>) /\ UNCHANGED <<accepted, nread, listening>>
      BY <1>2 DEF OpenConnection
    <2>2. tx' = tx \cup {Len(stream) + 1} /\ rx' = rx \cup {Len(stream) + 1}
      BY <1>2 DEF OpenConnection
    <2>3. stream' \in Seq(Seq(Unit)) /\ Len(stream') = Len(stream) + 1
      BY <2>1, OpenStream DEF VsockTypeOK
    <2>4. tx' \subseteq 1..Len(stream') /\ rx' \subseteq 1..Len(stream')
      <3>1. Len(stream) \in Nat /\ tx \subseteq 1..Len(stream) /\ rx \subseteq 1..Len(stream)
        BY DEF VsockTypeOK, Conn
      <3>2. /\ tx \cup {Len(stream) + 1} \subseteq 1..(Len(stream) + 1)
            /\ rx \cup {Len(stream) + 1} \subseteq 1..(Len(stream) + 1)
        BY <3>1, OneMore
      <3> QED
        BY <2>2, <2>3, <3>2
    <2>5. accepted' = accepted /\ nread' = nread /\ listening' = listening
      BY <2>1
    <2> QED
      BY <2>3, <2>4, <2>5 DEF VsockTypeOK, Conn
  <1>3. CASE \E c \in Conn, u \in Unit : Write(c, u)
    <2>1. PICK c \in Conn, u \in Unit : Write(c, u)
      BY <1>3
    <2>2. stream' = [stream EXCEPT ![c] = Append(@, u)]
      BY <2>1 DEF Write
    <2>3. stream' \in Seq(Seq(Unit)) /\ Len(stream') = Len(stream)
      BY <2>2, WriteStream DEF VsockTypeOK
    <2> QED
      BY <2>1, <2>3 DEF Write, VsockTypeOK, Conn
  <1>4. CASE \E c \in Conn : \E n \in 0..Len(stream[c]) : Reset(c, n)
    <2>1. PICK c \in Conn : \E n \in 0..Len(stream[c]) : Reset(c, n)
      BY <1>4
    <2>2. PICK n \in 0..Len(stream[c]) : Reset(c, n)
      BY <2>1
    <2>3. stream' = [stream EXCEPT ![c] = SubSeq(@, 1, n)]
      BY <2>2 DEF Reset
    <2>4. stream' \in Seq(Seq(Unit)) /\ Len(stream') = Len(stream)
      BY <2>3, CutStream DEF VsockTypeOK
    <2>5. tx' \subseteq tx /\ rx' \subseteq rx /\ UNCHANGED <<accepted, nread, listening>>
      BY <2>2 DEF Reset
    <2> QED
      BY <2>4, <2>5 DEF VsockTypeOK, Conn
  <1> QED
    BY <1>1, <1>2, <1>3, <1>4 DEF VsockOp

-----------------------------------------------------------------------------
(* The sending worker.                                                     *)

LEMMA HeadOfQueue ==
    ASSUME TypeOK, Recv
    PROVE  /\ queue # <<>> /\ Head(queue) \in Packet
           /\ msg' = Head(queue) /\ queue' = Tail(queue)
  <1>1. queue # <<>> /\ queue \in Seq(Packet)
    BY DEF Recv, TakePacket, TypeOK, NetfilterQueueTypeOK
  <1> QED
    BY <1>1 DEF Recv, TakePacket

LEMMA SenderTyped ==
    ASSUME TypeOK, InBounds, SenderStep \/ SenderFailure
    PROVE  /\ QueueOp
           /\ VsockOp
           /\ FaultsTypeOK'
           /\ NfqToVsockTypeOK'
           /\ SentInBounds'
  <1> USE DEF SenderStep, OpenQueue, Connect, HalfClose, SenderContinues, Recv, RecvOverflow,
        SendUnit, SendRefused, SendError, AfterSendError, IssueVerdict, SenderStops,
        SenderExits, SenderRestarts, SenderFailure, RecvFails, SendFails,
        VerdictFails, SenderDies, SenderCrashes, CancelSender, ReleaseQueue,
        SenderGoes, Fault, NoFault
  <1>1. QueueOp
    BY DEF QueueOp, nfqVars
  <1>2. VsockOp
    <2>1. CASE SendUnit
      <3>1. dst \in Conn /\ <<msg, sent + 1>> \in Unit
        BY <2>1, PacketsAssumption
        DEF TypeOK, VsockTypeOK, NfqToVsockTypeOK, InBounds, SentInBounds, Unit,
            Packet, PayloadLen
      <3> QED
        BY <2>1, <3>1 DEF VsockOp
    <2>2. CASE ~SendUnit
      BY <2>2 DEF VsockOp, PlainVsockOp, vsockVars
    <2> QED
      BY <2>1, <2>2
  <1>3. FaultsTypeOK'
    BY FaultsAssumption DEF TypeOK, FaultsTypeOK
  <1>4. NfqToVsockTypeOK'
    <2>1. scancel' \in BOOLEAN
      BY Zenon DEF TypeOK, NfqToVsockTypeOK
    <2>2. Len(stream) \in Nat /\ Len(stream') \in Nat /\ Len(stream) <= Len(stream')
      BY <1>2, VsockTyped DEF TypeOK, VsockTypeOK
    <2>3. msg' \in 0..MaxPackets
      <3>1. Recv => msg' \in Packet
        BY HeadOfQueue
      <3>2. ~Recv => msg' \in {msg, 0}
        OBVIOUS
      <3> QED
        BY <3>1, <3>2, PacketsAssumption DEF TypeOK, NfqToVsockTypeOK, Packet
    <2>4. sent' \in 0..MaxPacketSize
      BY PacketsAssumption
      DEF TypeOK, NfqToVsockTypeOK, InBounds, SentInBounds, PayloadLen, Packet
    <2>5. dst' \in 0..Len(stream')
      BY <2>2 DEF TypeOK, NfqToVsockTypeOK, CloseTx
    <2>6. spc' \in {"queue", "connect", "half_close", "loop", "recv", "send",
                    "verdict", "exited"}
      BY DEF TypeOK, NfqToVsockTypeOK
    <2> QED
      BY <2>1, <2>3, <2>4, <2>5, <2>6 DEF NfqToVsockTypeOK
  <1>5. SentInBounds'
    <2>1. CASE Recv
      <3>1. msg' \in Packet /\ sent' = 0
        BY <2>1, HeadOfQueue
      <3> QED
        BY <3>1, PacketsAssumption DEF SentInBounds, PayloadLen, Packet
    <2>2. CASE SendUnit
      BY <2>2 DEF InBounds, SentInBounds, MoreToSend, PayloadLen
    <2>3. CASE ~Recv /\ ~SendUnit
      BY <2>3 DEF InBounds, SentInBounds, PayloadLen
    <2> QED
      BY <2>1, <2>2, <2>3
  <1> QED
    BY <1>1, <1>2, <1>3, <1>4, <1>5

-----------------------------------------------------------------------------
(* The receiving worker.                                                   *)

LEMMA DecodeTyped ==
    ASSUME TypeOK, InBounds, Decode
    PROVE  /\ size' \in 0..MaxPacketSize /\ proto' \in Protocols
           /\ got' \in 0..MaxPacketSize
           /\ GotInBounds'
  <1>1. /\ rpc = "decode" /\ got = HeaderLen /\ accepted # 0
        /\ nread <= Len(stream[accepted]) /\ got <= nread /\ nread \in Nat
    BY DEF Decode, TypeOK, VsockTypeOK, InBounds, GotInBounds, Serving
  <1>2. Buffered \in Seq(Unit) /\ Len(Buffered) = got
    BY <1>1, BufferedTyped DEF InBounds, Serving
  <1>3. PICK a \in Answers(Buffered) :
            /\ rpc' = AfterRead(got, a.size, a.proto)
            /\ got' = Keep(got, rpc')
            /\ size' = a.size /\ proto' = a.proto
    BY DEF Decode
  <1>4. size' \in HeaderLen..MaxPacketSize /\ proto' \in Protocols
    <2>1. HeaderLen <= Len(Buffered)
      BY <1>1, <1>2, PacketsAssumption
    <2> QED
      BY <1>2, <1>3, <2>1, AnswersTyped
  <1>5. /\ rpc' = AfterRead(got, size', proto') /\ got' = Keep(got, rpc')
        /\ stream' = stream /\ accepted' = accepted /\ nread' = nread
    BY <1>3 DEF Decode, vsockVars
  <1>6. \/ rpc' = "body" /\ got' = got /\ got < size'
        \/ rpc' = "inject" /\ got' = got /\ got = size'
        \/ rpc' = "loop" /\ got' = 0
    BY <1>1, <1>4, <1>5, PacketsAssumption DEF AfterRead, Keep
  <1>7. got' \in 0..MaxPacketSize /\ size' \in 0..MaxPacketSize
    BY <1>1, <1>4, <1>6, PacketsAssumption
  <1>8. GotInBounds'
    BY <1>1, <1>5, <1>6, PacketsAssumption DEF GotInBounds, Serving
  <1> QED
    BY <1>4, <1>7, <1>8

LEMMA ReadTyped ==
    ASSUME TypeOK, InBounds, ReadHeader \/ ReadBody
    PROVE  got' \in 0..MaxPacketSize /\ GotInBounds'
  <1>1. /\ rpc \in Serving /\ accepted # 0 /\ accepted' = accepted
        /\ got \in Nat /\ nread \in Nat /\ got <= nread
        /\ nread' = nread + 1 /\ nread < Len(stream[accepted]) /\ stream' = stream
    BY DEF TypeOK, VsockToIpv4TypeOK, VsockTypeOK, InBounds, GotInBounds, Serving,
           ReadHeader, ReadBody, ReadUnit, Readable, ReceiverGoes
  <1>2. Len(stream[accepted]) \in Nat
    BY <1>1 DEF TypeOK, VsockTypeOK
  <1>3. nread' <= Len(stream'[accepted'])
    BY <1>1, <1>2
  <1>4. CASE ReadHeader
    <2>1. /\ got < HeaderLen /\ got' = got + 1
          /\ rpc' = IF got + 1 < HeaderLen THEN "header" ELSE "decode"
      BY <1>4 DEF ReadHeader, ReceiverGoes, InBounds, GotInBounds
    <2> QED
      BY <1>1, <1>3, <2>1, PacketsAssumption DEF GotInBounds, Serving
  <1>5. CASE ReadBody
    <2>1. /\ got < size /\ size \in 0..MaxPacketSize /\ size' = size
          /\ rpc' = AfterRead(got + 1, size, proto) /\ got' = Keep(got + 1, rpc')
      BY <1>5
      DEF ReadBody, ReceiverGoes, InBounds, GotInBounds, TypeOK, VsockToIpv4TypeOK
    <2>2. \/ rpc' = "body" /\ got' = got + 1 /\ got + 1 < size
          \/ rpc' = "inject" /\ got' = got + 1 /\ got + 1 = size
          \/ rpc' = "loop" /\ got' = 0
      BY <1>1, <2>1, PacketsAssumption DEF AfterRead, Keep
    <2> QED
      BY <1>1, <1>3, <2>1, <2>2, PacketsAssumption DEF GotInBounds, Serving
  <1> QED
    BY <1>4, <1>5

LEMMA ReceiverTyped ==
    ASSUME TypeOK, InBounds, ReceiverStep \/ ReceiverFailure
    PROVE  /\ PlainVsockOp
           /\ FaultsTypeOK'
           /\ VsockToIpv4TypeOK'
           /\ GotInBounds'
  <1> USE DEF ReceiverStep, Listen, StartAccept, Accept, ServeConnection, OpenSink,
        ReceiverContinues, ReadHeader, Decode, ReadBody, EndOfStream, ReadError,
        AfterReadError, Inject, BadHeader, ReceiverStops, ReceiverExits,
        ReceiverRestarts, ReceiverFailure, AcceptFails, ReadFails, InjectFails,
        ReceiverDies, ReceiverCrashes, CancelReceiver, ReceiverGoes, Fault, NoFault
  <1>1. PlainVsockOp
    BY DEF PlainVsockOp, vsockVars
  <1>2. FaultsTypeOK'
    <2>1. faults' = faults \/ (faults < MaxFaults /\ faults' = faults + 1)
      <3>1. CASE ReceiverStep
        BY <3>1
      <3>2. CASE ReceiverFailure
        BY <3>2
      <3> QED
        BY <3>1, <3>2
    <2> QED
      BY <2>1, FaultsAssumption DEF TypeOK, FaultsTypeOK
  <1>3. stream' = stream /\ VsockTypeOK'
    BY <1>1, PlainVsockTyped DEF TypeOK
  <1>5. VsockToIpv4TypeOK'
    <2>1. rcancel' \in BOOLEAN
      BY Zenon DEF TypeOK, VsockToIpv4TypeOK
    <2>2. size' \in 0..MaxPacketSize /\ proto' \in Protocols
      BY DecodeTyped DEF TypeOK, VsockToIpv4TypeOK
    <2>3. got' \in 0..MaxPacketSize
      <3>1. CASE Decode \/ ReadHeader \/ ReadBody
        BY <3>1, DecodeTyped, ReadTyped
      <3>2. CASE ~Decode /\ ~ReadHeader /\ ~ReadBody
        <4>1. got' = got \/ got' = 0
          BY <3>2
        <4>2. got \in 0..MaxPacketSize /\ 0 \in 0..MaxPacketSize
          BY PacketsAssumption DEF TypeOK, VsockToIpv4TypeOK
        <4> QED
          BY <4>1, <4>2
      <3> QED
        BY <3>1, <3>2
    <2>4. sinks' \subseteq SinkProtocols
      BY DEF TypeOK, VsockToIpv4TypeOK
    <2>5. rpc' \in Serving \cup {"listen", "accept", "accepting", "exited"}
      BY DEF TypeOK, VsockToIpv4TypeOK, AfterSinks, AfterRead, Serving
    <2>6. out' \in Seq(Seq(Unit))
      <3>1. CASE Inject
        <4>1. Buffered \in Seq(Unit)
          BY <3>1, BufferedTyped DEF InBounds, Serving
        <4> QED
          BY <3>1, <4>1 DEF TypeOK, VsockToIpv4TypeOK
      <3>2. CASE ~Inject
        BY <3>2 DEF TypeOK, VsockToIpv4TypeOK
      <3> QED
        BY <3>1, <3>2
    <2> QED
      BY <2>1, <2>2, <2>3, <2>4, <2>5, <2>6 DEF VsockToIpv4TypeOK
  <1>6. GotInBounds'
    <2>1. CASE Decode \/ ReadHeader \/ ReadBody
      BY <2>1, DecodeTyped, ReadTyped
    <2>2. CASE ~Decode /\ ~ReadHeader /\ ~ReadBody
      BY <1>3, <2>2, PacketsAssumption
      DEF TypeOK, VsockToIpv4TypeOK, VsockTypeOK, InBounds, GotInBounds, AfterSinks,
          Serving, vsockVars, TakeConnection
    <2> QED
      BY <2>1, <2>2
  <1> QED
    BY <1>1, <1>2, <1>5, <1>6

-----------------------------------------------------------------------------
(* Every step.                                                             *)

\* A connection keeps what was read of it, whatever happens to the rest.
LEMMA WrittenIsKept ==
    ASSUME VsockTypeOK, VsockOp, NEW c \in Conn
    PROVE  /\ c \in 1..Len(stream')
           /\ Len(stream'[c]) >= Len(stream[c]) \/ Len(stream'[c]) >= Taken(c)
  <1>1. CASE PlainVsockOp
    BY <1>1, PlainVsockTyped DEF VsockTypeOK, Conn
  <1>2. CASE OpenConnection
    BY <1>2, OpenStream DEF OpenConnection, VsockTypeOK, Conn
  <1>3. CASE \E d \in Conn, u \in Unit : Write(d, u)
    <2>1. PICK d \in Conn, u \in Unit : Write(d, u)
      BY <1>3
    <2>2. stream' = [stream EXCEPT ![d] = Append(@, u)]
      BY <2>1 DEF Write
    <2> QED
      BY <2>2, WriteStream DEF VsockTypeOK, Conn
  <1>4. CASE \E d \in Conn : \E n \in 0..Len(stream[d]) : Reset(d, n)
    <2>1. PICK d \in Conn : \E n \in 0..Len(stream[d]) : Reset(d, n)
      BY <1>4
    <2>2. PICK n \in 0..Len(stream[d]) : Reset(d, n)
      BY <2>1
    <2>3. stream' = [stream EXCEPT ![d] = SubSeq(@, 1, n)] /\ n >= Taken(d)
      BY <2>2 DEF Reset, Taken, VsockTypeOK
    <2> QED
      BY <2>3, CutStream DEF VsockTypeOK, Conn
  <1> QED
    BY <1>1, <1>2, <1>3, <1>4 DEF VsockOp

\* Unless the receiving worker moves, what it has read stays where it is.
LEMMA GotUndisturbed ==
    ASSUME TypeOK, InBounds, VsockOp, UNCHANGED receiverVars,
           UNCHANGED <<accepted, nread>>
    PROVE  GotInBounds'
  <1>1. CASE rpc \in Serving
    <2>1. accepted \in Conn /\ nread <= Len(stream[accepted]) /\ nread \in Nat
      BY <1>1 DEF TypeOK, VsockTypeOK, InBounds, GotInBounds, Conn
    <2>2. /\ Len(stream'[accepted]) \in Nat /\ Len(stream[accepted]) \in Nat
          /\ Len(stream'[accepted]) >= Len(stream[accepted])
                 \/ Len(stream'[accepted]) >= nread
      BY <2>1, WrittenIsKept, VsockTyped DEF TypeOK, VsockTypeOK, Taken
    <2>3. nread <= Len(stream'[accepted])
      BY <2>1, <2>2
    <2> QED
      BY <2>3 DEF InBounds, GotInBounds, receiverVars
  <1>2. CASE rpc \notin Serving
    BY <1>2 DEF InBounds, GotInBounds, receiverVars
  <1> QED
    BY <1>1, <1>2

LEMMA TypeStep ==
    ASSUME TypeOK, InBounds, [Next]_vars
    PROVE  TypeOK' /\ InBounds'
  <1>1. CASE KernelStep \/ KernelFailure
    <2>1. QueueOp /\ UNCHANGED <<vsockVars, senderVars, receiverVars>>
      BY <1>1 DEF KernelStep, KernelFailure, QueueOp
    <2>2. FaultsTypeOK'
      BY <1>1, FaultsAssumption
      DEF KernelStep, KernelFailure, Fault, TypeOK, FaultsTypeOK
    <2>3. NetfilterQueueTypeOK'
      BY <2>1, QueueTyped DEF TypeOK
    <2>4. VsockTypeOK' /\ NfqToVsockTypeOK' /\ VsockToIpv4TypeOK' /\ InBounds'
      BY <2>1
      DEF TypeOK, VsockTypeOK, NfqToVsockTypeOK, VsockToIpv4TypeOK, InBounds,
          SentInBounds, GotInBounds, PayloadLen, Conn, vsockVars, senderVars,
          receiverVars
    <2> QED
      BY <2>2, <2>3, <2>4 DEF TypeOK
  <1>2. CASE TransportFailure
    <2>1. VsockOp /\ UNCHANGED <<nfqVars, senderVars, receiverVars, accepted, nread>>
      BY <1>2 DEF TransportFailure, VsockOp, Reset, TypeOK, VsockTypeOK
    <2>2. FaultsTypeOK'
      BY <1>2, FaultsAssumption DEF TransportFailure, Fault, TypeOK, FaultsTypeOK
    <2>3. VsockTypeOK' /\ Len(stream) <= Len(stream')
      BY <2>1, VsockTyped DEF TypeOK
    <2>4. NetfilterQueueTypeOK' /\ VsockToIpv4TypeOK' /\ SentInBounds'
      BY <2>1
      DEF TypeOK, NetfilterQueueTypeOK, VsockToIpv4TypeOK, InBounds, SentInBounds,
          PayloadLen, nfqVars, senderVars, receiverVars
    <2>5. NfqToVsockTypeOK'
      BY <2>1, <2>3 DEF TypeOK, VsockTypeOK, NfqToVsockTypeOK, senderVars
    <2>6. GotInBounds'
      BY <2>1, GotUndisturbed
    <2> QED
      BY <2>2, <2>3, <2>4, <2>5, <2>6 DEF TypeOK, InBounds
  <1>3. CASE SenderNext
    <2>1. /\ QueueOp /\ VsockOp /\ FaultsTypeOK' /\ NfqToVsockTypeOK'
          /\ SentInBounds' /\ UNCHANGED receiverVars
      BY <1>3, SenderTyped DEF SenderNext
    <2>2. UNCHANGED <<accepted, nread>>
      BY <1>3
      DEF SenderNext, SenderStep, OpenQueue, Connect, OpenConnection, HalfClose,
          CloseTx, SenderContinues, Recv, RecvOverflow, SendUnit, Write,
          SendRefused, SendError, IssueVerdict, SenderStops, SenderExits,
          SenderRestarts, SenderFailure, RecvFails, SendFails, VerdictFails,
          SenderDies, SenderCrashes, CancelSender, vsockVars
    <2>3. GotInBounds'
      BY <2>1, <2>2, GotUndisturbed
    <2>4. VsockToIpv4TypeOK'
      BY <2>1 DEF TypeOK, VsockToIpv4TypeOK, receiverVars
    <2> QED
      BY <2>1, <2>3, <2>4, QueueTyped, VsockTyped DEF TypeOK, InBounds
  <1>4. CASE ReceiverNext
    <2>1. /\ PlainVsockOp /\ FaultsTypeOK' /\ VsockToIpv4TypeOK' /\ GotInBounds'
          /\ UNCHANGED <<nfqVars, senderVars>>
      BY <1>4, ReceiverTyped DEF ReceiverNext
    <2>2. VsockTypeOK' /\ stream' = stream
      BY <2>1, PlainVsockTyped DEF TypeOK
    <2>3. NetfilterQueueTypeOK' /\ NfqToVsockTypeOK' /\ SentInBounds'
      BY <2>1, <2>2
      DEF TypeOK, NetfilterQueueTypeOK, NfqToVsockTypeOK, InBounds, SentInBounds,
          PayloadLen, nfqVars, senderVars
    <2> QED
      BY <2>1, <2>2, <2>3 DEF TypeOK, InBounds
  <1>5. CASE UNCHANGED vars
    BY <1>5
    DEF vars, nfqVars, vsockVars, senderVars, receiverVars, TypeOK, FaultsTypeOK,
        NetfilterQueueTypeOK, VsockTypeOK, NfqToVsockTypeOK, VsockToIpv4TypeOK,
        InBounds, SentInBounds, GotInBounds, PayloadLen, Conn
  <1> QED
    BY <1>1, <1>2, <1>3, <1>4, <1>5 DEF Next

\* The state of both workers, of the queue and of the connections stays in
\* its types, whatever fails and however the workers' steps interleave.
THEOREM TypeCorrect == Spec => [](TypeOK /\ InBounds)
  BY TypeInit, TypeStep, PTL DEF Spec
=============================================================================
