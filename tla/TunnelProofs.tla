---------------------------- MODULE TunnelProofs ----------------------------
(***************************************************************************)
(* The invariants of TunnelInvariant are inductive, and what follows from  *)
(* them for every number of packets, failures and connections.             *)
(***************************************************************************)
EXTENDS TunnelTypeProofs, FiniteSetTheorems

-----------------------------------------------------------------------------
(* Steps by what they do to the sending side.                              *)

\* Whatever is on a connection after the step was there before it.
NothingWritten ==
    \A c \in 1..Len(stream') : \A i \in 1..Len(stream'[c]) :
        c \in Conn /\ i \in 1..Len(stream[c]) /\ stream'[c][i] = stream[c][i]

\* A packet arrives at the queue, which may not take it.
Arrival ==
    /\ arrived' = arrived + 1
    /\ queue' = queue \/ queue' = Append(queue, arrived')
    /\ UNCHANGED <<stream, tx, spc, msg, sent, dst>>

\* The worker moves on between messages, with or without its queue.
Move ==
    /\ queue' = queue \/ queue' = <<>>
    /\ UNCHANGED <<arrived, stream, tx, msg, sent, dst>>
    /\ spc' \in {"connect", "loop", "recv", "queue"}
    /\ spc' \in {"loop", "recv"} =>
           spc \in {"loop", "recv", "verdict"} \/ (spc = "queue" /\ dst # 0)
    /\ spc' = "queue" => spc \in {"recv", "verdict", "exited"}

Exit ==
    /\ spc' = "exited" /\ dst' = 0
    /\ queue' = <<>>
    /\ UNCHANGED <<arrived, stream>>

Idle == UNCHANGED <<arrived, queue, stream, tx, spc, msg, sent, dst>>

LEMMA SenderCases ==
    ASSUME SenderStep \/ SenderFailure
    PROVE  Connect \/ HalfClose \/ Recv \/ SendUnit \/ Move \/ Exit \/ Idle
  <1>1. OpenQueue \/ SenderContinues \/ RecvOverflow \/ SendRefused => Move
    BY DEF OpenQueue, SenderContinues, RecvOverflow, SendRefused, SendError,
           AfterSendError, SenderGoes, BindQueue, TakeOverflow, nfqVars, vsockVars, Move
  <1>2. IssueVerdict \/ SenderRestarts \/ SendFails => Move
    BY DEF IssueVerdict, SenderRestarts, SendFails, SendError, AfterSendError,
           SenderGoes, Verdict, nfqVars, vsockVars, Move
  <1>3. RecvFails \/ VerdictFails => Move
    BY DEF RecvFails, VerdictFails, SenderGoes, ReleaseQueue, CloseQueue, vsockVars,
           Move
  <1>4. SenderStops \/ SenderDies \/ SenderCrashes => Exit
    BY DEF SenderStops, SenderDies, SenderCrashes, SenderExits, CloseQueue, CloseTx,
           Exit
  <1>5. CancelSender => Idle
    BY DEF CancelSender, nfqVars, vsockVars, Idle
  <1> QED
    BY <1>1, <1>2, <1>3, <1>4, <1>5 DEF SenderStep, SenderFailure

LEMMA StepCases ==
    ASSUME TypeOK, [Next]_vars
    PROVE  \/ Arrival \/ Connect \/ HalfClose \/ Recv \/ SendUnit
           \/ Move \/ Exit \/ Idle \/ TransportFailure
  <1>1. KernelStep \/ KernelFailure => Arrival
    BY DEF KernelStep, KernelFailure, PacketQueued, PacketRefused, PacketOverflows,
           NextPacket, vsockVars, senderVars, Arrival
  <1>2. ReceiverNext => Idle
    BY ReceiverTyped, PlainVsockTyped
    DEF ReceiverNext, nfqVars, senderVars, Idle, ReceiverStep, ReceiverFailure, Listen,
        StartAccept, Accept, ServeConnection, OpenSink, ReceiverContinues,
        ReadHeader, Decode, ReadBody, EndOfStream, ReadError, Inject, BadHeader,
        ReceiverStops, ReceiverExits, ReceiverRestarts, AcceptFails, ReadFails,
        InjectFails, ReceiverDies, ReceiverCrashes, CancelReceiver, OpenListener,
        TakeConnection, ReadUnit, CloseRx, CloseListener, vsockVars
  <1>3. UNCHANGED vars => Idle
    BY DEF vars, nfqVars, vsockVars, senderVars, Idle
  <1> QED
    BY <1>1, <1>2, <1>3, SenderCases DEF Next, SenderNext

-----------------------------------------------------------------------------
(* What is on the connections after a step.                                *)

LEMMA UnitFacts ==
    ASSUME TypeOK, NEW c \in Conn, NEW i \in 1..Len(stream[c])
    PROVE  /\ stream[c] \in Seq(Unit) /\ stream[c][i] \in Unit
           /\ stream[c][i][1] \in 1..MaxPackets
           /\ stream[c][i][2] \in 1..MaxPacketSize
           /\ stream[c][i] = <<stream[c][i][1], stream[c][i][2]>>
  <1>1. stream[c] \in Seq(Unit)
    BY DEF TypeOK, VsockTypeOK, Conn
  <1>2. stream[c][i] \in Unit
    BY <1>1
  <1> QED
    BY <1>1, <1>2 DEF Unit, Packet

LEMMA ConnectFacts ==
    ASSUME TypeOK, Connect
    PROVE  /\ Len(stream') = Len(stream) + 1
           /\ stream'[Len(stream) + 1] = <<>>
           /\ NothingWritten
  <1>1. stream' = Append(stream, <<>>) /\ stream \in Seq(Seq(Unit))
    BY DEF Connect, OpenConnection, TypeOK, VsockTypeOK
  <1>2. /\ Len(stream') = Len(stream) + 1
        /\ \A c \in Conn : stream'[c] = stream[c]
        /\ stream'[Len(stream) + 1] = <<>>
    BY <1>1, OpenStream
  <1> QED
    BY <1>1, <1>2 DEF NothingWritten, Conn

LEMMA TransportFacts ==
    ASSUME TypeOK, TransportFailure
    PROVE  /\ Len(stream') = Len(stream)
           /\ NothingWritten
           /\ tx' \subseteq tx
           /\ \A c \in tx' : stream'[c] = stream[c]
           /\ UNCHANGED <<arrived, queue, spc, msg, sent, dst>>
           /\ UNCHANGED <<accepted, nread, rpc, got, size, out>>
           /\ accepted # 0 /\ nread <= Len(stream[accepted]) =>
                  /\ nread <= Len(stream'[accepted])
                  /\ \A i \in 1..nread : stream'[accepted][i] = stream[accepted][i]
  <1>0. PICK c \in tx \cup rx : \E n \in 0..Len(stream[c]) : Reset(c, n)
    BY DEF TransportFailure
  <1>1. PICK n \in 0..Len(stream[c]) : Reset(c, n)
    BY <1>0
  <1>2. c \in Conn /\ stream \in Seq(Seq(Unit)) /\ nread \in Nat
        /\ accepted \in 0..Len(stream)
    BY DEF TypeOK, VsockTypeOK
  <1>3. stream' = [stream EXCEPT ![c] = SubSeq(@, 1, n)]
    BY <1>1 DEF Reset
  <1>4. /\ Len(stream') = Len(stream)
        /\ \A d \in Conn \ {c} : stream'[d] = stream[d]
        /\ Len(stream'[c]) = n
        /\ \A i \in 1..n : stream'[c][i] = stream[c][i]
    BY <1>2, <1>3, CutStream
  <1>5. tx' = tx \ {c} /\ UNCHANGED <<accepted, nread>> /\ n >= Taken(c)
    BY <1>1, <1>2 DEF Reset, Taken
  <1>6. /\ UNCHANGED <<arrived, queue, spc, msg, sent, dst>>
        /\ UNCHANGED <<rpc, got, size, out>>
    BY DEF TransportFailure, nfqVars, senderVars, receiverVars
  <1>7. NothingWritten
    BY <1>2, <1>4 DEF NothingWritten, Conn
  <1>8. ASSUME accepted # 0, nread <= Len(stream[accepted])
        PROVE  /\ nread <= Len(stream'[accepted])
               /\ \A i \in 1..nread : stream'[accepted][i] = stream[accepted][i]
    <2>1. CASE c = accepted
      BY <1>2, <1>4, <1>5, <2>1 DEF Taken
    <2>2. CASE c # accepted
      BY <1>2, <1>4, <1>8, <2>2 DEF Conn
    <2> QED
      BY <2>1, <2>2
  <1>9. \A d \in tx' : stream'[d] = stream[d]
    BY <1>4, <1>5 DEF TypeOK, VsockTypeOK
  <1> QED
    BY <1>4, <1>5, <1>6, <1>7, <1>8, <1>9

LEMMA SendFacts ==
    ASSUME TypeOK, InBounds, SendUnit
    PROVE  /\ dst \in Conn /\ dst \in tx /\ tx' = tx
           /\ msg \in Packet /\ sent \in Nat /\ sent < PayloadLen(msg)
           /\ UNCHANGED <<arrived, queue, msg, dst>>
           /\ sent' = sent + 1 /\ spc = "send"
           /\ spc' = IF sent + 1 < PayloadLen(msg) THEN "send" ELSE "verdict"
           /\ Len(stream') = Len(stream)
           /\ \A d \in Conn \ {dst} : stream'[d] = stream[d]
           /\ Len(stream'[dst]) = Len(stream[dst]) + 1
           /\ \A i \in 1..Len(stream[dst]) : stream'[dst][i] = stream[dst][i]
           /\ stream'[dst][Len(stream[dst]) + 1] = <<msg, sent + 1>>
  <1>1. /\ dst \in tx /\ tx' = tx /\ spc = "send" /\ sent' = sent + 1
        /\ UNCHANGED <<arrived, queue, msg, dst>>
        /\ stream' = [stream EXCEPT ![dst] = Append(@, <<msg, sent + 1>>)]
    BY DEF SendUnit, SenderGoes, Write, nfqVars
  <1>2. spc' = IF sent + 1 < PayloadLen(msg) THEN "send" ELSE "verdict"
    BY DEF SendUnit, SenderGoes, MoreToSend
  <1>3. /\ dst \in Conn /\ msg \in Packet /\ sent \in Nat
        /\ sent < PayloadLen(msg) /\ <<msg, sent + 1>> \in Unit
        /\ stream \in Seq(Seq(Unit))
    BY <1>1, PacketsAssumption
    DEF TypeOK, VsockTypeOK, NfqToVsockTypeOK, InBounds, SentInBounds, Unit, Packet,
        PayloadLen
  <1>4. /\ Len(stream') = Len(stream)
        /\ \A d \in Conn \ {dst} : stream'[d] = stream[d]
        /\ Len(stream'[dst]) = Len(stream[dst]) + 1
        /\ \A i \in 1..Len(stream[dst]) : stream'[dst][i] = stream[dst][i]
        /\ stream'[dst][Len(stream[dst]) + 1] = <<msg, sent + 1>>
    BY <1>1, <1>3, WriteStream
  <1> QED
    BY <1>1, <1>2, <1>3, <1>4

\* Every unit after SendUnit was there before, or is the one just sent.
LEMMA SentUnits ==
    ASSUME TypeOK, InBounds, SendUnit,
           NEW c \in 1..Len(stream'), NEW i \in 1..Len(stream'[c])
    PROVE  /\ c \in Conn
           /\ \/ i \in 1..Len(stream[c]) /\ stream'[c][i] = stream[c][i]
              \/ c = dst /\ i = Len(stream[dst]) + 1 /\ stream'[c][i] = <<msg, sent + 1>>
  <1>1. c \in Conn /\ Len(stream[dst]) \in Nat
    BY SendFacts DEF Conn, TypeOK, VsockTypeOK
  <1>2. CASE c = dst
    BY <1>1, <1>2, SendFacts
  <1>3. CASE c # dst
    BY <1>1, <1>3, SendFacts
  <1> QED
    BY <1>1, <1>2, <1>3

LEMMA Untouched ==
    ASSUME stream' = stream
    PROVE  NothingWritten
  BY DEF NothingWritten, Conn

LEMMA WrittenOrNot ==
    ASSUME TypeOK, [Next]_vars, ~SendUnit
    PROVE  NothingWritten
  <1>1. CASE stream' = stream
    BY <1>1, Untouched
  <1>2. CASE stream' # stream
    BY <1>2, StepCases, ConnectFacts, TransportFacts
    DEF Arrival, HalfClose, CloseTx, Recv, vsockVars, Move, Exit, Idle
  <1> QED
    BY <1>1, <1>2

-----------------------------------------------------------------------------
(* SenderInv is inductive.                                                 *)

LEMMA SenderInvInit == Init => SenderInv
  BY DEF Init, NetfilterQueueInit, VsockInit, NfqToVsockInit, SenderInv, QueueOrdered,
         StreamsOrdered, UnitsWereQueued, MsgWasQueued, MsgIsNewest, DstIsLast,
         StartsAtFirstUnit, Conn

LEMMA QueueFacts ==
    ASSUME TypeOK, QueueOrdered, [Next]_vars
    PROVE  /\ QueueOrdered'
           /\ arrived \in Nat /\ arrived' \in Nat /\ arrived <= arrived'
           /\ \A k \in 1..Len(queue') :
                  \/ \E j \in 1..Len(queue) : queue'[k] = queue[j]
                  \/ queue'[k] = arrived + 1 /\ arrived' = arrived + 1
           /\ Recv => /\ msg' \in 1..arrived /\ arrived' = arrived
                      /\ \E j \in 1..Len(queue) : msg' = queue[j]
                      /\ \A k \in 1..Len(queue') : msg' < queue'[k]
  <1>0. queue \in Seq(Packet) /\ arrived \in Nat /\ \A k \in 1..Len(queue) : queue[k] \in Nat
    <2>1. queue \in Seq(Packet)
      BY DEF TypeOK, NetfilterQueueTypeOK
    <2>2. \A k \in 1..Len(queue) : queue[k] \in Packet
      BY <2>1
    <2>3. arrived \in Nat
      BY PacketsAssumption DEF TypeOK, NetfilterQueueTypeOK
    <2> QED
      BY <2>1, <2>2, <2>3, PacketsAssumption DEF Packet
  <1>1. CASE Arrival
    <2>1. arrived' = arrived + 1 /\ ~Recv
      BY <1>0, <1>1 DEF Arrival, Recv, SenderGoes
    <2>2. CASE queue' = queue
      BY <1>0, <2>1, <2>2 DEF QueueOrdered
    <2>3. CASE queue' = Append(queue, arrived + 1)
      BY <1>0, <2>1, <2>3 DEF QueueOrdered
    <2> QED
      BY <1>1, <2>1, <2>2, <2>3 DEF Arrival
  <1>2. CASE Recv
    <2>1. /\ queue # <<>> /\ msg' = Head(queue) /\ queue' = Tail(queue)
          /\ arrived' = arrived
      BY <1>2, HeadOfQueue DEF Recv, TakePacket
    <2>2. /\ Len(queue) \in Nat \ {0} /\ msg' = queue[1] /\ Len(queue') = Len(queue) - 1
          /\ \A k \in 1..Len(queue') : queue'[k] = queue[k + 1]
      BY <1>0, <2>1
    <2>3. \A k \in 1..Len(queue') : k + 1 \in 1..Len(queue)
      BY <2>2
    <2>4. QueueOrdered'
      BY <2>1, <2>2, <2>3 DEF QueueOrdered
    <2>5. 1 \in 1..Len(queue) /\ queue[1] <= arrived /\ queue[1] \in Packet
      BY <2>1, <2>2 DEF QueueOrdered, TypeOK, NetfilterQueueTypeOK
    <2>6. \A k \in 1..Len(queue') : msg' < queue'[k]
      BY <2>2, <2>3, <2>5 DEF QueueOrdered
    <2>7. msg' \in 1..arrived
      BY <1>0, <2>2, <2>5, PacketsAssumption DEF Packet
    <2> QED
      BY <1>0, <2>1, <2>2, <2>3, <2>4, <2>5, <2>6, <2>7
  <1>3. CASE ~Arrival /\ ~Recv
    <2>1. (queue' = queue \/ queue' = <<>>) /\ arrived' = arrived
      BY <1>3, StepCases, SendFacts, TransportFacts
      DEF Connect, HalfClose, nfqVars, Move, Exit, Idle, SendUnit
    <2> QED
      BY <1>0, <1>3, <2>1 DEF QueueOrdered
  <1> QED
    BY <1>1, <1>2, <1>3

\* One step further, with everything but the worker's position as it was.
LEMMA StreamsOrderedStep ==
    ASSUME TypeOK, InBounds, SenderInv, [Next]_vars
    PROVE  StreamsOrdered'
  <1> SUFFICES ASSUME NEW c \in 1..Len(stream'), NEW d \in 1..Len(stream'),
                      NEW i \in 1..Len(stream'[c]), NEW j \in 1..Len(stream'[d])
               PROVE  /\ c < d => stream'[c][i][1] < stream'[d][j][1]
                      /\ c = d /\ i < j => Before(stream'[c][i], stream'[d][j])
    BY DEF StreamsOrdered, Conn
  <1>1. CASE ~SendUnit
    <2>1. /\ c \in Conn /\ i \in 1..Len(stream[c]) /\ stream'[c][i] = stream[c][i]
          /\ d \in Conn /\ j \in 1..Len(stream[d]) /\ stream'[d][j] = stream[d][j]
      BY <1>1, WrittenOrNot DEF NothingWritten
    <2> QED
      BY <2>1 DEF SenderInv, StreamsOrdered
  <1>2. CASE SendUnit
    <2>1. /\ c \in Conn /\ d \in Conn /\ dst = Len(stream) /\ Len(stream) \in Nat
          /\ msg \in Nat /\ sent \in Nat /\ Len(stream[dst]) \in Nat
      <3>1. c \in Conn /\ d \in Conn /\ dst \in Conn
        BY <1>2, SendFacts, SentUnits
      <3>2. stream \in Seq(Seq(Unit)) /\ msg \in Packet /\ sent \in Nat
        BY <1>2, SendFacts DEF TypeOK, VsockTypeOK
      <3>3. dst = Len(stream)
        BY <1>2, <3>1, <3>2, SendFacts DEF SenderInv, DstIsLast, Conn
      <3>4. Len(stream) \in Nat /\ Len(stream[dst]) \in Nat
        BY <3>1, <3>2 DEF Conn
      <3> QED
        BY <3>1, <3>2, <3>3, <3>4, PacketsAssumption DEF Packet
    <2>2. CASE /\ i \in 1..Len(stream[c]) /\ stream'[c][i] = stream[c][i]
               /\ j \in 1..Len(stream[d]) /\ stream'[d][j] = stream[d][j]
      BY <2>1, <2>2 DEF SenderInv, StreamsOrdered
    <2>3. CASE /\ i \in 1..Len(stream[c]) /\ stream'[c][i] = stream[c][i]
               /\ d = dst /\ stream'[d][j] = <<msg, sent + 1>>
      <3>1. \/ stream[c][i][1] < msg
            \/ c = dst /\ stream[c][i][1] = msg /\ stream[c][i][2] <= sent
        <4>1. spc = "send"
          BY <1>2, SendFacts
        <4> QED
          BY <2>1, <2>3, <4>1 DEF SenderInv, MsgIsNewest
      <3>2. stream[c][i][1] \in Nat /\ stream[c][i][2] \in Nat
        BY <2>1, <2>3, UnitFacts
      <3> QED
        BY <2>1, <2>3, <3>1, <3>2 DEF Before
    <2>4. CASE c = dst /\ i = Len(stream[dst]) + 1
      <3>1. ~(c < d)
        BY <2>1, <2>4 DEF Conn
      <3>2. c = d => ~(i < j)
        BY <2>1, <2>4, <1>2, SendFacts
      <3> QED
        BY <3>1, <3>2
    <2> QED
      BY <1>2, <2>2, <2>3, <2>4, SentUnits
  <1> QED
    BY <1>1, <1>2

LEMMA UnitsWereQueuedStep ==
    ASSUME TypeOK, InBounds, SenderInv, [Next]_vars
    PROVE  UnitsWereQueued'
  <1> SUFFICES ASSUME NEW c \in 1..Len(stream'), NEW i \in 1..Len(stream'[c])
               PROVE  /\ stream'[c][i][1] <= arrived'
                      /\ stream'[c][i][2] <= PayloadLen(stream'[c][i][1])
                      /\ \A k \in 1..Len(queue') : stream'[c][i][1] < queue'[k]
    BY DEF UnitsWereQueued, Conn, PayloadLen
  <1>0. /\ QueueOrdered' /\ arrived \in Nat /\ arrived' \in Nat /\ arrived <= arrived'
        /\ \A k \in 1..Len(queue') :
               \/ \E j \in 1..Len(queue) : queue'[k] = queue[j]
               \/ queue'[k] = arrived + 1 /\ arrived' = arrived + 1
    BY QueueFacts DEF SenderInv
  <1>1. CASE c \in Conn /\ i \in 1..Len(stream[c]) /\ stream'[c][i] = stream[c][i]
    <2>1. stream[c][i][1] \in Nat
      BY <1>1, UnitFacts
    <2>2. /\ stream[c][i][1] <= arrived
          /\ stream[c][i][2] <= PayloadLen(stream[c][i][1])
          /\ \A k \in 1..Len(queue) : stream[c][i][1] < queue[k]
      BY <1>1 DEF SenderInv, UnitsWereQueued
    <2>3. \A k \in 1..Len(queue') : stream[c][i][1] < queue'[k]
      BY <1>0, <2>1, <2>2
    <2>4. stream[c][i][1] <= arrived'
      BY <1>0, <2>1, <2>2
    <2> QED
      BY <1>1, <2>2, <2>3, <2>4
  <1>2. CASE SendUnit /\ stream'[c][i] = <<msg, sent + 1>>
    <2>1. /\ stream'[c][i][1] = msg /\ stream'[c][i][2] = sent + 1
          /\ sent \in Nat /\ sent < PayloadLen(msg) /\ msg \in Packet
          /\ spc = "send" /\ arrived' = arrived /\ queue' = queue
      BY <1>2, SendFacts
    <2>2. msg \in 1..arrived /\ \A k \in 1..Len(queue) : msg < queue[k]
      BY <2>1 DEF SenderInv, MsgWasQueued
    <2>3. PayloadLen(msg) \in Nat
      BY <2>1, PacketsAssumption DEF PayloadLen
    <2> QED
      BY <1>0, <2>1, <2>2, <2>3
  <1>3. CASE SendUnit
    BY <1>1, <1>2, <1>3, SentUnits
  <1>4. CASE ~SendUnit
    BY <1>1, <1>4, WrittenOrNot DEF NothingWritten
  <1> QED
    BY <1>3, <1>4

LEMMA MsgWasQueuedStep ==
    ASSUME TypeOK, InBounds, SenderInv, [Next]_vars
    PROVE  MsgWasQueued'
  <1>0. /\ arrived \in Nat /\ arrived' \in Nat /\ arrived <= arrived'
        /\ \A k \in 1..Len(queue') :
               \/ \E j \in 1..Len(queue) : queue'[k] = queue[j]
               \/ queue'[k] = arrived + 1 /\ arrived' = arrived + 1
        /\ Recv => /\ msg' \in 1..arrived
                   /\ \A k \in 1..Len(queue') : msg' < queue'[k]
    BY QueueFacts DEF SenderInv
  <1>1. CASE Recv
    BY <1>0, <1>1 DEF MsgWasQueued
  <1>2. CASE ~Recv
    <2>1. spc' \in {"send", "verdict"} => spc \in {"send", "verdict"} /\ msg' = msg
      BY <1>2, StepCases, SendFacts, TransportFacts
      DEF Arrival, Connect, HalfClose, SenderGoes, Move, Exit, Idle
    <2> QED
      BY <1>0, <2>1 DEF SenderInv, MsgWasQueued
  <1> QED
    BY <1>1, <1>2

LEMMA MsgIsNewestStep ==
    ASSUME TypeOK, InBounds, SenderInv, [Next]_vars
    PROVE  MsgIsNewest'
  <1> SUFFICES ASSUME spc' = "send"
               PROVE  /\ \A c \in 1..Len(stream') : \A i \in 1..Len(stream'[c]) :
                             \/ stream'[c][i][1] < msg'
                             \/ /\ c = dst' /\ stream'[c][i][1] = msg'
                                /\ stream'[c][i][2] <= sent'
                      /\ dst' \in tx' /\ sent' > 0 =>
                             /\ stream'[dst'] # <<>>
                             /\ stream'[dst'][Len(stream'[dst'])] = <<msg', sent'>>
    BY DEF MsgIsNewest, Conn
  <1>1. CASE Recv
    <2>1. stream' = stream /\ sent' = 0
      BY <1>1 DEF Recv, vsockVars
    <2>2. \E j \in 1..Len(queue) : msg' = queue[j]
      BY <1>1, QueueFacts DEF SenderInv
    <2> QED
      BY <2>1, <2>2 DEF SenderInv, UnitsWereQueued, Conn
  <1>2. CASE SendUnit
    <2>1. /\ spc = "send" /\ sent' = sent + 1 /\ msg' = msg /\ dst' = dst
          /\ sent \in Nat /\ dst \in Conn /\ msg \in Packet
      BY <1>2, SendFacts
    <2>2. ASSUME NEW c \in 1..Len(stream'), NEW i \in 1..Len(stream'[c])
          PROVE  \/ stream'[c][i][1] < msg'
                 \/ /\ c = dst' /\ stream'[c][i][1] = msg'
                    /\ stream'[c][i][2] <= sent'
      <3>1. CASE c \in Conn /\ i \in 1..Len(stream[c]) /\ stream'[c][i] = stream[c][i]
        <4>1. stream[c][i][2] \in Nat
          BY <3>1, UnitFacts
        <4> QED
          BY <2>1, <3>1, <4>1 DEF SenderInv, MsgIsNewest
      <3>2. CASE c = dst /\ stream'[c][i] = <<msg, sent + 1>>
        BY <2>1, <3>2
      <3> QED
        BY <1>2, <3>1, <3>2, SentUnits
    <2>3. Len(stream[dst]) \in Nat /\ stream'[dst] \in Seq(Unit)
      <3>1. stream \in Seq(Seq(Unit)) /\ stream' \in Seq(Seq(Unit))
        BY TypeStep DEF TypeOK, VsockTypeOK
      <3>2. dst \in 1..Len(stream) /\ dst \in 1..Len(stream')
        BY <2>1, <1>2, SendFacts DEF Conn
      <3> QED
        BY <3>1, <3>2
    <2>4. Len(stream'[dst]) = Len(stream[dst]) + 1
      BY <1>2, SendFacts
    <2>5. stream'[dst'][Len(stream'[dst'])] = <<msg', sent'>>
      BY <1>2, <2>1, <2>4, SendFacts
    <2>6. stream'[dst'] # <<>>
      BY <2>1, <2>3, <2>4
    <2> QED
      BY <2>2, <2>5, <2>6
  <1>3. CASE ~Recv /\ ~SendUnit
    <2>1. /\ spc = "send" /\ msg' = msg /\ sent' = sent /\ dst' = dst
          /\ dst' \in tx' => dst \in tx /\ stream'[dst] = stream[dst]
      BY <1>3, StepCases, TransportFacts
      DEF Arrival, Connect, HalfClose, SenderGoes, Move, Exit, Idle
    <2>2. NothingWritten
      BY <1>3, WrittenOrNot
    <2> QED
      BY <2>1, <2>2 DEF NothingWritten, SenderInv, MsgIsNewest
  <1> QED
    BY <1>1, <1>2, <1>3

LEMMA DstIsLastStep ==
    ASSUME TypeOK, InBounds, SenderInv, [Next]_vars
    PROVE  DstIsLast'
  <1>0. Len(stream) \in Nat /\ dst \in 0..Len(stream) /\ DstIsLast
    BY DEF SenderInv, TypeOK, VsockTypeOK, NfqToVsockTypeOK
  <1>1. CASE Arrival \/ Idle
    BY <1>0, <1>1 DEF Arrival, Idle, DstIsLast
  <1>2. CASE Connect
    BY <1>0, <1>2, ConnectFacts DEF Connect, SenderGoes, DstIsLast
  <1>3. CASE HalfClose
    BY <1>0, <1>3 DEF HalfClose, SenderGoes, CloseTx, DstIsLast
  <1>4. CASE Recv
    BY <1>0, <1>4 DEF Recv, SenderGoes, vsockVars, DstIsLast
  <1>5. CASE SendUnit
    BY <1>0, <1>5, SendFacts DEF DstIsLast
  <1>6. CASE Move
    BY <1>0, <1>6 DEF Move, DstIsLast
  <1>7. CASE Exit
    BY <1>0, <1>7 DEF Exit, DstIsLast
  <1>8. CASE TransportFailure
    <2>1. spc = "half_close" => stream'[Len(stream)] = <<>>
      <3>1. SUFFICES ASSUME spc = "half_close" PROVE stream'[Len(stream)] = <<>>
        OBVIOUS
      <3>2. Len(stream) \in Conn /\ Len(stream[Len(stream)]) = 0
        BY <1>0, <3>1 DEF DstIsLast, Conn
      <3>3. stream' \in Seq(Seq(Unit)) /\ Len(stream') = Len(stream)
        BY <1>8, TransportFacts, TypeStep DEF TypeOK, VsockTypeOK
      <3>4. stream'[Len(stream)] \in Seq(Unit)
        BY <3>2, <3>3 DEF Conn
      <3>5. \A i \in 1..Len(stream'[Len(stream)]) : FALSE
        BY <1>8, <3>2, <3>3, TransportFacts DEF NothingWritten, Conn
      <3> QED
        BY <3>4, <3>5
    <2> QED
      BY <1>0, <1>8, <2>1, TransportFacts DEF DstIsLast
  <1> QED
    BY <1>1, <1>2, <1>3, <1>4, <1>5, <1>6, <1>7, <1>8, StepCases

LEMMA StartsAtFirstUnitStep ==
    ASSUME TypeOK, InBounds, SenderInv, [Next]_vars
    PROVE  StartsAtFirstUnit'
  <1>0. stream' \in Seq(Seq(Unit)) /\ stream \in Seq(Seq(Unit))
    BY TypeStep DEF TypeOK, VsockTypeOK
  <1> SUFFICES ASSUME NEW c \in 1..Len(stream'), stream'[c] # <<>>
               PROVE  stream'[c][1][2] = 1
    BY DEF StartsAtFirstUnit, Conn
  <1>1. 1 \in 1..Len(stream'[c])
    BY <1>0
  <1>2. CASE c \in Conn /\ 1 \in 1..Len(stream[c]) /\ stream'[c][1] = stream[c][1]
    <2>1. stream[c] # <<>>
      BY <1>2
    <2> QED
      BY <1>2, <2>1 DEF SenderInv, StartsAtFirstUnit
  <1>3. CASE SendUnit /\ c = dst /\ 1 = Len(stream[dst]) + 1 /\ stream'[c][1] = <<msg, sent + 1>>
    <2>1. /\ dst \in tx /\ dst \in Conn /\ spc = "send" /\ sent \in Nat
          /\ stream[dst] \in Seq(Unit)
      BY <1>0, <1>3, SendFacts DEF Conn
    <2>2. stream[dst] = <<>>
      BY <1>3, <2>1
    <2>3. ~(sent > 0)
      BY <2>1, <2>2 DEF SenderInv, MsgIsNewest
    <2> QED
      BY <1>3, <2>1, <2>3
  <1>4. CASE SendUnit
    BY <1>1, <1>2, <1>3, <1>4, SentUnits
  <1>5. CASE ~SendUnit
    BY <1>1, <1>2, <1>5, WrittenOrNot DEF NothingWritten
  <1> QED
    BY <1>4, <1>5

LEMMA SenderInvStep ==
    ASSUME TypeOK, InBounds, SenderInv, [Next]_vars
    PROVE  SenderInv'
  BY QueueFacts, StreamsOrderedStep, UnitsWereQueuedStep, MsgWasQueuedStep,
     MsgIsNewestStep, DstIsLastStep, StartsAtFirstUnitStep
  DEF SenderInv

\* Whatever fails, packets go to the connections in the order the queue gave
\* them out, and each connection starts at the first unit of a packet.
THEOREM SenderCorrect == Spec => []SenderInv
  BY TypeInit, TypeStep, SenderInvInit, SenderInvStep, PTL DEF Spec

\* A connection never carries on with what an earlier one carried: nfq.rs
\* forgets a message whose write failed, and makes a new connection for the
\* next one.
THEOREM FreshConnectionsCorrect == Spec => []FreshConnections
  <1>1. SenderInv => FreshConnections
    BY DEF SenderInv, StreamsOrdered, StartsAtFirstUnit, FreshConnections
  <1> QED
    BY <1>1, SenderCorrect, PTL

-----------------------------------------------------------------------------
(* ReceiverInv is inductive when payloads are whole.                       *)

LEMMA ReceiverInvInit == Init => ReceiverInv
  BY DEF Init, VsockInit, NfqToVsockInit, VsockToIpv4Init, ReceiverInv, StreamsFramed,
         SenderAtBoundary, ReceiverInFrame, Verbatim, InOrder, OutIsOldest, Serving,
         Conn

LEMMA WholePayload ==
    ASSUME Untruncated, NEW p \in Packet
    PROVE  PayloadLen(p) = Size[p] /\ Size[p] \in HeaderLen..MaxPacketSize
  BY PacketsAssumption DEF Untruncated, PayloadLen

LEMMA StreamsFramedStep ==
    ASSUME Untruncated, TypeOK, InBounds, SenderInv, ReceiverInv, [Next]_vars
    PROVE  StreamsFramed'
  <1>0. stream' \in Seq(Seq(Unit)) /\ stream \in Seq(Seq(Unit))
    BY TypeStep DEF TypeOK, VsockTypeOK
  <1> SUFFICES ASSUME NEW c \in 1..Len(stream'), NEW i \in 1..(Len(stream'[c]) - 1)
               PROVE  IF stream'[c][i][2] = Size[stream'[c][i][1]]
                      THEN stream'[c][i + 1][2] = 1
                      ELSE stream'[c][i + 1] = <<stream'[c][i][1], stream'[c][i][2] + 1>>
    BY DEF StreamsFramed, Complete, Conn
  <1>1. i \in 1..Len(stream'[c]) /\ i + 1 \in 1..Len(stream'[c])
    BY <1>0
  <1>2. CASE /\ c \in Conn /\ i + 1 \in 1..Len(stream[c]) /\ i \in 1..Len(stream[c])
             /\ stream'[c][i] = stream[c][i] /\ stream'[c][i + 1] = stream[c][i + 1]
    <2>1. i \in 1..(Len(stream[c]) - 1)
      BY <1>0, <1>2 DEF Conn
    <2> QED
      BY <1>2, <2>1 DEF ReceiverInv, StreamsFramed, Complete
  <1>3. CASE SendUnit /\ c = dst /\ i + 1 = Len(stream[dst]) + 1
    <2>1. /\ dst \in Conn /\ dst \in tx /\ msg \in Packet /\ sent \in Nat
          /\ sent < Size[msg] /\ spc = "send" /\ Len(stream[dst]) \in Nat
      BY <1>0, <1>3, SendFacts, WholePayload DEF Conn
    <2>2. /\ i = Len(stream[dst]) /\ stream[dst] # <<>>
          /\ stream'[c][i] = stream[dst][Len(stream[dst])]
          /\ stream'[c][i + 1] = <<msg, sent + 1>>
      BY <1>3, <2>1, SendFacts
    <2>3. CASE sent = 0
      BY <2>1, <2>2, <2>3 DEF ReceiverInv, SenderAtBoundary, Complete, Conn
    <2>4. CASE sent > 0
      <3>1. stream'[c][i] = <<msg, sent>>
        BY <2>1, <2>2, <2>4 DEF SenderInv, MsgIsNewest
      <3> QED
        BY <2>1, <2>2, <3>1
    <2> QED
      BY <2>1, <2>3, <2>4
  <1>4. CASE SendUnit
    <2>1. c \in Conn /\ Len(stream[dst]) \in Nat /\ dst \in Conn
      BY <1>0, <1>1, <1>4, SentUnits, SendFacts DEF Conn
    <2>2. CASE c = dst /\ i + 1 = Len(stream[dst]) + 1
      BY <1>3, <1>4, <2>2
    <2>3. CASE i + 1 \in 1..Len(stream[c])
      <3>1. i \in 1..Len(stream[c])
        BY <1>0, <2>1, <2>3 DEF Conn
      <3> QED
        BY <1>1, <1>2, <1>4, <2>1, <2>3, <3>1, SendFacts
    <2> QED
      BY <1>1, <1>4, <2>2, <2>3, SentUnits
  <1>5. CASE ~SendUnit
    BY <1>1, <1>2, <1>5, WrittenOrNot DEF NothingWritten
  <1> QED
    BY <1>4, <1>5

LEMMA SenderAtBoundaryStep ==
    ASSUME Untruncated, TypeOK, InBounds, SenderInv, ReceiverInv, [Next]_vars
    PROVE  SenderAtBoundary'
  <1> SUFFICES ASSUME dst' # 0, dst' \in tx', stream'[dst'] # <<>>,
                      \/ spc' \in {"queue", "loop", "recv", "verdict"}
                      \/ spc' = "send" /\ sent' = 0
               PROVE  Complete(stream'[dst'][Len(stream'[dst'])])
    BY DEF SenderAtBoundary, Complete
  <1>0. /\ SenderAtBoundary /\ DstIsLast
        /\ stream \in Seq(Seq(Unit)) /\ dst \in 0..Len(stream) /\ tx \subseteq Conn
    BY DEF ReceiverInv, SenderInv, TypeOK, VsockTypeOK, NfqToVsockTypeOK
  <1>1. CASE Arrival \/ Idle
    BY <1>0, <1>1 DEF Arrival, Idle, SenderAtBoundary
  <1>2. CASE Connect \/ Exit
    BY <1>2 DEF Connect, SenderGoes, Exit
  <1>3. CASE HalfClose
    BY <1>0, <1>3 DEF HalfClose, SenderGoes, CloseTx, DstIsLast
  <1>4. CASE Recv
    BY <1>0, <1>4 DEF Recv, SenderGoes, vsockVars, SenderAtBoundary
  <1>5. CASE SendUnit
    <2>1. /\ spc' = "verdict" /\ sent + 1 = Size[msg] /\ msg \in Packet
          /\ dst' = dst /\ sent \in Nat
      BY <1>5, SendFacts, WholePayload, PacketsAssumption
    <2>2. stream'[dst][Len(stream'[dst])] = <<msg, sent + 1>>
      BY <1>5, SendFacts
    <2> QED
      BY <2>1, <2>2 DEF Complete
  <1>6. CASE Move
    BY <1>0, <1>6 DEF Move, SenderAtBoundary, DstIsLast
  <1>7. CASE TransportFailure
    BY <1>0, <1>7, TransportFacts DEF SenderAtBoundary
  <1> QED
    BY <1>1, <1>2, <1>3, <1>4, <1>5, <1>6, <1>7, StepCases

\* The next unit continues the packet in the buffer, or starts a new one.
LEMMA ReadInFrame ==
    ASSUME Untruncated, TypeOK, InBounds, SenderInv, ReceiverInv,
           rpc \in {"header", "body"}, nread < Len(stream[accepted])
    PROVE  \E q \in Packet :
               /\ got + 1 <= Size[q]
               /\ \A k \in 1..(got + 1) : stream[accepted][nread - got + k] = <<q, k>>
               /\ rpc = "body" => size = Size[q]
  <1>1. /\ accepted \in Conn /\ nread \in Nat /\ got \in Nat /\ got <= nread
        /\ stream[accepted] \in Seq(Unit) /\ Len(stream[accepted]) \in Nat
        /\ rpc \in Serving
    BY DEF TypeOK, VsockTypeOK, VsockToIpv4TypeOK, InBounds, GotInBounds, Serving, Conn
  <1>2. nread + 1 \in 1..Len(stream[accepted])
    BY <1>1
  <1>3. PICK q \in Packet, m \in Nat : stream[accepted][nread + 1] = <<q, m>>
    BY <1>1, <1>2, UnitFacts DEF Packet
  <1>4. CASE got = 0
    <2>1. stream[accepted][nread + 1][2] = 1
      <3>1. CASE nread = 0
        BY <1>1, <3>1, <1>2 DEF SenderInv, StartsAtFirstUnit
      <3>2. CASE nread # 0
        <4>1. Complete(stream[accepted][nread])
          BY <1>1, <1>4, <3>2 DEF ReceiverInv, ReceiverInFrame
        <4>2. nread \in 1..(Len(stream[accepted]) - 1)
          BY <1>1, <3>2
        <4> QED
          BY <1>1, <4>1, <4>2 DEF ReceiverInv, StreamsFramed
      <3> QED
        BY <3>1, <3>2
    <2>2. rpc # "body"
      BY <1>4 DEF InBounds, GotInBounds
    <2> QED
      BY <1>1, <1>3, <1>4, <2>1, <2>2, PacketsAssumption
  <1>5. CASE got # 0
    <2>1. PICK p \in Packet : Holds(p) /\ (rpc = "body" => size = Size[p])
      BY <1>1, <1>5 DEF ReceiverInv, ReceiverInFrame
    <2>2. got < Size[p] /\ Size[p] \in Nat
      BY <2>1, PacketsAssumption, <1>1 DEF InBounds, GotInBounds
    <2>3. stream[accepted][nread] = <<p, got>>
      BY <1>1, <1>5, <2>1 DEF Holds
    <2>4. ~Complete(stream[accepted][nread])
      BY <1>1, <2>2, <2>3 DEF Complete
    <2>5. nread \in 1..(Len(stream[accepted]) - 1)
      BY <1>1, <1>5
    <2>6. stream[accepted][nread + 1] = <<p, got + 1>>
      <3>1. stream[accepted][nread + 1]
              = <<stream[accepted][nread][1], stream[accepted][nread][2] + 1>>
        BY <1>1, <2>4, <2>5 DEF ReceiverInv, StreamsFramed
      <3>2. stream[accepted][nread][1] = p /\ stream[accepted][nread][2] = got
        BY <2>3
      <3> QED
        BY <3>1, <3>2
    <2>7. ASSUME NEW k \in 1..(got + 1)
          PROVE  stream[accepted][nread - got + k] = <<p, k>>
      <3>1. CASE k \in 1..got
        BY <2>1, <3>1 DEF Holds
      <3>2. CASE k = got + 1
        BY <1>1, <2>6, <3>2
      <3> QED
        BY <1>1, <3>1, <3>2
    <2> QED
      BY <1>1, <2>1, <2>2, <2>7
  <1> QED
    BY <1>4, <1>5

\* What is decoded is the header of the packet in the buffer.
LEMMA HeaderInFrame ==
    ASSUME Untruncated, TypeOK, InBounds, ReceiverInv, rpc = "decode"
    PROVE  \E q \in Packet :
               /\ Holds(q) /\ got = HeaderLen
               /\ Answers(Buffered) = {[ok |-> TRUE, size |-> Size[q], proto |-> Proto[q]]}
  <1>1. got = HeaderLen /\ rpc \in Serving
    BY DEF InBounds, GotInBounds, Serving
  <1>2. PICK q \in Packet : Holds(q)
    BY <1>1, PacketsAssumption DEF ReceiverInv, ReceiverInFrame
  <1>3. /\ Buffered \in Seq(Unit) /\ Len(Buffered) = HeaderLen
        /\ \A k \in 1..HeaderLen : Buffered[k] = <<q, k>>
    BY <1>1, <1>2, BufferedTyped DEF InBounds, Holds
  <1>4. Buffered = [k \in 1..HeaderLen |-> <<q, k>>]
    <2>1. Buffered = [k \in 1..HeaderLen |-> Buffered[k]]
      BY <1>3
    <2> QED
      BY <1>3, <2>1
  <1>5. Buffered[1][1] = q
    BY <1>3, PacketsAssumption
  <1>6. Answers(Buffered) = {[ok |-> TRUE, size |-> Size[q], proto |-> Proto[q]]}
    BY <1>4, <1>5 DEF Answers
  <1> QED
    BY <1>1, <1>2, <1>6

LEMMA DecodeInFrame ==
    ASSUME Untruncated, TypeOK, InBounds, SenderInv, ReceiverInv, Decode
    PROVE  \E q \in Packet :
               /\ Holds(q) /\ got = HeaderLen /\ size' = Size[q]
               /\ rpc' = AfterRead(got, Size[q], Proto[q])
               /\ got' = Keep(got, rpc')
  <1>1. rpc = "decode"
    BY DEF Decode
  <1>2. PICK q \in Packet :
            /\ Holds(q) /\ got = HeaderLen
            /\ Answers(Buffered) = {[ok |-> TRUE, size |-> Size[q], proto |-> Proto[q]]}
    BY <1>1, HeaderInFrame
  <1>3. PICK a \in Answers(Buffered) :
            /\ rpc' = AfterRead(got, a.size, a.proto)
            /\ got' = Keep(got, rpc')
            /\ size' = a.size
    BY DEF Decode
  <1> QED
    BY <1>2, <1>3

\* A receiving step that does not touch the payload buffer.
Aside ==
    /\ stream' = stream /\ out' = out
    /\ \/ rpc' \notin Serving /\ accepted <= accepted'
       \/ rpc' \in Serving /\ got = 0 /\ got' = 0 /\ nread' = 0 /\ accepted' = accepted + 1
       \/ UNCHANGED <<accepted, nread, got, size>> /\ rpc \in Serving
          /\ (rpc' = rpc \/ got = 0)

LEMMA ReceiverCases ==
    ASSUME TypeOK, InBounds, ReceiverStep \/ ReceiverFailure
    PROVE  ReadHeader \/ ReadBody \/ Decode \/ Inject \/ InjectFails \/ Aside
  <1>0. accepted \in 0..Len(stream) /\ Len(stream) \in Nat
    BY DEF TypeOK, VsockTypeOK
  <1>1. Listen \/ StartAccept \/ AcceptFails \/ ReceiverRestarts => Aside
    BY <1>0 DEF Listen, StartAccept, AcceptFails, ReceiverRestarts, ReceiverGoes,
           OpenListener, vsockVars, Aside, Serving
  <1>2. Accept => Aside
    BY <1>0 DEF Accept, ReceiverGoes, TakeConnection, Aside, Serving, InBounds, GotInBounds
  <1>3. ServeConnection \/ (\E s \in SinkProtocols : OpenSink(s)) \/ ReceiverContinues => Aside
    BY <1>0 DEF ServeConnection, OpenSink, ReceiverContinues, ReceiverGoes, vsockVars, Aside,
           Serving, InBounds, GotInBounds
  <1>4. EndOfStream \/ ReadFails => Aside
    BY <1>0 DEF EndOfStream, ReadFails, ReadError, AfterReadError, CloseRx, Aside, Serving
  <1>5. BadHeader \/ ReceiverStops \/ ReceiverDies \/ ReceiverCrashes => Aside
    BY <1>0 DEF BadHeader, ReceiverStops, ReceiverDies, ReceiverCrashes, ReceiverExits,
           CloseListener, Aside, Serving
  <1>6. CancelReceiver => Aside
    BY <1>0 DEF CancelReceiver, vsockVars, Aside
  <1> QED
    BY <1>1, <1>2, <1>3, <1>4, <1>5, <1>6 DEF ReceiverStep, ReceiverFailure

\* What the other actors leave of the receiving worker's state.
LEMMA Undisturbed ==
    ASSUME TypeOK, InBounds, [Next]_vars, ~ReceiverNext
    PROVE  /\ UNCHANGED <<rpc, got, size, out, accepted, nread>>
           /\ rpc \in Serving =>
                  /\ nread <= Len(stream'[accepted])
                  /\ \A i \in 1..nread : stream'[accepted][i] = stream[accepted][i]
  <1>0. stream \in Seq(Seq(Unit)) /\ nread \in Nat /\ accepted \in 0..Len(stream)
    BY DEF TypeOK, VsockTypeOK
  <1>1. rpc \in Serving => accepted \in Conn /\ nread <= Len(stream[accepted])
    BY <1>0 DEF InBounds, GotInBounds, Conn
  <1>2. CASE KernelStep \/ KernelFailure \/ UNCHANGED vars
    BY <1>1, <1>2 DEF KernelStep, KernelFailure, vars, vsockVars, receiverVars
  <1>3. CASE TransportFailure
    BY <1>0, <1>1, <1>3, TransportFacts DEF Conn
  <1>4. CASE SenderNext
    <2>1. UNCHANGED <<accepted, nread>>
      BY <1>4 DEF SenderNext, SenderStep, SenderFailure, OpenQueue, Connect, HalfClose,
             SenderContinues, Recv, RecvOverflow, RecvFails, SendUnit, SendRefused, SendFails,
             SendError, IssueVerdict, VerdictFails, SenderStops, SenderDies, SenderCrashes,
             SenderExits, CancelSender, SenderRestarts, OpenConnection, Write, CloseTx,
             vsockVars
    <2>2. UNCHANGED <<rpc, got, size, out>>
      BY <1>4 DEF SenderNext, receiverVars
    <2>3. CASE Connect
      <3>1. \A c \in Conn : stream'[c] = stream[c]
        BY <1>0, <2>3, OpenStream DEF Connect, OpenConnection
      <3> QED
        BY <1>1, <2>1, <2>2, <3>1
    <2>4. CASE SendUnit
      <3>1. \A c \in Conn : /\ Len(stream[c]) <= Len(stream'[c])
                            /\ \A i \in 1..Len(stream[c]) : stream'[c][i] = stream[c][i]
        <4> SUFFICES ASSUME NEW c \in Conn
                     PROVE  /\ Len(stream[c]) <= Len(stream'[c])
                            /\ \A i \in 1..Len(stream[c]) : stream'[c][i] = stream[c][i]
          OBVIOUS
        <4>1. Len(stream[c]) \in Nat
          BY <1>0 DEF Conn
        <4> QED
          BY <2>4, <4>1, SendFacts
      <3>2. rpc \in Serving => Len(stream[accepted]) \in Nat /\ Len(stream'[accepted]) \in Nat
        <4>1. stream' \in Seq(Seq(Unit)) /\ Len(stream') = Len(stream)
          BY <2>4, SendFacts, TypeStep DEF TypeOK, VsockTypeOK
        <4> QED
          BY <1>0, <1>1, <4>1 DEF Conn
      <3> QED
        BY <1>0, <1>1, <2>1, <2>2, <3>1, <3>2
    <2>5. CASE ~Connect /\ ~SendUnit
      <3>1. stream' = stream
        BY <1>4, <2>5, SenderCases
        DEF SenderNext, HalfClose, CloseTx, Recv, vsockVars, Move, Exit, Idle
      <3> QED
        BY <1>1, <2>1, <2>2, <3>1
    <2> QED
      BY <2>3, <2>4, <2>5
  <1> QED
    BY <1>2, <1>3, <1>4 DEF Next

LEMMA ReceiverNextCases ==
    ASSUME TypeOK, InBounds, ReceiverNext
    PROVE  /\ ReadHeader \/ ReadBody \/ Decode \/ Inject \/ InjectFails \/ Aside
           /\ stream' = stream
           /\ UNCHANGED <<arrived, queue, spc, msg>>
  BY ReceiverCases
  DEF ReceiverNext, nfqVars, senderVars, ReadHeader, ReadBody, ReadUnit, Decode, Inject,
      InjectFails, Aside, vsockVars

\* A packet that is in the buffer as a whole.
LEMMA InjectFacts ==
    ASSUME TypeOK, InBounds, ReceiverInv, rpc = "inject"
    PROVE  \E q \in Packet :
               /\ Holds(q) /\ got = Size[q] /\ got \in Nat \ {0}
               /\ Buffered = Wire(q)
               /\ stream[accepted][nread - got + 1] = <<q, 1>>
               /\ stream[accepted][nread] = <<q, Size[q]>>
               /\ accepted \in Conn
               /\ nread \in 1..Len(stream[accepted])
               /\ nread - got + 1 \in 1..Len(stream[accepted])
  <1>1. /\ got # 0 /\ got = size /\ got \in Nat /\ nread \in Nat /\ got <= nread
        /\ accepted \in Conn /\ nread <= Len(stream[accepted]) /\ rpc \in Serving
    BY DEF TypeOK, VsockTypeOK, VsockToIpv4TypeOK, InBounds, GotInBounds, Serving, Conn
  <1>2. PICK q \in Packet : Holds(q) /\ size = Size[q]
    BY <1>1 DEF ReceiverInv, ReceiverInFrame
  <1>3. /\ Buffered \in Seq(Unit) /\ Len(Buffered) = Size[q]
        /\ \A k \in 1..Size[q] : Buffered[k] = <<q, k>>
    BY <1>1, <1>2, BufferedTyped DEF InBounds, Holds
  <1>4. Buffered = Wire(q)
    <2>1. Buffered = [k \in 1..Size[q] |-> Buffered[k]]
      BY <1>3
    <2> QED
      BY <1>3, <2>1 DEF Wire
  <1>5. 1 \in 1..got /\ got \in 1..got /\ nread - got + got = nread
    BY <1>1
  <1>6. stream[accepted][nread - got + 1] = <<q, 1>>
    BY <1>2, <1>5 DEF Holds
  <1>7. stream[accepted][nread] = <<q, Size[q]>>
    BY <1>1, <1>2, <1>5 DEF Holds
  <1>8. Len(stream[accepted]) \in Nat
    BY <1>1 DEF TypeOK, VsockTypeOK, Conn
  <1>9. nread \in 1..Len(stream[accepted]) /\ nread - got + 1 \in 1..Len(stream[accepted])
    BY <1>1, <1>8
  <1>10. got = Size[q] /\ got \in Nat \ {0}
    BY <1>1, <1>2
  <1> QED
    BY <1>1, <1>2, <1>4, <1>6, <1>7, <1>9, <1>10

LEMMA ReceiverInFrameStep ==
    ASSUME Untruncated, TypeOK, InBounds, SenderInv, ReceiverInv, [Next]_vars
    PROVE  ReceiverInFrame'
  <1> SUFFICES ASSUME rpc' \in Serving
               PROVE  /\ got' = 0 /\ nread' # 0 => Complete(stream'[accepted'][nread'])
                      /\ got' # 0 => \E q \in Packet :
                             /\ got' <= Size[q]
                             /\ \A k \in 1..got' :
                                    stream'[accepted'][nread' - got' + k] = <<q, k>>
                             /\ rpc' \in {"body", "inject"} => size' = Size[q]
    BY DEF ReceiverInFrame, Holds, Complete
  <1>0. nread \in Nat /\ got \in Nat
    BY DEF TypeOK, VsockTypeOK, VsockToIpv4TypeOK
  <1>1. CASE ~ReceiverNext
    <2>1. /\ UNCHANGED <<rpc, got, size, accepted, nread>> /\ rpc \in Serving
          /\ \A i \in 1..nread : stream'[accepted][i] = stream[accepted][i]
      BY <1>1, Undisturbed
    <2>2. CASE got = 0
      BY <1>0, <2>1, <2>2 DEF ReceiverInv, ReceiverInFrame, Complete
    <2>3. CASE got # 0
      <3>1. PICK q \in Packet : Holds(q) /\ (rpc \in {"body", "inject"} => size = Size[q])
        BY <2>1, <2>3 DEF ReceiverInv, ReceiverInFrame
      <3>2. got <= nread
        BY <2>1 DEF InBounds, GotInBounds
      <3>3. \A k \in 1..got : nread - got + k \in 1..nread
        BY <1>0, <3>2
      <3> QED
        BY <2>1, <2>3, <3>1, <3>3 DEF Holds
    <2> QED
      BY <2>2, <2>3
  <1>2. CASE ReceiverNext
    <2>0. stream' = stream
      BY <1>2, ReceiverNextCases
    <2>1. CASE Aside
      BY <2>0, <2>1 DEF Aside, ReceiverInv, ReceiverInFrame, Holds, Complete
    <2>2. CASE ReadHeader \/ ReadBody
      <3>1. /\ rpc \in {"header", "body"} /\ nread < Len(stream[accepted])
            /\ nread' = nread + 1 /\ accepted' = accepted /\ size' = size
            /\ got' = got + 1 \/ (got' = 0 /\ got + 1 >= size /\ rpc = "body")
            /\ rpc = "header" => got' = got + 1 /\ rpc' \in {"header", "decode"}
        BY <1>0, <2>2
        DEF ReadHeader, ReadBody, ReadUnit, Readable, ReceiverGoes, AfterRead, Keep,
            TypeOK, VsockToIpv4TypeOK
      <3>2. PICK q \in Packet :
                /\ got + 1 <= Size[q]
                /\ \A k \in 1..(got + 1) : stream[accepted][nread - got + k] = <<q, k>>
                /\ rpc = "body" => size = Size[q]
        BY <3>1, ReadInFrame
      <3>3. CASE got' = got + 1
        <4>1. \A k \in 1..got' : nread' - got' + k = nread - got + k
          BY <1>0, <3>1, <3>3
        <4>2. got' # 0 /\ got' <= Size[q]
          BY <1>0, <3>2, <3>3
        <4>3. \A k \in 1..got' : stream'[accepted'][nread' - got' + k] = <<q, k>>
          BY <2>0, <3>1, <3>2, <3>3, <4>1
        <4>4. rpc' \in {"body", "inject"} => size' = Size[q]
          BY <3>1, <3>2
        <4> QED
          BY <4>2, <4>3, <4>4
      <3>4. CASE got' = 0
        <4>1. rpc = "body" /\ size = Size[q] /\ got + 1 = Size[q]
          BY <1>0, <3>1, <3>2, <3>4, PacketsAssumption
        <4>2. stream[accepted][nread + 1] = <<q, got + 1>>
          <5>1. got + 1 \in 1..(got + 1) /\ nread - got + (got + 1) = nread + 1
            BY <1>0
          <5> QED
            BY <3>2, <5>1
        <4> QED
          BY <2>0, <3>1, <3>4, <4>1, <4>2 DEF Complete
      <3> QED
        BY <3>1, <3>3, <3>4
    <2>3. CASE Decode
      <3>1. PICK q \in Packet :
                /\ Holds(q) /\ got = HeaderLen /\ size' = Size[q]
                /\ rpc' = AfterRead(got, Size[q], Proto[q])
                /\ got' = Keep(got, rpc')
        BY <2>3, DecodeInFrame
      <3>2. UNCHANGED <<accepted, nread>>
        BY <2>3 DEF Decode, vsockVars
      <3>3. CASE got' # 0
        BY <2>0, <3>1, <3>2, <3>3 DEF Keep, Holds
      <3>4. CASE got' = 0
        <4>1. got = Size[q] /\ got \in Nat \ {0} /\ got <= nread
          <5>1. rpc' = "loop" /\ rpc \in Serving
            BY <2>3, <3>1, <3>4, PacketsAssumption DEF Keep, Decode, Serving
          <5>2. ~(got < Size[q])
            BY <3>1, <5>1 DEF AfterRead
          <5> QED
            BY <3>1, <5>1, <5>2, PacketsAssumption DEF Holds, InBounds, GotInBounds
        <4>2. stream[accepted][nread] = <<q, Size[q]>>
          <5>1. got \in 1..got /\ nread - got + got = nread
            BY <1>0, <4>1
          <5> QED
            BY <3>1, <4>1, <5>1 DEF Holds
        <4> QED
          BY <2>0, <3>2, <3>4, <4>2 DEF Complete
      <3> QED
        BY <3>3, <3>4
    <2>4. CASE Inject \/ InjectFails
      <3>1. rpc = "inject" /\ got' = 0 /\ UNCHANGED <<accepted, nread>>
        BY <2>4 DEF Inject, InjectFails, ReceiverGoes, vsockVars
      <3> QED
        BY <2>0, <3>1, InjectFacts DEF Complete
    <2> QED
      BY <1>2, <2>1, <2>2, <2>3, <2>4, ReceiverNextCases
  <1> QED
    BY <1>1, <1>2

\* The packets delivered have arrived.
LEMMA OutIds ==
    ASSUME TypeOK, Verbatim, NEW i \in 1..Len(out)
    PROVE  out[i][1][1] \in 1..arrived
  <1>1. PICK p \in 1..arrived : out[i] = Wire(p)
    BY DEF Verbatim
  <1>2. p \in Packet
    BY <1>1, PacketsAssumption DEF TypeOK, NetfilterQueueTypeOK, Packet
  <1>3. 1 \in 1..Size[p]
    BY <1>2, PacketsAssumption
  <1> QED
    BY <1>1, <1>3 DEF Wire

\* What the raw socket is given is the oldest packet there is.
LEMMA InjectOldest ==
    ASSUME Untruncated, TypeOK, InBounds, SenderInv, ReceiverInv, rpc = "inject"
    PROVE  \E q \in Packet :
               /\ Buffered = Wire(q) /\ Wire(q)[1][1] = q
               /\ q \in 1..arrived
               /\ \A i \in 1..Len(out) : out[i][1][1] < q
               /\ \A c \in Conn : \A j \in 1..Len(stream[c]) :
                      c > accepted \/ (c = accepted /\ j > nread) => q < stream[c][j][1]
               /\ \A k \in 1..Len(queue) : q < queue[k]
               /\ spc = "send" => q < msg
  <1>1. PICK q \in Packet :
            /\ Holds(q) /\ got = Size[q] /\ got \in Nat \ {0}
            /\ Buffered = Wire(q)
            /\ stream[accepted][nread - got + 1] = <<q, 1>>
            /\ stream[accepted][nread] = <<q, Size[q]>>
            /\ accepted \in Conn
            /\ nread \in 1..Len(stream[accepted])
            /\ nread - got + 1 \in 1..Len(stream[accepted])
    BY InjectFacts
  <1>2. accepted \in Nat /\ nread \in Nat /\ rpc \in Serving /\ arrived \in Nat
    BY PacketsAssumption
    DEF TypeOK, VsockTypeOK, NetfilterQueueTypeOK, Serving
  <1>3. Wire(q)[1][1] = q
    BY <1>1 DEF Wire
  <1>4. q \in 1..arrived /\ \A k \in 1..Len(queue) : q < queue[k]
    <2>1. stream[accepted][nread][1] = q /\ q \in Nat \ {0}
      BY <1>1, PacketsAssumption DEF Packet
    <2> QED
      BY <1>1, <1>2, <2>1 DEF SenderInv, UnitsWereQueued
  <1>5. \A i \in 1..Len(out) : out[i][1][1] < q
    <2>1. Pending(accepted, nread - got + 1)
      BY <1>1, <1>2 DEF Pending
    <2>2. stream[accepted][nread - got + 1][1] = q
      BY <1>1
    <2> QED
      BY <1>1, <2>1, <2>2 DEF ReceiverInv, OutIsOldest
  <1>6. ASSUME NEW c \in Conn, NEW j \in 1..Len(stream[c]),
               c > accepted \/ (c = accepted /\ j > nread)
        PROVE  q < stream[c][j][1]
    <2>1. stream[accepted][nread][1] = q /\ stream[accepted][nread][2] = Size[q]
      BY <1>1
    <2>2. CASE c > accepted
      BY <1>1, <1>2, <2>1, <2>2 DEF SenderInv, StreamsOrdered, Conn
    <2>3. CASE c = accepted /\ j > nread
      <3>1. Before(stream[accepted][nread], stream[accepted][j])
        BY <1>1, <1>2, <2>3 DEF SenderInv, StreamsOrdered
      <3>2. stream[accepted][j][2] <= PayloadLen(stream[accepted][j][1])
        BY <1>1, <2>3 DEF SenderInv, UnitsWereQueued
      <3>3. /\ stream[accepted][j][1] \in 1..MaxPackets
            /\ stream[accepted][j][2] \in 1..MaxPacketSize
        BY <1>1, <2>3, UnitFacts
      <3>4. stream[accepted][j][1] = q => stream[accepted][j][2] <= Size[q]
        BY <3>2, WholePayload
      <3>5. q < stream[accepted][j][1] \/ (q = stream[accepted][j][1] /\ Size[q] < stream[accepted][j][2])
        BY <2>1, <3>1 DEF Before
      <3>6. Size[q] \in Nat /\ stream[accepted][j][2] \in Nat
        <4>1. Size[q] \in HeaderLen..MaxPacketSize
          BY PacketsAssumption
        <4> QED
          BY <3>3, <4>1, PacketsAssumption
      <3>7. q < stream[accepted][j][1]
        BY <3>4, <3>5, <3>6
      <3> QED
        BY <2>3, <3>7
    <2> QED
      BY <1>6, <2>2, <2>3
  <1>7. spc = "send" => q < msg
    <2> SUFFICES ASSUME spc = "send" PROVE q < msg
      OBVIOUS
    <2>1. stream[accepted][nread][1] = q /\ stream[accepted][nread][2] = Size[q]
      BY <1>1
    <2>2. q < msg \/ (q = msg /\ Size[q] <= sent)
      BY <1>1, <2>1 DEF SenderInv, MsgIsNewest
    <2>3. msg \in Packet /\ sent < PayloadLen(msg) /\ sent \in Nat
      BY PacketsAssumption DEF InBounds, SentInBounds, TypeOK, NfqToVsockTypeOK, Packet
    <2>4. sent < Size[msg] /\ Size[msg] \in Nat
      BY <2>3, WholePayload, PacketsAssumption
    <2> QED
      BY <2>2, <2>3, <2>4
  <1> QED
    BY <1>1, <1>3, <1>4, <1>5, <1>6, <1>7

\* The two ways a step treats what was delivered.
LEMMA OutCases ==
    ASSUME TypeOK, InBounds, [Next]_vars
    PROVE  /\ out' = out \/ (Inject /\ ReceiverNext /\ out' = Append(out, Buffered))
           /\ out \in Seq(Seq(Unit))
  <1>1. ReceiverNext => out' = out \/ (Inject /\ out' = Append(out, Buffered))
    BY ReceiverNextCases
    DEF ReadHeader, ReadBody, Decode, Inject, InjectFails, Aside
  <1> QED
    BY <1>1, Undisturbed DEF TypeOK, VsockToIpv4TypeOK

LEMMA VerbatimStep ==
    ASSUME Untruncated, TypeOK, InBounds, SenderInv, ReceiverInv, [Next]_vars
    PROVE  Verbatim' /\ InOrder'
  <1>0. arrived \in Nat /\ arrived' \in Nat /\ arrived <= arrived'
    BY QueueFacts DEF SenderInv
  <1>1. CASE out' = out
    BY <1>0, <1>1 DEF ReceiverInv, Verbatim, InOrder
  <1>2. CASE Inject /\ out' = Append(out, Buffered)
    <2>1. PICK q \in Packet :
              /\ Buffered = Wire(q) /\ Wire(q)[1][1] = q
              /\ q \in 1..arrived
              /\ \A i \in 1..Len(out) : out[i][1][1] < q
      BY <1>2, InjectOldest DEF Inject, ReceiverGoes
    <2>2. /\ Len(out') = Len(out) + 1 /\ Len(out) \in Nat
          /\ out'[Len(out) + 1] = Wire(q)
          /\ \A i \in 1..Len(out) : out'[i] = out[i]
      BY <1>2, <2>1, OutCases
    <2>3. Verbatim'
      BY <1>0, <2>1, <2>2 DEF ReceiverInv, Verbatim
    <2>4. InOrder'
      BY <2>1, <2>2 DEF ReceiverInv, InOrder
    <2> QED
      BY <2>3, <2>4
  <1> QED
    BY <1>1, <1>2, OutCases

\* No step makes a unit pending again.
LEMMA PendingShrinks ==
    ASSUME TypeOK, InBounds, [Next]_vars, NEW c \in Nat, NEW j \in Nat \ {0},
           c > accepted' \/ (c = accepted' /\ rpc' \in Serving /\ j > nread' - got')
    PROVE  Pending(c, j)
  <1>0. /\ nread \in Nat /\ got \in Nat /\ accepted \in Nat
        /\ nread' \in Nat /\ got' \in Nat /\ accepted' \in Nat
    BY TypeStep DEF TypeOK, VsockTypeOK, VsockToIpv4TypeOK
  <1>1. CASE ~ReceiverNext
    BY <1>1, Undisturbed DEF Pending
  <1>2. CASE ReceiverNext
    <2>1. accepted <= accepted'
      <3>1. UNCHANGED <<accepted>> \/ Aside
        BY <1>2, ReceiverNextCases
        DEF ReadHeader, ReadBody, ReadUnit, Decode, Inject, InjectFails, vsockVars
      <3> QED
        BY <1>0, <3>1 DEF Aside
    <2>2. CASE c > accepted'
      <3>1. c > accepted
        BY <1>0, <2>1, <2>2
      <3> QED
        BY <3>1 DEF Pending
    <2>3. CASE c = accepted' /\ rpc' \in Serving /\ j > nread' - got'
      <3>1. CASE accepted' = accepted
        <4>1. /\ rpc \in Serving /\ nread \in Nat
              /\ \/ nread' = nread /\ (got' = got \/ got' = 0)
                 \/ nread' = nread + 1 /\ (got' = got + 1 \/ got' = 0)
          BY <1>0, <1>2, <2>3, <3>1, ReceiverNextCases
          DEF ReadHeader, ReadBody, ReadUnit, ReceiverGoes, Decode, Inject, InjectFails,
              vsockVars, Keep, Aside, Serving
        <4>2. j > nread - got
          <5>1. CASE nread' = nread /\ got' = got
            BY <2>3, <5>1
          <5>2. CASE nread' = nread /\ got' = 0
            BY <1>0, <2>3, <5>2
          <5>3. CASE nread' = nread + 1 /\ got' = got + 1
            BY <1>0, <2>3, <5>3
          <5>4. CASE nread' = nread + 1 /\ got' = 0
            BY <1>0, <2>3, <5>4
          <5> QED
            BY <4>1, <5>1, <5>2, <5>3, <5>4
        <4> QED
          BY <2>3, <3>1, <4>1, <4>2 DEF Pending
      <3>2. CASE accepted' # accepted
        <4>1. c > accepted
          BY <1>0, <2>1, <2>3, <3>2
        <4> QED
          BY <4>1 DEF Pending
      <3> QED
        BY <3>1, <3>2
    <2> QED
      BY <2>2, <2>3
  <1> QED
    BY <1>1, <1>2

LEMMA OutIsOldestStep ==
    ASSUME Untruncated, TypeOK, InBounds, SenderInv, ReceiverInv, [Next]_vars
    PROVE  OutIsOldest'
  <1>0. /\ stream \in Seq(Seq(Unit)) /\ stream' \in Seq(Seq(Unit))
        /\ accepted \in Nat /\ nread \in Nat /\ got \in Nat /\ arrived \in Nat
    BY TypeStep, QueueFacts DEF SenderInv, TypeOK, VsockTypeOK, VsockToIpv4TypeOK
  <1>1. CASE out' = out
    <2> SUFFICES ASSUME NEW i \in 1..Len(out)
                 PROVE  /\ \A c \in 1..Len(stream') : \A j \in 1..Len(stream'[c]) :
                               c > accepted' \/ (c = accepted' /\ rpc' \in Serving /\ j > nread' - got')
                                   => out[i][1][1] < stream'[c][j][1]
                        /\ \A k \in 1..Len(queue') : out[i][1][1] < queue'[k]
                        /\ spc' = "send" => out[i][1][1] < msg'
      BY <1>1 DEF OutIsOldest, Pending, Conn
    <2>0. /\ out[i][1][1] \in 1..arrived
          /\ \A k \in 1..Len(queue) : out[i][1][1] < queue[k]
          /\ spc = "send" => out[i][1][1] < msg
          /\ \A c \in Conn : \A j \in 1..Len(stream[c]) :
                 Pending(c, j) => out[i][1][1] < stream[c][j][1]
      BY OutIds DEF ReceiverInv, OutIsOldest
    <2>1. ASSUME NEW c \in 1..Len(stream'), NEW j \in 1..Len(stream'[c]),
                 c > accepted' \/ (c = accepted' /\ rpc' \in Serving /\ j > nread' - got')
          PROVE  out[i][1][1] < stream'[c][j][1]
      <3>1. c \in Nat /\ j \in Nat \ {0}
        BY <1>0
      <3>2. Pending(c, j)
        BY <2>1, <3>1, PendingShrinks
      <3>3. CASE c \in Conn /\ j \in 1..Len(stream[c]) /\ stream'[c][j] = stream[c][j]
        BY <2>0, <3>2, <3>3
      <3>4. CASE SendUnit /\ stream'[c][j] = <<msg, sent + 1>>
        BY <2>0, <3>4, SendFacts
      <3> QED
        BY <3>3, <3>4, SentUnits, WrittenOrNot DEF NothingWritten
    <2>2. ASSUME NEW k \in 1..Len(queue') PROVE out[i][1][1] < queue'[k]
      <3>1. CASE \E n \in 1..Len(queue) : queue'[k] = queue[n]
        BY <2>0, <3>1
      <3>2. CASE queue'[k] = arrived + 1
        BY <1>0, <2>0, <3>2
      <3> QED
        BY <3>1, <3>2, QueueFacts DEF SenderInv
    <2>3. spc' = "send" => out[i][1][1] < msg'
      <3>1. CASE Recv
        BY <2>0, <3>1, QueueFacts DEF SenderInv
      <3>2. CASE ~Recv
        <4>1. spc' = "send" => spc = "send" /\ msg' = msg
          BY <3>2, StepCases, SendFacts, TransportFacts
          DEF Arrival, Connect, HalfClose, SenderGoes, Move, Exit, Idle
        <4> QED
          BY <2>0, <4>1
      <3> QED
        BY <3>1, <3>2
    <2> QED
      BY <2>1, <2>2, <2>3
  <1>2. CASE Inject /\ ReceiverNext /\ out' = Append(out, Buffered)
    <2>1. PICK q \in Packet :
              /\ Buffered = Wire(q) /\ Wire(q)[1][1] = q
              /\ q \in 1..arrived
              /\ \A i \in 1..Len(out) : out[i][1][1] < q
              /\ \A c \in Conn : \A j \in 1..Len(stream[c]) :
                     c > accepted \/ (c = accepted /\ j > nread) => q < stream[c][j][1]
              /\ \A k \in 1..Len(queue) : q < queue[k]
              /\ spc = "send" => q < msg
      BY <1>2, InjectOldest DEF Inject, ReceiverGoes
    <2>2. /\ UNCHANGED <<queue, spc, msg>> /\ stream' = stream
          /\ UNCHANGED <<accepted, nread>> /\ got' = 0 /\ rpc = "inject"
      BY <1>2, ReceiverNextCases DEF Inject, ReceiverGoes, vsockVars
    <2>3. /\ Len(out') = Len(out) + 1 /\ Len(out) \in Nat
          /\ out'[Len(out) + 1] = Wire(q)
          /\ \A i \in 1..Len(out) : out'[i] = out[i]
      BY <1>2, <2>1, OutCases
    <2> SUFFICES ASSUME NEW i \in 1..Len(out')
                 PROVE  /\ \A c \in Conn : \A j \in 1..Len(stream[c]) :
                               c > accepted \/ (c = accepted /\ j > nread)
                                   => out'[i][1][1] < stream[c][j][1]
                        /\ \A k \in 1..Len(queue) : out'[i][1][1] < queue[k]
                        /\ spc = "send" => out'[i][1][1] < msg
      BY <1>0, <2>2 DEF OutIsOldest, Pending, Conn
    <2>4. CASE i = Len(out) + 1
      BY <2>1, <2>3, <2>4
    <2>5. CASE i \in 1..Len(out)
      <3>1. /\ \A k \in 1..Len(queue) : out[i][1][1] < queue[k]
            /\ spc = "send" => out[i][1][1] < msg
        BY <2>5 DEF ReceiverInv, OutIsOldest
      <3>2. ASSUME NEW c \in Conn, NEW j \in 1..Len(stream[c]),
                   c > accepted \/ (c = accepted /\ j > nread)
            PROVE  out[i][1][1] < stream[c][j][1]
        <4>1. j \in Nat
          BY <1>0 DEF Conn
        <4>2. Pending(c, j)
          BY <1>0, <2>2, <3>2, <4>1 DEF Pending, Serving
        <4> QED
          BY <2>5, <4>2 DEF ReceiverInv, OutIsOldest
      <3> QED
        BY <2>3, <2>5, <3>1, <3>2
    <2> QED
      BY <2>3, <2>4, <2>5
  <1> QED
    BY <1>1, <1>2, OutCases

LEMMA ReceiverInvStep ==
    ASSUME Untruncated, TypeOK, InBounds, SenderInv, ReceiverInv, [Next]_vars
    PROVE  ReceiverInv'
  BY StreamsFramedStep, SenderAtBoundaryStep, ReceiverInFrameStep, VerbatimStep,
     OutIsOldestStep
  DEF ReceiverInv

-----------------------------------------------------------------------------

\* When payloads are whole, the receiving worker is always at the place of
\* the stream it believes to be at, whatever connections, sockets and
\* processes were lost before.
THEOREM ReceiverCorrect ==
    ASSUME Untruncated
    PROVE  Spec => []ReceiverInv
  BY TypeInit, TypeStep, SenderInvInit, SenderInvStep, ReceiverInvInit, ReceiverInvStep,
     PTL DEF Spec

\* What reaches a raw socket is a packet exactly as the kernel queued it
\* ("we will be pushing packets verbatim", system/ipv4.rs:74).
THEOREM VerbatimCorrect ==
    ASSUME Untruncated
    PROVE  Spec => []Verbatim
  <1>1. ReceiverInv => Verbatim
    BY DEF ReceiverInv
  <1> QED
    BY <1>1, ReceiverCorrect, PTL

\* A step of the tunnel is a step of its promise, or does not show.
LEMMA PromiseStep ==
    ASSUME Untruncated, TypeOK, InBounds, SenderInv, ReceiverInv, [Next]_vars
    PROVE  [Promise!Next]_<<arrived, out>>
  <1>1. CASE out' = out
    <2>1. arrived' = arrived \/ Promise!Offer
      <3>1. CASE KernelStep \/ KernelFailure
        BY <1>1, <3>1
        DEF KernelStep, KernelFailure, PacketQueued, PacketRefused, PacketOverflows,
            NextPacket, Promise!Offer
      <3>2. CASE ~KernelStep /\ ~KernelFailure
        BY <3>2, SenderCases, SendFacts, ReceiverNextCases, TransportFacts
        DEF Next, SenderNext, vars, nfqVars, Connect, HalfClose, Recv, TakePacket, Move,
            Exit, Idle
      <3> QED
        BY <3>1, <3>2
    <2> QED
      BY <1>1, <2>1 DEF Promise!Next
  <1>2. CASE Inject /\ ReceiverNext /\ out' = Append(out, Buffered)
    <2>1. PICK q \in Packet :
              /\ Buffered = Wire(q)
              /\ q \in 1..arrived
              /\ \A i \in 1..Len(out) : out[i][1][1] < q
      BY <1>2, InjectOldest DEF Inject, ReceiverGoes
    <2>2. arrived' = arrived /\ q <= arrived
      BY <1>2, <2>1, ReceiverNextCases
    <2>3. Promise!Deliver(q)
      BY <1>2, <2>1, <2>2 DEF Promise!Deliver, Promise!Wire, Wire
    <2> QED
      BY <2>1, <2>3 DEF Promise!Next, Promise!Packet, Packet
  <1> QED
    BY <1>1, <1>2, OutCases

\* Each direction of the tunnel implements a lossy FIFO: whatever fails,
\* packets are lost, and never changed, repeated or reordered.
THEOREM ImplementsPromise ==
    ASSUME Untruncated
    PROVE  Spec => DeliversLossyFifo
  <1>1. Init => Promise!Init
    BY DEF Init, NetfilterQueueInit, VsockToIpv4Init, Promise!Init
  <1>2. Spec => [](TypeOK /\ InBounds) /\ []SenderInv /\ []ReceiverInv
    BY TypeCorrect, SenderCorrect, ReceiverCorrect
  <1>3. TypeOK /\ InBounds /\ SenderInv /\ ReceiverInv /\ [Next]_vars
            => [Promise!Next]_<<arrived, out>>
    BY PromiseStep
  <1> QED
    BY <1>1, <1>2, <1>3, PTL DEF Spec, DeliversLossyFifo, Promise!Spec

\* Wherever the receiving worker starts a packet, one starts in the stream.
THEOREM FramesAlignedCorrect ==
    ASSUME Untruncated
    PROVE  Spec => []FramesAligned
  <1>1. TypeOK /\ InBounds /\ SenderInv /\ ReceiverInv => FramesAligned
    <2> SUFFICES ASSUME TypeOK, InBounds, SenderInv, ReceiverInv,
                        rpc \in Serving, got = 0, Readable(accepted)
                 PROVE  stream[accepted][nread + 1][2] = 1
      BY DEF FramesAligned
    <2>1. /\ accepted \in Conn /\ nread \in Nat
          /\ nread < Len(stream[accepted]) /\ Len(stream[accepted]) \in Nat
      BY DEF Readable, InBounds, GotInBounds, TypeOK, VsockTypeOK, Conn
    <2>2. CASE nread = 0
      BY <2>1, <2>2 DEF SenderInv, StartsAtFirstUnit
    <2>3. CASE nread # 0
      <3>1. nread \in 1..(Len(stream[accepted]) - 1)
        BY <2>1, <2>3
      <3>2. Complete(stream[accepted][nread])
        BY <2>3 DEF ReceiverInv, ReceiverInFrame
      <3> QED
        BY <2>1, <3>1, <3>2 DEF ReceiverInv, StreamsFramed
    <2> QED
      BY <2>2, <2>3
  <1>2. Spec => [](TypeOK /\ InBounds) /\ []SenderInv /\ []ReceiverInv
    BY TypeCorrect, SenderCorrect, ReceiverCorrect
  <1> QED
    BY <1>1, <1>2, PTL

-----------------------------------------------------------------------------
(* BytesInv is inductive, whether payloads are whole or not.               *)

LEMMA BytesInvInit == Init => BytesInv
  BY DEF Init, VsockToIpv4Init, BytesInv, BytesInOrder, OutBeforePending

\* A delivered unit, and the buffer that is delivered next.
LEMMA OutUnits ==
    ASSUME TypeOK, NEW i \in 1..Len(out), NEW k \in 1..Len(out[i])
    PROVE  out[i][k][1] \in Nat /\ out[i][k][2] \in Nat
  <1>1. out[i] \in Seq(Unit)
    BY DEF TypeOK, VsockToIpv4TypeOK
  <1>2. out[i][k] \in Unit
    BY <1>1
  <1> QED
    BY <1>2 DEF Unit, Packet

LEMMA BufferedUnits ==
    ASSUME TypeOK, InBounds, rpc = "inject"
    PROVE  /\ accepted \in Conn /\ got \in Nat /\ nread \in Nat /\ Len(Buffered) = got
           /\ \A k \in 1..got :
                  /\ Buffered[k] = stream[accepted][nread - got + k]
                  /\ nread - got + k \in 1..Len(stream[accepted])
                  /\ nread - got + k <= nread
                  /\ Pending(accepted, nread - got + k)
  <1>1. /\ got \in Nat /\ nread \in Nat /\ got <= nread /\ rpc \in Serving
        /\ accepted \in Conn /\ nread <= Len(stream[accepted])
    BY DEF TypeOK, VsockTypeOK, VsockToIpv4TypeOK, InBounds, GotInBounds, Serving, Conn
  <1>2. /\ Len(Buffered) = got
        /\ \A k \in 1..got : Buffered[k] = stream[accepted][nread - got + k]
    BY <1>1, BufferedTyped DEF InBounds
  <1>3. Len(stream[accepted]) \in Nat
    BY <1>1 DEF TypeOK, VsockTypeOK, Conn
  <1>4. ASSUME NEW k \in 1..got
        PROVE  /\ nread - got + k \in 1..Len(stream[accepted])
               /\ nread - got + k <= nread
               /\ Pending(accepted, nread - got + k)
    BY <1>1, <1>3 DEF Pending
  <1> QED
    BY <1>1, <1>2, <1>4
\* What is injected came out of the queue after everything delivered before,
\* and before everything that may still be.
LEMMA InjectInOrder ==
    ASSUME TypeOK, InBounds, SenderInv, BytesInv, rpc = "inject", NEW k \in 1..got
    PROVE  /\ Buffered[k][1] <= arrived
           /\ \A i \in 1..Len(out) : \A m \in 1..Len(out[i]) : Before(out[i][m], Buffered[k])
           /\ \A l \in 1..got : k < l => Before(Buffered[k], Buffered[l])
           /\ \A c \in Conn : \A j \in 1..Len(stream[c]) :
                  c > accepted \/ (c = accepted /\ j > nread) => Before(Buffered[k], stream[c][j])
           /\ \A m \in 1..Len(queue) : Buffered[k][1] < queue[m]
           /\ spc = "send" => Before(Buffered[k], <<msg, sent + 1>>)
  <1> DEFINE at(n) == nread - got + n
  <1>1. /\ accepted \in Conn /\ got \in Nat /\ nread \in Nat
        /\ \A n \in 1..got : /\ Buffered[n] = stream[accepted][at(n)]
                             /\ at(n) \in 1..Len(stream[accepted]) /\ at(n) <= nread
                             /\ Pending(accepted, at(n))
    BY BufferedUnits
  <1>2. /\ Buffered[k][1] <= arrived
        /\ \A m \in 1..Len(queue) : Buffered[k][1] < queue[m]
    BY <1>1 DEF SenderInv, UnitsWereQueued
  <1>3. \A i \in 1..Len(out) : \A m \in 1..Len(out[i]) : Before(out[i][m], Buffered[k])
    BY <1>1 DEF BytesInv, OutBeforePending
  <1>4. ASSUME NEW l \in 1..got, k < l PROVE Before(Buffered[k], Buffered[l])
    <2>1. at(k) < at(l)
      BY <1>1, <1>4
    <2> QED
      BY <1>1, <2>1 DEF SenderInv, StreamsOrdered
  <1>5. ASSUME NEW c \in Conn, NEW j \in 1..Len(stream[c]),
               c > accepted \/ (c = accepted /\ j > nread)
        PROVE  Before(Buffered[k], stream[c][j])
    <2>0. accepted \in Nat /\ c \in Nat /\ j \in Nat
      BY <1>1 DEF Conn
    <2>1. CASE c > accepted
      BY <1>1, <2>0, <2>1 DEF SenderInv, StreamsOrdered, Before
    <2>2. CASE c = accepted /\ j > nread
      <3>1. at(k) < j
        BY <1>1, <2>0, <2>2
      <3> QED
        BY <1>1, <2>2, <3>1 DEF SenderInv, StreamsOrdered
    <2> QED
      BY <1>5, <2>1, <2>2
  <1>6. spc = "send" => Before(Buffered[k], <<msg, sent + 1>>)
    <2> SUFFICES ASSUME spc = "send" PROVE Before(Buffered[k], <<msg, sent + 1>>)
      OBVIOUS
    <2>1. \/ Buffered[k][1] < msg
          \/ Buffered[k][1] = msg /\ Buffered[k][2] <= sent
      BY <1>1 DEF SenderInv, MsgIsNewest
    <2>2. stream[accepted][at(k)][2] \in 1..MaxPacketSize
      BY <1>1, UnitFacts
    <2>3. Buffered[k][2] \in Nat
      BY <1>1, <2>2
    <2>4. sent \in Nat
      BY PacketsAssumption DEF TypeOK, NfqToVsockTypeOK
    <2> QED
      BY <2>1, <2>3, <2>4 DEF Before
  <1> QED
    BY <1>2, <1>3, <1>4, <1>5, <1>6

LEMMA BytesInOrderStep ==
    ASSUME TypeOK, InBounds, SenderInv, BytesInv, [Next]_vars
    PROVE  BytesInOrder'
  <1>1. CASE out' = out
    BY <1>1 DEF BytesInv, BytesInOrder
  <1>2. CASE Inject /\ out' = Append(out, Buffered)
    <2>1. /\ Len(out') = Len(out) + 1 /\ Len(out) \in Nat
          /\ out'[Len(out) + 1] = Buffered
          /\ \A i \in 1..Len(out) : out'[i] = out[i]
      BY <1>2, OutCases
    <2>2. rpc = "inject" /\ Len(Buffered) = got
      BY <1>2, BufferedUnits DEF Inject, ReceiverGoes
    <2> SUFFICES ASSUME NEW i \in 1..Len(out'), NEW j \in 1..Len(out'),
                        NEW k \in 1..Len(out'[i]), NEW l \in 1..Len(out'[j]),
                        i < j \/ (i = j /\ k < l)
                 PROVE  Before(out'[i][k], out'[j][l])
      BY DEF BytesInOrder
    <2>3. CASE j \in 1..Len(out)
      <3>1. i \in 1..Len(out)
        BY <2>1, <2>3
      <3> QED
        BY <2>1, <2>3, <3>1 DEF BytesInv, BytesInOrder
    <2>4. CASE j = Len(out) + 1 /\ i \in 1..Len(out)
      BY <2>1, <2>2, <2>4, InjectInOrder
    <2>5. CASE j = Len(out) + 1 /\ i = Len(out) + 1
      BY <2>1, <2>2, <2>5, InjectInOrder
    <2> QED
      BY <2>1, <2>3, <2>4, <2>5
  <1> QED
    BY <1>1, <1>2, OutCases
LEMMA OutBeforePendingStep ==
    ASSUME TypeOK, InBounds, SenderInv, BytesInv, [Next]_vars
    PROVE  OutBeforePending'
  <1>0. /\ stream \in Seq(Seq(Unit)) /\ stream' \in Seq(Seq(Unit))
        /\ accepted \in Nat /\ nread \in Nat /\ got \in Nat
        /\ arrived \in Nat /\ arrived' \in Nat /\ arrived <= arrived'
    BY TypeStep, QueueFacts DEF SenderInv, TypeOK, VsockTypeOK, VsockToIpv4TypeOK
  <1>1. CASE out' = out
    <2> SUFFICES ASSUME NEW i \in 1..Len(out), NEW k \in 1..Len(out[i])
                 PROVE  /\ out[i][k][1] <= arrived'
                        /\ \A c \in 1..Len(stream') : \A j \in 1..Len(stream'[c]) :
                               c > accepted' \/ (c = accepted' /\ rpc' \in Serving /\ j > nread' - got')
                                   => Before(out[i][k], stream'[c][j])
                        /\ \A m \in 1..Len(queue') : out[i][k][1] < queue'[m]
                        /\ spc' = "send" => Before(out[i][k], <<msg', sent' + 1>>)
      BY <1>1 DEF OutBeforePending, Pending, Conn
    <2>0. /\ out[i][k][1] <= arrived
          /\ \A m \in 1..Len(queue) : out[i][k][1] < queue[m]
          /\ spc = "send" => Before(out[i][k], <<msg, sent + 1>>)
          /\ \A c \in Conn : \A j \in 1..Len(stream[c]) :
                 Pending(c, j) => Before(out[i][k], stream[c][j])
          /\ out[i][k][1] \in Nat /\ out[i][k][2] \in Nat
      BY OutUnits DEF BytesInv, OutBeforePending
    <2>5. out[i][k][1] \in Nat /\ out[i][k][1] <= arrived
      BY <2>0
    <2>1. ASSUME NEW c \in 1..Len(stream'), NEW j \in 1..Len(stream'[c]),
                 c > accepted' \/ (c = accepted' /\ rpc' \in Serving /\ j > nread' - got')
          PROVE  Before(out[i][k], stream'[c][j])
      <3>1. c \in Nat /\ j \in Nat \ {0}
        BY <1>0
      <3>2. Pending(c, j)
        BY <2>1, <3>1, PendingShrinks
      <3>3. CASE c \in Conn /\ j \in 1..Len(stream[c]) /\ stream'[c][j] = stream[c][j]
        BY <2>0, <3>2, <3>3
      <3>4. CASE SendUnit /\ stream'[c][j] = <<msg, sent + 1>>
        BY <2>0, <3>4, SendFacts
      <3> QED
        BY <3>3, <3>4, SentUnits, WrittenOrNot DEF NothingWritten
    <2>2. ASSUME NEW m \in 1..Len(queue') PROVE out[i][k][1] < queue'[m]
      <3>1. CASE \E n \in 1..Len(queue) : queue'[m] = queue[n]
        BY <2>0, <3>1
      <3>2. CASE queue'[m] = arrived + 1
        BY <1>0, <2>5, <3>2
      <3> QED
        BY <3>1, <3>2, QueueFacts DEF SenderInv
    <2>3. spc' = "send" => Before(out[i][k], <<msg', sent' + 1>>)
      <3>1. CASE Recv
        BY <2>0, <3>1, QueueFacts DEF SenderInv, Before
      <3>2. CASE SendUnit
        BY <2>0, <3>2, SendFacts DEF Before
      <3>3. CASE ~Recv /\ ~SendUnit
        <4>1. spc' = "send" => spc = "send" /\ msg' = msg /\ sent' = sent
          BY <3>3, StepCases, TransportFacts
          DEF Arrival, Connect, HalfClose, SenderGoes, Move, Exit, Idle
        <4> QED
          BY <2>0, <4>1
      <3> QED
        BY <3>1, <3>2, <3>3
    <2>4. out[i][k][1] <= arrived'
      BY <1>0, <2>5
    <2> QED
      BY <2>1, <2>2, <2>3, <2>4
  <1>2. CASE Inject /\ ReceiverNext /\ out' = Append(out, Buffered)
    <2>1. /\ UNCHANGED <<queue, arrived, spc, msg, sent>> /\ stream' = stream
          /\ UNCHANGED <<accepted, nread>> /\ got' = 0 /\ rpc = "inject"
      BY <1>2, ReceiverNextCases DEF Inject, ReceiverGoes, vsockVars, ReceiverNext, senderVars
    <2>2. /\ Len(out') = Len(out) + 1 /\ Len(out) \in Nat
          /\ out'[Len(out) + 1] = Buffered /\ Len(Buffered) = got
          /\ \A i \in 1..Len(out) : out'[i] = out[i]
      BY <1>2, <2>1, OutCases, BufferedUnits
    <2> SUFFICES ASSUME NEW i \in 1..Len(out'), NEW k \in 1..Len(out'[i])
                 PROVE  /\ out'[i][k][1] <= arrived
                        /\ \A c \in Conn : \A j \in 1..Len(stream[c]) :
                               c > accepted \/ (c = accepted /\ j > nread)
                                   => Before(out'[i][k], stream[c][j])
                        /\ \A m \in 1..Len(queue) : out'[i][k][1] < queue[m]
                        /\ spc = "send" => Before(out'[i][k], <<msg, sent + 1>>)
      <3>1. \A c \in Nat, j \in Nat :
                Pending(c, j)' => c > accepted \/ (c = accepted /\ j > nread)
        BY <1>0, <2>1 DEF Pending
      <3>2. \A c \in Conn : c \in Nat /\ \A j \in 1..Len(stream[c]) : j \in Nat
        BY <1>0 DEF Conn
      <3> QED
        BY <2>1, <3>1, <3>2 DEF OutBeforePending, Conn
    <2>3. CASE i = Len(out) + 1
      BY <2>1, <2>2, <2>3, InjectInOrder
    <2>4. CASE i \in 1..Len(out)
      <3>1. /\ out[i][k][1] <= arrived
            /\ \A m \in 1..Len(queue) : out[i][k][1] < queue[m]
            /\ spc = "send" => Before(out[i][k], <<msg, sent + 1>>)
            /\ \A c \in Conn : \A j \in 1..Len(stream[c]) :
                   Pending(c, j) => Before(out[i][k], stream[c][j])
        BY <2>2, <2>4 DEF BytesInv, OutBeforePending
      <3>2. ASSUME NEW c \in Conn, NEW j \in 1..Len(stream[c]),
                   c > accepted \/ (c = accepted /\ j > nread)
            PROVE  Before(out[i][k], stream[c][j])
        <4>1. j \in Nat
          BY <1>0 DEF Conn
        <4>2. Pending(c, j)
          BY <1>0, <2>1, <3>2, <4>1 DEF Pending, Serving
        <4> QED
          BY <3>1, <4>2
      <3> QED
        BY <2>2, <2>4, <3>1, <3>2
    <2> QED
      BY <2>2, <2>3, <2>4
  <1> QED
    BY <1>1, <1>2, OutCases

\* However payloads were cut and the receiving worker misread what followed,
\* no byte is delivered twice, and none before one that was queued earlier.
THEOREM BytesInOrderCorrect == Spec => []BytesInOrder
  <1>1. TypeOK /\ InBounds /\ SenderInv /\ BytesInv /\ [Next]_vars => BytesInv'
    BY BytesInOrderStep, OutBeforePendingStep DEF BytesInv
  <1>2. Spec => [](TypeOK /\ InBounds) /\ []SenderInv
    BY TypeCorrect, SenderCorrect
  <1>3. BytesInv => BytesInOrder
    BY DEF BytesInv
  <1> QED
    BY <1>1, <1>2, <1>3, BytesInvInit, PTL DEF Spec
-----------------------------------------------------------------------------
(* SlotsInv is inductive when payloads are whole.                          *)

\* The receiving worker will break its connections when it stops.
Stopping == rcancel /\ rpc # "exited"

LEMMA LeakedFinite ==
    ASSUME TypeOK
    PROVE  faults \in Nat /\ IsFiniteSet(Leaked) /\ Cardinality(Leaked) \in Nat
  <1>1. undecided \subseteq 1..MaxPackets
    BY DEF TypeOK, NetfilterQueueTypeOK, Packet
  <1>2. IsFiniteSet(1..MaxPackets)
    BY FS_Interval, PacketsAssumption
  <1>3. Leaked \subseteq 1..MaxPackets
    BY <1>1 DEF Leaked
  <1>4. IsFiniteSet(Leaked)
    BY <1>2, <1>3, FS_Subset
  <1>5. faults \in Nat
    BY FaultsAssumption DEF TypeOK, FaultsTypeOK
  <1> QED
    BY <1>4, <1>5, FS_CardinalityType

LEMMA SlotsInvInit == Init => SlotsInv
  <1> SUFFICES ASSUME Init PROVE SlotsInv
    OBVIOUS
  <1>1. Leaked = {} /\ ~Broken /\ ~rcancel /\ faults = 0
    BY DEF Init, NetfilterQueueInit, NfqToVsockInit, VsockToIpv4Init, Leaked, Broken, Current
  <1> QED
    BY <1>1, FS_EmptySet DEF SlotsInv, One

\* A sending step costs a slot only with the connection it was written to,
\* which was broken before or fails now.
LEMMA SenderSlots ==
    ASSUME TypeOK, SenderInv, SenderNext
    PROVE  /\ faults' = faults \/ faults' = faults + 1
           /\ Stopping' = Stopping
           /\ \/ Leaked' \subseteq Leaked /\ (Broken' => Broken)
              \/ /\ Leaked' \subseteq Leaked \cup {msg} /\ ~Broken'
                 /\ Broken \/ faults' = faults + 1
  <1>0. /\ faults \in Nat /\ undecided \subseteq Packet
        /\ tx \subseteq Conn /\ rx \subseteq Conn /\ stream \in Seq(Seq(Unit))
    BY FaultsAssumption DEF TypeOK, FaultsTypeOK, NetfilterQueueTypeOK, VsockTypeOK
  <1>1. Stopping' = Stopping
    BY DEF SenderNext, receiverVars, Stopping
  <1>2. ASSUME OpenQueue \/ SenderContinues \/ SenderRestarts \/ CancelSender
        PROVE  /\ faults' = faults \/ faults' = faults + 1
               /\ Leaked' \subseteq Leaked /\ (Broken' => Broken)
    BY <1>0, <1>2
    DEF OpenQueue, SenderContinues, SenderRestarts, CancelSender, SenderGoes, BindQueue,
        Fault, nfqVars, vsockVars, Leaked, Broken, Current
  <1>3. ASSUME RecvOverflow \/ Recv \/ IssueVerdict
        PROVE  /\ faults' = faults
               /\ Leaked' \subseteq Leaked /\ (Broken' => Broken)
    BY <1>0, <1>3
    DEF RecvOverflow, Recv, IssueVerdict, SenderGoes, TakeOverflow, TakePacket, Verdict,
        vsockVars, Leaked, Broken, Current
  <1>4. ASSUME Connect
        PROVE  faults' = faults /\ Leaked' \subseteq Leaked /\ ~Broken'
    <2>1. Len(stream') = Len(stream) + 1 /\ Len(stream) + 1 \in tx' \cap rx'
      BY <1>4, ConnectFacts DEF Connect, OpenConnection
    <2>2. spc = "connect" /\ spc' = "half_close" /\ faults' = faults /\ undecided' = undecided
      BY <1>4 DEF Connect, SenderGoes, nfqVars
    <2>3. ~Broken'
      BY <2>1, <2>2 DEF Broken, Current
    <2>4. Leaked' \subseteq Leaked
      BY <2>2 DEF Leaked
    <2> QED
      BY <2>2, <2>3, <2>4
  <1>5. ASSUME HalfClose
        PROVE  faults' = faults /\ Leaked' \subseteq Leaked /\ (Broken' => Broken)
    <2>1. /\ spc = "half_close" /\ spc' = "loop" /\ faults' = faults
          /\ UNCHANGED <<undecided, stream, rx>> /\ tx' = tx \ {dst} /\ dst' = Len(stream)
      BY <1>5 DEF HalfClose, SenderGoes, CloseTx, nfqVars
    <2>2. dst # Len(stream)
      BY <1>0, <2>1 DEF SenderInv, DstIsLast, TypeOK, NfqToVsockTypeOK
    <2>3. Leaked' \subseteq Leaked
      BY <2>1 DEF Leaked
    <2>4. Broken' => Broken
      BY <2>1, <2>2 DEF Broken, Current
    <2> QED
      BY <2>1, <2>3, <2>4
  <1>6. ASSUME SendUnit
        PROVE  faults' = faults /\ Leaked' \subseteq Leaked /\ (Broken' => Broken)
    <2>1. /\ spc = "send" /\ spc' \in {"send", "verdict"} /\ faults' = faults
          /\ UNCHANGED <<undecided, msg, dst, tx, rx>>
      BY <1>6 DEF SendUnit, SenderGoes, Write, nfqVars
    <2> QED
      BY <2>1 DEF Leaked, Broken, Current
  <1>7. ASSUME SendRefused \/ SendFails
        PROVE  /\ Leaked' \subseteq Leaked \cup {msg} /\ ~Broken'
               /\ \/ faults' = faults /\ Broken
                  \/ faults' = faults + 1
    <2>1. /\ spc = "send" /\ spc' = "connect" /\ UNCHANGED <<undecided, dst, tx, rx, msg>>
          /\ (faults' = faults /\ dst \notin tx \cap rx) \/ faults' = faults + 1
      BY <1>7 DEF SendRefused, SendFails, SendError, AfterSendError, SenderGoes, Fault, NoFault,
             nfqVars, vsockVars
    <2>2. dst # 0
      BY <2>1 DEF SenderInv, DstIsLast
    <2>3. Leaked' \subseteq Leaked \cup {msg}
      BY <2>1 DEF Leaked
    <2>4. ~Broken' /\ (dst \notin tx \cap rx => Broken)
      BY <2>1, <2>2 DEF Broken, Current
    <2> QED
      BY <2>1, <2>3, <2>4
  <1>8. ASSUME RecvFails \/ VerdictFails
        PROVE  faults' = faults + 1 /\ Leaked' \subseteq Leaked /\ (Broken' => Broken)
    BY <1>8
    DEF RecvFails, VerdictFails, SenderGoes, Fault, ReleaseQueue, CloseQueue, vsockVars,
        Leaked, Broken, Current
  <1>9. ASSUME SenderStops \/ SenderDies \/ SenderCrashes
        PROVE  /\ faults' = faults \/ faults' = faults + 1
               /\ Leaked' \subseteq Leaked /\ (Broken' => Broken)
    BY <1>9
    DEF SenderStops, SenderDies, SenderCrashes, SenderExits, Fault, NoFault, CloseQueue,
        Leaked, Broken, Current
  <1> QED
    BY <1>1, <1>2, <1>3, <1>4, <1>5, <1>6, <1>7, <1>8, <1>9
    DEF SenderNext, SenderStep, SenderFailure

\* A receiving step takes no slot, and breaks the sender's connection only
\* by a failure, or as it stops.
LEMMA ReceiverSlots ==
    ASSUME Untruncated, TypeOK, InBounds, SenderInv, ReceiverInv, ReceiverNext
    PROVE  /\ Leaked' = Leaked
           /\ \/ /\ faults' = faults \/ faults' = faults + 1
                 /\ (Broken' => Broken) /\ (Stopping' => Stopping)
              \/ faults' = faults + 1 /\ (Broken' => Broken)
              \/ faults' = faults + 1 /\ (Stopping' => Stopping)
              \/ faults' = faults /\ Stopping /\ ~Stopping'
  <1>1. UNCHANGED <<undecided, spc, msg, dst>>
    BY DEF ReceiverNext, nfqVars, senderVars
  <1>2. Leaked' = Leaked
    BY <1>1 DEF Leaked
  <1>3. ASSUME \/ Listen \/ StartAccept \/ Accept \/ ServeConnection \/ ReceiverContinues
               \/ ReadHeader \/ Decode \/ ReadBody \/ Inject \/ InjectFails \/ AcceptFails
               \/ ReceiverRestarts \/ \E s \in SinkProtocols : OpenSink(s)
        PROVE  /\ faults' = faults \/ faults' = faults + 1
               /\ (Broken' => Broken) /\ (Stopping' => Stopping)
    <2>1. UNCHANGED <<tx, rx, stream>>
      BY <1>3
      DEF Listen, StartAccept, Accept, ServeConnection, ReceiverContinues, ReadHeader, Decode,
          ReadBody, ReadUnit, Inject, InjectFails, AcceptFails, ReceiverRestarts, OpenSink,
          OpenListener, TakeConnection, vsockVars
    <2>2. faults' = faults \/ faults' = faults + 1
      BY <1>3
      DEF Listen, StartAccept, Accept, ServeConnection, ReceiverContinues, ReadHeader, Decode,
          ReadBody, Inject, InjectFails, AcceptFails, ReceiverRestarts, OpenSink, Fault
    <2>3. CASE ReceiverRestarts
      <3>1. ~Stopping'
        BY <2>3 DEF ReceiverRestarts, Stopping
      <3> QED
        BY <1>1, <2>1, <2>2, <3>1 DEF Broken, Current
    <2>4. CASE ~ReceiverRestarts
      <3>1. rcancel' = rcancel
        BY <1>3, <2>4
        DEF Listen, StartAccept, Accept, ServeConnection, ReceiverContinues, ReadHeader,
            Decode, ReadBody, Inject, InjectFails, AcceptFails, OpenSink
      <3>2. rpc # "exited"
        BY <1>3, <2>4
        DEF Listen, StartAccept, Accept, ServeConnection, ReceiverContinues, ReadHeader,
            Decode, ReadBody, Inject, InjectFails, AcceptFails, OpenSink, ReceiverGoes
      <3> QED
        BY <1>1, <2>1, <2>2, <3>1, <3>2 DEF Broken, Current, Stopping
    <2> QED
      BY <2>3, <2>4
  <1>4. ASSUME EndOfStream
        PROVE  faults' = faults /\ (Broken' => Broken) /\ (Stopping' => Stopping)
    BY <1>1, <1>4
    DEF EndOfStream, ReadError, CloseRx, NoFault, Broken, Current, Stopping
  <1>5. ASSUME ReadFails
        PROVE  faults' = faults + 1 /\ (Stopping' => Stopping)
    BY <1>5 DEF ReadFails, ReadError, Fault, Stopping
  <1>6. ~BadHeader
    BY HeaderInFrame DEF BadHeader
  <1>7. ASSUME ReceiverStops PROVE faults' = faults /\ Stopping /\ ~Stopping'
    BY <1>7 DEF ReceiverStops, ReceiverExits, NoFault, Stopping
  <1>8. ASSUME ReceiverDies \/ ReceiverCrashes
        PROVE  faults' = faults + 1 /\ ~Stopping'
    BY <1>8 DEF ReceiverDies, ReceiverCrashes, ReceiverExits, Fault, Stopping
  <1>9. ASSUME CancelReceiver
        PROVE  faults' = faults + 1 /\ (Broken' => Broken)
    BY <1>1, <1>9 DEF CancelReceiver, Fault, vsockVars, Broken, Current
  <1> QED
    BY <1>2, <1>3, <1>4, <1>5, <1>6, <1>7, <1>8, <1>9
    DEF ReceiverNext, ReceiverStep, ReceiverFailure

LEMMA OtherSlots ==
    ASSUME TypeOK, [Next]_vars, ~SenderNext, ~ReceiverNext
    PROVE  /\ Leaked' = Leaked /\ Stopping' = Stopping
           /\ \/ faults' = faults /\ Broken' = Broken
              \/ faults' = faults + 1
  <1>1. CASE KernelStep \/ KernelFailure \/ UNCHANGED vars
    <2>1. /\ UNCHANGED <<undecided, vsockVars, senderVars, receiverVars>>
          /\ faults' = faults \/ faults' = faults + 1
      BY <1>1
      DEF KernelStep, KernelFailure, PacketQueued, PacketRefused, PacketOverflows, Fault,
          vars, nfqVars
    <2> QED
      BY <2>1 DEF vsockVars, senderVars, receiverVars, Leaked, Stopping, Broken, Current
  <1>2. CASE TransportFailure
    BY <1>2
    DEF TransportFailure, Fault, nfqVars, senderVars, receiverVars, Leaked, Stopping
  <1> QED
    BY <1>1, <1>2 DEF Next

LEMMA SlotsInvStep ==
    ASSUME Untruncated, TypeOK, InBounds, SenderInv, ReceiverInv, SlotsInv, [Next]_vars
    PROVE  SlotsInv'
  <1>1. faults \in Nat /\ IsFiniteSet(Leaked)
    BY LeakedFinite
  <1>2. /\ Cardinality(Leaked) \in Nat
        /\ Leaked' \subseteq Leaked =>
               /\ Cardinality(Leaked') \in Nat
               /\ Cardinality(Leaked') <= Cardinality(Leaked)
        /\ Leaked' \subseteq Leaked \cup {msg} =>
               /\ Cardinality(Leaked') \in Nat
               /\ Cardinality(Leaked') <= Cardinality(Leaked) + 1
    <2>1. Cardinality(Leaked) \in Nat
      BY <1>1, FS_CardinalityType
    <2>2. ASSUME NEW S, IsFiniteSet(S), Leaked' \subseteq S
          PROVE  Cardinality(Leaked') \in Nat /\ Cardinality(Leaked') <= Cardinality(S)
      BY <2>2, FS_Subset, FS_CardinalityType
    <2>3. /\ IsFiniteSet(Leaked \cup {msg})
          /\ Cardinality(Leaked \cup {msg}) <= Cardinality(Leaked) + 1
      BY <1>1, <2>1, FS_AddElement
    <2>4. Cardinality(Leaked \cup {msg}) \in Nat
      BY <2>3, FS_CardinalityType
    <2> QED
      BY <1>1, <2>1, <2>2, <2>3, <2>4
  <1>3. Cardinality(Leaked) + One(Broken) + One(Stopping) <= faults
    BY DEF SlotsInv, Stopping
  <1> SUFFICES Cardinality(Leaked') + One(Broken') + One(Stopping') <= faults'
    BY DEF SlotsInv, Stopping, One
  <1>4. CASE SenderNext
    BY <1>1, <1>2, <1>3, <1>4, SenderSlots DEF One
  <1>5. CASE ReceiverNext
    BY <1>1, <1>2, <1>3, <1>5, ReceiverSlots DEF One
  <1>6. CASE ~SenderNext /\ ~ReceiverNext
    BY <1>1, <1>2, <1>3, <1>6, OtherSlots DEF One
  <1> QED
    BY <1>4, <1>5, <1>6

\* A slot of the queue is lost only to a failure, and to each only one.
THEOREM LeaksCorrect ==
    ASSUME Untruncated
    PROVE  Spec => []LeaksOnlyByFailure
  <1>1. TypeOK /\ SlotsInv => LeaksOnlyByFailure
    <2> SUFFICES ASSUME TypeOK, SlotsInv PROVE Cardinality(Leaked) <= faults
      BY DEF LeaksOnlyByFailure
    <2> QED
      BY LeakedFinite DEF SlotsInv, One
  <1>2. Spec => [](TypeOK /\ InBounds) /\ []SenderInv /\ []ReceiverInv
    BY TypeCorrect, SenderCorrect, ReceiverCorrect
  <1>3. TypeOK /\ InBounds /\ SenderInv /\ ReceiverInv /\ SlotsInv /\ [Next]_vars => SlotsInv'
    BY SlotsInvStep
  <1> QED
    BY <1>1, <1>2, <1>3, SlotsInvInit, PTL DEF Spec

\* What is left of SlotBelowMaxLen: the queue takes a packet whenever those
\* that wait or are being forwarded, and the failures so far, are fewer than
\* its maximum.  Before the first failure that is SlotBelowMaxLen.
SlotWithinFailures ==
    bound /\ Len(queue) + Cardinality(undecided \ Leaked) + faults < QueueMax
        => HasSlot

\* The queue loses no more of its maximum length than there were failures
\* ("max length for ingress netfilter queue", cli/host.rs:114).
THEOREM SlotsCorrect ==
    ASSUME Untruncated
    PROVE  Spec => [](SlotWithinFailures /\ (faults = 0 => SlotBelowMaxLen))
  <1>1. ASSUME TypeOK, LeaksOnlyByFailure
        PROVE  SlotWithinFailures /\ (faults = 0 => SlotBelowMaxLen)
    <2>1. IsFiniteSet(undecided)
      <3>1. undecided \subseteq 1..MaxPackets
        BY <1>1 DEF TypeOK, NetfilterQueueTypeOK, Packet
      <3>2. IsFiniteSet(1..MaxPackets)
        BY FS_Interval, PacketsAssumption
      <3> QED
        BY <3>1, <3>2, FS_Subset
    <2>2. Cardinality(undecided \ Leaked) = Cardinality(undecided) - Cardinality(Leaked)
      <3>1. undecided \cap Leaked = Leaked
        BY DEF Leaked
      <3> QED
        BY <2>1, <3>1, FS_Difference
    <2>3. /\ Len(queue) \in Nat /\ QueueMax \in Nat /\ faults \in Nat
          /\ Cardinality(undecided) \in Nat /\ Cardinality(Leaked) \in Nat
      BY <1>1, <2>1, LeakedFinite, FS_CardinalityType, QueueAssumption
      DEF TypeOK, NetfilterQueueTypeOK
    <2>4. bound => Cardinality(Leaked) <= faults
      BY <1>1 DEF LeaksOnlyByFailure
    <2> QED
      BY <2>2, <2>3, <2>4 DEF SlotWithinFailures, SlotBelowMaxLen, HasSlot
  <1>2. Spec => []TypeOK /\ []LeaksOnlyByFailure
    BY TypeCorrect, LeaksCorrect, PTL
  <1> QED
    BY <1>1, <1>2, PTL

-----------------------------------------------------------------------------
(* LinkInv is inductive, and Tunnel implements Link.                       *)

LEMMA EndTypes ==
    ASSUME TypeOK
    PROVE  /\ Len(stream) \in Nat /\ dst \in 0..Len(stream) /\ accepted \in 0..Len(stream)
           /\ tx \subseteq 1..Len(stream) /\ rx \subseteq 1..Len(stream)
  BY DEF TypeOK, VsockTypeOK, NfqToVsockTypeOK, Conn

\* The ends of the connections are as they were.
SameEnds == Len(stream') = Len(stream) /\ UNCHANGED <<tx, rx, accepted, listening>>

\* The sending worker goes on with the connection it has, if any, gives it
\* up for another, or ends.
SenderGoesOn ==
    /\ SameEnds /\ dst' = dst
    /\ spc # "exited" /\ spc' # "exited"
    /\ spc' = "connect" => spc = "connect" \/ dst = 0
    /\ spc = "connect" => spc' = "connect"
    /\ spc = "half_close" <=> spc' = "half_close"

SenderGivesUp ==
    /\ SameEnds /\ dst' = dst
    /\ spc = "send" /\ spc' = "connect"

SenderEnds ==
    /\ spc # "exited" /\ spc' = "exited"
    /\ dst' = 0 /\ tx' = {}
    /\ Len(stream') = Len(stream) /\ UNCHANGED <<rx, accepted, listening>>

LEMMA SenderEndCases ==
    ASSUME TypeOK, InBounds, SenderNext
    PROVE  /\ rpc' = rpc
           /\ \/ Connect \/ HalfClose \/ SenderGoesOn \/ SenderGivesUp \/ SenderEnds
              \/ SenderRestarts
  <1>1. rpc' = rpc
    BY DEF SenderNext, receiverVars
  <1>2. CASE SendUnit
    BY <1>1, <1>2, SendFacts DEF SendUnit, Write, SenderGoesOn, SameEnds
  <1>3. CASE OpenQueue \/ SenderContinues \/ Recv \/ RecvOverflow \/ IssueVerdict
             \/ RecvFails \/ VerdictFails \/ CancelSender
    BY <1>1, <1>3
    DEF OpenQueue, SenderContinues, Recv, RecvOverflow, IssueVerdict, RecvFails,
        VerdictFails, CancelSender, SenderGoes, SenderGoesOn, SameEnds, vsockVars
  <1>4. CASE SendRefused \/ SendFails
    BY <1>1, <1>4
    DEF SendRefused, SendFails, SendError, AfterSendError, SenderGoes, SenderGivesUp,
        SameEnds, vsockVars
  <1>5. CASE SenderStops \/ SenderDies \/ SenderCrashes
    BY <1>1, <1>5
    DEF SenderStops, SenderDies, SenderCrashes, SenderExits, CloseTx, SenderEnds
  <1> QED
    BY <1>1, <1>2, <1>3, <1>4, <1>5 DEF SenderNext, SenderStep, SenderFailure

\* The receiving worker goes on, drops the connection it reads, or ends.
ReceiverGoesOn ==
    /\ UNCHANGED <<tx, rx, accepted>>
    /\ rpc # "exited" /\ rpc' # "exited"
    /\ rpc \in Serving <=> rpc' \in Serving
    /\ \/ listening' /\ rpc' \notin {"listen", "exited"}
       \/ listening' = listening /\ (rpc = "listen" <=> rpc' = "listen")

ReceiverDrops ==
    /\ rpc \in Serving /\ rpc' = "accept"
    /\ rx' = rx \ {accepted} /\ UNCHANGED <<tx, accepted, listening>>

ReceiverEnds ==
    /\ rpc # "exited" /\ rpc' = "exited"
    /\ rx' = {} /\ ~listening' /\ accepted' = Len(stream) /\ tx' = tx

LEMMA ReceiverEndCases ==
    ASSUME ReceiverNext
    PROVE  /\ UNCHANGED <<stream, spc, dst>>
           /\ ReceiverGoesOn \/ Accept \/ ReceiverDrops \/ ReceiverEnds \/ ReceiverRestarts
  <1>0. UNCHANGED <<spc, dst>>
    BY DEF ReceiverNext, senderVars
  <1>1. CASE Listen
    BY <1>0, <1>1 DEF Listen, ReceiverGoes, OpenListener, Serving, ReceiverGoesOn
  <1>2. CASE StartAccept \/ AcceptFails \/ CancelReceiver
    BY <1>0, <1>2
    DEF StartAccept, AcceptFails, CancelReceiver, ReceiverGoes, vsockVars, Serving,
        ReceiverGoesOn
  <1>3. CASE Accept
    BY <1>0, <1>3 DEF Accept, TakeConnection
  <1>4. CASE \/ ServeConnection \/ (\E s \in SinkProtocols : OpenSink(s))
             \/ ReceiverContinues \/ Decode \/ Inject \/ InjectFails
    BY <1>0, <1>4
    DEF ServeConnection, OpenSink, ReceiverContinues, Decode, Inject, InjectFails,
        ReceiverGoes, AfterSinks, AfterRead, vsockVars, Serving, ReceiverGoesOn
  <1>5. CASE ReadHeader \/ ReadBody
    BY <1>0, <1>5
    DEF ReadHeader, ReadBody, ReadUnit, ReceiverGoes, AfterRead, Serving, ReceiverGoesOn
  <1>6. CASE EndOfStream \/ ReadFails
    BY <1>0, <1>6
    DEF EndOfStream, ReadFails, ReadError, AfterReadError, CloseRx, Serving, ReceiverDrops
  <1>7. CASE BadHeader \/ ReceiverStops \/ ReceiverDies \/ ReceiverCrashes
    BY <1>0, <1>7
    DEF BadHeader, ReceiverStops, ReceiverDies, ReceiverCrashes, ReceiverExits,
        CloseListener, ReceiverEnds
  <1>8. CASE ReceiverRestarts
    BY <1>0, <1>8 DEF ReceiverRestarts, vsockVars
  <1> QED
    BY <1>1, <1>2, <1>3, <1>4, <1>5, <1>6, <1>7, <1>8
    DEF ReceiverNext, ReceiverStep, ReceiverFailure

\* The transport breaks one connection, and whoever runs runs on.
TransportBreaks(c) ==
    /\ tx' = tx \ {c} /\ rx' = rx \ {c}
    /\ Len(stream') = Len(stream)
    /\ UNCHANGED <<accepted, listening, spc, dst, rpc>>

LEMMA TransportEndCases ==
    ASSUME TypeOK, TransportFailure
    PROVE  \E c \in Conn : TransportBreaks(c)
  <1>1. PICK c \in tx \cup rx : \E n \in 0..Len(stream[c]) : Reset(c, n)
    BY DEF TransportFailure
  <1>2. c \in Conn
    BY DEF TypeOK, VsockTypeOK
  <1>3. TransportBreaks(c)
    BY <1>1, TransportFacts
    DEF TransportFailure, senderVars, receiverVars, Reset, TransportBreaks
  <1> QED
    BY <1>2, <1>3

\* What shows nothing of the connections' ends.
NoEnds == SameEnds /\ UNCHANGED <<spc, dst, rpc>>

LEMMA OtherEndCases ==
    ASSUME [Next]_vars, ~SenderNext, ~ReceiverNext, ~TransportFailure
    PROVE  NoEnds
  BY DEF Next, KernelStep, KernelFailure, vars, vsockVars, senderVars, receiverVars,
         NoEnds, SameEnds

LEMMA LinkInvInit == Init => LinkInv
  BY DEF Init, VsockInit, NfqToVsockInit, VsockToIpv4Init, LinkInv

\* Under the invariant a link is in one of Link's states.
LEMMA LinkForm ==
    ASSUME TypeOK, LinkInv
    PROVE  /\ Current \in 0..Len(stream)
           /\ CurrentLink =
                  IF Current = 0 THEN "none"
                  ELSE IF Current \notin tx \cap rx THEN "dead"
                  ELSE IF Current > accepted THEN "pending" ELSE "open"
           /\ CurrentLink = "open" => Current = accepted /\ rpc \in Serving
  <1>1. Current \in 0..Len(stream)
    BY EndTypes DEF Current
  <1>2. Current # 0 /\ ~Broken /\ ~(Current > accepted)
            => Current = accepted /\ rpc \in Serving
    BY DEF LinkInv, Broken
  <1> QED
    BY <1>1, <1>2 DEF CurrentLink, Broken

LEMMA ConnectLinks ==
    ASSUME TypeOK, SenderInv, LinkInv, Connect, rpc' = rpc
    PROVE  LinkInv' /\ Connection!Connect
  <1>1. /\ spc = "connect" /\ spc' = "half_close" /\ listening
        /\ UNCHANGED <<dst, accepted, listening>>
        /\ Len(stream') = Len(stream) + 1
        /\ tx' = tx \cup {Len(stream) + 1} /\ rx' = rx \cup {Len(stream) + 1}
    BY ConnectFacts DEF Connect, SenderGoes, OpenConnection, CanConnect
  <1>2. LinkInv'
    BY <1>1, EndTypes DEF LinkInv, Current
  <1>3. Current = 0 /\ Current' = Len(stream) + 1 /\ ~Broken'
    BY <1>1, EndTypes DEF Current, Broken
  <1>4. CurrentLink = "none" /\ CurrentLink' = "pending"
    BY <1>1, <1>3, EndTypes DEF CurrentLink
  <1> QED
    BY <1>1, <1>2, <1>4 DEF Connection!Connect, Connection!Becomes, LinkInv

LEMMA HalfCloseLinks ==
    ASSUME TypeOK, SenderInv, LinkInv, HalfClose, rpc' = rpc
    PROVE  LinkInv' /\ UNCHANGED Connection!vars
  <1>1. /\ spc = "half_close" /\ spc' = "loop" /\ dst' = Len(stream)
        /\ tx' = tx \ {dst} /\ UNCHANGED <<stream, rx, accepted, listening>>
        /\ dst < Len(stream)
    BY DEF HalfClose, SenderGoes, CloseTx, SenderInv, DstIsLast
  <1>2. Current = Len(stream) /\ Current' = Current /\ (Broken' <=> Broken)
    BY <1>1, EndTypes DEF Current, Broken
  <1>3. LinkInv'
    BY <1>1, <1>2 DEF LinkInv, Current
  <1>4. CurrentLink' = CurrentLink
    BY <1>1, <1>2 DEF CurrentLink
  <1> QED
    BY <1>1, <1>3, <1>4 DEF Connection!vars

LEMMA SenderLinks ==
    ASSUME TypeOK, InBounds, SenderInv, LinkInv, SenderNext
    PROVE  LinkInv' /\ [Connection!Next]_(Connection!vars)
  <1>0. rpc' = rpc
    BY SenderEndCases
  <1>1. CASE Connect
    BY <1>0, <1>1, ConnectLinks DEF Connection!Next
  <1>2. CASE HalfClose
    BY <1>0, <1>2, HalfCloseLinks
  <1>3. CASE SenderGoesOn
    <2>1. Current' = Current /\ (Broken' <=> Broken)
      BY <1>3 DEF SenderGoesOn, SameEnds, Current, Broken
    <2>2. LinkInv'
      BY <1>0, <1>3, <2>1 DEF LinkInv, SenderGoesOn, SameEnds
    <2>3. CurrentLink' = CurrentLink
      BY <1>0, <1>3, <2>1 DEF CurrentLink, SenderGoesOn, SameEnds
    <2> QED
      BY <1>0, <1>3, <2>2, <2>3 DEF SenderGoesOn, Connection!vars
  <1>4. CASE SenderGivesUp
    <2>1. dst = Len(stream) /\ dst # 0 /\ Current = dst /\ Current' = 0
      BY <1>4 DEF SenderGivesUp, SenderInv, DstIsLast, Current
    <2>2. LinkInv'
      BY <1>0, <1>4, <2>1 DEF LinkInv, SenderGivesUp, SameEnds
    <2>3. CurrentLink \in {"pending", "open", "dead"} /\ CurrentLink' = "none"
      BY <2>1, LinkForm DEF CurrentLink
    <2> QED
      BY <1>0, <1>4, <2>2, <2>3
      DEF SenderGivesUp, Connection!Next, Connection!Fails, Connection!IsGivenUp,
          Connection!Becomes
  <1>5. CASE SenderEnds
    <2>1. LinkInv' /\ CurrentLink' = "none"
      BY <1>0, <1>5 DEF SenderEnds, LinkInv, Current, CurrentLink
    <2> QED
      BY <1>0, <1>5, <2>1 DEF SenderEnds, Connection!Next, Connection!SenderEnds
  <1>6. CASE SenderRestarts
    <2>1. /\ spc = "exited" /\ spc' = "queue" /\ dst = 0
          /\ UNCHANGED <<dst, tx, rx, accepted, listening>>
      BY <1>6 DEF SenderRestarts, SenderGoes, SenderInv, DstIsLast, vsockVars
    <2>2. Current = 0 /\ Current' = 0
      BY <2>1 DEF Current
    <2>3. LinkInv' /\ CurrentLink = "none" /\ CurrentLink' = "none"
      BY <1>0, <2>1, <2>2 DEF LinkInv, CurrentLink
    <2> QED
      BY <1>0, <2>1, <2>3 DEF Connection!Next, Connection!SenderStarts
  <1> QED
    BY <1>1, <1>2, <1>3, <1>4, <1>5, <1>6, SenderEndCases

LEMMA ReceiverLinks ==
    ASSUME TypeOK, LinkInv, ReceiverNext
    PROVE  LinkInv' /\ [Connection!Next]_(Connection!vars)
  <1>0. UNCHANGED <<stream, spc, dst>> /\ Current' = Current
    BY ReceiverEndCases DEF Current
  <1>1. CASE ReceiverGoesOn
    <2>1. LinkInv'
      BY <1>0, <1>1 DEF LinkInv, ReceiverGoesOn
    <2>2. CurrentLink' = CurrentLink
      BY <1>0, <1>1 DEF CurrentLink, Broken, ReceiverGoesOn
    <2> QED
      BY <1>0, <1>1, <2>1, <2>2 DEF ReceiverGoesOn, Connection!vars
  <1>2. CASE Accept
    <2>1. /\ rpc = "accepting" /\ rpc' = "half_close" /\ accepted' = accepted + 1
          /\ UNCHANGED <<tx, rx, listening>>
      BY <1>2 DEF Accept, ReceiverGoes, TakeConnection
    <2>2. LinkInv'
      BY <1>0, <2>1, EndTypes DEF LinkInv, Serving
    <2>3. CASE Current = accepted + 1 /\ ~Broken
      <3>1. CurrentLink = "pending" /\ CurrentLink' = "open"
        BY <1>0, <2>1, <2>3, EndTypes DEF CurrentLink, Broken, Serving
      <3> QED
        BY <1>0, <2>1, <2>2, <3>1
        DEF Connection!Next, Connection!Accept, Connection!Becomes
    <2>4. CASE ~(Current = accepted + 1 /\ ~Broken)
      <3>1. CurrentLink' = CurrentLink
        BY <1>0, <2>1, <2>2, <2>4, EndTypes, LinkForm
        DEF CurrentLink, Broken, Serving
      <3> QED
        BY <1>0, <2>1, <2>2, <3>1 DEF Connection!vars
    <2> QED
      BY <2>3, <2>4
  <1>3. CASE ReceiverDrops
    <2>1. rpc # "exited" /\ rpc' # "exited"
      BY <1>3 DEF ReceiverDrops, Serving
    <2>2. LinkInv'
      BY <1>0, <1>3 DEF LinkInv, ReceiverDrops, Serving
    <2>3. \/ CurrentLink' = CurrentLink
          \/ CurrentLink = "open" /\ CurrentLink' = "dead"
      BY <1>0, <1>3, EndTypes, LinkForm DEF CurrentLink, Broken, ReceiverDrops
    <2> QED
      BY <1>0, <2>1, <2>2, <2>3
      DEF Connection!vars, Connection!Next, Connection!Fails, Connection!Becomes
  <1>4. CASE ReceiverEnds
    <2>1. LinkInv'
      BY <1>0, <1>4 DEF LinkInv, ReceiverEnds
    <2>2. CurrentLink' = IF CurrentLink = "none" THEN "none" ELSE "dead"
      BY <1>0, <1>4 DEF CurrentLink, Broken, ReceiverEnds
    <2> QED
      BY <1>0, <1>4, <2>1, <2>2
      DEF ReceiverEnds, Connection!Next, Connection!ReceiverEnds,
          Connection!LeftByReceiver
  <1>5. CASE ReceiverRestarts
    <2>1. rpc = "exited" /\ rpc' = "listen" /\ UNCHANGED vsockVars
      BY <1>5 DEF ReceiverRestarts, ReceiverGoes
    <2>2. LinkInv'
      BY <1>0, <2>1 DEF LinkInv, vsockVars, Serving
    <2>3. CurrentLink' = CurrentLink
      BY <1>0, <2>1 DEF CurrentLink, Broken, Serving, vsockVars
    <2> QED
      BY <1>0, <2>1, <2>2, <2>3 DEF Connection!Next, Connection!ReceiverStarts
  <1> QED
    BY <1>1, <1>2, <1>3, <1>4, <1>5, ReceiverEndCases

LEMMA TransportLinks ==
    ASSUME TypeOK, LinkInv, TransportFailure
    PROVE  LinkInv' /\ [Connection!Next]_(Connection!vars)
  <1>1. PICK c \in Conn : TransportBreaks(c)
    BY TransportEndCases
  <1>2. Current' = Current /\ UNCHANGED <<spc, rpc>>
    BY <1>1 DEF TransportBreaks, Current
  <1>3. LinkInv'
    BY <1>1, <1>2 DEF LinkInv, TransportBreaks
  <1>4. \/ CurrentLink' = CurrentLink
        \/ CurrentLink \in {"pending", "open"} /\ CurrentLink' = "dead"
    BY <1>1, <1>2, LinkForm DEF CurrentLink, Broken, TransportBreaks
  <1> QED
    BY <1>2, <1>3, <1>4
    DEF Connection!vars, Connection!Next, Connection!Fails, Connection!Becomes

LEMMA LinkStep ==
    ASSUME TypeOK, InBounds, SenderInv, LinkInv, [Next]_vars
    PROVE  LinkInv' /\ [Connection!Next]_(Connection!vars)
  <1>1. CASE SenderNext
    BY <1>1, SenderLinks
  <1>2. CASE ReceiverNext
    BY <1>2, ReceiverLinks
  <1>3. CASE TransportFailure
    BY <1>3, TransportLinks
  <1>4. CASE ~SenderNext /\ ~ReceiverNext /\ ~TransportFailure
    <2>1. NoEnds
      BY <1>4, OtherEndCases
    <2>2. Current' = Current
      BY <2>1 DEF NoEnds, SameEnds, Current
    <2>3. LinkInv' /\ CurrentLink' = CurrentLink
      BY <2>1, <2>2 DEF NoEnds, SameEnds, LinkInv, CurrentLink, Broken
    <2> QED
      BY <2>1, <2>3 DEF NoEnds, Connection!vars
  <1> QED
    BY <1>1, <1>2, <1>3, <1>4

THEOREM LinkCorrect == Spec => []LinkInv
  <1>1. TypeOK /\ InBounds /\ SenderInv /\ LinkInv /\ [Next]_vars => LinkInv'
    BY LinkStep
  <1> QED
    BY <1>1, LinkInvInit, TypeCorrect, SenderCorrect, PTL DEF Spec

\* Each direction of the tunnel implements a link: whichever of its ends is
\* replaced and whenever, the connection its sender uses is waiting to be
\* accepted, is the one that is read, or is broken.
THEOREM ImplementsLink == Spec => KeepsToLink
  <1>1. Init => Connection!Init
    BY DEF Init, VsockInit, NfqToVsockInit, VsockToIpv4Init, Connection!Init,
           CurrentLink, Current
  <1>2. TypeOK /\ InBounds /\ SenderInv /\ LinkInv /\ [Next]_vars
            => [Connection!Next]_(Connection!vars)
    BY LinkStep
  <1> QED
    BY <1>1, <1>2, LinkCorrect, TypeCorrect, SenderCorrect, PTL
    DEF Spec, KeepsToLink, Connection!Spec

\* Neither worker has a timeout, and yet they never wait for each other: a
\* sender that finds no room was the last to write or to connect, and what it
\* wrote or made is still there to be read or accepted.
THEOREM NeverWaitCorrect == Spec => []NeverWaitForEachOther
  <1>1. TypeOK /\ SenderInv /\ LinkInv => NeverWaitForEachOther
    <2> SUFFICES ASSUME TypeOK, SenderInv, LinkInv, SenderWaits, ReceiverWaits
                 PROVE  FALSE
      BY DEF NeverWaitForEachOther
    <2>1. Backlog \in Nat \ {0} /\ BufCap \in Nat \ {0}
      BY VsockAssumption
    <2>2. ReceiverWaits => accepted = Len(stream) \/ accepted \in tx
      BY DEF ReceiverWaits
    <2>3. CASE spc = "connect" /\ listening /\ ~CanConnect
      <3>1. accepted < Len(stream)
        BY <2>1, <2>3, EndTypes DEF CanConnect
      <3>2. accepted \in tx
        BY <2>2, <3>1
      <3>3. accepted # Current /\ dst # 0 => dst = Len(stream)
        BY <2>3, <3>2, EndTypes DEF LinkInv, Current
      <3> QED
        BY <2>3, <3>1, <3>2, <3>3, EndTypes DEF LinkInv, Current
    <2>4. CASE spc = "send" /\ dst \in tx \cap rx /\ ~HasRoom(dst)
      <3>1. dst = Len(stream) /\ dst # 0 /\ Current = dst
        BY <2>4 DEF SenderInv, DstIsLast, Current
      <3>2. dst > accepted \/ (dst = accepted /\ rpc \in Serving)
        BY <2>4 DEF LinkInv
      <3>3. CASE dst = accepted
        <4>1. rpc \in {"header", "body"} /\ ~Readable(accepted)
          BY <3>1, <3>2, <3>3, EndTypes DEF ReceiverWaits, Serving
        <4>2. nread \in Nat /\ Len(stream[accepted]) \in Nat
          BY <3>1, <3>3, EndTypes DEF TypeOK, VsockTypeOK
        <4>3. Len(stream[accepted]) <= nread
          BY <4>1, <4>2 DEF Readable
        <4> QED
          BY <2>1, <2>4, <3>3, <4>2, <4>3 DEF HasRoom, Taken
      <3>4. CASE dst > accepted
        BY <2>2, <3>1, <3>4, EndTypes DEF LinkInv
      <3> QED
        BY <3>2, <3>3, <3>4
    <2> QED
      BY <2>3, <2>4 DEF SenderWaits
  <1> QED
    BY <1>1, LinkCorrect, TypeCorrect, SenderCorrect, PTL
=============================================================================
