-------------------------- MODULE PacketLogProofs ---------------------------
(***************************************************************************)
(* What PacketLog states, for payloads of any bytes and any length.        *)
(***************************************************************************)
EXTENDS PacketLog, TLAPS

\* The whole packet is there, and its two lengths are as they should be.
InPacket ==
    /\ MinHeaderLen <= Len(payload) /\ Accepted(payload)
    /\ TotalLen(payload) <= Len(payload)

\* Which slice each part works on, and what was said when it does
Where ==
    /\ lpc = "frame" =>
           /\ source = "stream" /\ at = 0 /\ end = Len(payload)
           /\ said = "nothing"
    /\ lpc = "ip" =>
           /\ at = 0 /\ said = "nothing"
           /\ source = "queue" => end = Len(payload)
           /\ source = "stream" => InPacket /\ end = TotalLen(payload)
    /\ lpc \in {"tcp", "udp"} =>
           /\ InPacket /\ at = HeaderLen(payload) /\ end = TotalLen(payload)
           /\ said = "nothing"
    /\ lpc = "options" =>
           /\ InPacket /\ said = "tcp" /\ end = OptionsTo
           /\ OptionsTo <= TotalLen(payload) /\ OptionsAt <= at

\* The options shown so far, and the one that comes next
Shown ==
    /\ lpc \in {"frame", "ip", "tcp", "udp"} => options = {}
    /\ lpc = "options" =>
           options \cup {p \in {at} : p < OptionsTo} =
               FirstOption \cup BehindAny(options)

LogInv ==
    TypeOK /\ NeverPanics /\ Where /\ Shown
        /\ AgreesWithReceiver /\ EveryOptionShown

-----------------------------------------------------------------------------

LEMMA Nibbles ==
    ASSUME NEW x \in Byte
    PROVE  High(x) \in 0..15 /\ Low(x) \in 0..15
  BY SMTT(30) DEF Byte, High, Low

\* What is read from the fixed part of the header are numbers.
LEMMA HeaderFacts ==
    ASSUME NEW b \in Seq(Byte), MinHeaderLen <= Len(b)
    PROVE  /\ Version(b) \in Nat /\ HeaderLen(b) \in Nat
           /\ TotalLen(b) \in Nat /\ Protocol(b) \in Byte
  <1>1. b[1] \in Byte /\ b[3] \in Byte /\ b[4] \in Byte /\ b[10] \in Byte
    BY DEF MinHeaderLen
  <1>2. High(b[1]) \in 0..15 /\ Low(b[1]) \in 0..15
    BY <1>1, Nibbles
  <1>3. Version(b) \in Nat /\ HeaderLen(b) \in Nat
    BY <1>2 DEF Version, HeaderLen
  <1>4. \A x, y \in Byte : 256 * x + y \in Nat
    BY DEF Byte
  <1> QED
    BY <1>1, <1>3, <1>4 DEF TotalLen, Protocol

LEMMA PayloadFacts ==
    ASSUME TypeOK
    PROVE  /\ payload \in Seq(Byte) /\ Len(payload) \in Nat
           /\ Len(payload) <= MaxPacketSize /\ MaxPacketSize \in Nat
           /\ source = "stream" => Len(payload) = MaxPacketSize
           /\ MinHeaderLen <= MaxPacketSize
           /\ MinHeaderLen <= Len(payload) =>
                  /\ HeaderLen(payload) \in Nat /\ TotalLen(payload) \in Nat
  <1>1. /\ payload \in Seq(Byte) /\ Len(payload) <= MaxPacketSize
        /\ source = "stream" => Len(payload) = MaxPacketSize
        /\ MinHeaderLen <= MaxPacketSize /\ MaxPacketSize \in Nat
    BY PayloadsAssumption, Ipv4HeaderAssumption DEF TypeOK
  <1> QED
    BY <1>1, HeaderFacts

\* The data offset of a TCP header that is there
LEMMA OffsetFacts ==
    ASSUME TypeOK, InPacket, at = HeaderLen(payload), end = TotalLen(payload),
           MinHeaderLen <= Size
    PROVE  /\ DataOffset \in Nat
           /\ OptionsTo = at + DataOffset
           /\ OptionsAt = at + MinHeaderLen
  <1>1. /\ payload \in Seq(Byte) /\ Len(payload) \in Nat
        /\ HeaderLen(payload) \in Nat /\ TotalLen(payload) \in Nat
    BY PayloadFacts DEF InPacket
  <1>2. at + 13 \in 1..Len(payload)
    BY <1>1 DEF InPacket, Size, MinHeaderLen
  <1>3. High(payload[at + 13]) \in 0..15
    BY <1>1, <1>2, Nibbles
  <1>4. at + 12 + 1 = at + 13 /\ HeaderLen(payload) + 13 = at + 13
    BY <1>1
  <1> QED
    BY <1>1, <1>3, <1>4 DEF DataOffset, ByteAt, OptionsTo, OptionsAt

LEMMA InitLog == Init => LogInv
  <1> SUFFICES ASSUME Init PROVE LogInv
    OBVIOUS
  <1>1. TypeOK
    <2>1. Len(payload) \in Nat
      BY PayloadsAssumption DEF Init
    <2> QED
      BY <2>1 DEF Init, TypeOK, Ended, Whole
  <1>2. Where
    BY DEF Init, Where
  <1> QED
    BY <1>1, <1>2
       DEF Init, LogInv, NeverPanics, Shown, AgreesWithReceiver, EveryOptionShown

-----------------------------------------------------------------------------
(* The steps.  Slice panics only if its bounds are wrong, so each step has *)
(* first that it does not, and then what the slice is.                     *)

LEMMA FrameStep == LogInv /\ Frame => LogInv'
  <1> SUFFICES ASSUME LogInv, Frame PROVE LogInv'
    OBVIOUS
  <1> USE DEF LogInv, At
  <1>1. /\ payload \in Seq(Byte) /\ Len(payload) = MaxPacketSize
        /\ MaxPacketSize \in Nat /\ MinHeaderLen <= MaxPacketSize
        /\ HeaderLen(payload) \in Nat /\ TotalLen(payload) \in Nat
    BY PayloadFacts DEF Frame, Where
  <1>2. InPacket /\ at = 0 /\ end = Len(payload) /\ source = "stream"
    BY <1>1 DEF Frame, Where, InPacket, Accepted
  <1>3. lpc' = "ip" /\ at' = 0 /\ end' = TotalLen(payload)
    BY <1>1, <1>2 DEF Frame, Slice, Size, InPacket
  <1>4. TypeOK'
    BY <1>1, <1>2, <1>3 DEF TypeOK, Frame, Ended, InPacket
  <1>5. Where'
    BY <1>2, <1>3 DEF Where, Frame, InPacket, HeaderLen, TotalLen
  <1> QED
    BY <1>2, <1>3, <1>4, <1>5
       DEF Frame, NeverPanics, Shown, Where, AgreesWithReceiver, EveryOptionShown

LEMMA RejectStep == LogInv /\ Reject => LogInv'
  BY DEF LogInv, At, Reject, TypeOK, NeverPanics, Where, Shown,
         AgreesWithReceiver, EveryOptionShown, Ended

\* A part that ends the log and is not the one for a whole TCP segment
LEMMA EndsStep ==
    ASSUME LogInv, NEW part, At(part), part \in {"ip", "tcp", "udp"},
           NEW n \in Nat, n <= Size, NEW what, Ends(n, what),
           what \in {"truncated", "version", "invalid", "cut", "other",
                     "tcp-truncated", "udp", "udp-truncated"},
           what \in Whole <=> InPacket,
           source = "stream" => InPacket
    PROVE  LogInv'
  <1> USE DEF LogInv, At
  <1>1. at \in Nat /\ end \in Nat /\ Size \in Nat
    BY DEF TypeOK, Size
  <1>2. lpc' = "done" /\ said' = what /\ at' = at /\ end' = end
    BY <1>1 DEF Ends, Slice, Size
  <1>3. TypeOK' /\ NeverPanics' /\ Where' /\ Shown' /\ EveryOptionShown'
    BY <1>2 DEF Ends, TypeOK, NeverPanics, Where, Shown, EveryOptionShown,
                Ended, Whole
  <1>4. AgreesWithReceiver'
    BY <1>2 DEF AgreesWithReceiver, InPacket, Accepted, Version, HeaderLen,
                TotalLen
  <1> QED
    BY <1>3, <1>4

LEMMA IpMalformedStep == LogInv /\ IpMalformed => LogInv'
  <1> SUFFICES ASSUME LogInv, IpMalformed PROVE LogInv'
    OBVIOUS
  <1> USE DEF LogInv
  <1>0. At("ip") /\ lpc = "ip"
    BY DEF IpMalformed, At
  <1>1. /\ payload \in Seq(Byte) /\ Len(payload) \in Nat
        /\ MinHeaderLen <= Len(payload) =>
               HeaderLen(payload) \in Nat /\ TotalLen(payload) \in Nat
        /\ source \in {"queue", "stream"}
    BY PayloadFacts DEF TypeOK
  <1>2. /\ at = 0
        /\ source = "queue" => end = Len(payload)
        /\ source = "stream" => InPacket /\ end = TotalLen(payload)
    BY <1>0 DEF Where
  <1>3. source = "queue" => Size = Len(payload)
    BY <1>1, <1>2 DEF Size
  <1>4. /\ source = "stream" =>
               /\ Size = TotalLen(payload) /\ MinHeaderLen <= Size
               /\ HeaderIsThere /\ IsVersion4
               /\ HeaderLen(payload) <= TotalLen(payload)
    BY <1>1, <1>2 DEF Size, InPacket, Accepted, HeaderIsThere, IsVersion4,
                      MinHeaderLen
  <1>5. Size \in Nat
    BY <1>1, <1>2, <1>3, <1>4 DEF InPacket
  <1>6. PICK n \in {0, 1, MinHeaderLen},
             what \in {"truncated", "version", "invalid", "cut"} :
            n <= Size /\ Ends(n, what) /\ source = "queue" /\ ~InPacket
    <2>1. CASE Size < MinHeaderLen /\ Ends(0, "truncated")
      <3>1. 0 <= Size /\ source = "queue" /\ ~InPacket
        BY <1>1, <1>3, <1>4, <1>5, <2>1 DEF InPacket, MinHeaderLen
      <3> QED
        BY <2>1, <3>1
    <2>2. CASE Size >= MinHeaderLen /\ ~HeaderIsThere /\ Ends(1, "truncated")
      <3>1. 1 <= Size /\ source = "queue" /\ ~InPacket
        BY <1>1, <1>3, <1>4, <1>5, <2>2
           DEF InPacket, MinHeaderLen, HeaderIsThere, Accepted
      <3> QED
        BY <2>2, <3>1
    <2>3. CASE HeaderIsThere /\ ~IsVersion4 /\ Ends(MinHeaderLen, "version")
      <3>1. MinHeaderLen <= Size /\ source = "queue" /\ ~InPacket
        BY <1>1, <1>2, <1>4, <1>5, <2>3
           DEF InPacket, HeaderIsThere, IsVersion4, Accepted, MinHeaderLen
      <3> QED
        BY <2>3, <3>1
    <2>4. CASE /\ HeaderIsThere /\ TotalLen(payload) < HeaderLen(payload)
               /\ Ends(MinHeaderLen, "invalid")
      <3>1. MinHeaderLen <= Size /\ source = "queue" /\ ~InPacket
        BY <1>1, <1>2, <1>3, <1>4, <1>5, <2>4
           DEF InPacket, HeaderIsThere, Accepted, MinHeaderLen
      <3> QED
        BY <2>4, <3>1
    <2>5. CASE /\ HeaderIsThere /\ Size < TotalLen(payload)
               /\ Ends(MinHeaderLen, "cut")
      <3>1. MinHeaderLen <= Size /\ source = "queue" /\ ~InPacket
        BY <1>1, <1>2, <1>3, <1>4, <1>5, <2>5 DEF InPacket, HeaderIsThere, MinHeaderLen
      <3> QED
        BY <2>5, <3>1
    <2> QED
      BY <2>1, <2>2, <2>3, <2>4, <2>5 DEF IpMalformed
  <1>7. n \in Nat /\ what \notin Whole
    BY <1>6 DEF MinHeaderLen, Whole
  <1> QED
    BY <1>0, <1>6, <1>7, EndsStep

LEMMA IpPayloadStep == LogInv /\ IpPayload => LogInv'
  <1> SUFFICES ASSUME LogInv, IpPayload PROVE LogInv'
    OBVIOUS
  <1> USE DEF LogInv, At
  <1>1. /\ payload \in Seq(Byte) /\ Len(payload) \in Nat
        /\ Len(payload) <= MaxPacketSize /\ MaxPacketSize \in Nat
        /\ MinHeaderLen <= Len(payload) =>
               HeaderLen(payload) \in Nat /\ TotalLen(payload) \in Nat
        /\ source \in {"queue", "stream"}
    BY PayloadFacts DEF TypeOK
  <1>2. /\ at = 0
        /\ source = "queue" => end = Len(payload)
        /\ source = "stream" => InPacket /\ end = TotalLen(payload)
    BY DEF Where, IpPayload
  <1>3. /\ Size \in Nat /\ Size = end
        /\ MinHeaderLen <= Size /\ Size <= Len(payload)
        /\ HeaderLen(payload) \in Nat /\ TotalLen(payload) \in Nat
        /\ TotalLen(payload) <= Size
    BY <1>1, <1>2 DEF IpPayload, HeaderIsThere, Size, MinHeaderLen, InPacket
  <1>4. InPacket
    BY <1>1, <1>3 DEF IpPayload, HeaderIsThere, IsVersion4, InPacket, Accepted,
                      MinHeaderLen
  <1>5. /\ lpc' = PartOf(Protocol(payload))
        /\ at' = HeaderLen(payload) /\ end' = TotalLen(payload)
    BY <1>2, <1>3 DEF IpPayload, Slice
  <1>6. /\ PartOf(Protocol(payload)) \in {"tcp", "udp", "done"}
        /\ said' = IF lpc' = "done" THEN "other" ELSE "nothing"
        /\ options' = {}
    BY <1>5 DEF PartOf, IpPayload, Where, Shown
  <1>7. TypeOK'
    BY <1>3, <1>4, <1>5, <1>6 DEF TypeOK, IpPayload, Ended, Whole, InPacket, Accepted
  <1>8. InPacket'
    BY <1>4 DEF InPacket, Accepted, Version, HeaderLen, TotalLen, IpPayload
  <1>9. Where' /\ Shown'
    BY <1>5, <1>6, <1>8 DEF Where, Shown, IpPayload, HeaderLen, TotalLen
  <1>10. AgreesWithReceiver'
    BY <1>6, <1>8 DEF AgreesWithReceiver, InPacket, Whole
  <1> QED
    BY <1>5, <1>6, <1>7, <1>9, <1>10 DEF NeverPanics, EveryOptionShown

LEMMA TcpTruncatedStep == LogInv /\ TcpTruncated => LogInv'
  <1> SUFFICES ASSUME LogInv, TcpTruncated PROVE LogInv'
    OBVIOUS
  <1>1. At("tcp") /\ InPacket
    BY DEF TcpTruncated, LogInv, Where, At
  <1>2. Size \in Nat
    BY DEF LogInv, TypeOK, Size
  <1>3. CASE Size < MinHeaderLen /\ Ends(0, "tcp-truncated")
    BY <1>1, <1>2, <1>3, EndsStep DEF Whole
  <1>4. CASE Size >= MinHeaderLen /\ Ends(13, "tcp-truncated")
    <2>1. 13 <= Size
      BY <1>2, <1>4 DEF MinHeaderLen
    <2> QED
      BY <1>1, <1>4, <2>1, EndsStep DEF Whole
  <1> QED
    BY <1>3, <1>4 DEF TcpTruncated

LEMMA WriteUdpStep == LogInv /\ WriteUdp => LogInv'
  <1> SUFFICES ASSUME LogInv, WriteUdp PROVE LogInv'
    OBVIOUS
  <1>1. At("udp") /\ InPacket
    BY DEF WriteUdp, LogInv, Where, At
  <1>2. Size \in Nat
    BY DEF LogInv, TypeOK, Size
  <1>3. CASE Size < UdpHeaderLen
    <2>1. Ends(0, "udp-truncated")
      BY <1>3 DEF WriteUdp
    <2> QED
      BY <1>1, <1>2, <2>1, EndsStep DEF Whole
  <1>4. CASE ~(Size < UdpHeaderLen)
    <2>1. Ends(6, "udp") /\ 6 <= Size
      BY <1>2, <1>4 DEF WriteUdp, UdpHeaderLen
    <2> QED
      BY <1>1, <2>1, EndsStep DEF Whole
  <1> QED
    BY <1>3, <1>4

LEMMA WriteTcpStep == LogInv /\ WriteTcp => LogInv'
  <1> SUFFICES ASSUME LogInv, WriteTcp PROVE LogInv'
    OBVIOUS
  <1> USE DEF LogInv, At
  <1>1. /\ InPacket /\ at = HeaderLen(payload) /\ end = TotalLen(payload)
        /\ options = {} /\ said' = "tcp" /\ options' = {}
    BY DEF Where, Shown, WriteTcp
  <1>2. /\ DataOffset \in Nat /\ OptionsTo = at + DataOffset
        /\ OptionsAt = at + MinHeaderLen
    BY <1>1, OffsetFacts DEF WriteTcp
  <1>3. at \in Nat /\ end \in Nat /\ Size = end - at /\ at <= end
    BY DEF TypeOK, Size
  <1>4. InPacket'
    BY <1>1 DEF InPacket, Accepted, Version, HeaderLen, TotalLen, WriteTcp
  <1>5. CASE DataOffset > MinHeaderLen
    <2>1. lpc' = "options" /\ at' = OptionsAt /\ end' = OptionsTo
      BY <1>2, <1>3, <1>5 DEF WriteTcp, Slice, OptionsFrom, MinHeaderLen
    <2>2. at' \in Nat /\ end' \in Nat /\ at' <= end' /\ end' <= end
      BY <1>2, <1>3, <1>5, <2>1 DEF WriteTcp, MinHeaderLen
    <2>3. OptionsAt' = OptionsAt /\ OptionsTo' = OptionsTo
      BY DEF OptionsAt, OptionsTo, HeaderLen, WriteTcp
    <2>4. TypeOK'
      BY <1>1, <1>3, <2>1, <2>2
         DEF TypeOK, WriteTcp, Ended, Whole, OptionsAt, HeaderLen, TotalLen
    <2>5. Where'
      BY <1>1, <1>4, <2>1, <2>2, <2>3 DEF Where, WriteTcp, TotalLen
    <2>6. Shown'
      <3>1. FirstOption' = {p \in {at'} : p < OptionsTo'}
        BY <2>1, <2>3 DEF FirstOption
      <3>2. BehindAny(options)' = {}
        BY <1>1 DEF BehindAny
      <3> QED
        BY <1>1, <2>1, <3>1, <3>2 DEF Shown
    <2> QED
      BY <2>1, <2>4, <2>5, <2>6
         DEF NeverPanics, AgreesWithReceiver, EveryOptionShown
  <1>6. CASE ~(DataOffset > MinHeaderLen)
    <2>1. lpc' = "done" /\ at' = at /\ end' = end
      BY <1>3, <1>6 DEF WriteTcp, Slice, MinHeaderLen
    <2>2. OptionsTo = OptionsAt /\ OptionsTo \in Nat
      BY <1>2, <1>3, <1>6 DEF WriteTcp, MinHeaderLen
    <2>3. EveryOptionShown'
      <3>1. FirstOption' = {}
        BY <2>2 DEF FirstOption, OptionsAt, OptionsTo, HeaderLen, WriteTcp
      <3>2. BehindAny(options)' = {}
        BY <1>1 DEF BehindAny
      <3> QED
        BY <1>1, <3>1, <3>2 DEF EveryOptionShown
    <2>4. TypeOK' /\ NeverPanics' /\ Where' /\ Shown'
      BY <1>1, <2>1 DEF TypeOK, NeverPanics, Where, Shown, WriteTcp, Ended, Whole
    <2>5. AgreesWithReceiver'
      BY <1>1, <1>4 DEF AgreesWithReceiver, InPacket, Whole
    <2> QED
      BY <2>3, <2>4, <2>5
  <1> QED
    BY <1>5, <1>6

-----------------------------------------------------------------------------

LEMMA BehindOneMore ==
    \A S, p : BehindAny(S \cup {p}) = BehindAny(S) \cup Behind(p)
  BY Zenon DEF BehindAny

\* Where options begin depends on the payload alone.
LEMMA BehindKept ==
    ASSUME UNCHANGED payload
    PROVE  /\ FirstOption' = FirstOption
           /\ BehindAny(options)' = BehindAny(options')
  <1>1. /\ FirstOption' = FirstOption
        /\ \A p : Behind(p)' = Behind(p)
    BY DEF FirstOption, OptionsAt, OptionsTo, HeaderLen, Behind, LenOf
  <1> QED
    BY <1>1 DEF BehindAny

\* A turn of the loop that shows an option and goes on behind it, or stops
\* where nothing is behind it
LEMMA OptionShown ==
    ASSUME LogInv, At("options"), Size > 0, ShowsOne, end' = end,
           \/ /\ lpc' = "options" /\ at' \in Nat /\ at < at' /\ at' <= end
              /\ Behind(at) = {p \in {at'} : p < OptionsTo}
           \/ lpc' = "done" /\ at' = at /\ Behind(at) = {}
    PROVE  LogInv'
  <1> USE DEF LogInv, At
  <1>1. /\ InPacket /\ said = "tcp" /\ end = OptionsTo
        /\ OptionsTo <= TotalLen(payload) /\ OptionsAt <= at
    BY DEF Where
  <1>2. /\ at \in Nat /\ end \in Nat /\ at < OptionsTo /\ OptionsAt \in Nat
        /\ TotalLen(payload) \in Nat
    BY <1>1, PayloadFacts
       DEF TypeOK, Size, OptionsAt, InPacket, MinHeaderLen
  <1>3. UNCHANGED <<payload, source, said>> /\ options' = options \cup {at}
    BY DEF ShowsOne
  <1>4. /\ OptionsAt' = OptionsAt /\ OptionsTo' = OptionsTo
        /\ InPacket' /\ TotalLen(payload)' = TotalLen(payload)
    BY <1>1, <1>3 DEF OptionsAt, OptionsTo, HeaderLen, InPacket, Accepted,
                      Version, TotalLen
  <1>5. /\ FirstOption' = FirstOption
        /\ BehindAny(options)' = BehindAny(options) \cup Behind(at)
    BY <1>3, BehindKept, BehindOneMore DEF FirstOption
  <1>6. options' = FirstOption \cup BehindAny(options)
    BY <1>2, <1>3 DEF Shown
  <1>7. TypeOK'
    BY <1>1, <1>2, <1>3, <1>4 DEF TypeOK, Ended, OptionsAt
  <1>8. Where' /\ NeverPanics'
    BY <1>1, <1>2, <1>3, <1>4 DEF Where, NeverPanics
  <1>9. AgreesWithReceiver'
    BY <1>1, <1>3, <1>4 DEF AgreesWithReceiver, InPacket, Whole
  <1>10. Shown' /\ EveryOptionShown'
    BY <1>4, <1>5, <1>6 DEF Shown, EveryOptionShown
  <1> QED
    BY <1>7, <1>8, <1>9, <1>10

\* The bytes of the options, and the reference's view of them
LEMMA OptionBytes ==
    ASSUME LogInv, lpc = "options", Size > 0
    PROVE  /\ Kind = payload[at + 1] /\ Kind \in Byte
           /\ Size \in Nat /\ at \in Nat /\ end \in Nat /\ end = OptionsTo
           /\ Size >= 2 <=> at + 1 # OptionsTo
           /\ Size >= 2 => OptionLen = payload[at + 2] /\ OptionLen \in Byte
           /\ Size = end - at
  <1>1. /\ payload \in Seq(Byte) /\ Len(payload) \in Nat
        /\ at \in Nat /\ end \in Nat /\ end <= Len(payload)
        /\ end = OptionsTo /\ Size = end - at
    BY PayloadFacts DEF LogInv, TypeOK, Where, Size
  <1>2. at + 0 + 1 = at + 1 /\ at + 1 + 1 = at + 2
    BY <1>1
  <1>3. at + 1 \in 1..Len(payload) /\ (Size >= 2 => at + 2 \in 1..Len(payload))
    BY <1>1
  <1> QED
    BY <1>1, <1>2, <1>3 DEF Kind, OptionLen, ByteAt

LEMMA OptionsEndStep == LogInv /\ OptionsEnd => LogInv'
  <1> SUFFICES ASSUME LogInv, OptionsEnd PROVE LogInv'
    OBVIOUS
  <1> USE DEF LogInv, At, OptionsEnd
  <1>1. /\ InPacket /\ said = "tcp" /\ at = OptionsTo /\ at \in Nat
        /\ UNCHANGED <<payload, source, said, options, at, end>>
        /\ lpc' = "done"
    BY DEF Where, TypeOK, Size
  <1>2. options = FirstOption \cup BehindAny(options)
    BY <1>1 DEF Shown
  <1>4. EveryOptionShown'
    BY <1>1, <1>2, BehindKept DEF EveryOptionShown
  <1>5. TypeOK' /\ NeverPanics' /\ Where' /\ Shown'
    BY <1>1 DEF TypeOK, NeverPanics, Where, Shown, Ended
  <1>6. AgreesWithReceiver'
    BY <1>1 DEF AgreesWithReceiver, InPacket, Whole, Accepted, Version,
                HeaderLen, TotalLen
  <1> QED
    BY <1>4, <1>5, <1>6

LEMMA EolStep == LogInv /\ Eol => LogInv'
  <1> SUFFICES ASSUME LogInv, Eol PROVE LogInv'
    OBVIOUS
  <1>1. Size \in Nat /\ Kind = payload[at + 1] /\ at \in Nat /\ end \in Nat
    BY OptionBytes DEF Eol, At
  <1>2. Behind(at) = {}
    BY <1>1 DEF Eol, Behind, LenOf, TcpEol, TcpNop
  <1>3. lpc' = "done" /\ at' = at /\ end' = end
    BY <1>1 DEF Eol, Slice, AfterEol, Size
  <1> QED
    BY <1>1, <1>2, <1>3, OptionShown DEF Eol

LEMMA NopStep == LogInv /\ Nop => LogInv'
  <1> SUFFICES ASSUME LogInv, Nop PROVE LogInv'
    OBVIOUS
  <1>1. /\ Size \in Nat /\ Kind = payload[at + 1] /\ at \in Nat /\ end \in Nat
        /\ Size = end - at
    BY OptionBytes DEF Nop, At
  <1>2. Behind(at) = {p \in {at + 1} : p < OptionsTo}
    BY <1>1 DEF Nop, Behind, LenOf
  <1>3. lpc' = "options" /\ at' = at + 1 /\ end' = end
    BY <1>1 DEF Nop, Slice
  <1>4. at' \in Nat /\ at < at' /\ at' <= end
    BY <1>1, <1>3 DEF Nop
  <1> QED
    BY <1>2, <1>3, <1>4, OptionShown DEF Nop

LEMMA MalformedStep == LogInv /\ Malformed => LogInv'
  <1> SUFFICES ASSUME LogInv, Malformed PROVE LogInv'
    OBVIOUS
  <1>1. /\ Kind = payload[at + 1] /\ Kind \in Byte
        /\ Size \in Nat /\ at \in Nat /\ end \in Nat /\ end = OptionsTo
        /\ Size >= 2 <=> at + 1 # OptionsTo
        /\ Size >= 2 => OptionLen = payload[at + 2] /\ OptionLen \in Byte
        /\ Size = end - at
    BY OptionBytes DEF Malformed, At
  <1>2. Behind(at) = {}
    BY <1>1 DEF Malformed, Behind, LenOf, WellFormed, Byte
  <1>3. lpc' = "done" /\ at' = at /\ end' = end
    BY <1>1 DEF Malformed, Slice
  <1> QED
    BY <1>2, <1>3, OptionShown DEF Malformed

LEMMA ShowOptionStep == LogInv /\ ShowOption => LogInv'
  <1> SUFFICES ASSUME LogInv, ShowOption PROVE LogInv'
    OBVIOUS
  <1>1. /\ Kind = payload[at + 1] /\ Kind \in Byte
        /\ Size \in Nat /\ at \in Nat /\ end \in Nat /\ end = OptionsTo
        /\ at + 1 # OptionsTo
        /\ OptionLen = payload[at + 2] /\ OptionLen \in Nat
        /\ Size = end - at
        /\ 2 <= OptionLen /\ OptionLen <= Size
    BY OptionBytes DEF ShowOption, At, WellFormed, Byte
  <1>2. Behind(at) = {p \in {at + OptionLen} : p < OptionsTo}
    BY <1>1 DEF ShowOption, Behind, LenOf
  <1>3. lpc' = "options" /\ at' = at + OptionLen /\ end' = end
    BY <1>1 DEF ShowOption, Slice, PastTheOption
  <1>4. at' \in Nat /\ at < at' /\ at' <= end
    BY <1>1, <1>3
  <1> QED
    BY <1>2, <1>3, <1>4, OptionShown DEF ShowOption

-----------------------------------------------------------------------------

LEMMA LogInvHolds == Spec => []LogInv
  <1>1. LogInv /\ [Next]_vars => LogInv'
    <2> SUFFICES ASSUME LogInv, [Next]_vars PROVE LogInv'
      OBVIOUS
    <2>1. CASE UNCHANGED vars
      <3>1. FirstOption' = FirstOption /\ BehindAny(options)' = BehindAny(options)
        BY <2>1, BehindKept DEF vars
      <3>2. TypeOK' /\ NeverPanics' /\ AgreesWithReceiver'
        BY <2>1 DEF vars, LogInv, TypeOK, NeverPanics, AgreesWithReceiver,
                    Accepted, Version, HeaderLen, TotalLen
      <3>3. Where'
        BY <2>1 DEF vars, LogInv, Where, InPacket, Accepted, Version,
                    HeaderLen, TotalLen, OptionsAt, OptionsTo
      <3>4. Shown' /\ EveryOptionShown'
        BY <2>1, <3>1 DEF vars, LogInv, Shown, EveryOptionShown, OptionsTo, HeaderLen
      <3> QED
        BY <3>2, <3>3, <3>4 DEF LogInv
    <2> QED
      BY <2>1, FrameStep, RejectStep, IpMalformedStep, IpPayloadStep,
         TcpTruncatedStep, WriteTcpStep, WriteUdpStep, OptionsEndStep, EolStep,
         NopStep, MalformedStep, ShowOptionStep DEF Next
  <1> QED
    BY InitLog, <1>1, PTL DEF Spec

\* The slices stay within the payload, and the options behind the headers.
THEOREM LogTypeCorrect == Spec => []TypeOK
  <1>1. LogInv => TypeOK
    BY DEF LogInv
  <1> QED
    BY LogInvHolds, <1>1, PTL

\* No payload, whatever its bytes and its length, makes the log read beyond
\* the end of a slice.
THEOREM LogNeverPanics == Spec => []NeverPanics
  <1>1. LogInv => NeverPanics
    BY DEF LogInv
  <1> QED
    BY LogInvHolds, <1>1, PTL

\* For every payload the log's parser and ipv4_total_len agree about what a
\* complete packet is.
THEOREM LogAgreesWithReceiver == Spec => []AgreesWithReceiver
  <1>1. LogInv => AgreesWithReceiver
    BY DEF LogInv
  <1> QED
    BY LogInvHolds, <1>1, PTL

\* For every TCP header the log shows each option once, at the place where
\* the reference says it begins.
THEOREM LogShowsEveryOption == Spec => []EveryOptionShown
  <1>1. LogInv => EveryOptionShown
    BY DEF LogInv
  <1> QED
    BY LogInvHolds, <1>1, PTL
=============================================================================
