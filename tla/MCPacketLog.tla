---------------------------- MODULE MCPacketLog -----------------------------
(* PacketLog with packets assembled from the bytes it looks at.            *)
EXTENDS PacketLog, SequencesExt

Zeros(n) == [i \in 1..n |-> 0]

\* A header of `words' words that announces `total' bytes
Header(version, words, total, protocol) ==
    LET fixed == <<16 * version + words, 0, 0, total>> \o Zeros(5)
                     \o <<protocol>> \o Zeros(10)
    IN  fixed \o Zeros(IF words > 5 THEN 4 * (words - 5) ELSE 0)

Segment(words, opts) == Zeros(12) \o <<16 * words>> \o Zeros(7) \o opts

Cut(b, n) == SubSeq(b, 1, IF n < Len(b) THEN n ELSE Len(b))

\* The receiving worker's buffer, with the end of an earlier packet in it
Over(b) == Cut(b, MaxPacketSize) \o [i \in 1..(MaxPacketSize - Len(Cut(b, MaxPacketSize))) |-> 1]

\* Headers at the bounds of what either parser accepts
Headers ==
    {Header(v, w, t, p) : v \in {4, 6}, w \in {4, 5, 6},
                          t \in {19, 20, 23, 24, 28, 40, 44, 65},
                          p \in {1, Tcp, Udp}}

\* Option bytes: kinds with and without a length, lengths that are too small
\* or too large
FourBytes ==
    {<<a, b, c, d>> : a \in {0, 1, 2}, b \in {0, 1, 2, 3, 4, 5},
                      c \in {0, 1, 8}, d \in {0, 2}}

Segments ==
    {Segment(w, o) : w \in {4, 5, 6, 7}, o \in {<<>>, <<2, 4, 5, 6>>}}
        \cup {Segment(6, o) : o \in FourBytes}
        \cup {Segment(7, <<8, 3, 1>> \o o \o <<2>>) : o \in FourBytes}

MCQueuePayloads ==
    {Cut(h \o Zeros(24), n) : h \in Headers, n \in {0, 19, 20, 24, 28, 40}}
        \cup {h \o s : h \in {Header(4, 5, t, Tcp) : t \in {44, 48}},
                       s \in Segments}

MCReadBuffers ==
    {Over(h \o s) : h \in Headers, s \in {Segment(5, <<>>), Segment(6, <<2, 4, 5, 6>>)}}
=============================================================================
