---------------------------- MODULE PacketProofs ----------------------------
(***************************************************************************)
(* For any messages, packet sizes and limits: read_message stays within    *)
(* its limits and its descriptors tile the payload, whoever sends; and     *)
(* with write_message at the other end it refuses nothing, and the two     *)
(* implement MessageChannel.                                               *)
(***************************************************************************)
EXTENDS Packet, SequenceTheorems, TLAPS

OwnHeader == [type : {m.type : m \in Messages}, status : {"eom", "more"}, length : Nat, id : Nat]
AnyHeader == Headers \cup OwnHeader
Body == [bytes : Seq(Nat)]

Descriptors == [status : {h.status : h \in AnyHeader}, offset : Nat, bytes : Nat]

TypeOK ==
    /\ foreign \in BOOLEAN /\ alive \in BOOLEAN
    /\ sent \in Seq(Messages)
    /\ offset \in Nat /\ size \in Nat /\ id \in 1..(IdModulus - 1)
    /\ writer \in {"idle", "header", "body"}
    /\ stream \in Seq(AnyHeader \cup Body)
    /\ assembled \in Seq(Nat)
    /\ packets \in Seq(Descriptors)
    /\ header \in AnyHeader \cup {NoHeader}
    /\ smp \in [frames : Nat, bytes : Nat]

\* A foreign client takes the place of write_message.
Writing ==
    /\ foreign => writer = "idle"
    /\ writer # "idle" =>
         /\ sent # <<>>
         /\ size > HEADER_LEN /\ size <= MaxPacket
         /\ offset <= Len(Current.payload)

\* Headers and bodies alternate, beginning with the header that was read last,
\* and each body has the length that its header announces.
Odd(k) == k % 2 = 1
IsHeader(k) == Odd(k) <=> header = NoHeader
BodyOf(h, c) == c \in Body /\ (h.length >= HEADER_LEN => Len(c.bytes) = h.length - HEADER_LEN)
Before(k) == IF k = 1 THEN header ELSE stream[k - 1]

Framing ==
    /\ \A k \in 1..Len(stream) :
         /\ IsHeader(k) => stream[k] \in AnyHeader
         /\ ~IsHeader(k) => BodyOf(Before(k), stream[k])
    /\ alive =>
         /\ writer = "body" <=> ~IsHeader(Len(stream) + 1)
         /\ writer = "body" => Before(Len(stream) + 1).length = HEADER_LEN + Take

Reading ==
    /\ header # NoHeader =>
         /\ header.length >= HEADER_LEN
         /\ header.type # "SMP" => Len(assembled) + (header.length - HEADER_LEN) <= MaxMessage
    /\ result = "reading" =>
         /\ Len(packets) <= MaxPackets
         /\ header.type # "SMP" => smp.frames < MaxFrames

IInv ==
    /\ TypeOK /\ Writing /\ Reading
    /\ WithinLimits /\ DescriptorsTile
    /\ result = "reading" => Framing
-----------------------------------------------------------------------------
(* Sequences *)

\* What is behind the first element, by position.
LEMMA TailFacts ==
    ASSUME NEW S, NEW s \in Seq(S), s # <<>>
    PROVE  /\ Tail(s) \in Seq(S)
           /\ Len(s) >= 1 /\ Len(Tail(s)) = Len(s) - 1
           /\ Head(s) = s[1] /\ s[1] \in S
           /\ \A k \in 1..(Len(s) - 1) : Tail(s)[k] = s[k + 1]
  BY HeadTailProperties, ElementOfSeq, LenProperties

\* What Append adds, by position.
LEMMA AppendFacts ==
    ASSUME NEW S, NEW s \in Seq(S), NEW x \in S
    PROVE  /\ Append(s, x) \in Seq(S)
           /\ Len(s) \in Nat /\ Len(Append(s, x)) = Len(s) + 1
           /\ \A k \in 1..Len(s) : Append(s, x)[k] = s[k]
           /\ Append(s, x)[Len(s) + 1] = x
           /\ Append(s, x) # <<>>
  BY AppendProperties, LenProperties

\* Two elements.
LEMMA PairFacts ==
    ASSUME NEW S, NEW a \in S, NEW b \in S
    PROVE  <<a, b>> \in Seq(S) /\ Len(<<a, b>>) = 2 /\ <<a, b>>[1] = a /\ <<a, b>>[2] = b
  OBVIOUS

\* A part of a sequence, by position.
LEMMA PartFacts ==
    ASSUME NEW s \in Seq(Nat), NEW a \in Nat, NEW b \in Nat, 1 <= a, a <= b + 1, b <= Len(s)
    PROVE  /\ SubSeq(s, a, b) \in Seq(Nat)
           /\ Len(SubSeq(s, a, b)) = (b + 1) - a
           /\ \A k \in 1..((b + 1) - a) : SubSeq(s, a, b)[k] = s[(a - 1) + k]
  BY SubSeqProperties, LenProperties

\* Two parts that meet are one.
LEMMA PartsMeet ==
    ASSUME NEW s \in Seq(Nat), NEW i \in Nat, NEW a \in Nat, a = i + 1, NEW b \in Nat, i <= b, b <= Len(s)
    PROVE  SubSeq(s, 1, i) \o SubSeq(s, a, b) = SubSeq(s, 1, b)
  BY SMTT(60), ConcatAdjacentSubSeq, LenProperties
-----------------------------------------------------------------------------
(* Whoever sends *)

USE PacketAssumption DEF HEADER_LEN, SMP_HEADER_LEN

\* Odd and even positions alternate.
LEMMA OddFacts == Odd(1) /\ \A n \in Nat : Odd(n + 1) <=> ~Odd(n)
  BY DEF Odd

\* The parts of a header, and of a message.
LEMMA HeaderFields ==
    /\ \A h \in AnyHeader : h.length \in Nat
    /\ \A m \in Messages : /\ m.type \in STRING /\ m.type # "SMP"
                           /\ m.payload \in Seq(Nat) /\ Len(m.payload) \in Nat
                           /\ Len(m.payload) <= MaxMessage /\ Len(m.payload) <= MaxPackets
  BY Zenon, LenProperties DEF AnyHeader, OwnHeader

\* The limits are numbers, and packet sizes are between a header and a limit.
LEMMA Limits ==
    /\ MaxSent \in Nat /\ MaxPacket \in Nat /\ MaxMessage \in Nat /\ MaxPackets \in Nat
    /\ MaxFrames \in Nat /\ MaxFrames > 0
    /\ 1 \in 1..(IdModulus - 1) /\ IdModulus \in Nat
    /\ \A z \in PacketSizes : z \in Nat /\ z > HEADER_LEN /\ z <= MaxPacket
<1>1. /\ MaxSent \in Nat /\ MaxPacket \in Nat /\ MaxMessage \in Nat /\ MaxPackets \in Nat
      /\ MaxFrames \in Nat /\ MaxFrames > 0
  BY Zenon
<1>2. 1 \in 1..(IdModulus - 1) /\ IdModulus \in Nat
  OBVIOUS
<1>3. ASSUME NEW z \in PacketSizes PROVE z \in Nat /\ z > HEADER_LEN /\ z <= MaxPacket
  BY <1>1
<1> QED
  BY Zenon, <1>1, <1>2, <1>3

\* Nothing has been written or read.
LEMMA InitIInv == Init => IInv
<1> SUFFICES ASSUME Init PROVE IInv
  BY Zenon
<1>1. /\ \A S : <<>> \in Seq(S) /\ Len(<<>>) = 0
      /\ ~(\E k \in 1..Len(stream) : TRUE)
  BY EmptySeq DEF Init
<1>2. TypeOK
  BY Zenon, <1>1, Limits DEF Init, TypeOK, NoHeader, NoSmp
<1>3. Writing /\ Reading /\ WithinLimits /\ DescriptorsTile
  BY <1>1, Limits DEF Init, Writing, Reading, WithinLimits, DescriptorsTile, Tiles, NoHeader, NoSmp
<1>4. Framing
  BY <1>1, OddFacts DEF Init, Framing, IsHeader
<1> QED
  BY Zenon, <1>2, <1>3, <1>4 DEF IInv

\* What the writer takes for its next packet.
LEMMA TakeFacts ==
    ASSUME TypeOK, Writing, writer # "idle"
    PROVE  /\ Len(sent) \in Nat /\ Len(sent) >= 1 /\ Current \in Messages
           /\ Take \in Nat /\ offset + Take <= Len(Current.payload)
           /\ Take <= size - HEADER_LEN
           /\ Take > 0 \/ Last
<1>1. Len(sent) \in Nat /\ Len(sent) >= 1 /\ Current \in Messages
  BY SMTT(60), EmptySeq, ElementOfSeq, LenProperties DEF TypeOK, Writing, Current
<1> QED
  BY SMTT(60), <1>1, HeaderFields DEF TypeOK, Writing, Take, Last, Lesser

\* The body of that packet.
LEMMA BodyFacts ==
    ASSUME TypeOK, Writing, writer # "idle"
    PROVE  LET b == SubSeq(Current.payload, offset + 1, offset + Take)
           IN  [bytes |-> b] \in Body /\ Len(b) = Take
<1> DEFINE p == Current.payload
           i == offset + 1
           j == offset + Take
<1>1. Take \in Nat /\ offset \in Nat /\ Current \in Messages /\ offset + Take <= Len(Current.payload)
  BY Zenon, TakeFacts DEF TypeOK
<1>2. p \in Seq(Nat)
  BY Zenon, <1>1, HeaderFields
<1>3. i \in Nat /\ j \in Nat /\ 1 <= i /\ i <= j + 1 /\ j <= Len(p) /\ (j + 1) - i = Take
  BY <1>1
<1>4. SubSeq(p, i, j) \in Seq(Nat) /\ Len(SubSeq(p, i, j)) = (j + 1) - i
  <2> HIDE DEF p, i, j
  <2> QED
    BY Zenon, <1>2, <1>3, PartFacts
<1> QED
  BY Zenon, <1>3, <1>4 DEF Body

\* What does not concern the reader leaves its part of the invariant alone.
LEMMA ReaderUnchanged ==
    ASSUME IInv, UNCHANGED reading, id' \in 1..(IdModulus - 1)
    PROVE  Reading' /\ WithinLimits' /\ DescriptorsTile'
  BY Zenon DEF IInv, reading, Reading, WithinLimits, DescriptorsTile

\* A message is begun.
LEMMA KeepsBegin == IInv /\ Begin => IInv'
<1> SUFFICES ASSUME IInv, Begin PROVE IInv'
  BY Zenon
<1> PICK m \in Messages : sent' = Append(sent, m)
  BY Zenon DEF Begin
<1> PICK z \in PacketSizes : size' = z
  BY Zenon DEF Begin
<1>1. TypeOK /\ sent \in Seq(Messages)
  BY Zenon DEF IInv, TypeOK
<1>2. /\ UNCHANGED <<foreign, stream, alive>> /\ UNCHANGED reading
      /\ ~foreign /\ writer = "idle" /\ offset' = 0 /\ id' = 1 /\ writer' = "header"
  BY Zenon DEF Begin
<1>3. /\ sent' \in Seq(Messages) /\ Len(sent) \in Nat /\ Len(sent') = Len(sent) + 1
      /\ sent'[Len(sent) + 1] = m /\ sent' # <<>>
  BY SMTT(60), <1>1, AppendFacts
<1>4. TypeOK'
  BY Zenon, <1>1, <1>2, <1>3, Limits DEF TypeOK, reading
<1>5. Writing'
  BY <1>2, <1>3, HeaderFields, Limits DEF Writing, Current
<1>6. Reading' /\ WithinLimits' /\ DescriptorsTile'
  BY Zenon, <1>2, Limits, ReaderUnchanged
<1>7. (result = "reading" => Framing)'
  BY Zenon, <1>2 DEF IInv, Framing, BodyOf, IsHeader, Before, reading
<1> QED
  BY Zenon, <1>4, <1>5, <1>6, <1>7 DEF IInv

\* A chunk of the kind that is due continues the stream.
LEMMA FramingGrows ==
    ASSUME TypeOK, Framing, NEW c \in AnyHeader \cup Body, stream' = Append(stream, c), header' = header,
           IsHeader(Len(stream) + 1) => c \in AnyHeader,
           ~IsHeader(Len(stream) + 1) => BodyOf(Before(Len(stream) + 1), c)
    PROVE  /\ stream' \in Seq(AnyHeader \cup Body)
           /\ \A k \in 1..Len(stream') :
                /\ IsHeader(k)' => stream'[k] \in AnyHeader
                /\ ~IsHeader(k)' => BodyOf(Before(k)', stream'[k])
           /\ IsHeader(Len(stream) + 1)' <=> ~IsHeader(Len(stream) + 1)
           /\ Before(Len(stream) + 1)' = c
<1>1. stream \in Seq(AnyHeader \cup Body)
  BY Zenon DEF TypeOK
<1>2. /\ stream' \in Seq(AnyHeader \cup Body)
      /\ Len(stream) \in Nat /\ Len(stream') = Len(stream) + 1
      /\ \A k \in 1..Len(stream) : stream'[k] = stream[k]
      /\ stream'[Len(stream) + 1] = c
  BY <1>1, AppendFacts
<1>3. \A k : IsHeader(k)' <=> IsHeader(k)
  BY Zenon DEF IsHeader
<1>4. \A k \in 1..(Len(stream) + 1) : Before(k)' = Before(k)
  BY <1>2 DEF Before
<1>5. IsHeader(Len(stream) + 1)' <=> ~IsHeader(Len(stream) + 1)
  <2> DEFINE n == Len(stream) + 1
  <2>1. n \in Nat /\ (Len(stream) + 1)' = n + 1
    BY <1>2
  <2>2. Odd(n + 1) <=> ~Odd(n)
    BY Zenon, <2>1, OddFacts
  <2> QED
    BY Zenon, <2>1, <2>2 DEF IsHeader
<1>6. ASSUME NEW k \in 1..Len(stream')
      PROVE  /\ IsHeader(k)' => stream'[k] \in AnyHeader
             /\ ~IsHeader(k)' => BodyOf(Before(k)', stream'[k])
  <2>1. CASE k \in 1..Len(stream)
    BY Zenon, <1>2, <1>3, <1>4, <2>1 DEF Framing
  <2>2. CASE k = Len(stream) + 1
    BY Zenon, <1>2, <1>3, <1>4, <2>2
  <2> QED
    BY <1>2, <2>1, <2>2
<1>7. Before(Len(stream) + 1)' = c
  BY <1>2 DEF Before
<1> QED
  BY Zenon, <1>2, <1>5, <1>6, <1>7

\* A header is written, for what Take leaves to write.
LEMMA KeepsWriteHeader == IInv /\ WriteHeader => IInv'
<1> SUFFICES ASSUME IInv, WriteHeader PROVE IInv'
  BY Zenon
<1> DEFINE h == [type |-> Current.type, status |-> IF Last THEN "eom" ELSE "more",
                 length |-> HEADER_LEN + Take, id |-> id]
<1>1. /\ alive /\ writer = "header" /\ writer' = "body" /\ stream' = Append(stream, h)
      /\ UNCHANGED <<foreign, sent, offset, size, id, alive>> /\ UNCHANGED reading
  BY Zenon DEF WriteHeader
<1>2. UNCHANGED <<header, assembled, packets, smp, result>>
  BY Zenon, <1>1 DEF reading
<1>3. TypeOK /\ Writing
  BY Zenon DEF IInv
<1>4. Take \in Nat /\ Current \in Messages
  BY Zenon, <1>1, <1>3, TakeFacts
<1>5. h \in AnyHeader
  BY <1>3, <1>4, Limits DEF TypeOK, AnyHeader, OwnHeader
<1> HIDE DEF h
<1>6. stream' \in Seq(AnyHeader \cup Body)
  BY Zenon, <1>1, <1>3, <1>5, AppendFacts DEF TypeOK
<1>7. TypeOK' /\ Writing'
  BY Zenon, <1>1, <1>2, <1>3, <1>6 DEF TypeOK, Writing, Current
<1>8. Reading' /\ WithinLimits' /\ DescriptorsTile'
  BY Zenon, <1>1, <1>3, ReaderUnchanged DEF TypeOK
<1>9. ASSUME result' = "reading" PROVE Framing'
  <2>1. Framing
    BY Zenon, <1>2, <1>9 DEF IInv
  <2>2. IsHeader(Len(stream) + 1)
    BY Zenon, <1>1, <2>1 DEF Framing
  <2>3. /\ \A k \in 1..Len(stream') :
             /\ IsHeader(k)' => stream'[k] \in AnyHeader
             /\ ~IsHeader(k)' => BodyOf(Before(k)', stream'[k])
        /\ IsHeader(Len(stream) + 1)' <=> ~IsHeader(Len(stream) + 1)
        /\ Before(Len(stream) + 1)' = h
    BY Zenon, <1>1, <1>2, <1>3, <1>5, <2>1, <2>2, FramingGrows
  <2>4. h.length = HEADER_LEN + Take /\ Take' = Take
    BY Zenon, <1>1 DEF h, Take, Current, Lesser
  <2> QED
    BY Zenon, <1>1, <2>2, <2>3, <2>4 DEF Framing, BodyOf
<1> QED
  BY Zenon, <1>7, <1>8, <1>9 DEF IInv

\* A body is written, and the offset and the identifier move on.
LEMMA KeepsWriteBody == IInv /\ WriteBody => IInv'
<1> SUFFICES ASSUME IInv, WriteBody PROVE IInv'
  BY Zenon
<1> DEFINE c == [bytes |-> SubSeq(Current.payload, offset + 1, offset + Take)]
<1>1. /\ alive /\ writer = "body" /\ stream' = Append(stream, c)
      /\ UNCHANGED <<foreign, sent, size, alive>> /\ UNCHANGED reading
      /\ offset' = (IF Last THEN offset ELSE offset + Take)
      /\ id' = (IF Last THEN id ELSE NextId)
      /\ writer' = (IF Last THEN "idle" ELSE "header")
  BY Zenon DEF WriteBody
<1>2. UNCHANGED <<header, assembled, packets, smp, result>>
  BY Zenon, <1>1 DEF reading
<1>3. TypeOK /\ Writing
  BY Zenon DEF IInv
<1>4. Take \in Nat /\ offset \in Nat /\ Current \in Messages /\ offset + Take <= Len(Current.payload)
  BY Zenon, <1>1, <1>3, TakeFacts DEF TypeOK
<1>5. c \in Body /\ Len(c.bytes) = Take
  BY Zenon, <1>1, <1>3, BodyFacts
<1> HIDE DEF c
<1>6. stream' \in Seq(AnyHeader \cup Body)
  BY Zenon, <1>1, <1>3, <1>5, AppendFacts DEF TypeOK
<1>7. id' \in 1..(IdModulus - 1)
  BY <1>1, <1>3, Limits DEF TypeOK, NextId
<1>8. offset' \in Nat /\ offset' <= Len(Current.payload) /\ Current' = Current
  BY <1>1, <1>3, <1>4 DEF Writing, Current
<1>9. TypeOK'
  BY Zenon, <1>1, <1>2, <1>3, <1>6, <1>7, <1>8 DEF TypeOK
<1>10. Writing'
  BY Zenon, <1>1, <1>3, <1>8 DEF Writing
<1>11. Reading' /\ WithinLimits' /\ DescriptorsTile'
  BY Zenon, <1>1, <1>7, ReaderUnchanged
<1>12. ASSUME result' = "reading" PROVE Framing'
  <2>1. Framing
    BY Zenon, <1>2, <1>12 DEF IInv
  <2>2. ~IsHeader(Len(stream) + 1) /\ Before(Len(stream) + 1).length = HEADER_LEN + Take
    BY Zenon, <1>1, <2>1 DEF Framing
  <2>3. BodyOf(Before(Len(stream) + 1), c)
    BY SMTT(60), <1>4, <1>5, <2>2 DEF BodyOf
  <2>4. /\ \A k \in 1..Len(stream') :
             /\ IsHeader(k)' => stream'[k] \in AnyHeader
             /\ ~IsHeader(k)' => BodyOf(Before(k)', stream'[k])
        /\ IsHeader(Len(stream) + 1)' <=> ~IsHeader(Len(stream) + 1)
    BY Zenon, <1>1, <1>2, <1>3, <1>5, <2>1, <2>2, <2>3, FramingGrows
  <2> QED
    BY Zenon, <1>1, <2>2, <2>4 DEF Framing, BodyOf
<1> QED
  BY Zenon, <1>9, <1>10, <1>11, <1>12 DEF IInv

\* What is left of the stream when the connection goes down.
LEMMA KeepsBreak == IInv /\ Break => IInv'
<1> SUFFICES ASSUME IInv, Break PROVE IInv'
  BY Zenon
<1>1. TypeOK /\ Writing /\ stream \in Seq(AnyHeader \cup Body) /\ Len(stream) \in Nat
  BY Zenon, LenProperties DEF IInv, TypeOK
<1>2. /\ alive' = FALSE /\ UNCHANGED <<foreign, sent, offset, size, id, writer>> /\ UNCHANGED reading
  BY Zenon DEF Break, writing
<1>3. UNCHANGED <<header, assembled, packets, smp, result>>
  BY Zenon, <1>2 DEF reading
<1> PICK n \in 0..Len(stream) : stream' = SubSeq(stream, 1, n)
  BY Zenon DEF Break
<1>4. /\ stream' \in Seq(AnyHeader \cup Body)
      /\ Len(stream') = n /\ \A k \in 1..n : stream'[k] = stream[k]
  BY <1>1, SubSeqProperties
<1>5. TypeOK' /\ Writing'
  BY Zenon, <1>1, <1>2, <1>3, <1>4 DEF TypeOK, Writing, Current
<1>6. Reading' /\ WithinLimits' /\ DescriptorsTile'
  BY Zenon, <1>1, <1>2, ReaderUnchanged DEF TypeOK
<1>7. ASSUME result' = "reading" PROVE Framing'
  <2>1. Framing
    BY Zenon, <1>3, <1>7 DEF IInv
  <2>2. \A k : IsHeader(k)' <=> IsHeader(k)
    BY Zenon, <1>3 DEF IsHeader
  <2>3. \A k \in 1..n : k \in 1..Len(stream) /\ Before(k)' = Before(k)
    BY <1>1, <1>3, <1>4 DEF Before
  <2> QED
    BY Zenon, <1>2, <1>4, <2>1, <2>2, <2>3 DEF Framing, BodyOf
<1> QED
  BY Zenon, <1>5, <1>6, <1>7 DEF IInv

\* A foreign client sends a header, and a body of the length it announces.
LEMMA KeepsForeign == IInv /\ ForeignPacket => IInv'
<1> SUFFICES ASSUME IInv, ForeignPacket PROVE IInv'
  BY Zenon
<1> DEFINE filled(h) == [i \in 1..(h.length - HEADER_LEN) |-> h.id]
<1> PICK h \in Headers : stream' = <<h, [bytes |-> filled(h)]>>
  BY Zenon DEF ForeignPacket
<1>1. /\ foreign /\ alive /\ stream = <<>>
      /\ UNCHANGED <<foreign, sent, offset, size, id, writer, alive>> /\ UNCHANGED reading
  BY Zenon DEF ForeignPacket, writing
<1>2. UNCHANGED <<header, assembled, packets, smp, result>>
  BY Zenon, <1>1 DEF reading
<1>3. TypeOK /\ Writing /\ writer = "idle"
  BY Zenon, <1>1 DEF IInv, Writing
<1>4. h \in AnyHeader /\ h.length \in Nat /\ h.id \in Nat
  BY Zenon DEF AnyHeader
<1>5. filled(h) \in Seq(Nat) /\ (h.length >= HEADER_LEN => Len(filled(h)) = h.length - HEADER_LEN)
  <2>1. CASE h.length >= HEADER_LEN
    <3>1. h.length - HEADER_LEN \in Nat /\ filled(h) \in [1..(h.length - HEADER_LEN) -> Nat]
      BY SMTT(60), <1>4, <2>1
    <3>2. filled(h) \in Seq(Nat)
      BY SMTT(60), <3>1, SeqDef
    <3> QED
      BY <3>1, <3>2, LenProperties
  <2>2. CASE ~(h.length >= HEADER_LEN)
    <3>1. filled(h) \in [1..0 -> Nat]
      BY <1>4, <2>2
    <3> QED
      BY <2>2, <3>1, SeqDef
  <2> QED
    BY Zenon, <2>1, <2>2
<1> DEFINE c == [bytes |-> filled(h)]
<1>6. BodyOf(h, c) /\ c \in Body
  BY Zenon, <1>5 DEF BodyOf, Body
<1>7. stream' = <<h, c>>
  BY Zenon
<1> HIDE DEF c
<1>8. stream' \in Seq(AnyHeader \cup Body) /\ Len(stream') = 2 /\ stream'[1] = h /\ stream'[2] = c
  <2>1. h \in AnyHeader \cup Body /\ c \in AnyHeader \cup Body
    BY Zenon, <1>4, <1>6
  <2> HIDE DEF filled
  <2>2. /\ <<h, c>> \in Seq(AnyHeader \cup Body) /\ Len(<<h, c>>) = 2
        /\ <<h, c>>[1] = h /\ <<h, c>>[2] = c
    BY Zenon, <2>1, PairFacts
  <2> QED
    BY Zenon, <1>7, <2>2
<1>9. TypeOK' /\ Writing'
  BY Zenon, <1>1, <1>2, <1>3, <1>8 DEF TypeOK, Writing, Current
<1>10. Reading' /\ WithinLimits' /\ DescriptorsTile'
  BY Zenon, <1>1, <1>3, ReaderUnchanged DEF TypeOK
<1>11. ASSUME result' = "reading" PROVE Framing'
  <2>1. IsHeader(1) /\ Len(stream) = 0
    BY <1>1, <1>2, <1>3, <1>11 DEF IInv, Framing
  <2>2. Odd(1) /\ ~Odd(2) /\ Odd(3)
    BY DEF Odd
  <2>3. IsHeader(1)' /\ ~IsHeader(2)' /\ IsHeader(3)'
    BY Zenon, <1>2, <2>1, <2>2 DEF IsHeader
  <2>4. Before(2)' = h
    BY <1>8 DEF Before
  <2>5. \A k \in 1..Len(stream') : k = 1 \/ k = 2
    BY <1>8
  <2>6. (writer # "body" /\ IsHeader(Len(stream) + 1))'
    BY <1>1, <1>3, <1>8, <2>3
  <2>7. ASSUME NEW k \in 1..Len(stream')
        PROVE  /\ IsHeader(k)' => stream'[k] \in AnyHeader
               /\ ~IsHeader(k)' => BodyOf(Before(k)', stream'[k])
    BY Zenon, <1>4, <1>6, <1>8, <2>3, <2>4, <2>5
  <2> QED
    BY Zenon, <2>6, <2>7 DEF Framing, BodyOf
<1> QED
  BY Zenon, <1>9, <1>10, <1>11 DEF IInv

\* The reader takes a chunk: a header becomes the one before the next chunk, a
\* body leaves none.
LEMMA FramingShrinks ==
    ASSUME TypeOK, Framing, stream # <<>>, stream' = Tail(stream),
           header = NoHeader => header' # NoHeader /\ header' = stream[1],
           header # NoHeader => header' = NoHeader,
           UNCHANGED <<sent, offset, size, writer, alive>>
    PROVE  Framing'
<1>1. stream \in Seq(AnyHeader \cup Body)
  BY Zenon DEF TypeOK
<1>2. /\ Len(stream) \in Nat /\ Len(stream) >= 1 /\ Len(stream') = Len(stream) - 1
      /\ \A k \in 1..(Len(stream) - 1) : stream'[k] = stream[k + 1]
  BY Zenon, <1>1, TailFacts, LenProperties
<1>3. \A k \in Nat : IsHeader(k)' <=> IsHeader(k + 1)
  BY Zenon, OddFacts DEF IsHeader
<1>4. ASSUME NEW k \in 1..Len(stream), ~IsHeader(k)'
      PROVE  Before(k)' = Before(k + 1)
  <2>1. CASE k = 1
    <3>1. header = NoHeader
      BY Zenon, <1>4, <2>1, OddFacts DEF IsHeader
    <3> QED
      BY <2>1, <3>1 DEF Before
  <2>2. CASE k # 1
    BY <1>2, <2>2 DEF Before
  <2> QED
    BY Zenon, <2>1, <2>2
<1>5. ASSUME NEW k \in 1..Len(stream')
      PROVE  /\ IsHeader(k)' => stream'[k] \in AnyHeader
             /\ ~IsHeader(k)' => BodyOf(Before(k)', stream'[k])
  <2>1. k \in Nat /\ k \in 1..Len(stream) /\ k + 1 \in 1..Len(stream) /\ stream'[k] = stream[k + 1]
    BY <1>2
  <2>2. /\ IsHeader(k + 1) => stream[k + 1] \in AnyHeader
        /\ ~IsHeader(k + 1) => BodyOf(Before(k + 1), stream[k + 1])
    BY Zenon, <2>1 DEF Framing
  <2> QED
    BY Zenon, <1>3, <1>4, <2>1, <2>2
<1>6. ASSUME alive
      PROVE  /\ writer = "body" <=> ~IsHeader(Len(stream) + 1)'
             /\ writer = "body" => Before(Len(stream) + 1)'.length = HEADER_LEN + Take
  <2> DEFINE n == Len(stream)
  <2>1. n \in Nat /\ n \in 1..Len(stream) /\ (Len(stream) + 1)' = n
    BY <1>2
  <2>2. IsHeader(Len(stream) + 1)' <=> IsHeader(n + 1)
    BY Zenon, <1>3, <2>1 DEF IsHeader
  <2>3. ~IsHeader(Len(stream) + 1)' => Before(Len(stream) + 1)' = Before(n + 1)
    BY Zenon, <1>4, <2>1 DEF IsHeader, Before
  <2> QED
    BY Zenon, <1>6, <2>2, <2>3 DEF Framing
<1>7. Take' = Take
  BY Zenon DEF Take, Current, Lesser
<1> QED
  BY Zenon, <1>5, <1>6, <1>7 DEF Framing, BodyOf

\* A chunk that is refused ends the reading.
LEMMA KeepsRefuse ==
    ASSUME IInv, stream # <<>>, NEW kind, kind # "reading", Refuse(kind)
    PROVE  IInv'
<1>1. TypeOK /\ Tail(stream) \in Seq(AnyHeader \cup Body)
  BY Zenon, TailFacts DEF IInv, TypeOK
<1>2. TypeOK' /\ Writing'
  BY Zenon, <1>1 DEF IInv, TypeOK, Refuse, writing, Writing, Current
<1>3. Reading' /\ WithinLimits' /\ DescriptorsTile'
  BY Zenon DEF IInv, Refuse, writing, Reading, WithinLimits, DescriptorsTile
<1> QED
  BY Zenon, <1>2, <1>3 DEF IInv, Refuse

\* What comes first is a header when none is waiting for its body.
LEMMA AtHeaderFacts ==
    ASSUME IInv, AtHeader
    PROVE  /\ TypeOK /\ Framing /\ stream # <<>> /\ header = NoHeader
           /\ Head(stream) = stream[1] /\ stream[1] \in AnyHeader /\ stream[1].length \in Nat
           /\ Tail(stream) \in Seq(AnyHeader \cup Body)
<1>1. TypeOK /\ Framing /\ stream # <<>> /\ header = NoHeader
  BY Zenon DEF IInv, AtHeader
<1>2. /\ Tail(stream) \in Seq(AnyHeader \cup Body)
      /\ Len(stream) \in Nat /\ Len(stream) >= 1 /\ Head(stream) = stream[1]
  BY Zenon, <1>1, TailFacts, LenProperties DEF TypeOK
<1>3. stream[1] \in AnyHeader
  BY SMTT(60), <1>1, <1>2, OddFacts DEF Framing, IsHeader
<1> QED
  BY Zenon, <1>1, <1>2, <1>3, HeaderFields

\* A header is taken only if the body it announces fits.
LEMMA KeepsReadHeader == IInv /\ ReadHeader => IInv'
<1> SUFFICES ASSUME IInv, ReadHeader PROVE IInv'
  BY Zenon
<1> DEFINE h == Head(stream)
<1>1. AtHeader
  BY Zenon DEF ReadHeader
<1>2. /\ TypeOK /\ Framing /\ stream # <<>> /\ header = NoHeader
      /\ h = stream[1] /\ h \in AnyHeader /\ h.length \in Nat
      /\ Tail(stream) \in Seq(AnyHeader \cup Body)
  BY Zenon, <1>1, AtHeaderFacts
<1>3. CASE \E kind \in {"protocol", "limit"} : Refuse(kind)
  BY Zenon, <1>2, <1>3, KeepsRefuse
<1>4. CASE /\ smp = NoSmp /\ h.type # "SMP"
           /\ ValidLength(h) /\ SameType(h) /\ Fits(h)
           /\ header' = h /\ expected' = h.type
           /\ stream' = Tail(stream)
           /\ UNCHANGED <<writing, alive, received, returned, assembled, packets, smp, result>>
  <2> HIDE DEF h
  <2>1. /\ UNCHANGED <<foreign, sent, offset, size, id, writer, alive>>
        /\ UNCHANGED <<assembled, packets, returned, smp, result>>
    BY Zenon, <1>4 DEF writing
  <2>2. h # NoHeader
    BY SMTT(60), <1>4 DEF ValidLength, NoHeader
  <2>3. TypeOK' /\ Writing'
    BY Zenon, <1>2, <1>4, <2>1 DEF IInv, TypeOK, Writing, Current
  <2>4. Framing'
    BY Zenon, <1>2, <1>4, <2>1, <2>2, FramingShrinks
  <2>5. Reading'
    BY SMTT(60), <1>2, <1>4, <2>1, Limits DEF IInv, Reading, ValidLength, Fits, NoSmp
  <2>6. WithinLimits' /\ DescriptorsTile'
    <3>1. Len(assembled) <= MaxMessage
      BY <1>2 DEF IInv, WithinLimits, NoHeader
    <3>2. DescriptorsTile'
      BY Zenon, <2>1 DEF IInv, DescriptorsTile
    <3> QED
      BY SMTT(60), <1>2, <1>4, <2>1, <3>1, <3>2, Limits, LenProperties
           DEF IInv, WithinLimits, Fits
  <2> QED
    BY Zenon, <2>3, <2>4, <2>5, <2>6 DEF IInv
<1> QED
  BY Zenon, <1>3, <1>4 DEF ReadHeader

\* What comes behind a header is its body, of the length it announces.
LEMMA AtBodyFacts ==
    ASSUME IInv, result = "reading", header # NoHeader, stream # <<>>
    PROVE  /\ TypeOK /\ Framing
           /\ header \in AnyHeader /\ header.length \in Nat /\ header.length >= HEADER_LEN
           /\ Head(stream) = stream[1] /\ stream[1].bytes \in Seq(Nat)
           /\ Len(stream[1].bytes) = header.length - HEADER_LEN
           /\ Tail(stream) \in Seq(AnyHeader \cup Body)
<1>1. TypeOK /\ Framing
  BY Zenon DEF IInv
<1>2. /\ Tail(stream) \in Seq(AnyHeader \cup Body)
      /\ Len(stream) \in Nat /\ Len(stream) >= 1 /\ Head(stream) = stream[1]
  BY Zenon, <1>1, TailFacts, LenProperties DEF TypeOK
<1>3. header \in AnyHeader /\ header.length \in Nat /\ header.length >= HEADER_LEN
  BY Zenon, <1>1, HeaderFields DEF IInv, TypeOK, Reading
<1>4. 1 \in 1..Len(stream) /\ ~IsHeader(1) /\ Before(1) = header
  BY <1>2, OddFacts DEF IsHeader, Before
<1>5. BodyOf(header, stream[1])
  BY Zenon, <1>1, <1>4 DEF Framing
<1> QED
  BY Zenon, <1>1, <1>2, <1>3, <1>5 DEF BodyOf, Body

\* One more packet, which begins where the others end, tiles one body more.
LEMMA TilesAppend ==
    ASSUME NEW p \in Seq(Descriptors), NEW n \in Nat, Tiles(p, n),
           NEW d \in Descriptors, d.offset = n
    PROVE  Tiles(Append(p, d), n + d.bytes)
<1>1. /\ Append(p, d) \in Seq(Descriptors) /\ Len(p) \in Nat /\ Len(Append(p, d)) = Len(p) + 1
      /\ \A k \in 1..Len(p) : Append(p, d)[k] = p[k]
      /\ Append(p, d)[Len(p) + 1] = d /\ Append(p, d) # <<>>
  BY SMTT(60), AppendFacts
<1>2. p = <<>> <=> Len(p) = 0
  BY Zenon, EmptySeq
<1> DEFINE q == Append(p, d)
<1> HIDE DEF q
<1>3. ASSUME NEW k \in 1..Len(q)
      PROVE  q[k].offset = IF k = 1 THEN 0 ELSE q[k-1].offset + q[k-1].bytes
  <2>1. CASE k \in 1..Len(p)
    <3>1. q[k] = p[k] /\ (k # 1 => q[k-1] = p[k-1])
      BY SMTT(60), <1>1, <2>1 DEF q
    <3> QED
      BY Zenon, <2>1, <3>1 DEF Tiles
  <2>2. CASE k = Len(p) + 1
    BY SMTT(60), <1>1, <1>2, <2>2 DEF Tiles, q
  <2> QED
    BY <1>1, <2>1, <2>2 DEF q
<1>4. n + d.bytes = q[Len(q)].offset + q[Len(q)].bytes
  BY Zenon, <1>1 DEF q
<1>5. Tiles(q, n + d.bytes)
  BY Zenon, <1>1, <1>3, <1>4 DEF Tiles, q
<1> QED
  BY Zenon, <1>5 DEF q

\* A body ends the message or is added to it, with its descriptor.
LEMMA KeepsReadBody == IInv /\ ReadBody => IInv'
<1> SUFFICES ASSUME IInv, ReadBody PROVE IInv'
  BY Zenon
<1> DEFINE b == Head(stream).bytes
<1>1. /\ result = "reading" /\ header # NoHeader /\ header.type # "SMP" /\ stream # <<>>
      /\ stream' = Tail(stream) /\ header' = NoHeader
      /\ UNCHANGED <<foreign, sent, offset, size, id, writer, alive, smp>>
  BY Zenon DEF ReadBody, writing
<1>2. /\ TypeOK /\ Framing /\ header \in AnyHeader /\ header.length \in Nat /\ header.length >= HEADER_LEN
      /\ b \in Seq(Nat) /\ Len(b) = header.length - HEADER_LEN
      /\ Tail(stream) \in Seq(AnyHeader \cup Body)
  BY Zenon, <1>1, AtBodyFacts
<1>3. Writing'
  BY Zenon, <1>1 DEF IInv, Writing, Current
<1>4. Framing'
  BY Zenon, <1>1, <1>2, FramingShrinks
<1>5. /\ Len(assembled) + (header.length - HEADER_LEN) <= MaxMessage
      /\ Len(packets) <= MaxPackets /\ smp.frames < MaxFrames
      /\ smp.bytes <= MaxMessage /\ id \in 1..(IdModulus - 1)
      /\ DescriptorsTile
  BY Zenon, <1>1 DEF IInv, Reading, WithinLimits
<1>6. smp.frames \in Nat /\ assembled \in Seq(Nat) /\ packets \in Seq(Descriptors)
  BY Zenon, <1>2 DEF TypeOK
<1>7. Tiles(Append(packets, Descriptor), Len(Whole.payload))
  <2>1. Len(Whole.payload) = Len(assembled) + (header.length - HEADER_LEN) /\ Len(assembled) \in Nat
    <3>1. Whole.payload = assembled \o b
      BY Zenon DEF Whole
    <3> HIDE DEF b
    <3>2. Len(assembled \o b) = Len(assembled) + Len(b)
      BY Zenon, <1>2, <1>6, ConcatProperties
    <3> QED
      BY Zenon, <1>2, <1>6, <3>1, <3>2, LenProperties
  <2>2. /\ Descriptor \in Descriptors
        /\ Descriptor.offset = Len(assembled) /\ Descriptor.bytes = header.length - HEADER_LEN
    BY SMTT(60), <1>2, <2>1 DEF Descriptor, Descriptors
  <2> QED
    BY Zenon, <1>5, <1>6, <2>1, <2>2, TilesAppend DEF DescriptorsTile
<1>8. CASE header.status = "eom"
  <2>1. assembled' = <<>> /\ packets' = <<>> /\ result' = result
    BY Zenon, <1>8 DEF ReadBody
  <2>2. \A S : <<>> \in Seq(S) /\ Len(<<>>) = 0
    BY Zenon, EmptySeq
  <2>3. TypeOK'
    BY Zenon, <1>1, <1>2, <2>1, <2>2 DEF TypeOK
  <2>4. Reading'
    BY SMTT(60), <1>1, <1>5, <2>1, <2>2, Limits DEF Reading
  <2>5. WithinLimits'
    BY <1>1, <1>5, <1>6, <2>1, <2>2, Limits DEF WithinLimits, NoHeader
  <2>6. DescriptorsTile'
    <3>1. returned' = [payload |-> Whole.payload, packets |-> Append(packets, Descriptor)]
      BY Zenon, <1>8 DEF ReadBody
    <3>2. returned'.payload = Whole.payload /\ returned'.packets = Append(packets, Descriptor)
      BY Zenon, <3>1
    <3>3. Tiles(<<>>, 0)
      BY DEF Tiles
    <3> QED
      BY Zenon, <1>7, <2>1, <2>2, <3>2, <3>3 DEF DescriptorsTile
  <2> QED
    BY Zenon, <1>3, <1>4, <2>3, <2>4, <2>5, <2>6 DEF IInv
<1>9. CASE header.status # "eom"
  <2>1. /\ assembled' = assembled \o b /\ packets' = Append(packets, Descriptor)
        /\ result' = (IF TooMany THEN "limit" ELSE result)
    BY Zenon, <1>9 DEF ReadBody, Whole
  <2> HIDE DEF b
  <2>2. /\ assembled' \in Seq(Nat) /\ Len(assembled) \in Nat
        /\ Len(assembled') = Len(assembled) + (header.length - HEADER_LEN)
    <3>1. assembled \o b \in Seq(Nat) /\ Len(assembled \o b) = Len(assembled) + Len(b)
      BY Zenon, <1>2, <1>6, ConcatProperties
    <3>2. Len(assembled) \in Nat
      BY Zenon, <1>6, LenProperties
    <3> QED
      BY Zenon, <1>2, <2>1, <3>1, <3>2
  <2>3. Descriptor \in Descriptors
    BY SMTT(60), <1>2, <2>2 DEF Descriptor, Descriptors
  <2>4. /\ packets' \in Seq(Descriptors) /\ Len(packets) \in Nat /\ Len(packets') = Len(packets) + 1
        /\ \A k \in 1..Len(packets) : packets'[k] = packets[k]
        /\ packets'[Len(packets) + 1] = Descriptor /\ packets' # <<>>
    BY SMTT(60), <1>6, <2>1, <2>3, AppendFacts
  <2>5. TypeOK'
    BY Zenon, <1>1, <1>2, <2>2, <2>4 DEF TypeOK
  <2>6. Reading'
    BY SMTT(60), <1>1, <1>5, <2>1, <2>4, Limits DEF Reading, TooMany
  <2>7. WithinLimits'
    BY <1>1, <1>5, <1>6, <2>2, <2>4, Limits DEF WithinLimits, NoHeader
  <2>8. DescriptorsTile'
    <3>1. returned' = returned /\ assembled' = Whole.payload
      BY Zenon, <1>9 DEF ReadBody
    <3> QED
      BY Zenon, <1>5, <1>7, <2>1, <3>1 DEF DescriptorsTile
  <2> QED
    BY Zenon, <1>3, <1>4, <2>5, <2>6, <2>7, <2>8 DEF IInv
<1> QED
  BY Zenon, <1>8, <1>9

\* An SMP header is taken only within the limits.
LEMMA KeepsReadSmpHeader == IInv /\ ReadSmpHeader => IInv'
<1> SUFFICES ASSUME IInv, ReadSmpHeader PROVE IInv'
  BY Zenon
<1> DEFINE h == Head(stream)
<1>1. AtHeader
  BY Zenon DEF ReadSmpHeader
<1>2. /\ TypeOK /\ Framing /\ stream # <<>> /\ header = NoHeader
      /\ h = stream[1] /\ h \in AnyHeader /\ h.length \in Nat
      /\ Tail(stream) \in Seq(AnyHeader \cup Body)
  BY Zenon, <1>1, AtHeaderFacts
<1>3. CASE \E kind \in {"protocol", "limit"} : Refuse(kind)
  BY Zenon, <1>2, <1>3, KeepsRefuse
<1>4. CASE /\ h.type = "SMP" /\ h.length \in SMP_HEADER_LEN..MaxMessage
           /\ smp.bytes + h.length <= MaxMessage
           /\ header' = h
           /\ smp' = [frames |-> smp.frames + 1, bytes |-> smp.bytes + h.length]
           /\ stream' = Tail(stream)
           /\ UNCHANGED <<writing, alive, received, returned, expected, assembled, packets, result>>
  <2> HIDE DEF h
  <2>1. /\ UNCHANGED <<foreign, sent, offset, size, id, writer, alive>>
        /\ UNCHANGED <<assembled, packets, returned, result>>
    BY Zenon, <1>4 DEF writing
  <2>2. h # NoHeader
    BY <1>4 DEF NoHeader
  <2>3. smp.frames < MaxFrames /\ Len(packets) <= MaxPackets /\ Len(assembled) <= MaxMessage
    BY <1>1, <1>2 DEF IInv, Reading, WithinLimits, AtHeader, NoHeader
  <2>4. smp.frames \in Nat /\ smp.bytes \in Nat /\ Len(assembled) \in Nat
    BY Zenon, <1>2, LenProperties DEF TypeOK
  <2>5. smp'.frames = smp.frames + 1 /\ smp'.bytes = smp.bytes + h.length /\ smp' \in [frames : Nat, bytes : Nat]
    <3>1. smp.frames + 1 \in Nat /\ smp.bytes + h.length \in Nat
      BY SMTT(60), <1>2, <2>4
    <3>2. smp' = [frames |-> smp.frames + 1, bytes |-> smp.bytes + h.length]
      BY Zenon, <1>4
    <3> QED
      BY ONLY Zenon, <3>1, <3>2
  <2>6. TypeOK' /\ Writing'
    BY Zenon, <1>2, <1>4, <2>1, <2>5 DEF IInv, TypeOK, Writing, Current
  <2>7. Framing'
    BY Zenon, <1>2, <1>4, <2>1, <2>2, FramingShrinks
  <2>8. Reading'
    BY SMTT(60), <1>2, <1>4, <2>1, <2>3 DEF Reading
  <2>9. WithinLimits' /\ DescriptorsTile'
    <3>1. DescriptorsTile' /\ id' \in 1..(IdModulus - 1)
      BY Zenon, <2>1 DEF IInv, WithinLimits, DescriptorsTile
    <3>2. smp'.bytes <= MaxMessage /\ smp'.frames <= MaxFrames
      BY <1>4, <2>3, <2>4, <2>5, Limits
    <3>3. header'.type = "SMP" /\ Len(assembled') + 0 <= MaxMessage /\ Len(packets') <= MaxPackets + 1
      BY <1>4, <2>1, <2>3, <2>4, Limits, LenProperties DEF IInv, TypeOK
    <3> QED
      BY Zenon, <3>1, <3>2, <3>3 DEF WithinLimits
  <2> QED
    BY Zenon, <2>6, <2>7, <2>8, <2>9 DEF IInv
<1> QED
  BY Zenon, <1>3, <1>4 DEF ReadSmpHeader

\* The body of an SMP frame is passed over.
LEMMA KeepsReadSmpBody == IInv /\ ReadSmpBody => IInv'
<1> SUFFICES ASSUME IInv, ReadSmpBody PROVE IInv'
  BY Zenon
<1>1. /\ result = "reading" /\ header.type = "SMP" /\ stream # <<>>
      /\ stream' = Tail(stream) /\ header' = NoHeader
      /\ UNCHANGED <<foreign, sent, offset, size, id, writer, alive, assembled, packets, returned, smp>>
  BY Zenon DEF ReadSmpBody, writing
<1>2. header # NoHeader
  BY <1>1 DEF NoHeader
<1>3. TypeOK /\ Framing /\ Tail(stream) \in Seq(AnyHeader \cup Body)
  BY Zenon, <1>1, <1>2, AtBodyFacts
<1>4. smp.frames = MaxFrames => result' # "reading"
  BY Zenon, <1>1 DEF ReadSmpBody
<1>5. /\ smp.frames \in Nat /\ smp.frames <= MaxFrames /\ Len(packets) <= MaxPackets
      /\ Len(assembled) <= MaxMessage
  BY SMTT(60), <1>1, <1>3 DEF IInv, TypeOK, WithinLimits, Reading
<1>6. TypeOK' /\ Writing'
  BY Zenon, <1>1, <1>3 DEF IInv, TypeOK, Writing, Current
<1>7. Framing'
  BY Zenon, <1>1, <1>2, <1>3, FramingShrinks
<1>8. Reading'
  BY SMTT(60), <1>1, <1>4, <1>5, Limits DEF Reading
<1>9. WithinLimits' /\ DescriptorsTile'
  BY Zenon, <1>1, <1>3, <1>5, LenProperties
       DEF IInv, TypeOK, WithinLimits, DescriptorsTile, NoHeader
<1> QED
  BY Zenon, <1>6, <1>7, <1>8, <1>9 DEF IInv

\* The end of the stream, and steps of nobody.
LEMMA KeepsReadEnd == IInv /\ (ReadEnd \/ UNCHANGED vars) => IInv'
<1> SUFFICES ASSUME IInv, ReadEnd \/ UNCHANGED vars PROVE IInv'
  BY Zenon
<1>1. /\ UNCHANGED <<foreign, sent, offset, size, id, writer, stream, alive>>
      /\ UNCHANGED <<assembled, packets, returned, header, smp>>
      /\ result' = "reading" => result = "reading"
  BY Zenon DEF ReadEnd, vars, writing, reading
<1>2. TypeOK' /\ Writing'
  BY Zenon, <1>1 DEF IInv, TypeOK, Writing, Current
<1>3. Reading' /\ WithinLimits' /\ DescriptorsTile'
  BY Zenon, <1>1 DEF IInv, Reading, WithinLimits, DescriptorsTile
<1>4. (result = "reading" => Framing)'
  BY Zenon, <1>1 DEF IInv, Framing, IsHeader, Before, BodyOf, Take, Current, Lesser
<1> QED
  BY Zenon, <1>2, <1>3, <1>4 DEF IInv

\* What is on its way is framed and what has been read is within bounds,
\* whoever sends.
THEOREM Invariance == Spec => []IInv
<1>1. IInv /\ [Next]_vars => IInv'
  BY Zenon, KeepsBegin, KeepsWriteHeader, KeepsWriteBody, KeepsBreak, KeepsForeign,
       KeepsReadHeader,
     KeepsReadBody, KeepsReadSmpHeader, KeepsReadSmpBody, KeepsReadEnd
  DEF Next, Write, Read
<1> QED
  BY <1>1, InitIInv, PTL DEF Spec

\* read_message stays within its limits, and write_message's identifiers are
\* never zero.
THEOREM StaysWithinLimits == Spec => []WithinLimits
<1>1. IInv => WithinLimits
  BY Zenon DEF IInv
<1> QED
  BY <1>1, Invariance, PTL

\* The descriptors of a message tile its payload, also when it is returned.
THEOREM DescriptorsAlwaysTile == Spec => []DescriptorsTile
<1>1. IInv => DescriptorsTile
  BY Zenon DEF IInv
<1> QED
  BY <1>1, Invariance, PTL

(***************************************************************************)
(* The channel                                                             *)
(*                                                                         *)
(* With write_message at the other end read_message refuses nothing, and   *)
(* the two implement MessageChannel.                                       *)
(*                                                                         *)
(* The invariant says of every chunk on its way which bytes of which       *)
(* message it carries: from the place the reader has reached, each chunk   *)
(* leads to the next, and the last one to the place of the writer.         *)
(***************************************************************************)

Places == [message : Nat, offset : Nat]

\* A header or a body that belongs at place p of the messages s.
Payload(s, p) == s[p.message].payload

HeaderAt(s, h, p) ==
    /\ p.message \in 1..Len(s)
    /\ h.type = s[p.message].type
    /\ h.length \in HEADER_LEN..MaxPacket
    /\ p.offset + (h.length - HEADER_LEN) <= Len(Payload(s, p))
    /\ h.status = "eom" <=> p.offset + (h.length - HEADER_LEN) = Len(Payload(s, p))
    /\ h.status # "eom" => h.length > HEADER_LEN

BodyAt(s, c, p) ==
    /\ p.message \in 1..Len(s)
    /\ p.offset + Len(c.bytes) <= Len(Payload(s, p))
    /\ c.bytes = SubSeq(Payload(s, p), p.offset + 1, p.offset + Len(c.bytes))

\* The place behind a body.
After(s, c, p) ==
    IF p.offset + Len(c.bytes) = Len(Payload(s, p))
    THEN [message |-> p.message + 1, offset |-> 0]
    ELSE [message |-> p.message, offset |-> p.offset + Len(c.bytes)]

ReaderPlace == [message |-> Len(received) + 1, offset |-> Len(assembled)]

WriterPlace ==
    IF writer = "idle" THEN [message |-> Len(sent) + 1, offset |-> 0]
    ELSE [message |-> Len(sent), offset |-> offset]

Traced(at) ==
    /\ at[1] = ReaderPlace
    /\ header # NoHeader => HeaderAt(sent, header, at[1])
    /\ \A k \in 1..Len(stream) :
         /\ IsHeader(k) => HeaderAt(sent, stream[k], at[k]) /\ at[k + 1] = at[k]
         /\ ~IsHeader(k) => BodyAt(sent, stream[k], at[k]) /\ at[k + 1] = After(sent, stream[k], at[k])
    /\ alive => at[Len(stream) + 1] = WriterPlace

Located == \E at \in [Nat -> Places] : Traced(at)

\* What has been put together is the beginning of the message that comes next.
Assembling ==
    /\ Len(packets) <= Len(assembled)
    /\ header # NoHeader => expected = header.type
    /\ IF Len(received) < Len(sent)
       THEN LET m == sent[Len(received) + 1]
            IN  /\ expected \in {"none", m.type}
                /\ Len(assembled) <= Len(m.payload)
                /\ assembled = SubSeq(m.payload, 1, Len(assembled))
       ELSE expected = "none" /\ assembled = <<>>

\* read_message takes every packet that write_message makes: it ends with an
\* error only where the stream does.
NothingRefused == ~foreign => result \in {"reading", "io"}

Peer ==
    /\ received \in Seq(Messages) /\ smp = NoSmp
    /\ result = "reading" => Assembling /\ Located

CInv == IInv /\ NothingRefused /\ (~foreign => Peer)
-----------------------------------------------------------------------------

\* Nothing has been written or read.
LEMMA InitCInv == Init => CInv
<1> SUFFICES ASSUME Init PROVE CInv
  BY Zenon
<1>1. <<>> \in Seq(Messages) /\ Len(<<>>) = 0
  BY Zenon, EmptySeq
<1>2. NothingRefused /\ Assembling
  BY <1>1 DEF Init, NothingRefused, Assembling
<1>3. Located
  <2> DEFINE p == [message |-> 1, offset |-> 0]
             at == [k \in Nat |-> p]
  <2>1. at \in [Nat -> Places] /\ at[1] = p
    BY Zenon DEF Places
  <2> HIDE DEF at
  <2>2. Traced(at)
    BY <1>1, <2>1 DEF Init, Traced, ReaderPlace, WriterPlace
  <2> QED
    BY Zenon, <2>1, <2>2 DEF Located
<1> QED
  BY Zenon, <1>1, <1>2, <1>3, InitIInv DEF Init, CInv, Peer

\* A message more leaves the places in those before it what they were.
LEMMA PlacesStay ==
    ASSUME NEW s \in Seq(Messages), NEW m \in Messages, NEW p \in Places
    PROVE  /\ \A h : HeaderAt(s, h, p) => HeaderAt(Append(s, m), h, p)
           /\ \A c : BodyAt(s, c, p) => /\ BodyAt(Append(s, m), c, p)
                                        /\ After(Append(s, m), c, p) = After(s, c, p)
<1> DEFINE t == Append(s, m)
<1>1. Len(s) \in Nat /\ Len(t) = Len(s) + 1 /\ \A k \in 1..Len(s) : t[k] = s[k]
  BY AppendFacts
<1>2. p.message \in 1..Len(s) => p.message \in 1..Len(t) /\ t[p.message] = s[p.message]
  BY <1>1
<1> HIDE DEF t
<1>3. /\ \A h : HeaderAt(s, h, p) => HeaderAt(t, h, p)
      /\ \A c : BodyAt(s, c, p) => BodyAt(t, c, p) /\ After(t, c, p) = After(s, c, p)
  BY Zenon, <1>2 DEF HeaderAt, BodyAt, After, Payload
<1> QED
  BY Zenon, <1>3 DEF t

\* A message is begun.
LEMMA PeerBegin ==
    ASSUME CInv, Begin
    PROVE  Peer'
<1> PICK m \in Messages : sent' = Append(sent, m)
  BY Zenon DEF Begin
<1>1. /\ ~foreign /\ writer = "idle" /\ writer' = "header" /\ offset' = 0
      /\ UNCHANGED <<stream, alive>> /\ UNCHANGED reading
  BY Zenon DEF Begin
<1>2. UNCHANGED <<received, expected, assembled, packets, header, smp, result>>
  BY Zenon, <1>1 DEF reading
<1>3. Peer /\ TypeOK
  BY Zenon, <1>1 DEF CInv, IInv
<1>4. sent \in Seq(Messages) /\ received \in Seq(Messages) /\ assembled \in Seq(Nat) /\ stream \in Seq(AnyHeader \cup Body)
  BY Zenon, <1>3 DEF Peer, TypeOK
<1>5. /\ Len(sent) \in Nat /\ Len(received) \in Nat /\ Len(assembled) \in Nat /\ Len(stream) \in Nat
      /\ Len(sent') = Len(sent) + 1
      /\ \A k \in 1..Len(sent) : sent'[k] = sent[k]
      /\ sent'[Len(sent) + 1] = m
  BY <1>4, AppendFacts, LenProperties
<1>6. ASSUME result' = "reading" PROVE Assembling' /\ Located'
  <2>1. Assembling /\ Located
    BY Zenon, <1>2, <1>3, <1>6 DEF Peer
  <2> PICK at \in [Nat -> Places] : Traced(at)
    BY Zenon, <2>1 DEF Located
  <2>2. at[1] = ReaderPlace /\ at[1] \in Places
    BY Zenon DEF Traced
  <2>3. Traced(at)'
    <3>0. \A p \in Places :
            /\ \A h : HeaderAt(sent, h, p) => HeaderAt(sent', h, p)
            /\ \A c : BodyAt(sent, c, p) => BodyAt(sent', c, p) /\ After(sent', c, p) = After(sent, c, p)
      <4>1. ASSUME NEW p \in Places
            PROVE  /\ \A h : HeaderAt(sent, h, p) => HeaderAt(Append(sent, m), h, p)
                   /\ \A c : BodyAt(sent, c, p) => /\ BodyAt(Append(sent, m), c, p)
                                                   /\ After(Append(sent, m), c, p) = After(sent, c, p)
        BY Zenon, <1>4, PlacesStay
      <4> QED
        BY Zenon, <4>1
    <3>1. (at[1] = ReaderPlace)'
      BY Zenon, <1>2, <2>2 DEF ReaderPlace
    <3>2. (header # NoHeader => HeaderAt(sent, header, at[1]))'
      BY Zenon, <1>2, <1>4, <2>2, PlacesStay DEF Traced
    <3>3. ASSUME NEW k \in 1..Len(stream')
          PROVE  /\ IsHeader(k)' => HeaderAt(sent', stream'[k], at[k]) /\ at[k + 1] = at[k]
                 /\ ~IsHeader(k)' => /\ BodyAt(sent', stream'[k], at[k])
                                     /\ at[k + 1] = After(sent', stream'[k], at[k])
      <4>1. at[k] \in Places /\ k \in 1..Len(stream) /\ stream'[k] = stream[k] /\ (IsHeader(k)' <=> IsHeader(k))
        BY <1>1, <1>2, <1>5 DEF IsHeader
      <4>2. /\ IsHeader(k) => HeaderAt(sent, stream[k], at[k]) /\ at[k + 1] = at[k]
            /\ ~IsHeader(k) => /\ BodyAt(sent, stream[k], at[k])
                               /\ at[k + 1] = After(sent, stream[k], at[k])
        BY Zenon, <4>1 DEF Traced
      <4>3. /\ \A h : HeaderAt(sent, h, at[k]) => HeaderAt(sent', h, at[k])
            /\ \A c : BodyAt(sent, c, at[k]) => BodyAt(sent', c, at[k]) /\ After(sent', c, at[k]) = After(sent, c, at[k])
        BY Zenon, <3>0, <4>1
      <4> QED
        BY Zenon, <4>1, <4>2, <4>3
    <3>4. (alive => at[Len(stream) + 1] = WriterPlace)'
      BY Zenon, <1>1, <1>5 DEF Traced, WriterPlace
    <3> QED
      BY Zenon, <3>1, <3>2, <3>3, <3>4 DEF Traced
  <2>4. Located'
    BY Zenon, <2>3 DEF Located
  <2>5. Assembling'
    <3>1. CASE Len(received) < Len(sent)
      BY SMTT(60), <1>2, <1>5, <2>1, <3>1 DEF Assembling
    <3>2. CASE ~(Len(received) < Len(sent))
      <4>1. expected = "none" /\ assembled = <<>>
        BY Zenon, <2>1, <3>2 DEF Assembling
      <4>2. Len(assembled) = 0
        BY Zenon, <4>1, EmptySeq
      <4>3. m.payload \in Seq(Nat) /\ Len(m.payload) \in Nat /\ SubSeq(m.payload, 1, 0) = <<>>
        BY HeaderFields, SubSeqEmpty
      <4>4. Len(received') < Len(sent') => sent'[Len(received') + 1] = m
        BY SMTT(60), <1>2, <1>5, <3>2
      <4>5. Len(packets') <= Len(assembled') /\ (header' # NoHeader => expected' = header'.type)
        BY Zenon, <1>2, <2>1 DEF Assembling
      <4> QED
        BY <1>2, <4>1, <4>2, <4>3, <4>4, <4>5 DEF Assembling
    <3> QED
      BY Zenon, <3>1, <3>2
  <2> QED
    BY Zenon, <2>4, <2>5
<1> QED
  BY Zenon, <1>2, <1>3, <1>6 DEF Peer

\* The writer adds the chunk that belongs where it stands, and goes on to p.
LEMMA LocatedGrows ==
    ASSUME TypeOK, NEW at \in [Nat -> Places], Traced(at), alive,
           NEW c \in AnyHeader \cup Body, stream' = Append(stream, c),
           UNCHANGED <<sent, received, assembled, header>>,
           NEW p \in Places, WriterPlace' = p,
           IsHeader(Len(stream) + 1) => HeaderAt(sent, c, WriterPlace) /\ p = WriterPlace,
           ~IsHeader(Len(stream) + 1) => BodyAt(sent, c, WriterPlace) /\ p = After(sent, c, WriterPlace)
    PROVE  Located'
<1>1. stream \in Seq(AnyHeader \cup Body)
  BY Zenon DEF TypeOK
<1>2. /\ Len(stream) \in Nat /\ Len(stream') = Len(stream) + 1
      /\ \A k \in 1..Len(stream) : stream'[k] = stream[k]
      /\ stream'[Len(stream) + 1] = c
  BY <1>1, AppendFacts
<1> PICK q \in [Nat -> Places] : q = [at EXCEPT ![Len(stream) + 2] = p]
  BY Zenon, <1>2
<1>3. q[Len(stream) + 2] = p /\ \A k \in 1..(Len(stream) + 1) : q[k] = at[k]
  BY <1>2
<1>4. at[Len(stream) + 1] = WriterPlace
  BY Zenon DEF Traced
<1>5. \A k : IsHeader(k)' <=> IsHeader(k)
  BY Zenon DEF IsHeader
<1>6. ASSUME NEW k \in 1..Len(stream')
      PROVE  /\ IsHeader(k)' => HeaderAt(sent', stream'[k], q[k]) /\ q[k + 1] = q[k]
             /\ ~IsHeader(k)' => BodyAt(sent', stream'[k], q[k]) /\ q[k + 1] = After(sent', stream'[k], q[k])
  <2>1. CASE k \in 1..Len(stream)
    <3>1. q[k] = at[k] /\ q[k + 1] = at[k + 1] /\ stream'[k] = stream[k]
      BY <1>2, <1>3, <2>1
    <3> QED
      BY Zenon, <1>5, <2>1, <3>1 DEF Traced
  <2>2. CASE k = Len(stream) + 1
    <3>1. q[k] = WriterPlace /\ q[k + 1] = p /\ stream'[k] = c
      BY <1>2, <1>3, <1>4, <2>2
    <3> QED
      BY Zenon, <1>5, <2>2, <3>1
  <2>3. k \in 1..Len(stream) \/ k = Len(stream) + 1
    BY <1>2
  <2> QED
    BY Zenon, <2>1, <2>2, <2>3
<1>7. q[1] = ReaderPlace' /\ (header' # NoHeader => HeaderAt(sent', header', q[1]))
  BY <1>2, <1>3 DEF Traced, ReaderPlace
<1>8. q[Len(stream') + 1] = WriterPlace'
  BY <1>2, <1>3
<1>9. Traced(q)'
  BY Zenon, <1>6, <1>7, <1>8 DEF Traced
<1> QED
  BY Zenon, <1>9 DEF Located

\* The header is that of what Take leaves to write.
LEMMA PeerWriteHeader ==
    ASSUME CInv, ~foreign, WriteHeader
    PROVE  Peer'
<1> DEFINE h == [type |-> Current.type, status |-> IF Last THEN "eom" ELSE "more",
                 length |-> HEADER_LEN + Take, id |-> id]
<1>1. /\ alive /\ writer = "header" /\ writer' = "body" /\ stream' = Append(stream, h)
      /\ UNCHANGED <<sent, offset, alive>> /\ UNCHANGED reading
  BY Zenon DEF WriteHeader
<1>2. UNCHANGED <<received, expected, assembled, packets, header, smp, result>>
  BY Zenon, <1>1 DEF reading
<1>3. Peer /\ TypeOK /\ Writing
  BY Zenon DEF CInv, IInv
<1>4. /\ Take \in Nat /\ Current \in Messages /\ offset + Take <= Len(Current.payload)
      /\ Take <= size - HEADER_LEN /\ (Take > 0 \/ Last) /\ Len(sent) \in Nat /\ Len(sent) >= 1
  BY Zenon, <1>1, <1>3, TakeFacts
<1>5. /\ size <= MaxPacket /\ offset \in Nat /\ size \in Nat
      /\ WriterPlace = [message |-> Len(sent), offset |-> offset]
      /\ WriterPlace \in Places /\ WriterPlace' = WriterPlace
  BY Zenon, <1>1, <1>3, <1>4 DEF Writing, TypeOK, WriterPlace, Places
<1>6. h \in AnyHeader
  <2>1. HEADER_LEN + Take \in Nat /\ id \in Nat /\ Current.type \in {m.type : m \in Messages}
    BY SMTT(60), <1>3, <1>4, Limits DEF TypeOK
  <2> QED
    BY ONLY Zenon, <2>1 DEF AnyHeader, OwnHeader
<1>7. HeaderAt(sent, h, WriterPlace)
  <2>1. /\ WriterPlace.message \in 1..Len(sent) /\ sent[WriterPlace.message] = Current
        /\ WriterPlace.offset = offset /\ Payload(sent, WriterPlace) = Current.payload
    BY <1>4, <1>5 DEF Current, Payload
  <2>2. /\ h.type = Current.type /\ h.length = HEADER_LEN + Take /\ h.length - HEADER_LEN = Take
        /\ h.status = "eom" <=> Last
    BY <1>4
  <2>3. h.length \in HEADER_LEN..MaxPacket /\ (~Last => h.length > HEADER_LEN)
    BY <1>4, <1>5, <2>2, Limits
  <2> HIDE DEF h
  <2> QED
    BY Zenon, <1>4, <2>1, <2>2, <2>3 DEF HeaderAt, Last
<1> HIDE DEF h
<1>8. ASSUME result' = "reading" PROVE Assembling' /\ Located'
  <2>1. Assembling /\ Located /\ Framing
    BY Zenon, <1>2, <1>3, <1>8 DEF Peer, CInv, IInv
  <2>2. IsHeader(Len(stream) + 1)
    BY Zenon, <1>1, <2>1 DEF Framing
  <2> PICK at \in [Nat -> Places] : Traced(at)
    BY Zenon, <2>1 DEF Located
  <2>3. Located'
    BY Zenon, <1>1, <1>2, <1>3, <1>5, <1>6, <1>7, <2>2, LocatedGrows
  <2>4. Assembling'
    BY Zenon, <1>1, <1>2, <2>1 DEF Assembling
  <2> QED
    BY Zenon, <2>3, <2>4
<1> QED
  BY Zenon, <1>2, <1>3, <1>8 DEF Peer

\* The body is what the header announced.
LEMMA PeerWriteBody ==
    ASSUME CInv, ~foreign, WriteBody
    PROVE  Peer'
<1> DEFINE c == [bytes |-> SubSeq(Current.payload, offset + 1, offset + Take)]
<1>1. /\ alive /\ writer = "body" /\ stream' = Append(stream, c)
      /\ UNCHANGED <<sent, alive>> /\ UNCHANGED reading
      /\ offset' = (IF Last THEN offset ELSE offset + Take)
      /\ writer' = (IF Last THEN "idle" ELSE "header")
  BY Zenon DEF WriteBody
<1>2. UNCHANGED <<received, expected, assembled, packets, header, smp, result>>
  BY Zenon, <1>1 DEF reading
<1>3. Peer /\ TypeOK /\ Writing
  BY Zenon DEF CInv, IInv
<1>4. /\ Take \in Nat /\ Current \in Messages /\ offset + Take <= Len(Current.payload)
      /\ Len(sent) \in Nat /\ Len(sent) >= 1 /\ offset \in Nat
  BY Zenon, <1>1, <1>3, TakeFacts DEF TypeOK
<1>5. /\ WriterPlace = [message |-> Len(sent), offset |-> offset] /\ WriterPlace \in Places
      /\ WriterPlace.message \in 1..Len(sent)
      /\ WriterPlace.offset = offset /\ Payload(sent, WriterPlace) = Current.payload
  BY <1>1, <1>4 DEF WriterPlace, Places, Current, Payload
<1>6. c \in Body /\ Len(c.bytes) = Take
  BY Zenon, <1>1, <1>3, BodyFacts
<1>7. BodyAt(sent, c, WriterPlace)
  <2>1. c.bytes = SubSeq(Current.payload, offset + 1, offset + Take)
    BY Zenon
  <2> HIDE DEF c
  <2> QED
    BY Zenon, <1>4, <1>5, <1>6, <2>1 DEF BodyAt
<1>8. WriterPlace' = After(sent, c, WriterPlace) /\ WriterPlace' \in Places
  <2> HIDE DEF c
  <2>1. CASE Last
    BY SMTT(60), <1>1, <1>4, <1>5, <1>6, <2>1 DEF After, Last, WriterPlace, Places
  <2>2. CASE ~Last
    <3>1. /\ writer' = "header" /\ Len(sent') = Len(sent) /\ offset' = offset + Take
          /\ offset + Take # Len(Current.payload) /\ offset + Take \in Nat
      BY <1>1, <1>4, <2>2 DEF Last
    <3>2. WriterPlace' = [message |-> Len(sent), offset |-> offset + Take]
      BY Zenon, <3>1 DEF WriterPlace
    <3>3. WriterPlace.message = Len(sent)
      BY Zenon, <1>5
    <3>4. After(sent, c, WriterPlace) = [message |-> Len(sent), offset |-> offset + Take]
      BY Zenon, <1>5, <1>6, <3>1, <3>3 DEF After
    <3> QED
      BY Zenon, <1>4, <3>1, <3>2, <3>4 DEF Places
  <2> QED
    BY Zenon, <2>1, <2>2
<1> HIDE DEF c
<1>9. ASSUME result' = "reading" PROVE Assembling' /\ Located'
  <2>1. Assembling /\ Located /\ Framing
    BY Zenon, <1>2, <1>3, <1>9 DEF Peer, CInv, IInv
  <2>2. ~IsHeader(Len(stream) + 1)
    BY Zenon, <1>1, <2>1 DEF Framing
  <2> PICK at \in [Nat -> Places] : Traced(at)
    BY Zenon, <2>1 DEF Located
  <2>3. PICK p \in Places : p = WriterPlace'
    BY Zenon, <1>8
  <2>4. Located'
    BY Zenon, <1>1, <1>2, <1>3, <1>6, <1>7, <1>8, <2>2, <2>3, LocatedGrows
  <2>5. Assembling'
    BY Zenon, <1>1, <1>2, <2>1 DEF Assembling
  <2> QED
    BY Zenon, <2>4, <2>5
<1> QED
  BY Zenon, <1>2, <1>3, <1>9 DEF Peer

\* What is left when the connection goes down is where it was.
LEMMA PeerBreak ==
    ASSUME CInv, ~foreign, Break
    PROVE  Peer'
<1>1. TypeOK /\ Peer /\ stream \in Seq(AnyHeader \cup Body) /\ Len(stream) \in Nat
  BY Zenon, LenProperties DEF CInv, IInv, TypeOK
<1>2. alive' = FALSE /\ sent' = sent /\ UNCHANGED reading
  BY Zenon DEF Break, writing
<1>3. UNCHANGED <<received, expected, assembled, packets, header, smp, result>>
  BY Zenon, <1>2 DEF reading
<1> PICK n \in 0..Len(stream) : stream' = SubSeq(stream, 1, n)
  BY Zenon DEF Break
<1>4. Len(stream') = n /\ \A k \in 1..n : stream'[k] = stream[k]
  BY <1>1, SubSeqProperties
<1>5. ASSUME result' = "reading" PROVE Assembling' /\ Located'
  <2>1. Assembling /\ Located
    BY Zenon, <1>1, <1>3, <1>5 DEF Peer
  <2> PICK at \in [Nat -> Places] : Traced(at)
    BY Zenon, <2>1 DEF Located
  <2>2. \A k : IsHeader(k)' <=> IsHeader(k)
    BY Zenon, <1>3 DEF IsHeader
  <2>3. ASSUME NEW k \in 1..Len(stream')
        PROVE  /\ IsHeader(k)' => HeaderAt(sent', stream'[k], at[k]) /\ at[k + 1] = at[k]
               /\ ~IsHeader(k)' => BodyAt(sent', stream'[k], at[k]) /\ at[k + 1] = After(sent', stream'[k], at[k])
    <3>1. k \in 1..Len(stream) /\ stream'[k] = stream[k]
      BY <1>1, <1>4
    <3> QED
      BY Zenon, <1>2, <2>2, <3>1 DEF Traced
  <2>4. at[1] = ReaderPlace' /\ (header' # NoHeader => HeaderAt(sent', header', at[1]))
    BY Zenon, <1>2, <1>3 DEF Traced, ReaderPlace
  <2>5. Traced(at)'
    BY Zenon, <1>2, <2>3, <2>4 DEF Traced
  <2>6. Assembling'
    BY Zenon, <1>2, <1>3, <2>1 DEF Assembling
  <2> QED
    BY Zenon, <2>5, <2>6 DEF Located
<1> QED
  BY Zenon, <1>1, <1>3, <1>5 DEF Peer

\* The reader takes a chunk, and stands where it led to.
LEMMA LocatedShrinks ==
    ASSUME TypeOK, NEW at \in [Nat -> Places], Traced(at), stream # <<>>, stream' = Tail(stream),
           header = NoHeader => header' # NoHeader,
           header # NoHeader => header' = NoHeader,
           UNCHANGED <<sent, offset, writer, alive>>,
           at[2] = ReaderPlace',
           header' # NoHeader => HeaderAt(sent, header', at[2])
    PROVE  Located'
<1>1. stream \in Seq(AnyHeader \cup Body)
  BY Zenon DEF TypeOK
<1>2. /\ Len(stream) \in Nat /\ Len(stream) >= 1 /\ Len(stream') = Len(stream) - 1
      /\ \A k \in 1..(Len(stream) - 1) : stream'[k] = stream[k + 1]
  BY Zenon, <1>1, TailFacts, LenProperties
<1>3. \A k \in Nat : IsHeader(k)' <=> IsHeader(k + 1)
  BY Zenon, OddFacts DEF IsHeader
<1> PICK q \in [Nat -> Places] : q = [k \in Nat |-> at[k + 1]]
  <2>1. \A k \in Nat : k + 1 \in Nat
    OBVIOUS
  <2> QED
    BY Zenon, <2>1
<1>4. \A k \in Nat : q[k] = at[k + 1]
  BY Zenon
<1>5. ASSUME NEW k \in 1..Len(stream')
      PROVE  /\ IsHeader(k)' => HeaderAt(sent', stream'[k], q[k]) /\ q[k + 1] = q[k]
             /\ ~IsHeader(k)' => BodyAt(sent', stream'[k], q[k]) /\ q[k + 1] = After(sent', stream'[k], q[k])
  <2> DEFINE n == k + 1
  <2>1. k \in Nat /\ n \in Nat /\ n \in 1..Len(stream) /\ stream'[k] = stream[n]
    BY <1>2
  <2>2. q[k] = at[n] /\ q[n] = at[n + 1] /\ (IsHeader(k)' <=> IsHeader(n))
    BY Zenon, <1>3, <1>4, <2>1
  <2>3. /\ IsHeader(n) => HeaderAt(sent, stream[n], at[n]) /\ at[n + 1] = at[n]
        /\ ~IsHeader(n) => BodyAt(sent, stream[n], at[n]) /\ at[n + 1] = After(sent, stream[n], at[n])
    BY Zenon, <2>1 DEF Traced
  <2> QED
    BY Zenon, <2>1, <2>2, <2>3
<1>6. q[1] = ReaderPlace' /\ (header' # NoHeader => HeaderAt(sent', header', q[1]))
  <2>1. q[1] = at[2]
    BY <1>4
  <2> QED
    BY Zenon, <2>1
<1>7. alive' => q[Len(stream') + 1] = WriterPlace'
  <2>1. q[Len(stream') + 1] = at[Len(stream) + 1]
    BY SMTT(60), <1>2, <1>4
  <2> QED
    BY Zenon, <2>1 DEF Traced, WriterPlace
<1>8. Traced(q)'
  BY Zenon, <1>5, <1>6, <1>7 DEF Traced
<1> QED
  BY Zenon, <1>8 DEF Located

\* The numbers that the places are made of.
LEMMA PeerFacts ==
    ASSUME CInv, ~foreign, result = "reading"
    PROVE  /\ TypeOK /\ Peer /\ Assembling /\ Located /\ smp = NoSmp
           /\ Len(received) \in Nat /\ Len(assembled) \in Nat /\ Len(sent) \in Nat
  BY Zenon, LenProperties DEF CInv, IInv, Peer, TypeOK

\* The header is taken, and belongs where the reader stands.
LEMMA PeerReadHeader ==
    ASSUME CInv, ~foreign, ReadHeader
    PROVE  result' = "reading" /\ Peer'
<1> DEFINE h == Head(stream)
<1>1. AtHeader /\ result = "reading"
  BY Zenon DEF ReadHeader, AtHeader
<1>2. /\ TypeOK /\ Framing /\ stream # <<>> /\ header = NoHeader
      /\ h = stream[1] /\ h \in AnyHeader /\ h.length \in Nat
  BY Zenon, <1>1, AtHeaderFacts DEF CInv
<1>3. /\ Peer /\ Assembling /\ Located /\ smp = NoSmp
      /\ Len(received) \in Nat /\ Len(assembled) \in Nat /\ Len(sent) \in Nat
  BY Zenon, <1>1, PeerFacts
<1> PICK at \in [Nat -> Places] : Traced(at)
  BY Zenon, <1>3 DEF Located
<1>4. /\ at[1].message = Len(received) + 1 /\ at[1].offset = Len(assembled)
      /\ HeaderAt(sent, h, at[1]) /\ at[2] = at[1] /\ at[1] = ReaderPlace
  <2>1. 1 \in 1..Len(stream) /\ IsHeader(1)
    BY SMTT(60), <1>2, TailFacts, OddFacts DEF TypeOK, IsHeader
  <2>2. at[1] = ReaderPlace
    BY Zenon DEF Traced
  <2>3. HeaderAt(sent, h, at[1]) /\ at[1 + 1] = at[1]
    BY Zenon, <1>2, <2>1 DEF Traced
  <2> QED
    BY SMTT(60), <2>2, <2>3 DEF ReaderPlace
<1> HIDE DEF h
<1>5. PICK m \in Messages : m = sent[Len(received) + 1]
  BY Zenon, <1>2, <1>4, ElementOfSeq DEF HeaderAt, TypeOK
<1>6. /\ Len(received) < Len(sent) /\ h.type = m.type /\ h.length \in HEADER_LEN..MaxPacket
      /\ Len(assembled) + (h.length - HEADER_LEN) <= Len(m.payload)
  BY <1>3, <1>4, <1>5 DEF HeaderAt, Payload
<1>7. ValidLength(h) /\ SameType(h) /\ Fits(h) /\ h.type # "SMP"
  <2>1. ValidLength(h) /\ h.type # "SMP"
    BY <1>6, HeaderFields DEF ValidLength
  <2>2. SameType(h)
    BY Zenon, <1>3, <1>5, <1>6 DEF SameType, Assembling
  <2>3. Fits(h)
    BY SMTT(60), <1>2, <1>3, <1>6, Limits, HeaderFields DEF Fits
  <2> QED
    BY Zenon, <2>1, <2>2, <2>3
<1>8. /\ header' = h /\ expected' = h.type /\ stream' = Tail(stream)
      /\ UNCHANGED <<sent, offset, writer, alive, received, assembled, packets, smp, result>>
  BY Zenon, <1>7 DEF ReadHeader, h, writing
<1>9. h # NoHeader
  BY SMTT(60), <1>6 DEF NoHeader
<1>10. Located'
  <2>1. at[2] = ReaderPlace'
    BY Zenon, <1>4, <1>8 DEF ReaderPlace
  <2> QED
    BY Zenon, <1>2, <1>4, <1>8, <1>9, <2>1, LocatedShrinks
<1>11. Assembling'
  BY Zenon, <1>3, <1>5, <1>6, <1>8 DEF Assembling
<1> QED
  BY Zenon, <1>1, <1>3, <1>8, <1>10, <1>11 DEF Peer

\* What a body adds is the next part of the message, up to its end if and only
\* if the header says so.
LEMMA BodyRead ==
    ASSUME CInv, ~foreign, ReadBody, NEW at \in [Nat -> Places], Traced(at)
    PROVE  LET m == sent[Len(received) + 1]
               n == Len(assembled) + Len(Head(stream).bytes)
           IN  /\ Len(received) < Len(sent) /\ m \in Messages /\ n \in Nat /\ n <= Len(m.payload)
               /\ Whole = [type |-> m.type, payload |-> SubSeq(m.payload, 1, n)]
               /\ header.status = "eom" <=> n = Len(m.payload)
               /\ header.status = "eom" => at[2] = [message |-> Len(received) + 2, offset |-> 0]
               /\ header.status # "eom" => /\ at[2] = [message |-> Len(received) + 1, offset |-> n]
                                           /\ Len(assembled) < n
<1> DEFINE b == Head(stream).bytes
           m == sent[Len(received) + 1]
           f == Len(assembled)
           n == f + Len(b)
<1>1. result = "reading" /\ header # NoHeader /\ header.type # "SMP" /\ stream # <<>>
  BY Zenon DEF ReadBody
<1>2. /\ TypeOK /\ Framing /\ header.length \in Nat /\ header.length >= HEADER_LEN
      /\ Head(stream) = stream[1] /\ b \in Seq(Nat) /\ Len(b) = header.length - HEADER_LEN
  BY Zenon, <1>1, AtBodyFacts DEF CInv
<1>3. Assembling /\ Len(received) \in Nat /\ f \in Nat /\ Len(sent) \in Nat
  BY Zenon, <1>1, PeerFacts
<1>4. at[1] = ReaderPlace /\ HeaderAt(sent, header, at[1])
  BY Zenon, <1>1 DEF Traced
<1>5. BodyAt(sent, stream[1], at[1]) /\ at[2] = After(sent, stream[1], at[1])
  <2>1. 1 \in 1..Len(stream) /\ ~IsHeader(1)
    BY SMTT(60), <1>1, <1>2, TailFacts, OddFacts DEF TypeOK, IsHeader
  <2>2. BodyAt(sent, stream[1], at[1]) /\ at[1 + 1] = After(sent, stream[1], at[1])
    BY Zenon, <2>1 DEF Traced
  <2> QED
    BY <2>2
<1>6. /\ at[1].message = Len(received) + 1 /\ at[1].offset = f /\ Payload(sent, at[1]) = m.payload
  BY SMTT(60), <1>4 DEF ReaderPlace, Payload
<1>7. Len(received) < Len(sent) /\ m \in Messages /\ expected = m.type
  <2>1. Len(received) + 1 \in 1..Len(sent)
    BY Zenon, <1>4, <1>6 DEF HeaderAt
  <2>2. m \in Messages
    BY Zenon, <1>2, <2>1, ElementOfSeq DEF TypeOK
  <2>3. header.type = m.type
    BY Zenon, <1>4, <1>6 DEF HeaderAt
  <2> QED
    BY SMTT(60), <1>1, <1>3, <2>1, <2>2, <2>3 DEF Assembling
<1>8. Len(b) \in Nat /\ n \in Nat /\ m.payload \in Seq(Nat) /\ Len(m.payload) \in Nat
  BY SMTT(60), <1>2, <1>3, <1>7, LenProperties, HeaderFields
<1>9. n <= Len(m.payload) /\ b = SubSeq(m.payload, f + 1, n)
  BY Zenon, <1>2, <1>5, <1>6 DEF BodyAt
<1>10. header.status = "eom" <=> n = Len(m.payload)
  BY Zenon, <1>2, <1>4, <1>6 DEF HeaderAt
<1>11. header.status # "eom" => f < n
  <2>1. header.status # "eom" => header.length > HEADER_LEN
    BY Zenon, <1>4 DEF HeaderAt
  <2> QED
    BY SMTT(60), <1>2, <1>3, <2>1
<1>12. Whole = [type |-> m.type, payload |-> SubSeq(m.payload, 1, n)]
  <2> DEFINE a == f + 1
             p == m.payload
  <2>1. /\ f \in Nat /\ a \in Nat /\ a = f + 1 /\ n \in Nat /\ f <= n /\ n <= Len(p)
        /\ p \in Seq(Nat)
    BY SMTT(60), <1>3, <1>8, <1>9
  <2>2. assembled = SubSeq(p, 1, f) /\ b = SubSeq(p, a, n)
    BY Zenon, <1>3, <1>7, <1>9 DEF Assembling
  <2>3. SubSeq(p, 1, f) \o SubSeq(p, a, n) = SubSeq(p, 1, n)
    <3> HIDE DEF a, p, f, n
    <3> QED
      BY ONLY <2>1, PartsMeet
  <2>4. assembled \o b = SubSeq(p, 1, n)
    BY Zenon, <2>2, <2>3
  <2> QED
    BY Zenon, <1>7, <2>4 DEF Whole
<1>13. at[2] = IF n = Len(m.payload) THEN [message |-> Len(received) + 2, offset |-> 0]
               ELSE [message |-> Len(received) + 1, offset |-> n]
  <2>1. at[2] = IF at[1].offset + Len(b) = Len(Payload(sent, at[1]))
                THEN [message |-> at[1].message + 1, offset |-> 0]
                ELSE [message |-> at[1].message, offset |-> at[1].offset + Len(b)]
    BY Zenon, <1>2, <1>5 DEF After
  <2>2. at[1].message + 1 = Len(received) + 2
    BY <1>3, <1>6
  <2> QED
    BY Zenon, <1>6, <2>1, <2>2
<1> QED
  BY Zenon, <1>7, <1>8, <1>9, <1>10, <1>11, <1>12, <1>13

\* A body ends the message that was sent, or is within the limits.
LEMMA PeerReadBody ==
    ASSUME CInv, ~foreign, ReadBody
    PROVE  /\ result' = "reading" /\ Peer'
           /\ \/ received' = received
              \/ Len(received) < Len(sent) /\ received' = Append(received, sent[Len(received) + 1])
<1> DEFINE m == sent[Len(received) + 1]
           n == Len(assembled) + Len(Head(stream).bytes)
<1>1. /\ result = "reading" /\ header # NoHeader /\ header.type # "SMP" /\ stream # <<>>
      /\ stream' = Tail(stream) /\ header' = NoHeader
      /\ UNCHANGED <<sent, offset, writer, alive, smp>>
  BY Zenon DEF ReadBody, writing
<1>2. /\ TypeOK /\ Peer /\ Assembling /\ Located /\ smp = NoSmp /\ received \in Seq(Messages)
      /\ Len(received) \in Nat /\ Len(assembled) \in Nat /\ Len(sent) \in Nat
  BY Zenon, <1>1, PeerFacts DEF Peer
<1> PICK at \in [Nat -> Places] : Traced(at)
  BY Zenon, <1>2 DEF Located
<1>3. /\ Len(received) < Len(sent) /\ m \in Messages /\ n \in Nat /\ n <= Len(m.payload)
      /\ Whole = [type |-> m.type, payload |-> SubSeq(m.payload, 1, n)]
      /\ header.status = "eom" <=> n = Len(m.payload)
      /\ header.status = "eom" => at[2] = [message |-> Len(received) + 2, offset |-> 0]
      /\ header.status # "eom" => /\ at[2] = [message |-> Len(received) + 1, offset |-> n]
                                  /\ Len(assembled) < n
  BY Zenon, BodyRead
<1>4. m.payload \in Seq(Nat) /\ Len(m.payload) <= MaxPackets /\ Len(m.payload) \in Nat
  BY Zenon, <1>3, HeaderFields
<1>5. at[2] = ReaderPlace' => Located'
  BY Zenon, <1>1, <1>2, LocatedShrinks
<1>6. CASE header.status = "eom"
  <2>1. /\ received' = Append(received, Whole) /\ expected' = "none"
        /\ assembled' = <<>> /\ packets' = <<>> /\ result' = result
    BY Zenon, <1>6 DEF ReadBody
  <2>2. Whole = m
    <3>1. SubSeq(m.payload, 1, n) = m.payload
      BY Zenon, <1>3, <1>4, <1>6, SubSeqFull
    <3>2. m \in [type : STRING, payload : Seq(Nat)]
      BY Zenon, <1>3
    <3> QED
      BY Zenon, <1>3, <3>1, <3>2
  <2> HIDE DEF m, n
  <2>3. /\ received' \in Seq(Messages) /\ Len(received') = Len(received) + 1
        /\ Len(assembled') = 0 /\ Len(packets') = 0
    <3>1. received' = Append(received, m) /\ m \in Messages
      BY Zenon, <1>3, <2>1, <2>2
    <3>2. received' \in Seq(Messages) /\ Len(received') = Len(received) + 1
      BY <1>2, <3>1, AppendFacts
    <3> QED
      BY Zenon, <2>1, <3>2, EmptySeq
  <2>4. Located'
    BY <1>2, <1>3, <1>5, <1>6, <2>3 DEF ReaderPlace
  <2>5. Assembling'
    <3>1. ASSUME Len(received') < Len(sent')
          PROVE  LET t == sent'[Len(received') + 1]
                 IN  0 <= Len(t.payload) /\ <<>> = SubSeq(t.payload, 1, 0)
      <4>1. Len(received') + 1 \in 1..Len(sent) /\ sent' = sent
        BY SMTT(60), <1>1, <1>2, <2>3, <3>1
      <4>2. sent[Len(received') + 1] \in Messages
        BY Zenon, <1>2, <4>1, ElementOfSeq DEF TypeOK
      <4> QED
        BY SMTT(60), <4>1, <4>2, HeaderFields, SubSeqEmpty
    <3> QED
      BY SMTT(60), <1>1, <2>1, <2>3, <3>1 DEF Assembling
  <2> QED
    BY Zenon, <1>1, <1>2, <1>3, <2>1, <2>2, <2>3, <2>4, <2>5 DEF Peer, m
<1>7. CASE header.status # "eom"
  <2>1. /\ assembled' = SubSeq(m.payload, 1, n) /\ packets' = Append(packets, Descriptor)
        /\ result' = (IF TooMany THEN "limit" ELSE result)
        /\ UNCHANGED <<received, expected>>
    BY Zenon, <1>3, <1>7 DEF ReadBody
  <2>2. Len(assembled') = n
    <3> DEFINE p == m.payload
    <3>1. 1 \in Nat /\ 1 <= n + 1 /\ n <= Len(p) /\ p \in Seq(Nat) /\ (n + 1) - 1 = n
      BY <1>3, <1>4
    <3>2. Len(SubSeq(p, 1, n)) = (n + 1) - 1
      <4> HIDE DEF p, n
      <4> QED
        BY <1>3, <3>1, PartFacts
    <3> QED
      BY Zenon, <2>1, <3>1, <3>2
  <2> HIDE DEF n
  <2>3. Len(packets') = Len(packets) + 1 /\ Len(packets) \in Nat
    BY <1>2, <2>1, AppendProperties, LenProperties DEF TypeOK
  <2>4. Len(packets') <= n /\ ~TooMany
    <3>1. Len(packets) <= Len(assembled) /\ Len(assembled) < n /\ n <= Len(m.payload)
      BY Zenon, <1>2, <1>3, <1>7 DEF Assembling
    <3>2. /\ Len(assembled) \in Nat /\ n \in Nat /\ Len(m.payload) \in Nat
          /\ Len(m.payload) <= MaxPackets /\ MaxPackets \in Nat
      BY Zenon, <1>2, <1>3, <1>4, Limits
    <3> QED
      BY ONLY SMTT(60), <3>1, <3>2, <2>3 DEF TooMany
  <2>5. Located'
    BY Zenon, <1>3, <1>5, <1>7, <2>1, <2>2 DEF ReaderPlace
  <2>6. Assembling'
    <3>1. expected \in {"none", m.type}
      BY Zenon, <1>2, <1>3 DEF Assembling
    <3>2. sent'[Len(received') + 1] = m /\ Len(received') < Len(sent')
      BY Zenon, <1>1, <1>3, <2>1
    <3> HIDE DEF m
    <3> QED
      BY Zenon, <1>1, <1>3, <2>1, <2>2, <2>4, <3>1, <3>2 DEF Assembling
  <2> QED
    BY Zenon, <1>1, <1>2, <2>1, <2>4, <2>5, <2>6 DEF Peer
<1> QED
  BY Zenon, <1>6, <1>7

\* There are no SMP frames.
LEMMA PeerNoSmp ==
    ASSUME CInv, ~foreign
    PROVE  ~ReadSmpHeader /\ ~ReadSmpBody
<1>1. ASSUME result = "reading", NEW h, NEW p, HeaderAt(sent, h, p) PROVE h.type # "SMP"
  <2>1. TypeOK
    BY Zenon DEF CInv, IInv
  <2> QED
    BY SMTT(60), <1>1, <2>1, ElementOfSeq, HeaderFields DEF HeaderAt, TypeOK
<1>2. ASSUME ReadSmpHeader PROVE FALSE
  <2>1. AtHeader /\ result = "reading"
    BY Zenon, <1>2 DEF ReadSmpHeader, AtHeader
  <2>2. TypeOK /\ stream # <<>> /\ header = NoHeader /\ Head(stream) = stream[1]
    BY Zenon, <2>1, AtHeaderFacts DEF CInv
  <2>3. Located /\ smp = NoSmp
    BY Zenon, <2>1, PeerFacts
  <2> PICK at \in [Nat -> Places] : Traced(at)
    BY Zenon, <2>3 DEF Located
  <2>4. 1 \in 1..Len(stream) /\ IsHeader(1)
    BY SMTT(60), <2>2, TailFacts, OddFacts DEF TypeOK, IsHeader
  <2>5. HeaderAt(sent, stream[1], at[1])
    BY Zenon, <2>4 DEF Traced
  <2>6. Head(stream).type # "SMP"
    BY Zenon, <1>1, <2>1, <2>2, <2>5
  <2> QED
    BY Zenon, <1>2, <2>3, <2>6 DEF ReadSmpHeader
<1>3. ASSUME ReadSmpBody PROVE FALSE
  <2>1. result = "reading" /\ header.type = "SMP" /\ header # NoHeader
    BY <1>3 DEF ReadSmpBody, NoHeader
  <2>2. Located
    BY Zenon, <2>1, PeerFacts
  <2> PICK at \in [Nat -> Places] : Traced(at)
    BY Zenon, <2>2 DEF Located
  <2>3. HeaderAt(sent, header, at[1])
    BY Zenon, <2>1 DEF Traced
  <2> QED
    BY Zenon, <1>1, <2>1, <2>3
<1> QED
  BY Zenon, <1>2, <1>3

\* The end of the stream, and steps of nobody.
LEMMA PeerReadEnd ==
    ASSUME CInv, ~foreign, ReadEnd \/ UNCHANGED vars
    PROVE  Peer'
<1>1. /\ UNCHANGED <<sent, offset, writer, stream, alive>>
      /\ UNCHANGED <<received, expected, assembled, packets, header, smp>>
      /\ result' = "reading" => result = "reading"
  BY Zenon DEF ReadEnd, vars, writing, reading
<1>2. ASSUME result' = "reading" PROVE Assembling' /\ Located'
  <2>1. Assembling /\ Located
    BY Zenon, <1>1, <1>2, PeerFacts
  <2> PICK at \in [Nat -> Places] : Traced(at)
    BY Zenon, <2>1 DEF Located
  <2>2. Traced(at)'
    BY Zenon, <1>1 DEF Traced, ReaderPlace, WriterPlace, IsHeader
  <2> QED
    BY Zenon, <1>1, <2>1, <2>2 DEF Assembling, Located
<1> QED
  BY Zenon, <1>1, <1>2 DEF CInv, Peer

\* What the steps do to the messages and to the result.
LEMMA Effects ==
    ASSUME CInv, [Next]_vars
    PROVE  /\ foreign' = foreign
           /\ result' = result \/ result = "reading"
           /\ \/ sent' = sent
              \/ /\ \E m \in Messages : sent' = Append(sent, m)
                 /\ UNCHANGED <<received, result>>
           /\ received' = received \/ ReadBody
<1>1. CASE Write \/ ForeignPacket \/ Break
  BY Zenon, <1>1 DEF Write, Begin, WriteHeader, WriteBody, ForeignPacket, Break, writing, reading
<1>2. CASE ReadHeader \/ ReadSmpHeader
  BY Zenon, <1>2 DEF ReadHeader, ReadSmpHeader, AtHeader, Refuse, writing
<1>3. CASE ReadBody \/ ReadSmpBody \/ ReadEnd
  BY Zenon, <1>3 DEF ReadBody, ReadSmpBody, ReadEnd, writing
<1>4. CASE UNCHANGED vars
  BY Zenon, <1>4 DEF vars, writing, reading
<1> QED
  BY Zenon, <1>1, <1>2, <1>3, <1>4 DEF Next, Read

\* Every step between the two functions keeps the chunks where they belong.
LEMMA PeerStep ==
    ASSUME CInv, ~foreign, [Next]_vars
    PROVE  Peer' /\ result' \in {"reading", "io"}
<1>1. result \in {"reading", "io"}
  BY Zenon DEF CInv, NothingRefused
<1>2. CASE Begin
  <2>1. result' = result
    BY Zenon, <1>2 DEF Begin, reading
  <2>2. Peer'
    BY Zenon, <1>2, PeerBegin
  <2> QED
    BY Zenon, <1>1, <2>1, <2>2
<1>3. CASE WriteHeader
  <2>1. result' = result
    BY Zenon, <1>3 DEF WriteHeader, reading
  <2>2. Peer'
    BY Zenon, <1>3, PeerWriteHeader
  <2> QED
    BY Zenon, <1>1, <2>1, <2>2
<1>4. CASE WriteBody
  <2>1. result' = result
    BY Zenon, <1>4 DEF WriteBody, reading
  <2>2. Peer'
    BY Zenon, <1>4, PeerWriteBody
  <2> QED
    BY Zenon, <1>1, <2>1, <2>2
<1>5. CASE Break
  BY Zenon, <1>1, <1>5, PeerBreak DEF Break, reading
<1>6. CASE ReadHeader
  BY Zenon, <1>6, PeerReadHeader
<1>7. CASE ReadBody
  BY Zenon, <1>7, PeerReadBody
<1>8. CASE ReadSmpHeader \/ ReadSmpBody
  BY Zenon, <1>8, PeerNoSmp
<1>9. CASE ReadEnd \/ UNCHANGED vars
  BY Zenon, <1>1, <1>9, PeerReadEnd DEF ReadEnd, vars, reading
<1>10. CASE ForeignPacket
  BY Zenon, <1>10 DEF ForeignPacket
<1> QED
  BY Zenon, <1>2, <1>3, <1>4, <1>5, <1>6, <1>7, <1>8, <1>9, <1>10 DEF Next, Write, Read

\* Between the two functions every chunk is where it belongs.
THEOREM PeerInvariance == Spec => []CInv
<1>1. CInv /\ IInv' /\ [Next]_vars => CInv'
  <2> SUFFICES ASSUME CInv, IInv', [Next]_vars PROVE CInv'
    BY Zenon
  <2>1. foreign' = foreign
    BY Zenon, Effects
  <2>2. ~foreign => Peer' /\ result' \in {"reading", "io"}
    BY Zenon, PeerStep
  <2> QED
    BY Zenon, <2>1, <2>2 DEF CInv, NothingRefused
<1> QED
  BY <1>1, InitCInv, Invariance, PTL DEF Spec

\* read_message takes every packet that write_message makes, at any packet
\* size: it ends with an error only where the stream does.
THEOREM TakesEveryPacket == Spec => []NothingRefused
<1>1. CInv => NothingRefused
  BY Zenon DEF CInv
<1> QED
  BY <1>1, PeerInvariance, PTL

\* Messages arrive whole, unchanged and in order.
THEOREM Refinement == Spec => ImplementsChannel
<1>1. Init => Channel!Init
  BY Zenon DEF Init, Channel!Init
<1>2. CInv /\ [Next]_vars => [Channel!Next]_(Channel!vars)
  <2> SUFFICES ASSUME CInv, [Next]_vars PROVE [Channel!Next]_(Channel!vars)
    BY Zenon
  <2>1. /\ foreign' = foreign
        /\ result' = result \/ result = "reading"
        /\ \/ sent' = sent
           \/ /\ \E m \in Messages : sent' = Append(sent, m)
              /\ UNCHANGED <<received, result>>
        /\ received' = received \/ ReadBody
    BY Zenon, Effects
  <2>2. CASE sent' # sent
    BY Zenon, <2>1, <2>2 DEF Channel!Next, Channel!Send
  <2>3. CASE sent' = sent /\ (foreign \/ received' = received)
    BY Zenon, <2>1, <2>3 DEF Channel!Next, Channel!Fail, Channel!vars
  <2>4. CASE sent' = sent /\ ~foreign /\ received' # received
    <3>1. /\ result = "reading" /\ result' = "reading" /\ Len(received) < Len(sent)
          /\ received' = Append(received, sent[Len(received) + 1])
      BY Zenon, <2>1, <2>4, PeerReadBody DEF ReadBody
    <3> QED
      BY Zenon, <2>1, <2>4, <3>1 DEF Channel!Next, Channel!Receive
  <2> QED
    BY Zenon, <2>2, <2>3, <2>4
<1> QED
  BY <1>1, <1>2, PeerInvariance, PTL DEF Spec, ImplementsChannel, Channel!Spec
=============================================================================
