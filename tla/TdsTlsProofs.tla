---------------------------- MODULE TdsTlsProofs ----------------------------
(***************************************************************************)
(* For every capacity of a packet, all answers of the library, any client  *)
(* and any way the socket cuts what it is offered: the packets of the      *)
(* adapter stay whole.  With a client that begins only its last packet     *)
(* like a last flight, the adapter never refuses anything, it switches to  *)
(* raw records when no wrapped packet is left, and what goes out is        *)
(* wrapped until then and raw from then on.                                *)
(***************************************************************************)
EXTENDS TdsTls, SequenceTheorems, TLAPS

Items == [size : Nat, answer : Nat, wrapped : BOOLEAN]

TypeOK ==
    /\ script \in Seq(Seq(Packets)) /\ Len(script) >= 1
    /\ flight \in Nat \ {0} /\ unsent \in Seq(Packets) /\ inbound \in Seq(Packets)
    /\ raw_read \in BOOLEAN /\ packet \in Packets \cup {NoPacket} /\ left \in Nat
    /\ raw_write \in BOOLEAN /\ pending \in Seq(Items) /\ accepted \in Nat
    /\ wire \in Seq(Items)
    /\ records \in Seq(Nat \ {0}) /\ answered \in Nat /\ consumed \in Nat
    /\ step \in {"write", "flush", "read"} /\ need_flush \in BOOLEAN
    /\ status \in {"handshake", "done", "refused", "failed"}

(***************************************************************************)
(* What the adapter has taken from the library, on the wire or pending: a  *)
(* socket that takes a part of a packet moves it from one to the other.    *)
(***************************************************************************)
Out == wire \o pending

\* Every packet in the items s[1], ..., s[n] is complete, and behind it comes a
\* header or a raw byte.
Framed(s, n) ==
    \A i \in 1..n :
        s[i].size > 0 =>
            /\ i + s[i].size <= n
            /\ \A j \in (i + 1)..(i + s[i].size) : s[j].size = 0 /\ s[j].wrapped
            /\ \A j \in 1..n : j = i + s[i].size + 1 => s[j].size > 0 \/ ~s[j].wrapped

\* A pending packet is one that the library still has to be told of.
Waiting ==
    pending # <<>> => /\ ~raw_write /\ records # <<>>
                      /\ accepted \in 1..Head(records)

FrameInv == TypeOK /\ Waiting /\ Framed(Out, Len(Out))

(***************************************************************************)
(* Where an orderly client and the adapter are.                            *)
(***************************************************************************)
Current == script[flight]
Held == IF packet = NoPacket THEN 0 ELSE 1

\* The flight is under way: behind what the library has read come the packet
\* in the adapter, those on their way and those not yet sent.
Arriving ==
    /\ answered = flight - 1 /\ ~raw_read
    /\ consumed + Held + Len(inbound) + Len(unsent) = Len(Current)
    /\ \A i \in 1..Len(inbound) : inbound[i] = Current[consumed + Held + i]
    /\ \A i \in 1..Len(unsent) : unsent[i] = Current[consumed + Held + Len(inbound) + i]
    /\ packet # NoPacket =>
         packet = Current[consumed + 1] /\ packet.size > 0 /\ left \in 1..packet.size
    /\ flight = Len(script) => \E k \in (consumed + 1)..Len(Current) : FinalAt(Current, k)

\* It has been read and answered, and the client has not gone on.
Between ==
    /\ answered = flight /\ ~raw_read /\ flight < Len(script)
    /\ consumed = 0 /\ packet = NoPacket /\ inbound = <<>> /\ unsent = <<>>

\* The last packet of the last flight has been read.
Switched ==
    /\ raw_read /\ flight = Len(script) /\ packet = NoPacket
    /\ answered = flight \/ (answered = flight - 1 /\ records = <<>>)
    /\ \A i \in 1..Len(inbound) : ~inbound[i].wrapped
    /\ \A i \in 1..Len(unsent) : ~unsent[i].wrapped

Phase == Arriving \/ Between \/ Switched

\* What belongs to an answer before the last is wrapped, and nothing else.
Coloured(s) == \A i \in 1..Len(s) : s[i].wrapped <=> s[i].answer < Len(script)

SwitchInv ==
    /\ FrameInv
    /\ Orderly(script) /\ flight \in 1..Len(script)
    /\ raw_write = raw_read
    /\ status # "refused"
    /\ Phase
    /\ Coloured(Out)
----------------------------------------------------------------------------
(* Sequences of items.                                                     *)

\* Concatenation of three.
LEMMA Assoc ==
    ASSUME NEW a \in Seq(Items), NEW l \in Seq(Items), NEW r \in Seq(Items)
    PROVE  (a \o l) \o r = a \o (l \o r)
  BY SMTT(60)

\* A packet cut in two and put together behind what was there before.
LEMMA Cut ==
    ASSUME NEW a \in Seq(Items), NEW p \in Seq(Items), NEW k \in 0..(Len(p) - 1)
    PROVE  /\ a \o SubSeq(p, 1, k) \in Seq(Items) /\ SubSeq(p, k + 1, Len(p)) \in Seq(Items)
           /\ (a \o SubSeq(p, 1, k)) \o SubSeq(p, k + 1, Len(p)) = a \o p
           /\ SubSeq(p, k + 1, Len(p)) # <<>>
<1> DEFINE l == SubSeq(p, 1, k)
           r == SubSeq(p, k + 1, Len(p))
<1>1. Len(p) \in Nat /\ k \in Nat /\ k < Len(p)
  BY LenProperties
<1>2. l \in Seq(Items) /\ r \in Seq(Items) /\ Len(r) = Len(p) - k
  BY <1>1
<1>3. l \o r = p
  <2>1. /\ 1 \in 1..(Len(p) + 1) /\ k \in (1 - 1)..Len(p)
        /\ Len(p) \in k..Len(p)
    BY ONLY <1>1
  <2>2. l \o r = SubSeq(p, 1, Len(p))
    BY ZenonT(60), <2>1, ConcatAdjacentSubSeq
  <2>3. SubSeq(p, 1, Len(p)) = p
    BY ZenonT(60), SubSeqFull
  <2> QED
    BY ZenonT(60), <2>2, <2>3
<1> HIDE DEF l, r
<1>4. r # <<>>
  <2>1. Len(r) # 0
    BY ONLY <1>1, <1>2
  <2> QED
    BY <2>1, EmptySeq
<1>5. (a \o l) \o r = a \o (l \o r)
  BY ZenonT(60), <1>2, Assoc
<1>6. a \o l \in Seq(Items)
  BY ZenonT(60), <1>2, ConcatProperties
<1> QED
  BY ZenonT(60), <1>2, <1>3, <1>4, <1>5, <1>6 DEF l, r

\* The elements of a concatenation.
LEMMA Joined ==
    ASSUME NEW s \in Seq(Items), NEW p \in Seq(Items)
    PROVE  /\ s \o p \in Seq(Items) /\ Len(s \o p) = Len(s) + Len(p)
           /\ Len(s) \in Nat /\ Len(p) \in Nat
           /\ \A i \in 1..Len(s) : (s \o p)[i] = s[i]
           /\ \A i \in 1..Len(p) : (s \o p)[Len(s) + i] = p[i]
           /\ \A i \in 1..Len(s) : s[i] \in Items
           /\ \A i \in 1..Len(p) : p[i] \in Items
<1>1. Len(s) \in Nat /\ Len(p) \in Nat
  BY LenProperties
<1>2. /\ s \o p \in Seq(Items) /\ Len(s \o p) = Len(s) + Len(p)
      /\ \A i \in 1..(Len(s) + Len(p)) :
           (s \o p)[i] = IF i <= Len(s) THEN s[i] ELSE p[i - Len(s)]
  BY ConcatProperties
<1>3. \A i \in 1..Len(p) : (s \o p)[Len(s) + i] = p[i]
  BY <1>1, <1>2
<1>4. \A i \in 1..Len(s) : (s \o p)[i] = s[i]
  BY <1>1, <1>2
<1> QED
  BY <1>1, <1>2, <1>3, <1>4, ElementOfSeq

\* The items of a packet.
LEMMA PacketItems ==
    ASSUME answered \in Nat, NEW n \in Nat \ {0}
    PROVE  /\ Packet(n) \in Seq(Items) /\ Len(Packet(n)) = n + 1
           /\ Packet(n)[1].size = n
           /\ \A i \in 2..(n + 1) : Packet(n)[i].size = 0
           /\ \A i \in 1..(n + 1) : Packet(n)[i].wrapped /\ Packet(n)[i].answer = answered
<1>1. Header(n) \in Items /\ Byte(TRUE) \in Items
  BY DEF Header, Byte, Items
<1> DEFINE h == Header(n)
           b == Byte(TRUE)
<1>2. Packet(n) = [i \in 1..(n + 1) |-> IF i = 1 THEN h ELSE b]
  BY ZenonT(60) DEF Packet
<1> HIDE DEF h, b
<1>3. h \in Items /\ b \in Items
  BY ZenonT(60), <1>1 DEF h, b
<1>4. Packet(n) \in Seq(Items) /\ Len(Packet(n)) = n + 1
  BY <1>2, <1>3
<1>5. /\ Packet(n)[1] = h
      /\ \A i \in 2..(n + 1) : Packet(n)[i] = b
  BY <1>2
<1>6. \A i \in 1..(n + 1) : i = 1 \/ i \in 2..(n + 1)
  OBVIOUS
<1>7. /\ h.size = n /\ h.wrapped /\ h.answer = answered
      /\ b.size = 0 /\ b.wrapped /\ b.answer = answered
  BY DEF h, b, Header, Byte
<1> QED
  BY ZenonT(60), <1>4, <1>5, <1>6, <1>7

\* The items of raw bytes.
LEMMA RawItems ==
    ASSUME answered \in Nat, NEW n \in Nat
    PROVE  /\ Raw(n) \in Seq(Items) /\ Len(Raw(n)) = n
           /\ \A i \in 1..n : /\ Raw(n)[i].size = 0 /\ ~Raw(n)[i].wrapped
                              /\ Raw(n)[i].answer = answered
<1>1. Byte(FALSE) \in Items
  BY DEF Byte, Items
<1>2. Raw(n) \in [1..n -> Items]
  BY ZenonT(60), <1>1 DEF Raw
<1>3. Raw(n) \in Seq(Items) /\ Len(Raw(n)) = n
  BY <1>2
<1>4. \A i \in 1..n : Raw(n)[i] = Byte(FALSE)
  BY DEF Raw
<1> QED
  BY <1>3, <1>4 DEF Byte

\* A packet, or raw bytes.
Unit(p, m) ==
    \/ /\ p[1].size = m - 1 /\ p[1].size > 0
       /\ \A i \in 2..m : p[i].size = 0 /\ p[i].wrapped
    \/ \A i \in 1..m : p[i].size = 0 /\ ~p[i].wrapped

\* Whole packets stay whole when a unit p follows them (t is s and p).
LEMMA FramedJoin ==
    ASSUME NEW n \in Nat, NEW m \in Nat \ {0}, NEW s, NEW p, NEW t,
           \A i \in 1..n : t[i] = s[i] /\ s[i].size \in Nat,
           \A i \in 1..m : t[n + i] = p[i] /\ p[i].size \in Nat,
           Framed(s, n), Unit(p, m)
    PROVE  Framed(t, n + m)
<1>1. t[n + 1] = p[1] /\ p[1].size \in Nat /\ (p[1].size > 0 \/ ~p[1].wrapped)
  BY DEF Unit
<1>2. ASSUME NEW i \in 1..n, t[i].size > 0
      PROVE  /\ i + t[i].size <= n + m
             /\ \A j \in (i + 1)..(i + t[i].size) : t[j].size = 0 /\ t[j].wrapped
             /\ \A j \in 1..(n + m) : j = i + t[i].size + 1 => t[j].size > 0 \/ ~t[j].wrapped
  <2>1. /\ t[i].size = s[i].size /\ s[i].size \in Nat /\ s[i].size > 0
        /\ i + s[i].size <= n
        /\ \A j \in (i + 1)..(i + s[i].size) : s[j].size = 0 /\ s[j].wrapped
        /\ \A j \in 1..n : j = i + s[i].size + 1 => s[j].size > 0 \/ ~s[j].wrapped
    BY <1>2 DEF Framed
  <2>2. \A j \in (i + 1)..(i + t[i].size) : t[j] = s[j]
    BY <2>1
  <2>3. \A j \in 1..(n + m) : j = i + t[i].size + 1 => t[j].size > 0 \/ ~t[j].wrapped
    BY SMTT(60), <1>1, <2>1
  <2> QED
    BY <2>1, <2>2, <2>3
<1>3. ASSUME NEW i \in (n + 1)..(n + m), t[i].size > 0
      PROVE  /\ i + t[i].size <= n + m
             /\ \A j \in (i + 1)..(i + t[i].size) : t[j].size = 0 /\ t[j].wrapped
             /\ \A j \in 1..(n + m) : j = i + t[i].size + 1 => t[j].size > 0 \/ ~t[j].wrapped
  <2>1. i - n \in 1..m /\ i = n + (i - n)
    OBVIOUS
  <2>2. t[i] = p[i - n] /\ p[i - n].size > 0
    BY <1>3, <2>1
  <2>3. ~(\A l \in 1..m : p[l].size = 0 /\ ~p[l].wrapped)
    BY <2>1, <2>2
  <2>4. /\ p[1].size = m - 1 /\ p[1].size > 0
        /\ \A l \in 2..m : p[l].size = 0 /\ p[l].wrapped
    BY <2>3 DEF Unit
  <2>5. i - n = 1 /\ t[i].size = m - 1 /\ i = n + 1
    BY <2>1, <2>2, <2>4
  <2>6. ASSUME NEW j \in (n + 2)..(n + m) PROVE t[j].size = 0 /\ t[j].wrapped
    <3>1. j - n \in 2..m /\ j - n \in 1..m /\ j = n + (j - n)
      OBVIOUS
    <3> QED
      BY <2>4, <3>1
  <2> QED
    BY <2>5, <2>6
<1>4. \A i \in 1..(n + m) : i \in 1..n \/ i \in (n + 1)..(n + m)
  OBVIOUS
<1> QED
  BY <1>2, <1>3, <1>4 DEF Framed

\* Whole packets stay whole when a packet or raw bytes follow.
LEMMA FramedGrows ==
    ASSUME NEW s \in Seq(Items), Framed(s, Len(s)), NEW p \in Seq(Items), Len(p) > 0,
           Unit(p, Len(p))
    PROVE  Framed(s \o p, Len(s \o p))
<1>1. /\ Len(s \o p) = Len(s) + Len(p) /\ Len(s) \in Nat /\ Len(p) \in Nat \ {0}
      /\ \A i \in 1..Len(s) : (s \o p)[i] = s[i] /\ s[i] \in Items
      /\ \A i \in 1..Len(p) : (s \o p)[Len(s) + i] = p[i] /\ p[i] \in Items
  BY Joined
<1>2. \A x \in Items : x.size \in Nat
  BY DEF Items
<1> DEFINE n == Len(s)
           m == Len(p)
           t == s \o p
<1>3. /\ n \in Nat /\ m \in Nat \ {0}
      /\ \A i \in 1..n : t[i] = s[i] /\ s[i].size \in Nat
      /\ \A i \in 1..m : t[n + i] = p[i] /\ p[i].size \in Nat
      /\ Framed(s, n) /\ Unit(p, m)
  BY ZenonT(60), <1>1, <1>2
<1> HIDE DEF n, m, t
<1>4. Framed(t, n + m)
  BY ZenonT(60), <1>3, FramedJoin
<1> QED
  BY ZenonT(60), <1>1, <1>4 DEF n, m, t

----------------------------------------------------------------------------
(* The packets of the adapter are whole, whatever the client does.         *)

\* The library has taken n bytes of its first record for written.
LEMMA WrittenRecords ==
    ASSUME records \in Seq(Nat \ {0}), records # <<>>, NEW n \in 1..Head(records), Written(n)
    PROVE  records' \in Seq(Nat \ {0})
<1>1. /\ Head(records) \in Nat \ {0} /\ Tail(records) \in Seq(Nat \ {0})
      /\ Head(records) = records[1] /\ 1 \in 1..Len(records)
  BY HeadTailProperties, EmptySeq
<1>2. CASE n = Head(records)
  BY <1>1, <1>2 DEF Written
<1>3. CASE n # Head(records)
  <2>1. records[1] - n \in Nat \ {0}
    BY <1>1, <1>3
  <2>2. records' = [records EXCEPT ![1] = records[1] - n]
    BY <1>3 DEF Written
  <2> QED
    BY <1>1, <2>1, <2>2, ExceptSeq
<1> QED
  BY <1>2, <1>3

\* The socket takes all or a part of packet p, of which the library counts n bytes.
LEMMA PutsFrames ==
    ASSUME FrameInv, Writing, ~raw_write, NEW p \in Seq(Items), Len(p) > 0,
           NEW n \in 1..Head(records), Puts(p, n), Framed(wire \o p, Len(wire \o p)),
           UNCHANGED <<client, inbound, reader, raw_write>>
    PROVE  FrameInv' /\ Out' = wire \o p
<1>1. /\ TypeOK /\ records # <<>> /\ wire \in Seq(Items) /\ records \in Seq(Nat \ {0})
      /\ n \in Nat /\ Head(records) \in Nat
  BY HeadTailProperties DEF FrameInv, TypeOK, Writing
<1>2. CASE /\ wire' = wire \o p
           /\ pending' = <<>> /\ accepted' = 0
           /\ Written(n)
  <2>1. records' \in Seq(Nat \ {0})
    BY <1>1, <1>2, WrittenRecords
  <2>2. wire' \in Seq(Items) /\ pending' \in Seq(Items)
    BY <1>2, EmptySeq, ConcatProperties, <1>1
  <2>3. Out' = wire \o p
    BY <1>2, <2>2, ConcatEmptySeq DEF Out
  <2>4. TypeOK'
    BY <1>1, <1>2, <2>1, <2>2 DEF TypeOK, Written, client, reader
  <2> QED
    BY <1>2, <2>3, <2>4 DEF FrameInv, Waiting
<1>3. CASE /\ \E k \in 0..(Len(p) - 1) : /\ wire' = wire \o SubSeq(p, 1, k)
                                         /\ pending' = SubSeq(p, k + 1, Len(p))
           /\ accepted' = n
           /\ WouldBlock
  <2>1. PICK k \in 0..(Len(p) - 1) : /\ wire' = wire \o SubSeq(p, 1, k)
                                     /\ pending' = SubSeq(p, k + 1, Len(p))
    BY SMTT(60), <1>3
  <2>2. wire' \in Seq(Items) /\ pending' \in Seq(Items) /\ Out' = wire \o p
    BY ZenonT(60), <1>1, <2>1, Cut DEF Out
  <2>3. /\ accepted' = n /\ UNCHANGED <<records, answered, consumed, status, need_flush>>
        /\ step' \in {"flush", "read"}
    BY <1>3 DEF WouldBlock, library, AfterWrites
  <2>4. TypeOK'
    BY <1>1, <2>2, <2>3 DEF TypeOK, client, reader
  <2> QED
    BY <1>1, <2>2, <2>3, <2>4 DEF FrameInv, Waiting
<1> QED
  BY ZenonT(60), <1>2, <1>3 DEF Puts

\* A new packet goes behind all the others.
LEMMA WriteWrappedFrames ==
    ASSUME FrameInv, WriteWrapped
    PROVE  /\ FrameInv'
           /\ \E n \in Nat \ {0} : Out' = Out \o Packet(n)
<1> DEFINE take == IF Head(records) < Capacity THEN Head(records) ELSE Capacity
<1>1. /\ Writing /\ ~raw_write /\ pending = <<>> /\ Puts(Packet(take), take)
      /\ UNCHANGED <<client, inbound, reader, raw_write>>
  BY DEF WriteWrapped
<1>2. /\ records \in Seq(Nat \ {0}) /\ records # <<>> /\ answered \in Nat
      /\ wire \in Seq(Items) /\ Framed(Out, Len(Out))
  BY <1>1 DEF FrameInv, TypeOK, Writing
<1>3. Head(records) \in Nat \ {0}
  BY <1>2, HeadTailProperties
<1>4. take \in Nat \ {0} /\ take \in 1..Head(records)
  BY <1>3, TdsTlsAssumption
<1>5. Out = wire
  BY <1>1, <1>2, ConcatEmptySeq DEF Out
<1> HIDE DEF take
<1>6. /\ Packet(take) \in Seq(Items) /\ Len(Packet(take)) = take + 1
      /\ Packet(take)[1].size = take
      /\ \A i \in 2..(take + 1) : Packet(take)[i].size = 0
      /\ \A i \in 1..(take + 1) : Packet(take)[i].wrapped
  BY ZenonT(60), <1>2, <1>4, PacketItems
<1> DEFINE q == Packet(take)
<1>7. /\ q \in Seq(Items) /\ Len(q) = take + 1 /\ q[1].size = take
      /\ \A i \in 2..(take + 1) : q[i].size = 0 /\ q[i].wrapped
  BY <1>4, <1>6
<1>8. Puts(q, take)
  BY <1>1 DEF take
<1> HIDE DEF q
<1>9. Unit(q, Len(q)) /\ Len(q) > 0
  BY ONLY <1>4, <1>7 DEF Unit
<1>10. Framed(wire \o q, Len(wire \o q))
  BY ZenonT(60), <1>2, <1>5, <1>7, <1>9, FramedGrows
<1>11. FrameInv' /\ Out' = wire \o q
  BY ZenonT(60), <1>1, <1>4, <1>7, <1>8, <1>9, <1>10, PutsFrames
<1> QED
  BY ZenonT(60), <1>4, <1>5, <1>11 DEF q

\* The rest of a pending packet changes nothing in what has been taken over.
LEMMA WriteAgainFrames ==
    ASSUME FrameInv, WriteAgain
    PROVE  FrameInv' /\ Out' = Out
<1>1. /\ Writing /\ ~raw_write /\ pending # <<>> /\ Puts(pending, accepted)
      /\ UNCHANGED <<client, inbound, reader, raw_write>>
  BY DEF WriteAgain
<1>2. pending \in Seq(Items) /\ accepted \in 1..Head(records) /\ Framed(Out, Len(Out))
  BY <1>1 DEF FrameInv, TypeOK, Waiting
<1>3. Len(pending) > 0
  BY <1>1, <1>2, EmptySeq
<1> QED
  BY ZenonT(60), <1>1, <1>2, <1>3, PutsFrames DEF Out

\* poll_flush: likewise.
LEMMA FlushFrames ==
    ASSUME FrameInv, Flush
    PROVE  FrameInv' /\ Out' = Out
<1>1. /\ step' = "read" /\ need_flush' = FALSE
      /\ UNCHANGED <<client, inbound, reader, raw_write, library>>
  BY DEF Flush
<1>2. TypeOK /\ Waiting /\ wire \in Seq(Items) /\ pending \in Seq(Items)
  BY DEF FrameInv, TypeOK
<1>3. CASE wire' = wire \o pending /\ pending' = <<>> /\ accepted' = 0
  <2>1. wire' \in Seq(Items) /\ pending' \in Seq(Items)
    BY <1>2, <1>3, EmptySeq, ConcatProperties
  <2>2. Out' = Out
    BY <1>3, <2>1, ConcatEmptySeq DEF Out
  <2>3. TypeOK'
    BY ZenonT(60), <1>1, <1>2, <1>3, <2>1 DEF TypeOK, client, reader, library
  <2> QED
    BY <1>3, <2>2, <2>3 DEF FrameInv, Waiting
<1>4. CASE /\ ~raw_write
           /\ \E k \in 0..(Len(pending) - 1) : /\ wire' = wire \o SubSeq(pending, 1, k)
                                               /\ pending' = SubSeq(pending, k + 1, Len(pending))
           /\ UNCHANGED accepted
  <2>1. PICK k \in 0..(Len(pending) - 1) : /\ wire' = wire \o SubSeq(pending, 1, k)
                                           /\ pending' = SubSeq(pending, k + 1, Len(pending))
    BY SMTT(60), <1>4
  <2>2. wire' \in Seq(Items) /\ pending' \in Seq(Items) /\ Out' = Out
    BY ZenonT(60), <1>2, <2>1, Cut DEF Out
  <2>3. TypeOK'
    BY ZenonT(60), <1>1, <1>2, <1>4, <2>2 DEF TypeOK, client, reader, library
  <2>4. pending # <<>>
    <3>1. Len(pending) > 0
      BY <1>2, <2>1, LenProperties
    <3> QED
      BY <3>1, EmptySeq
  <2>5. Waiting'
    BY <1>1, <1>2, <1>4, <2>4 DEF Waiting, library
  <2> QED
    BY <2>2, <2>3, <2>5 DEF FrameInv
<1>5. CASE raw_write /\ UNCHANGED <<wire, pending, accepted>>
  <2>1. TypeOK' /\ Out' = Out
    BY ZenonT(60), <1>1, <1>2, <1>5 DEF TypeOK, client, reader, library, Out
  <2>2. Waiting'
    BY <1>1, <1>2, <1>5 DEF Waiting, library
  <2> QED
    BY <2>1, <2>2 DEF FrameInv
<1> QED
  BY ZenonT(60), <1>3, <1>4, <1>5 DEF Flush

\* Raw bytes follow when nothing is pending.
LEMMA WriteRawFrames ==
    ASSUME FrameInv, WriteRaw
    PROVE  /\ FrameInv'
           /\ Out' = Out \/ \E n \in Nat : Out' = Out \o Raw(n)
<1>1. /\ Writing /\ raw_write /\ UNCHANGED <<client, inbound, reader, raw_write, pending, accepted>>
      /\ TypeOK /\ Waiting /\ Framed(Out, Len(Out))
  BY DEF WriteRaw, FrameInv
<1>2. /\ pending = <<>> /\ records \in Seq(Nat \ {0}) /\ records # <<>> /\ answered \in Nat
      /\ wire \in Seq(Items)
  BY <1>1 DEF Waiting, TypeOK, Writing
<1>3. Out = wire
  BY <1>2, ConcatEmptySeq DEF Out
<1>4. CASE WouldBlock /\ UNCHANGED wire
  <2>1. TypeOK' /\ Out' = Out
    BY <1>1, <1>4 DEF TypeOK, WouldBlock, AfterWrites, client, reader, library, Out
  <2>2. Waiting'
    BY <1>1, <1>2 DEF Waiting
  <2> QED
    BY ZenonT(60), <1>1, <2>1, <2>2 DEF FrameInv
<1>5. ASSUME NEW n \in 1..Head(records), wire' = wire \o Raw(n), Written(n)
      PROVE  FrameInv' /\ Out' = Out \o Raw(n) /\ n \in Nat
  <2>1. Head(records) \in Nat \ {0}
    BY <1>2, HeadTailProperties
  <2>2. n \in Nat /\ n > 0
    BY <2>1
  <2>3. records' \in Seq(Nat \ {0})
    BY <1>2, <1>5, WrittenRecords
  <2>4. /\ Raw(n) \in Seq(Items) /\ Len(Raw(n)) = n
        /\ \A j \in 1..n : Raw(n)[j].size = 0 /\ ~Raw(n)[j].wrapped
    BY ZenonT(60), <1>2, <2>2, RawItems
  <2>5. Unit(Raw(n), Len(Raw(n))) /\ Len(Raw(n)) > 0
    BY <2>2, <2>4 DEF Unit
  <2>6. Framed(wire \o Raw(n), Len(wire \o Raw(n)))
    BY ZenonT(60), <1>1, <1>2, <1>3, <2>4, <2>5, FramedGrows
  <2>7. wire' \in Seq(Items)
    BY ZenonT(60), <1>2, <1>5, <2>4, ConcatProperties
  <2>8. pending' = <<>>
    BY <1>1, <1>2
  <2>9. Out' = wire \o Raw(n)
    BY <1>5, <2>7, <2>8, ConcatEmptySeq DEF Out
  <2>10. TypeOK'
    BY <1>1, <1>5, <2>3, <2>7 DEF TypeOK, Written, client, reader
  <2>11. Waiting'
    BY <2>8 DEF Waiting
  <2> QED
    BY ZenonT(60), <1>3, <2>2, <2>6, <2>9, <2>10, <2>11 DEF FrameInv
<1> QED
  BY ZenonT(60), <1>4, <1>5 DEF WriteRaw

\* The other steps leave the packets alone.
Quiet ==
    \/ ClientSends \/ ClientAdvances
    \/ LibraryAnswers \/ LibraryTurns \/ LibraryWritten
    \/ ReadHeader \/ ReadEmpty \/ Deliver \/ ReadRaw
    \/ HandshakeDone \/ SocketFails
    \/ UNCHANGED vars

\* The types of what the client and the reader change.
LEMMA QuietTypes ==
    ASSUME TypeOK, Quiet
    PROVE  TypeOK'
<1> USE DEF client, reader, writer, library
<1>0. inbound # <<>> => Head(inbound) \in Packets /\ Tail(inbound) \in Seq(Packets)
  BY HeadTailProperties DEF TypeOK
<1>1. CASE ClientSends
  <2>1. Head(unsent) \in Packets /\ Tail(unsent) \in Seq(Packets)
    BY <1>1, HeadTailProperties DEF ClientSends, TypeOK
  <2>2. inbound' \in Seq(Packets)
    BY <1>1, <2>1, AppendProperties DEF ClientSends, TypeOK
  <2> QED
    BY <1>1, <2>1, <2>2 DEF ClientSends, TypeOK
<1>2. CASE ClientAdvances
  <2>1. flight + 1 \in 1..Len(script) /\ flight + 1 \in Nat \ {0}
    BY <1>2, LenProperties DEF ClientAdvances, TypeOK
  <2>2. script[flight + 1] \in Seq(Packets)
    BY <2>1, ElementOfSeq DEF TypeOK
  <2> QED
    BY <1>2, <2>1, <2>2 DEF ClientAdvances, TypeOK
<1>3. CASE LibraryAnswers
  <2>1. records' \in Seq(Nat \ {0})
    BY ZenonT(60), <1>3, TdsTlsAssumption, EmptySeq DEF LibraryAnswers
  <2> QED
    BY <1>3, <2>1 DEF LibraryAnswers, TypeOK
<1>4. CASE LibraryTurns
  BY <1>4 DEF LibraryTurns, TypeOK
<1>5. CASE LibraryWritten
  BY <1>5 DEF LibraryWritten, AfterWrites, TypeOK
<1>6. CASE ReadHeader
  <2>1. Head(inbound) \in Packets /\ Tail(inbound) \in Seq(Packets)
    BY <1>0, <1>6 DEF ReadHeader
  <2>2. Head(inbound).size \in Nat
    BY <2>1 DEF Packets
  <2> QED
    BY SMTT(60), <1>6, <2>1, <2>2 DEF ReadHeader, Refuse, TypeOK
<1>7. CASE ReadEmpty
  BY <1>0, <1>7 DEF ReadEmpty, TypeOK
<1>8. CASE Deliver
  <2>1. left' \in Nat
    BY <1>8 DEF Deliver, TypeOK
  <2>2. raw_read' \in BOOLEAN /\ raw_write' \in BOOLEAN
    BY ZenonT(60), <1>8 DEF Deliver, TypeOK
  <2> QED
    BY <1>8, <2>1, <2>2 DEF Deliver, TypeOK
<1>9. CASE ReadRaw
  BY ZenonT(60), <1>0, <1>9 DEF ReadRaw, Refuse, TypeOK
<1>10. CASE HandshakeDone
  BY <1>10, EmptySeq DEF HandshakeDone, TypeOK
<1>11. CASE SocketFails
  BY <1>11 DEF SocketFails, TypeOK
<1>12. CASE UNCHANGED vars
  BY <1>12 DEF vars, TypeOK
<1> QED
  BY <1>1, <1>2, <1>3, <1>4, <1>5, <1>6, <1>7, <1>8, <1>9, <1>10, <1>11, <1>12 DEF Quiet

\* Nothing is pending when the adapter becomes raw, or an answer begins.
LEMMA QuietFrames ==
    ASSUME FrameInv, Quiet
    PROVE  FrameInv' /\ Out' = Out
<1> USE DEF client, reader, writer, library
<1>1. TypeOK /\ Waiting /\ TypeOK' /\ Framed(Out, Len(Out))
  BY SMTT(60), QuietTypes DEF FrameInv
<1>2. \/ UNCHANGED <<wire, pending, accepted, raw_write, records>>
      \/ records = <<>> /\ UNCHANGED <<wire, pending>>
      \/ records = <<>> /\ UNCHANGED wire /\ pending' = <<>>
  BY DEF Quiet, vars, ClientSends, ClientAdvances, LibraryAnswers, LibraryTurns, LibraryWritten,
         ReadHeader, Refuse, ReadEmpty, Deliver, ReadRaw, HandshakeDone, SocketFails, Reading
<1>3. records = <<>> => pending = <<>>
  BY <1>1 DEF Waiting
<1>4. UNCHANGED <<wire, pending>> /\ Waiting'
  BY <1>1, <1>2, <1>3 DEF Waiting
<1>5. Out' = Out
  BY <1>4 DEF Out
<1> QED
  BY <1>1, <1>4, <1>5 DEF FrameInv

\* At first nothing has been written.
LEMMA InitFrames == Init => FrameInv
<1> SUFFICES ASSUME Init PROVE FrameInv
  OBVIOUS
<1>1. script \in Seq(Seq(Packets)) /\ script # <<>>
  BY TdsTlsAssumption DEF Init
<1>2. Len(script) \in Nat \ {0}
  BY <1>1, EmptySeq
<1>3. script[1] \in Seq(Packets)
  BY <1>1, <1>2, ElementOfSeq
<1>4. TypeOK
  <2>1. /\ script \in Seq(Seq(Packets)) /\ Len(script) >= 1
        /\ unsent \in Seq(Packets) /\ inbound \in Seq(Packets)
    BY <1>1, <1>2, <1>3, EmptySeq DEF Init
  <2>2. /\ pending \in Seq(Items) /\ wire \in Seq(Items) /\ records \in Seq(Nat \ {0})
    BY EmptySeq DEF Init
  <2>3. /\ flight \in Nat \ {0} /\ accepted \in Nat /\ answered \in Nat
        /\ consumed \in Nat /\ left \in Nat
    BY DEF Init
  <2> QED
    BY ZenonT(60), <2>1, <2>2, <2>3 DEF Init, TypeOK
<1>5. Out = <<>> /\ Len(<<>>) = 0
  BY EmptySeq, ConcatEmptySeq DEF Init, Out
<1> QED
  BY <1>4, <1>5 DEF Init, FrameInv, Waiting, Framed

\* Every step keeps what has been taken over in whole packets.
LEMMA NextFrames == FrameInv /\ [Next]_vars => FrameInv'
<1> SUFFICES ASSUME FrameInv, [Next]_vars PROVE FrameInv'
  OBVIOUS
<1>1. Quiet \/ WriteRaw \/ WriteWrapped \/ WriteAgain \/ Flush
  BY DEF Next, Quiet
<1> QED
  BY <1>1, QuietFrames, WriteRawFrames, WriteWrappedFrames, WriteAgainFrames, FlushFrames

\* What has been taken over is always in whole packets and raw bytes.
THEOREM FrameInvariance == Spec => []FrameInv
  BY InitFrames, NextFrames, PTL DEF Spec

\* However the socket cuts a packet, a header on the wire is followed by exactly
\* the bytes that it announces.
THEOREM PacketsWhole == Spec => []FramesWhole
<1>1. ASSUME FrameInv PROVE FramesWhole
  <2>1. /\ wire \in Seq(Items) /\ pending \in Seq(Items) /\ Framed(Out, Len(Out))
    BY <1>1 DEF FrameInv, TypeOK
  <2>2. /\ Len(wire) \in Nat /\ Len(Out) \in Nat /\ Len(wire) <= Len(Out)
        /\ \A i \in 1..Len(wire) : Out[i] = wire[i] /\ wire[i] \in Items
    BY <2>1, Joined DEF Out
  <2>3. \A i \in 1..Len(wire) : wire[i].size \in Nat
    BY <2>2 DEF Items
  <2> DEFINE n == Len(wire)
             o == Out
             w == wire
             m == Len(Out)
  <2>4. /\ n \in Nat /\ m \in Nat /\ n <= m /\ Framed(o, m)
        /\ \A i \in 1..n : o[i] = w[i] /\ w[i].size \in Nat
    BY <2>1, <2>2, <2>3
  <2> HIDE DEF n, m, o, w
  <2>5. \A i \in 1..n : w[i].size > 0 =>
          \A j \in (i + 1)..n :
            /\ j <= i + w[i].size => w[j].size = 0 /\ w[j].wrapped
            /\ j = i + w[i].size + 1 => w[j].size > 0 \/ ~w[j].wrapped
    BY <2>4 DEF Framed
  <2> QED
    BY ZenonT(60), <2>5 DEF n, w, FramesWhole
<1> QED
  BY <1>1, FrameInvariance, PTL

----------------------------------------------------------------------------
(* The switch to raw records.                                              *)

\* The first packet of a queue is taken.
LEMMA Popped ==
    ASSUME NEW s \in Seq(Packets), s # <<>>
    PROVE  /\ Head(s) = s[1] /\ Head(s) \in Packets /\ Tail(s) \in Seq(Packets)
           /\ Len(s) \in Nat \ {0} /\ Len(Tail(s)) = Len(s) - 1
           /\ \A i \in 1..(Len(s) - 1) : Tail(s)[i] = s[i + 1]
<1>1. Len(s) \in Nat \ {0}
  BY EmptySeq
<1> QED
  BY <1>1, HeadTailProperties

\* A packet is put at the end of a queue.
LEMMA Pushed ==
    ASSUME NEW s \in Seq(Packets), NEW p \in Packets
    PROVE  /\ Append(s, p) \in Seq(Packets) /\ Len(Append(s, p)) = Len(s) + 1
           /\ \A i \in 1..Len(s) : Append(s, p)[i] = s[i]
           /\ Append(s, p)[Len(s) + 1] = p
  BY AppendProperties

\* What is known of the current flight.
LEMMA Flight ==
    ASSUME TypeOK, Orderly(script), flight \in 1..Len(script)
    PROVE  /\ Len(script) \in Nat \ {0} /\ Current \in Seq(Packets) /\ Len(Current) \in Nat
           /\ inbound \in Seq(Packets) /\ Len(inbound) \in Nat
           /\ unsent \in Seq(Packets) /\ Len(unsent) \in Nat
           /\ Held \in Nat
           /\ flight < Len(script) =>
                \A i \in 1..Len(Current) : Current[i].wrapped /\ ~BeginsLast(Current[i])
<1>1. /\ script \in Seq(Seq(Packets)) /\ Len(script) \in Nat /\ Len(script) >= 1
      /\ inbound \in Seq(Packets) /\ Len(inbound) \in Nat
      /\ unsent \in Seq(Packets) /\ Len(unsent) \in Nat
  BY LenProperties DEF TypeOK
<1>2. Current \in Seq(Packets)
  BY <1>1, ElementOfSeq DEF Current
<1>3. Len(Current) \in Nat
  BY <1>2, LenProperties
<1>4. ASSUME flight < Len(script)
      PROVE  \A i \in 1..Len(Current) : Current[i].wrapped /\ ~BeginsLast(Current[i])
  <2>1. flight \in 1..(Len(script) - 1)
    BY <1>1, <1>4
  <2> QED
    BY ZenonT(60), <2>1 DEF Orderly, Current
<1>5. Held \in Nat
  BY DEF Held
<1> QED
  BY <1>1, <1>2, <1>3, <1>4, <1>5

\* The next packet comes wrapped.
LEMMA NextWrapped ==
    ASSUME TypeOK, Orderly(script), flight \in 1..Len(script), Arriving,
           consumed + 1 <= Len(Current)
    PROVE  Current[consumed + 1].wrapped
<1>1. /\ Len(script) \in Nat /\ Len(Current) \in Nat /\ consumed \in Nat
      /\ flight < Len(script) => \A i \in 1..Len(Current) : Current[i].wrapped
  BY Flight DEF TypeOK
<1>2. CASE flight < Len(script)
  BY <1>1, <1>2
<1>3. CASE flight = Len(script)
  <2>1. PICK k \in (consumed + 1)..Len(Current) : FinalAt(Current, k)
    BY <1>3 DEF Arriving
  <2> DEFINE c == Current
             n == Len(Current)
  <2>2. \A i \in 1..n : c[i].wrapped <=> i <= k
    BY <2>1 DEF FinalAt
  <2>3. k \in (consumed + 1)..n /\ n \in Nat
    BY <1>1, <2>1
  <2> HIDE DEF c, n
  <2>4. c[consumed + 1].wrapped
    BY <1>1, <2>2, <2>3
  <2> QED
    BY <2>4 DEF c
<1> QED
  BY <1>1, <1>2, <1>3

\* A packet that does not begin like a last flight is not the one that ends the
\* wrapping; one that does is.
LEMMA PacketRead ==
    ASSUME TypeOK, Orderly(script), flight \in 1..Len(script), Arriving,
           consumed + 1 <= Len(Current)
    PROVE  /\ ~BeginsLast(Current[consumed + 1]) =>
                (flight = Len(script) =>
                   \E k \in (consumed + 2)..Len(Current) : FinalAt(Current, k))
           /\ BeginsLast(Current[consumed + 1]) =>
                /\ flight = Len(script)
                /\ \A i \in 1..Len(Current) : i > consumed + 1 => ~Current[i].wrapped
<1>1. /\ Len(script) \in Nat /\ Len(Current) \in Nat /\ consumed \in Nat
      /\ flight < Len(script) => \A i \in 1..Len(Current) : ~BeginsLast(Current[i])
  BY Flight DEF TypeOK
<1>2. CASE flight < Len(script)
  BY <1>1, <1>2
<1>3. CASE flight = Len(script)
  <2>1. PICK k \in (consumed + 1)..Len(Current) : FinalAt(Current, k)
    BY <1>3 DEF Arriving
  <2> DEFINE c == Current
             n == Len(Current)
  <2>2. /\ \A i \in 1..n : c[i].wrapped <=> i <= k
        /\ BeginsLast(c[k]) /\ \A i \in 1..(k - 1) : ~BeginsLast(c[i])
    BY <2>1 DEF FinalAt
  <2>3. k \in (consumed + 1)..n /\ n \in Nat /\ FinalAt(c, k)
    BY <1>1, <2>1
  <2> HIDE DEF c, n
  <2>4. ~BeginsLast(c[consumed + 1]) => k \in (consumed + 2)..n
    BY <1>1, <2>2, <2>3
  <2>5. BeginsLast(c[consumed + 1]) => k = consumed + 1
    BY <1>1, <2>2, <2>3
  <2>6. k = consumed + 1 => \A i \in 1..n : i > consumed + 1 => ~c[i].wrapped
    BY <1>1, <2>2, <2>3
  <2> QED
    BY <1>3, <2>3, <2>4, <2>5, <2>6 DEF c, n
<1> QED
  BY <1>1, <1>2, <1>3

\* What the phase depends on stands still.
LEMMA PhaseStays ==
    ASSUME Phase,
           UNCHANGED <<script, flight, unsent, inbound, raw_read, packet, left, answered,
                       consumed>>,
           records' = records \/ records # <<>>
    PROVE  Phase'
<1>1. Arriving => Arriving'
  BY DEF Arriving, Current, Held
<1>2. Between => Between'
  BY DEF Between
<1>3. Switched => Switched'
  BY DEF Switched
<1> QED
  BY SMTT(60), <1>1, <1>2, <1>3 DEF Phase

\* A packet goes from the client into the stream.
LEMMA SendsPhase ==
    ASSUME TypeOK, Orderly(script), flight \in 1..Len(script), Phase, ClientSends
    PROVE  Phase'
<1> DEFINE p == Head(unsent)
           ins == inbound'
           uns == unsent'
           c == Current
           h == consumed + Held
<1>1. /\ unsent # <<>> /\ inbound' = Append(inbound, p) /\ unsent' = Tail(unsent)
      /\ UNCHANGED <<script, flight, raw_read, packet, left, records, answered, consumed>>
  BY DEF ClientSends, reader, library
<1>2. /\ inbound \in Seq(Packets) /\ unsent \in Seq(Packets) /\ h \in Nat
      /\ Len(inbound) \in Nat /\ Len(unsent) \in Nat /\ Len(c) \in Nat
  BY SMTT(60), Flight DEF TypeOK
<1>3. /\ p = unsent[1] /\ p \in Packets /\ Len(unsent) \in Nat \ {0} /\ Len(uns) = Len(unsent) - 1
      /\ \A i \in 1..(Len(unsent) - 1) : uns[i] = unsent[i + 1]
  BY <1>1, <1>2, Popped
<1>4. /\ Len(ins) = Len(inbound) + 1 /\ ins[Len(inbound) + 1] = p
      /\ \A i \in 1..Len(inbound) : ins[i] = inbound[i]
  BY ZenonT(60), <1>1, <1>2, <1>3, Pushed
<1>5. Current' = c /\ Held' = Held
  BY <1>1 DEF Current, Held
<1> DEFINE li == Len(inbound)
           lu == Len(unsent)
           lc == Len(c)
<1>6. CASE Arriving
  <2>1. /\ h + li + lu = lc
        /\ \A i \in 1..li : inbound[i] = c[h + i]
        /\ \A i \in 1..lu : unsent[i] = c[h + li + i]
    BY <1>6 DEF Arriving
  <2>2. /\ li \in Nat /\ lu \in Nat \ {0} /\ lc \in Nat /\ h \in Nat
        /\ p = unsent[1] /\ Len(uns) = lu - 1 /\ Len(ins) = li + 1 /\ ins[li + 1] = p
        /\ \A i \in 1..(lu - 1) : uns[i] = unsent[i + 1]
        /\ \A i \in 1..li : ins[i] = inbound[i]
    BY <1>2, <1>3, <1>4
  <2> HIDE DEF p, ins, uns, c, h, li, lu, lc
  <2>3. /\ h + (li + 1) + (lu - 1) = lc
        /\ \A i \in 1..(li + 1) : ins[i] = c[h + i]
        /\ \A i \in 1..(lu - 1) : uns[i] = c[h + (li + 1) + i]
    <3>1. h + (li + 1) + (lu - 1) = lc
      BY <2>1, <2>2
    <3>2. ASSUME NEW i \in 1..(li + 1) PROVE ins[i] = c[h + i]
      <4>1. i \in 1..li \/ (i = li + 1 /\ h + i = h + li + 1 /\ 1 \in 1..lu)
        BY ONLY <2>2, <3>2
      <4> QED
        BY ZenonT(60), <2>1, <2>2, <4>1
    <3>3. ASSUME NEW i \in 1..(lu - 1) PROVE uns[i] = c[h + (li + 1) + i]
      <4>1. i + 1 \in 1..lu /\ h + (li + 1) + i = h + li + (i + 1)
        BY ONLY <2>2, <3>3
      <4> QED
        BY ZenonT(60), <2>1, <2>2, <4>1
    <3> QED
      BY <3>1, <3>2, <3>3
  <2>4. /\ h + Len(ins) + Len(uns) = lc
        /\ \A i \in 1..Len(ins) : ins[i] = c[h + i]
        /\ \A i \in 1..Len(uns) : uns[i] = c[h + Len(ins) + i]
    BY ZenonT(60), <2>2, <2>3
  <2>5. Arriving'
    BY ZenonT(60), <1>1, <1>5, <1>6, <2>4 DEF Arriving, ins, uns, c, h, lc
  <2> QED
    BY <2>5 DEF Phase
<1>7. CASE Between
  BY <1>1, <1>7 DEF Between
<1>8. CASE Switched
  <2>1. /\ \A i \in 1..li : ~inbound[i].wrapped
        /\ \A i \in 1..lu : ~unsent[i].wrapped
    BY <1>8 DEF Switched
  <2>2. ASSUME NEW i \in 1..Len(ins) PROVE ~ins[i].wrapped
    <3>1. i \in 1..li \/ (i = li + 1 /\ 1 \in 1..lu)
      BY <1>2, <1>3, <1>4
    <3> QED
      BY ZenonT(60), <1>3, <1>4, <2>1, <3>1
  <2>3. ASSUME NEW i \in 1..Len(uns) PROVE ~uns[i].wrapped
    <3>1. i \in 1..(lu - 1) /\ i + 1 \in 1..lu
      BY <1>2, <1>3
    <3> QED
      BY ZenonT(60), <1>3, <2>1, <3>1
  <2>4. Switched'
    BY ZenonT(60), <1>1, <1>8, <2>2, <2>3 DEF Switched
  <2> QED
    BY <2>4 DEF Phase
<1> QED
  BY <1>6, <1>7, <1>8 DEF Phase

\* The client begins its next flight.
LEMMA AdvancesPhase ==
    ASSUME TypeOK, Orderly(script), flight \in 1..Len(script), Phase, ClientAdvances
    PROVE  Phase' /\ flight' \in 1..Len(script)
<1>1. /\ flight < Len(script) /\ answered = flight
      /\ flight' = flight + 1 /\ unsent' = script[flight + 1]
      /\ UNCHANGED <<script, inbound, raw_read, packet, left, records, answered, consumed>>
  BY DEF ClientAdvances, reader, library
<1>2. /\ Len(script) \in Nat /\ flight \in Nat /\ script \in Seq(Seq(Packets))
  BY Flight DEF TypeOK
<1>3. flight' \in 1..Len(script)
  BY <1>1, <1>2
<1>4. Between
  BY <1>1, <1>2 DEF Phase, Arriving, Between, Switched
<1>5. Current' = unsent'
  BY <1>1 DEF Current
<1>6. unsent' \in Seq(Packets) /\ Len(unsent') \in Nat
  BY SMTT(60), <1>1, <1>2, <1>3, ElementOfSeq
<1>7. flight' = Len(script) => \E k \in 1..Len(unsent') : FinalAt(unsent', k)
  BY <1>1 DEF Orderly
<1>8. /\ ~raw_read' /\ consumed' = 0 /\ packet' = NoPacket /\ inbound' = <<>> /\ Held' = 0
      /\ answered' = flight' - 1
  BY <1>1, <1>2, <1>4 DEF Between, Held
<1>9. Len(inbound') = 0
  BY <1>8, EmptySeq
<1> DEFINE u == unsent'
           n == Len(u)
<1>10. n \in Nat
  BY <1>6
<1> HIDE DEF u, n
<1>11. /\ 0 + 0 + 0 + n = n
       /\ \A i \in 1..n : u[i] = u[0 + 0 + 0 + i]
       /\ (0 + 1)..n = 1..n /\ 1..0 = {}
  BY SMTT(60), <1>10
<1>12. Arriving'
  BY SMTT(60), <1>1, <1>5, <1>7, <1>8, <1>9, <1>11 DEF Arriving, u, n
<1> QED
  BY <1>3, <1>12 DEF Phase

\* The flight has been read and is answered.
LEMMA AnswersPhase ==
    ASSUME TypeOK, Orderly(script), flight \in 1..Len(script), Phase, LibraryAnswers
    PROVE  Phase'
<1>1. /\ records = <<>> /\ WholeFlight /\ answered' = answered + 1 /\ consumed' = 0
      /\ UNCHANGED <<script, flight, unsent, inbound, raw_read, packet, left>>
  BY DEF LibraryAnswers, client, reader
<1>2. /\ Len(script) \in Nat /\ flight \in Nat /\ answered \in Nat /\ consumed \in Nat
      /\ Len(Current) \in Nat /\ Len(inbound) \in Nat /\ Len(unsent) \in Nat /\ Held \in Nat
      /\ inbound \in Seq(Packets) /\ unsent \in Seq(Packets)
      /\ flight < Len(script) => \A i \in 1..Len(Current) : Current[i].wrapped
  BY Flight DEF TypeOK
<1>3. CASE Arriving
  <2>1. answered + 1 = flight
    BY <1>2, <1>3 DEF Arriving
  <2>2. \A i \in 1..Len(Current) : i > consumed => ~Current[i].wrapped
    BY <1>1, <2>1 DEF WholeFlight, Current
  <2>3. ~(consumed + 1 <= Len(Current))
    BY SMTT(60), <1>2, <1>3, <2>2, NextWrapped
  <2>4. Held = 0 /\ Len(inbound) = 0 /\ Len(unsent) = 0
    BY <1>2, <1>3, <2>3 DEF Arriving
  <2>5. packet = NoPacket /\ inbound = <<>> /\ unsent = <<>>
    BY <1>2, <2>4, EmptySeq DEF Held
  <2>6. flight # Len(script)
    BY SMTT(60), <1>2, <1>3, <2>3 DEF Arriving
  <2>7. Between'
    BY <1>1, <1>2, <1>3, <2>1, <2>5, <2>6 DEF Arriving, Between
  <2> QED
    BY <2>7 DEF Phase
<1>4. CASE Between
  <2> DEFINE f == script[answered + 1]
             n == Len(f)
  <2>1. /\ answered = flight /\ flight < Len(script) /\ consumed = 0
    BY <1>4 DEF Between
  <2>2. \A i \in 1..n : i > 0 => ~f[i].wrapped
    BY <1>1, <2>1 DEF WholeFlight
  <2>3. f \in Seq(Packets) /\ n \in Nat
    BY SMTT(60), <1>2, <2>1, ElementOfSeq DEF TypeOK
  <2>4. CASE answered + 1 < Len(script)
    <3>1. answered + 1 \in 1..(Len(script) - 1)
      BY <1>2, <2>4
    <3>2. f # <<>> /\ \A i \in 1..n : f[i].wrapped
      BY ZenonT(60), <3>1 DEF Orderly
    <3>3. 1 \in 1..n
      BY <2>3, <3>2, EmptySeq
    <3> QED
      BY <2>2, <3>2, <3>3
  <2>5. CASE answered + 1 = Len(script)
    <3>1. PICK k \in 1..n : FinalAt(f, k)
      BY <2>5 DEF Orderly
    <3>2. 1 \in 1..n /\ 1 <= k
      BY <2>3, <3>1
    <3>3. f[1].wrapped
      BY SMTT(60), <3>1, <3>2 DEF FinalAt
    <3> QED
      BY <2>2, <3>2, <3>3
  <2> QED
    BY <1>2, <2>1, <2>4, <2>5
<1>5. CASE Switched
  <2>1. answered = flight - 1 /\ answered' = flight
    BY <1>1, <1>2, <1>5 DEF Switched, WholeFlight
  <2>2. Switched'
    BY SMTT(60), <1>1, <1>5, <2>1 DEF Switched
  <2> QED
    BY <2>2 DEF Phase
<1> QED
  BY <1>3, <1>4, <1>5 DEF Phase

\* A packet leaves the stream while the flight is coming in.
LEMMA Taken ==
    ASSUME TypeOK, Orderly(script), flight \in 1..Len(script), Arriving,
           packet = NoPacket, inbound # <<>>
    PROVE  /\ Head(inbound) = Current[consumed + 1] /\ Head(inbound) \in Packets
           /\ consumed \in Nat /\ consumed + 1 <= Len(Current)
           /\ (consumed + 1) + Len(Tail(inbound)) + Len(unsent) = Len(Current)
           /\ \A i \in 1..Len(Tail(inbound)) : Tail(inbound)[i] = Current[(consumed + 1) + i]
           /\ \A i \in 1..Len(unsent) :
                unsent[i] = Current[(consumed + 1) + Len(Tail(inbound)) + i]
<1> DEFINE c == Current
           n == Len(c)
           t == Tail(inbound)
           lt == Len(t)
           li == Len(inbound)
           lu == Len(unsent)
<1>1. /\ consumed \in Nat /\ n \in Nat /\ li \in Nat /\ lu \in Nat
      /\ inbound \in Seq(Packets)
  BY Flight DEF TypeOK
<1>2. /\ Head(inbound) = inbound[1] /\ Head(inbound) \in Packets
      /\ li \in Nat \ {0} /\ lt = li - 1
      /\ \A i \in 1..(li - 1) : t[i] = inbound[i + 1]
  BY <1>1, Popped
<1>3. /\ consumed + 0 + li + lu = n
      /\ \A i \in 1..li : inbound[i] = c[consumed + 0 + i]
      /\ \A i \in 1..lu : unsent[i] = c[consumed + 0 + li + i]
  BY DEF Arriving, Held
<1> HIDE DEF c, n, t, lt, li, lu
<1>4. inbound[1] = c[consumed + 1] /\ consumed + 1 <= n /\ (consumed + 1) + lt + lu = n
  BY <1>1, <1>2, <1>3
<1>5. ASSUME NEW i \in 1..lt PROVE t[i] = c[(consumed + 1) + i]
  <2>1. i \in 1..(li - 1) /\ i + 1 \in 1..li /\ consumed + 0 + (i + 1) = (consumed + 1) + i
    BY ONLY <1>1, <1>2, <1>5
  <2> QED
    BY ZenonT(60), <1>2, <1>3, <2>1
<1>6. ASSUME NEW i \in 1..lu PROVE unsent[i] = c[(consumed + 1) + lt + i]
  <2>1. consumed + 0 + li + i = (consumed + 1) + lt + i
    BY ONLY <1>1, <1>2, <1>6
  <2> QED
    BY ZenonT(60), <1>3, <2>1
<1> QED
  BY SMTT(60), <1>1, <1>2, <1>4, <1>5, <1>6 DEF c, n, t, lt, li, lu

\* The header that is read is that of a wrapped packet.
LEMMA HeaderPhase ==
    ASSUME TypeOK, Orderly(script), flight \in 1..Len(script), Phase, ReadHeader
    PROVE  Phase' /\ status' = status
<1>1. /\ ~raw_read /\ packet = NoPacket /\ inbound # <<>> /\ Head(inbound).size > 0
      /\ inbound' = Tail(inbound) /\ UNCHANGED <<script, flight, unsent>>
  BY DEF ReadHeader, client
<1>2. Arriving
  BY SMTT(60), <1>1 DEF Phase, Between, Switched
<1>3. /\ Head(inbound) = Current[consumed + 1] /\ Head(inbound) \in Packets
      /\ consumed \in Nat /\ consumed + 1 <= Len(Current)
      /\ (consumed + 1) + Len(inbound') + Len(unsent) = Len(Current)
      /\ \A j \in 1..Len(inbound') : inbound'[j] = Current[(consumed + 1) + j]
      /\ \A j \in 1..Len(unsent) : unsent[j] = Current[(consumed + 1) + Len(inbound') + j]
  BY ZenonT(60), <1>1, <1>2, Taken
<1>4. Head(inbound).wrapped
  BY <1>2, <1>3, NextWrapped
<1>5. /\ packet' = Head(inbound) /\ left' = Head(inbound).size
      /\ UNCHANGED <<raw_read, records, answered, consumed, status>>
  BY <1>4 DEF ReadHeader, library
<1>6. packet' # NoPacket /\ left' \in 1..packet'.size
  BY <1>1, <1>3, <1>5 DEF Packets, NoPacket
<1>7. Current' = Current /\ Held' = 1
  BY <1>1, <1>6 DEF Current, Held
<1>8. Arriving'
  BY ZenonT(60), <1>1, <1>2, <1>3, <1>5, <1>6, <1>7 DEF Arriving
<1> QED
  BY <1>5, <1>8 DEF Phase

\* The flight goes on behind a packet that does not end the wrapping.
LEMMA GoesOn ==
    ASSUME TypeOK, Orderly(script), flight \in 1..Len(script), Arriving,
           consumed + 1 <= Len(Current), ~BeginsLast(Current[consumed + 1]),
           consumed' = consumed + 1, packet' = NoPacket,
           UNCHANGED <<script, flight, unsent, raw_read, answered>>,
           consumed' + Len(inbound') + Len(unsent) = Len(Current),
           \A j \in 1..Len(inbound') : inbound'[j] = Current[consumed' + j],
           \A j \in 1..Len(unsent) : unsent[j] = Current[consumed' + Len(inbound') + j]
    PROVE  Phase'
<1>1. flight = Len(script) => \E k \in (consumed + 2)..Len(Current) : FinalAt(Current, k)
  BY SMTT(60), PacketRead
<1>2. Current' = Current /\ Held' = 0
  BY DEF Current, Held
<1>3. consumed \in Nat
  BY DEF TypeOK
<1>4. consumed' + 0 = consumed' /\ consumed' + 1 = consumed + 2
  BY <1>3
<1>5. Arriving'
  BY ZenonT(60), <1>1, <1>2, <1>4 DEF Arriving
<1> QED
  BY <1>5 DEF Phase

\* An empty packet is passed over.
LEMMA EmptyPhase ==
    ASSUME TypeOK, Orderly(script), flight \in 1..Len(script), Phase, ReadEmpty
    PROVE  Phase'
<1>1. /\ ~raw_read /\ packet = NoPacket /\ inbound # <<>> /\ Head(inbound).size = 0
      /\ inbound' = Tail(inbound) /\ consumed' = consumed + 1
      /\ UNCHANGED <<script, flight, unsent, raw_read, packet, answered>>
  BY DEF ReadEmpty, client, reader
<1>2. Arriving
  BY SMTT(60), <1>1 DEF Phase, Between, Switched
<1>3. /\ Head(inbound) = Current[consumed + 1]
      /\ consumed + 1 <= Len(Current)
      /\ (consumed + 1) + Len(inbound') + Len(unsent) = Len(Current)
      /\ \A j \in 1..Len(inbound') : inbound'[j] = Current[(consumed + 1) + j]
      /\ \A j \in 1..Len(unsent) : unsent[j] = Current[(consumed + 1) + Len(inbound') + j]
  BY ZenonT(60), <1>1, <1>2, Taken
<1>4. ~BeginsLast(Current[consumed + 1])
  BY <1>1, <1>3 DEF BeginsLast
<1> QED
  BY ZenonT(60), <1>1, <1>2, <1>3, <1>4, GoesOn

\* The library takes payload; with the end of the last packet the adapter
\* becomes raw.
LEMMA DeliverPhase ==
    ASSUME TypeOK, Orderly(script), flight \in 1..Len(script), Phase, Deliver,
           raw_write = raw_read
    PROVE  Phase' /\ raw_write' = raw_read'
<1>1. /\ packet # NoPacket /\ records = <<>>
      /\ UNCHANGED <<script, flight, unsent, inbound, records, answered>>
  BY DEF Deliver, Reading, client
<1>2. PICK n \in 1..left : left' = left - n
  BY DEF Deliver
<1>3. Arriving
  BY <1>1 DEF Phase, Between, Switched
<1> DEFINE c == Current
           li == Len(inbound)
           lu == Len(unsent)
           m == Len(c)
           p == packet
<1>4. /\ li \in Nat /\ lu \in Nat /\ m \in Nat /\ consumed \in Nat /\ left \in Nat
  BY Flight DEF TypeOK
<1>5. /\ (consumed + 1) + li + lu = m
      /\ \A i \in 1..li : inbound[i] = c[(consumed + 1) + i]
      /\ \A i \in 1..lu : unsent[i] = c[(consumed + 1) + li + i]
      /\ p = c[consumed + 1] /\ p.size > 0 /\ left \in 1..p.size
      /\ answered = flight - 1 /\ ~raw_read
  BY <1>1, <1>3 DEF Arriving, Held
<1>6. consumed + 1 <= m
  BY ONLY <1>4, <1>5
<1>7. CASE left' = 0
  <2>1. /\ packet' = NoPacket /\ consumed' = consumed + 1
        /\ raw_read' = (raw_read \/ FinalFlight(p.first))
        /\ raw_write' = (raw_write \/ FinalFlight(p.first))
    BY <1>7 DEF Deliver
  <2>2. CASE FinalFlight(p.first)
    <3>1. BeginsLast(c[consumed + 1])
      BY <1>5, <2>2 DEF BeginsLast, FinalFlight
    <3>2. /\ flight = Len(script) /\ \A i \in 1..m : i > consumed + 1 => ~c[i].wrapped
      BY <1>3, <1>6, <3>1, PacketRead
    <3> HIDE DEF c, li, lu, m, p
    <3>3. ASSUME NEW i \in 1..li PROVE ~inbound[i].wrapped
      <4>1. (consumed + 1) + i \in 1..m /\ (consumed + 1) + i > consumed + 1
        BY ONLY <1>4, <1>5, <3>3
      <4> QED
        BY ZenonT(60), <1>5, <3>2, <4>1
    <3>4. ASSUME NEW i \in 1..lu PROVE ~unsent[i].wrapped
      <4>1. (consumed + 1) + li + i \in 1..m /\ (consumed + 1) + li + i > consumed + 1
        BY ONLY <1>4, <1>5, <3>4
      <4> QED
        BY ZenonT(60), <1>5, <3>2, <4>1
    <3>5. Switched'
      BY ZenonT(60), <1>1, <1>5, <2>1, <2>2, <3>2, <3>3, <3>4 DEF Switched, li, lu
    <3> QED
      BY SMTT(60), <2>1, <2>2, <3>5 DEF Phase
  <2>3. CASE ~FinalFlight(p.first)
    <3>1. ~BeginsLast(c[consumed + 1])
      BY SMTT(60), <1>5, <2>3 DEF BeginsLast, FinalFlight
    <3>2. ~raw_read' /\ ~raw_write' /\ raw_read' = raw_read /\ raw_write' = raw_read'
      BY <1>5, <2>1, <2>3 DEF TypeOK
    <3>3. /\ Len(inbound') = li /\ inbound' = inbound
      BY <1>1
    <3>4. Phase'
      BY ZenonT(60), <1>1, <1>3, <1>5, <1>6, <2>1, <3>1, <3>2, <3>3, GoesOn
    <3> QED
      BY <3>2, <3>4
  <2> QED
    BY SMTT(60), <2>2, <2>3
<1>8. CASE left' # 0
  <2>1. UNCHANGED <<packet, consumed, raw_read, raw_write>>
    BY <1>8 DEF Deliver
  <2>2. p.size \in Nat
    BY <1>1 DEF TypeOK, Packets
  <2>3. left' \in 1..p.size
    BY ONLY <1>2, <1>4, <1>5, <1>8, <2>2
  <2>4. Current' = Current /\ Held' = Held
    BY <1>1, <2>1 DEF Current, Held
  <2>5. Arriving'
    BY ZenonT(60), <1>1, <1>3, <2>1, <2>3, <2>4 DEF Arriving
  <2> QED
    BY <2>1, <2>5 DEF Phase
<1> QED
  BY <1>7, <1>8

\* What is read raw is not wrapped.
LEMMA RawPhase ==
    ASSUME TypeOK, Orderly(script), flight \in 1..Len(script), Phase, ReadRaw
    PROVE  Phase' /\ status' = status
<1>1. raw_read /\ inbound # <<>> /\ inbound' = Tail(inbound) /\ UNCHANGED <<script, flight, unsent>>
  BY DEF ReadRaw, client
<1>2. Switched
  BY <1>1 DEF Phase, Arriving, Between
<1>3. inbound \in Seq(Packets)
  BY DEF TypeOK
<1>4. /\ Head(inbound) = inbound[1] /\ Len(inbound) \in Nat \ {0}
      /\ Len(inbound') = Len(inbound) - 1
      /\ \A i \in 1..(Len(inbound) - 1) : inbound'[i] = inbound[i + 1]
  BY <1>1, <1>3, Popped
<1>5. \A i \in 1..Len(inbound) : ~inbound[i].wrapped
  BY <1>2 DEF Switched
<1>6. ~Head(inbound).wrapped /\ \A i \in 1..Len(inbound') : ~inbound'[i].wrapped
  <2>1. 1 \in 1..Len(inbound) /\ 1..Len(inbound') = 1..(Len(inbound) - 1)
    BY <1>4
  <2>2. \A i \in 1..(Len(inbound) - 1) : i + 1 \in 1..Len(inbound)
    BY <1>4
  <2> QED
    BY ZenonT(60), <1>4, <1>5, <2>1, <2>2
<1>7. UNCHANGED <<raw_read, packet, records, answered, status>>
  BY <1>6 DEF ReadRaw, reader, library
<1>8. Switched'
  BY <1>1, <1>2, <1>6, <1>7 DEF Switched
<1> QED
  BY <1>7, <1>8 DEF Phase

\* The handshake is over only when the last flight has been answered.
LEMMA DonePhase ==
    ASSUME TypeOK, Orderly(script), flight \in 1..Len(script), Phase, HandshakeDone
    PROVE  Phase' /\ raw_read' /\ raw_write'
<1>1. /\ answered = Len(script) /\ raw_read' = TRUE /\ raw_write' = TRUE /\ packet' = NoPacket
      /\ UNCHANGED <<script, flight, unsent, inbound, records, answered>>
  BY DEF HandshakeDone, client
<1>2. Len(script) \in Nat
  BY SMTT(60), Flight
<1>3. Switched
  BY <1>1, <1>2 DEF Phase, Arriving, Between
<1>4. Switched'
  BY <1>1, <1>3 DEF Switched
<1> QED
  BY <1>1, <1>4 DEF Phase

\* While there is something to write, the answer is that to the last flight
\* exactly if the adapter is raw.
LEMMA WritesInPhase ==
    ASSUME TypeOK, Orderly(script), flight \in 1..Len(script), Phase, raw_write = raw_read,
           records # <<>>
    PROVE  (~raw_write) <=> answered < Len(script)
<1>1. Len(script) \in Nat /\ flight \in Nat /\ answered \in Nat
  BY SMTT(60), Flight DEF TypeOK
<1>2. CASE Arriving
  BY <1>1, <1>2 DEF Arriving
<1>3. CASE Between
  BY <1>1, <1>3 DEF Between
<1>4. CASE Switched
  BY <1>1, <1>4 DEF Switched
<1> QED
  BY SMTT(60), <1>2, <1>3, <1>4 DEF Phase

\* Items behind others.
LEMMA ColouredGrows ==
    ASSUME NEW s \in Seq(Items), NEW r \in Seq(Items), Coloured(s), Coloured(r)
    PROVE  Coloured(s \o r)
<1> DEFINE o == s \o r
           n == Len(s)
           m == Len(r)
           S == Len(script)
<1>1. /\ n \in Nat /\ m \in Nat /\ Len(o) = n + m
      /\ \A i \in 1..n : o[i] = s[i]
      /\ \A i \in 1..m : o[n + i] = r[i]
  BY SMTT(60), Joined
<1>2. /\ \A i \in 1..n : s[i].wrapped <=> s[i].answer < S
      /\ \A i \in 1..m : r[i].wrapped <=> r[i].answer < S
  BY DEF Coloured
<1> HIDE DEF o, n, m, S
<1>3. ASSUME NEW i \in 1..(n + m) PROVE o[i].wrapped <=> o[i].answer < S
  <2>1. i \in 1..n \/ (i - n \in 1..m /\ n + (i - n) = i)
    BY ONLY <1>1, <1>3
  <2> QED
    BY ZenonT(60), <1>1, <1>2, <2>1
<1>4. Len(o) = n + m
  BY <1>1
<1> QED
  BY ZenonT(60), <1>3, <1>4 DEF Coloured, o, S

\* What is taken over follows the phase.
LEMMA WritesColoured ==
    ASSUME SwitchInv, WriteRaw \/ WriteWrapped \/ WriteAgain \/ Flush
    PROVE  FrameInv' /\ Coloured(Out')
<1>1. /\ FrameInv /\ TypeOK /\ Orderly(script) /\ flight \in 1..Len(script) /\ Phase
      /\ raw_write = raw_read /\ Coloured(Out)
  BY DEF SwitchInv, FrameInv
<1>2. answered \in Nat /\ Len(script) \in Nat /\ wire \in Seq(Items) /\ pending \in Seq(Items)
  BY <1>1, Flight DEF TypeOK
<1>3. Out \in Seq(Items)
  BY <1>2, ConcatProperties DEF Out
<1>4. CASE WriteRaw
  <2>1. FrameInv' /\ (Out' = Out \/ \E n \in Nat : Out' = Out \o Raw(n))
    BY <1>1, <1>4, WriteRawFrames
  <2>2. ASSUME NEW n \in Nat PROVE Coloured(Out \o Raw(n))
    <3>1. ~(answered < Len(script))
      BY <1>1, <1>4, WritesInPhase DEF WriteRaw, Writing
    <3>2. Raw(n) \in Seq(Items) /\ Coloured(Raw(n))
      BY ZenonT(60), <1>2, <3>1, RawItems DEF Coloured
    <3> QED
      BY ZenonT(60), <1>1, <1>3, <3>2, ColouredGrows
  <2> QED
    BY ZenonT(60), <1>1, <2>1, <2>2
<1>5. CASE WriteWrapped
  <2>1. FrameInv' /\ \E n \in Nat \ {0} : Out' = Out \o Packet(n)
    BY <1>1, <1>5, WriteWrappedFrames
  <2>2. ASSUME NEW n \in Nat \ {0} PROVE Coloured(Out \o Packet(n))
    <3>1. answered < Len(script)
      BY <1>1, <1>5, WritesInPhase DEF WriteWrapped, Writing
    <3>2. Packet(n) \in Seq(Items) /\ Coloured(Packet(n))
      BY ZenonT(60), <1>2, <3>1, PacketItems DEF Coloured
    <3> QED
      BY ZenonT(60), <1>1, <1>3, <3>2, ColouredGrows
  <2> QED
    BY <2>1, <2>2
<1>6. CASE WriteAgain
  BY <1>1, <1>6, WriteAgainFrames
<1>7. CASE Flush
  BY <1>1, <1>7, FlushFrames
<1> QED
  BY <1>4, <1>5, <1>6, <1>7

\* A write leaves what is read alone.
LEMMA WritesPhase ==
    ASSUME Phase, WriteRaw \/ WriteWrapped \/ WriteAgain \/ Flush
    PROVE  /\ Phase'
           /\ UNCHANGED <<script, flight, raw_read, raw_write, status>>
<1>1. /\ UNCHANGED <<script, flight, unsent, inbound, raw_read, packet, left, answered,
                     consumed, raw_write, status>>
      /\ records' = records \/ records # <<>>
  <2> USE DEF client, reader, library
  <2>1. CASE WriteRaw
    BY <2>1 DEF WriteRaw, Writing, Written, WouldBlock
  <2>2. CASE WriteWrapped
    BY <2>2 DEF WriteWrapped, Writing, Puts, Written, WouldBlock
  <2>3. CASE WriteAgain
    BY SMTT(60), <2>3 DEF WriteAgain, Writing, Puts, Written, WouldBlock
  <2>4. CASE Flush
    BY SMTT(60), <2>4 DEF Flush
  <2> QED
    BY <2>1, <2>2, <2>3, <2>4
<1> QED
  BY <1>1, PhaseStays

\* The steps that write nothing keep the flight in its phase.
LEMMA QuietPhase ==
    ASSUME TypeOK, Orderly(script), flight \in 1..Len(script), Phase, raw_write = raw_read,
           status # "refused", Quiet
    PROVE  /\ Phase' /\ raw_write' = raw_read' /\ status' # "refused"
           /\ script' = script /\ flight' \in 1..Len(script)
<1> USE DEF client, reader, writer, library
<1>1. CASE ClientSends
  BY SMTT(60), <1>1, SendsPhase DEF ClientSends
<1>2. CASE ClientAdvances
  BY SMTT(60), <1>2, AdvancesPhase DEF ClientAdvances
<1>3. CASE LibraryAnswers
  BY SMTT(60), <1>3, AnswersPhase DEF LibraryAnswers
<1>4. CASE LibraryTurns
  BY SMTT(60), <1>4, PhaseStays DEF LibraryTurns
<1>5. CASE LibraryWritten
  BY SMTT(60), <1>5, PhaseStays DEF LibraryWritten
<1>6. CASE ReadHeader
  <2>1. Phase' /\ status' = status
    BY SMTT(60), <1>6, HeaderPhase
  <2> QED
    BY <1>6, <2>1 DEF ReadHeader, Refuse
<1>7. CASE ReadEmpty
  BY SMTT(60), <1>7, EmptyPhase DEF ReadEmpty
<1>8. CASE Deliver
  BY SMTT(60), <1>8, DeliverPhase DEF Deliver
<1>9. CASE ReadRaw
  <2>1. Phase' /\ status' = status
    BY <1>9, RawPhase
  <2> QED
    BY ZenonT(60), <1>9, <2>1 DEF ReadRaw, Refuse
<1>10. CASE HandshakeDone
  BY <1>10, DonePhase DEF HandshakeDone
<1>11. CASE SocketFails
  BY <1>11, PhaseStays DEF SocketFails
<1>12. CASE UNCHANGED vars
  BY <1>12, PhaseStays DEF vars
<1> QED
  BY SMTT(60), <1>1, <1>2, <1>3, <1>4, <1>5, <1>6, <1>7, <1>8, <1>9, <1>10, <1>11, <1>12 DEF Quiet

\* Every step keeps the adapter in step with the client.
LEMMA NextSwitch == SwitchInv /\ [Next]_vars => SwitchInv'
<1> SUFFICES ASSUME SwitchInv, [Next]_vars PROVE SwitchInv'
  OBVIOUS
<1>1. /\ FrameInv /\ TypeOK /\ Orderly(script) /\ flight \in 1..Len(script) /\ Phase
      /\ raw_write = raw_read /\ status # "refused" /\ Coloured(Out)
  BY DEF SwitchInv, FrameInv
<1>2. CASE Quiet
  <2>1. FrameInv' /\ Out' = Out
    BY <1>1, <1>2, QuietFrames
  <2>2. /\ Phase' /\ raw_write' = raw_read' /\ status' # "refused"
        /\ script' = script /\ flight' \in 1..Len(script)
    BY SMTT(60), <1>1, <1>2, QuietPhase
  <2>3. Coloured(Out)'
    BY SMTT(60), <1>1, <2>1, <2>2 DEF Coloured
  <2>4. Orderly(script)'
    BY SMTT(60), <1>1, <2>2 DEF Orderly
  <2> QED
    BY <2>1, <2>2, <2>3, <2>4 DEF SwitchInv
<1>3. CASE WriteRaw \/ WriteWrapped \/ WriteAgain \/ Flush
  <2>1. FrameInv' /\ Coloured(Out')
    BY <1>3, WritesColoured
  <2>2. Phase' /\ UNCHANGED <<script, flight, raw_read, raw_write, status>>
    BY SMTT(60), <1>1, <1>3, WritesPhase
  <2>3. Coloured(Out)'
    BY SMTT(60), <2>1, <2>2 DEF Coloured
  <2>4. Orderly(script)'
    BY <1>1, <2>2 DEF Orderly
  <2> QED
    BY <1>1, <2>1, <2>2, <2>3, <2>4 DEF SwitchInv
<1> QED
  BY <1>2, <1>3 DEF Next, Quiet

\* The first flight is still to be sent.
LEMMA InitSwitch == Init /\ Orderly(script) => SwitchInv
<1> SUFFICES ASSUME Init, Orderly(script) PROVE SwitchInv
  OBVIOUS
<1>1. FrameInv /\ TypeOK
  BY InitFrames DEF FrameInv
<1>2. /\ flight = 1 /\ unsent = script[1] /\ inbound = <<>> /\ consumed = 0 /\ answered = 0
      /\ raw_read = FALSE /\ raw_write = FALSE /\ packet = NoPacket /\ status = "handshake"
      /\ wire = <<>> /\ pending = <<>>
  BY DEF Init
<1>3. flight \in 1..Len(script)
  BY <1>1, <1>2 DEF TypeOK
<1>4. /\ Current = unsent /\ Len(unsent) \in Nat /\ Held = 0 /\ Len(inbound) = 0
  BY <1>1, <1>2, EmptySeq DEF TypeOK, Current, Held
<1>5. flight = Len(script) => \E k \in 1..Len(Current) : FinalAt(Current, k)
  BY ZenonT(60), <1>2 DEF Orderly, Current
<1> DEFINE u == unsent
           n == Len(u)
<1>6. n \in Nat
  BY <1>4
<1> HIDE DEF u, n
<1>7. /\ 0 + 0 + 0 + n = n
      /\ \A i \in 1..n : u[i] = u[0 + 0 + 0 + i]
      /\ (0 + 1)..n = 1..n /\ 1..0 = {} /\ 1 - 1 = 0
  BY <1>6
<1>8. Arriving
  BY <1>2, <1>4, <1>5, <1>7 DEF Arriving, u, n
<1>9. Len(Out) = 0
  BY <1>2, EmptySeq, ConcatEmptySeq DEF Out
<1>10. Coloured(Out)
  BY <1>9 DEF Coloured
<1> QED
  BY ZenonT(60), <1>1, <1>2, <1>3, <1>8, <1>10 DEF SwitchInv, Phase

\* For an orderly client the phases hold at every moment.
THEOREM SwitchInvariance == Spec /\ Orderly(script) => []SwitchInv
  BY InitSwitch, NextSwitch, PTL DEF Spec

\* Once the adapter reads raw records, no wrapped packet of an orderly client is
\* still to come.
THEOREM SwitchesInTime == Spec /\ Orderly(script) => []SwitchAfterHandshake
<1>1. SwitchInv => SwitchAfterHandshake
  BY DEF SwitchInv, Phase, Arriving, Between, Switched, SwitchAfterHandshake
<1> QED
  BY <1>1, SwitchInvariance, PTL

\* What answers an orderly client goes out wrapped before its last flight and
\* raw after.
THEOREM WrappedThenRaw == Spec /\ Orderly(script) => []WrappedUntilFinished
<1>1. ASSUME SwitchInv PROVE WrappedUntilFinished
  <2>1. wire \in Seq(Items) /\ pending \in Seq(Items) /\ Coloured(Out)
    BY SMTT(60), <1>1 DEF SwitchInv, FrameInv, TypeOK
  <2>2. /\ Len(wire) \in Nat /\ Len(pending) \in Nat /\ Len(Out) = Len(wire) + Len(pending)
        /\ \A i \in 1..Len(wire) : Out[i] = wire[i]
    BY <2>1, Joined DEF Out
  <2>3. \A i \in 1..Len(wire) : i \in 1..Len(Out)
    BY <2>2
  <2> QED
    BY ZenonT(60), <2>1, <2>2, <2>3 DEF Coloured, WrappedUntilFinished
<1> QED
  BY <1>1, SwitchInvariance, PTL

\* Nothing that an orderly client sends is refused by the adapter.
THEOREM NeverRefused == Spec /\ Orderly(script) => [](status # "refused")
<1>1. SwitchInv => status # "refused"
  BY DEF SwitchInv
<1> QED
  BY <1>1, SwitchInvariance, PTL
=============================================================================
