------------------------------- MODULE Packet -------------------------------
(***************************************************************************)
(* The packet layer, src/tds/packet.rs: write_message cuts a message into  *)
(* packets, read_message puts one together from what comes in.  Between    *)
(* the two is a byte stream, of which each write_all is one chunk, and     *)
(* which may break off after any of them.                                  *)
(*                                                                         *)
(* In a behaviour the two talk to each other, or the reader has a foreign  *)
(* client that frames its packets as it likes, SMP frames included.        *)
(***************************************************************************)
EXTENDS Naturals, Sequences

CONSTANTS
    Messages,       \* what is sent: records of a type and a payload
    PacketSizes,    \* the negotiated packet sizes of write_message
    Headers,        \* the headers a foreign client sends
    MaxSent,        \* bound of the model: messages
    MaxPacket, MaxMessage,      \* the arguments of read_message
    MaxPackets,     \* 65,536 packets per message
    MaxFrames,      \* 256 SMP frames
    IdModulus       \* packet_id is a u8: 256

HEADER_LEN == 8
SMP_HEADER_LEN == 16

\* What write_message sends is within what read_message takes.
ASSUME PacketAssumption ==
    /\ {MaxSent, MaxPacket, MaxMessage, MaxPackets, MaxFrames} \subseteq Nat
    /\ IdModulus \in Nat /\ IdModulus > 1
    /\ MaxFrames > 0
    /\ PacketSizes \subseteq (HEADER_LEN + 1)..MaxPacket
    /\ \A m \in Messages : /\ m \in [type : STRING, payload : Seq(Nat)]
                           /\ m.type # "SMP"
                           /\ Len(m.payload) <= MaxMessage
                           /\ Len(m.payload) <= MaxPackets
    /\ \A h \in Headers : h.length \in Nat /\ h.id \in Nat

VARIABLES
    foreign,        \* the reader's peer is a foreign client
    sent,           \* messages given to write_message so far
    offset, size, id,   \* its progress through the last of them
    writer,         \* "idle", "header" or "body": what it writes next
    stream,         \* chunks written and not yet read
    alive,          \* the connection is up
    received,       \* messages returned by read_message, without their descriptors
    returned,       \* the last of them: payload and packet descriptors
    expected, assembled, packets,   \* the message being put together
    header,         \* the header whose body comes next
    smp,            \* SMP frames and bytes read instead of packets
    result          \* "reading", or the kind of the error

writing == <<foreign, sent, offset, size, id, writer>>
reading == <<received, returned, expected, assembled, packets, header, smp, result>>
vars == <<writing, stream, alive, reading>>

NoHeader == [type |-> "none", status |-> "none", length |-> 0, id |-> 0]
NoSmp == [frames |-> 0, bytes |-> 0]

Init ==
    /\ foreign \in BOOLEAN
    /\ sent = <<>> /\ offset = 0 /\ size = 0 /\ id = 1 /\ writer = "idle"
    /\ stream = <<>> /\ alive = TRUE
    /\ received = <<>> /\ returned = [payload |-> <<>>, packets |-> <<>>]
    /\ expected = "none" /\ assembled = <<>> /\ packets = <<>>
    /\ header = NoHeader /\ smp = NoSmp /\ result = "reading"

----------------------------------------------------------------------------
(* write_message                                                           *)

Lesser(a, b) == IF a < b THEN a ELSE b

Current == sent[Len(sent)]
Take == Lesser(Len(Current.payload) - offset, size - HEADER_LEN)

Last == offset + Take = Len(Current.payload)

\* Nothing is written for an empty payload.
BeginSkipsEmpty ==
    /\ ~foreign /\ alive /\ writer = "idle" /\ Len(sent) < MaxSent
    /\ \E m \in Messages : /\ sent' = Append(sent, m)
                           /\ writer' = IF m.payload = <<>> THEN "idle" ELSE "header"
    /\ \E s \in PacketSizes : size' = s
    /\ offset' = 0 /\ id' = 1
    /\ UNCHANGED <<foreign, stream, alive, reading>>

Begin ==
    /\ ~foreign /\ alive /\ writer = "idle" /\ Len(sent) < MaxSent
    /\ \E m \in Messages : sent' = Append(sent, m)
    /\ \E s \in PacketSizes : size' = s
    /\ offset' = 0 /\ id' = 1 /\ writer' = "header"
    /\ UNCHANGED <<foreign, stream, alive, reading>>

WriteHeader ==
    /\ alive /\ writer = "header"
    /\ stream' = Append(stream, [type |-> Current.type, status |-> IF Last THEN "eom" ELSE "more",
                                 length |-> HEADER_LEN + Take, id |-> id])
    /\ writer' = "body"
    /\ UNCHANGED <<foreign, sent, offset, size, id, alive, reading>>

\* packet_id.wrapping_add(1).max(1)
NextId == IF id + 1 = IdModulus THEN 1 ELSE id + 1

\* The offset moves on by one byte too many.
WriteBodyFull ==
    /\ alive /\ writer = "body"
    /\ stream' = Append(stream, [bytes |-> SubSeq(Current.payload, offset + 1, offset + Take)])
    /\ offset' = IF Last THEN offset ELSE offset + size - HEADER_LEN + 1
    /\ id' = IF Last THEN id ELSE NextId
    /\ writer' = IF Last THEN "idle" ELSE "header"
    /\ UNCHANGED <<foreign, sent, size, alive, reading>>

WriteBody ==
    /\ alive /\ writer = "body"
    /\ stream' = Append(stream, [bytes |-> SubSeq(Current.payload, offset + 1, offset + Take)])
    /\ offset' = IF Last THEN offset ELSE offset + Take
    /\ id' = IF Last THEN id ELSE NextId
    /\ writer' = IF Last THEN "idle" ELSE "header"
    /\ UNCHANGED <<foreign, sent, size, alive, reading>>

\* The connection goes down; what is on its way may be lost from any point on.
Break ==
    /\ alive
    /\ alive' = FALSE
    /\ \E n \in 0..Len(stream) : stream' = SubSeq(stream, 1, n)
    /\ UNCHANGED <<writing, reading>>

\* A foreign client sends a header of its choice and the body it announces.
ForeignPacket ==
    /\ foreign /\ alive /\ stream = <<>> /\ Len(received) < MaxSent
    /\ \E h \in Headers :
         stream' = <<h, [bytes |-> [i \in 1..(h.length - HEADER_LEN) |-> h.id]]>>
    /\ UNCHANGED <<writing, alive, reading>>

----------------------------------------------------------------------------
(* read_message                                                            *)

AtHeader == result = "reading" /\ header = NoHeader /\ stream # <<>>

Refuse(kind) ==
    /\ result' = kind
    /\ stream' = Tail(stream)
    /\ UNCHANGED <<writing, alive, received, returned, expected, assembled, packets, header, smp>>

\* Header::decode
ValidLength(h) == h.length >= HEADER_LEN /\ h.length <= MaxPacket

SameType(h) == expected \in {"none", h.type}

\* The limit is applied to what is there before the packet.
FitsBefore(h) == Len(assembled) <= MaxMessage

Fits(h) == Len(assembled) + (h.length - HEADER_LEN) <= MaxMessage

ReadHeader ==
    /\ AtHeader
    /\ LET h == Head(stream) IN
        /\ smp = NoSmp /\ h.type # "SMP"
        /\ \/ ~ValidLength(h) /\ Refuse("protocol")
           \/ ValidLength(h) /\ ~SameType(h) /\ Refuse("protocol")
           \/ ValidLength(h) /\ SameType(h) /\ ~Fits(h) /\ Refuse("limit")
           \/ /\ ValidLength(h) /\ SameType(h) /\ Fits(h)
              /\ header' = h /\ expected' = h.type
              /\ stream' = Tail(stream)
              /\ UNCHANGED <<writing, alive, received, returned, assembled, packets, smp, result>>

\* The message that ends with the packet just read.
Whole == [type |-> expected, payload |-> assembled \o Head(stream).bytes]

\* The body offset is taken after the body has been added.
DescriptorAfter ==
    [status |-> header.status, offset |-> Len(assembled) + header.length - HEADER_LEN,
     bytes |-> header.length - HEADER_LEN]

Descriptor ==
    [status |-> header.status, offset |-> Len(assembled),
     bytes |-> header.length - HEADER_LEN]

\* packet_count > 65_536, with the packet just read counted
TooMany == Len(packets) + 1 > MaxPackets

ReadBody ==
    /\ result = "reading" /\ header # NoHeader /\ header.type # "SMP" /\ stream # <<>>
    /\ stream' = Tail(stream)
    /\ header' = NoHeader
    /\ IF header.status = "eom"
       THEN /\ received' = Append(received, Whole)
            /\ returned' = [payload |-> Whole.payload, packets |-> Append(packets, Descriptor)]
            /\ expected' = "none" /\ assembled' = <<>> /\ packets' = <<>>
            /\ UNCHANGED result
       ELSE /\ assembled' = Whole.payload
            /\ packets' = Append(packets, Descriptor)
            /\ result' = IF TooMany THEN "limit" ELSE result
            /\ UNCHANGED <<received, returned, expected>>
    /\ UNCHANGED <<writing, alive, smp>>

\* SMP frames are read on, up to the first that is not SYN or ACK, and refused.
ReadSmpHeader ==
    /\ AtHeader
    /\ LET h == Head(stream) IN
           \/ h.type # "SMP" /\ smp # NoSmp /\ Refuse("protocol")
           \/ /\ h.type = "SMP"
              /\ ~(h.length \in SMP_HEADER_LEN..MaxMessage) /\ Refuse("protocol")
           \/ /\ h.type = "SMP" /\ h.length \in SMP_HEADER_LEN..MaxMessage
              /\ smp.bytes + h.length > MaxMessage /\ Refuse("limit")
           \/ /\ h.type = "SMP" /\ h.length \in SMP_HEADER_LEN..MaxMessage
              /\ smp.bytes + h.length <= MaxMessage
              /\ header' = h
              /\ smp' = [frames |-> smp.frames + 1, bytes |-> smp.bytes + h.length]
              /\ stream' = Tail(stream)
              /\ UNCHANGED <<writing, alive, received, returned, expected, assembled, packets, result>>

ReadSmpBody ==
    /\ result = "reading" /\ header.type = "SMP" /\ stream # <<>>
    /\ stream' = Tail(stream)
    /\ header' = NoHeader
    /\ result' = CASE header.status # "control" -> "protocol"
                   [] header.status = "control" /\ smp.frames = MaxFrames -> "limit"
                   [] OTHER -> result
    /\ UNCHANGED <<writing, alive, received, returned, expected, assembled, packets, smp>>

\* read_exact meets the end of the stream.
ReadEnd ==
    /\ result = "reading" /\ stream = <<>> /\ ~alive
    /\ result' = "io"
    /\ UNCHANGED <<writing, stream, alive, received, returned>>
    /\ UNCHANGED <<expected, assembled, packets, header, smp>>

Write == Begin \/ WriteHeader \/ WriteBody
Read == ReadHeader \/ ReadBody \/ ReadSmpHeader \/ ReadSmpBody \/ ReadEnd

Next == Write \/ ForeignPacket \/ Read \/ Break

Spec == Init /\ [][Next]_vars

\* Both sides are tasks that their runtime polls whenever they can go on.
FairSpec == Spec /\ WF_vars(WriteHeader \/ WriteBody) /\ WF_vars(Read)

----------------------------------------------------------------------------
(* Properties.                                                             *)

\* What read_message holds of an unfinished message stays within its limits, the
\* room for a body it is about to read included: the message size, one packet
\* more than the packet limit, and for SMP the message size and the frame limit.
\* What write_message sends has identifiers of one byte that are never zero.
WithinLimits ==
    /\ id \in 1..(IdModulus - 1)
    /\ Len(assembled) + (IF header.type \in {"none", "SMP"} THEN 0 ELSE header.length - HEADER_LEN)
         <= MaxMessage
    /\ Len(packets) <= MaxPackets + 1
    /\ smp.bytes <= MaxMessage /\ smp.frames <= MaxFrames

\* The bodies p are n bytes, one behind the other from the first byte on
Tiles(p, n) ==
    /\ \A i \in 1..Len(p) : p[i].offset = IF i = 1 THEN 0 ELSE p[i-1].offset + p[i-1].bytes
    /\ n = IF p = <<>> THEN 0 ELSE p[Len(p)].offset + p[Len(p)].bytes

\* The packet descriptors of a message, complete or not, divide its payload
\* without gap or overlap, so that the slice that the encrypted command path
\* takes of each packet is its body.
DescriptorsTile ==
    /\ Tiles(packets, Len(assembled))
    /\ Tiles(returned.packets, Len(returned.payload))

\* What a foreign client sends is none of the channel's messages.
Channel == INSTANCE MessageChannel WITH
    received <- IF foreign THEN <<>> ELSE received,
    failed <- (result # "reading")

\* Between the two functions messages arrive whole, unchanged and in order,
\* whatever the packet size and wherever the stream breaks off.
ImplementsChannel == Channel!Spec

\* Every message written arrives, unless the connection goes down: the two
\* functions agree on every packet, and the reader refuses none of them.
MessageArrives ==
    \A n \in 1..MaxSent : (Len(sent) = n) ~> (Len(received) >= n \/ ~alive)
=============================================================================
