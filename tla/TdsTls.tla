------------------------------- MODULE TdsTls -------------------------------
(***************************************************************************)
(* TLS inside PRELOGIN packets, src/server/tls.rs.  During the handshake   *)
(* TdsTlsIo wraps what the TLS library writes into TDS packets and unwraps *)
(* what it reads; when the client's last flight has come in, both          *)
(* directions become plain TLS records.                                    *)
(*                                                                         *)
(* The adapter is a state machine driven by polls.  Around it are the TLS  *)
(* library, which writes until it must wait, flushes if it wrote anything, *)
(* and then reads; the socket, which takes any part of a write or nothing; *)
(* and the client, which sends its next flight when it has the server's.   *)
(***************************************************************************)
EXTENDS Naturals, Sequences

CONSTANTS
    Capacity,   \* HANDSHAKE_PACKET_SIZE - HEADER_LEN
    Answers,    \* answers of the server: sequences of record sizes
    Scripts     \* clients: sequences of flights, which are sequences of packets

\* What the adapter looks at in a packet of the client: a PRELOGIN header or
\* none, the first record of its payload, and the length of that.
Packets == [wrapped: BOOLEAN,
            first: {"hello", "middle", "data", "ccs", "handshake"},
            size: Nat]

ASSUME TdsTlsAssumption ==
    /\ Capacity \in Nat \ {0}
    /\ Answers \subseteq Seq(Nat \ {0})
    /\ Scripts \subseteq Seq(Seq(Packets)) \ {<<>>}

VARIABLES
    script,         \* the flights of this client
    flight,         \* the number of the flight it sends
    unsent,         \* packets of that flight still to send
    inbound,        \* packets on their way to the server
    raw_read, raw_write,
    packet,         \* the packet whose header the adapter has read
    left,           \* bytes of its payload that the library has not taken
    pending,        \* pending_write from pending_write_pos on
    accepted,       \* accepted_write_len
    records,        \* what the library has to write: the sizes of records
    answered,       \* how many flights it has answered
    consumed,       \* packets of the next flight it has read
    step,           \* what the library does next: "write", "flush", "read"
    need_flush,
    wire,           \* what went out: headers and bytes
    status          \* "handshake", "done", "refused" or "failed"

client == <<script, flight, unsent>>
reader == <<raw_read, packet, left>>
writer == <<raw_write, pending, accepted, wire>>
library == <<records, answered, consumed, status>>
vars == <<client, inbound, reader, writer, library, step, need_flush>>

NoPacket == [wrapped |-> FALSE, first |-> "none", size |-> 0]

\* A header on the wire and a byte, with the number of the answer it belongs to.
Header(n) == [size |-> n, answer |-> answered, wrapped |-> TRUE]
Byte(w) == [size |-> 0, answer |-> answered, wrapped |-> w]

Init ==
    /\ script \in Scripts
    /\ flight = 1 /\ unsent = script[1] /\ inbound = <<>>
    /\ raw_read = FALSE /\ packet = NoPacket /\ left = 0
    /\ raw_write = FALSE /\ pending = <<>> /\ accepted = 0 /\ wire = <<>>
    /\ records = <<>> /\ answered = 0 /\ consumed = 0
    /\ status = "handshake" /\ step = "write" /\ need_flush = FALSE

----------------------------------------------------------------------------
(* The client and the TLS library (external).                              *)

ClientSends ==
    /\ unsent # <<>>
    /\ inbound' = Append(inbound, Head(unsent))
    /\ unsent' = Tail(unsent)
    /\ UNCHANGED <<script, flight, reader, writer, library, step, need_flush>>

\* The client has the answer to its flight and sends the next one.
ClientAdvances ==
    /\ unsent = <<>> /\ flight < Len(script)
    /\ answered = flight /\ records = <<>> /\ pending = <<>>
    /\ flight' = flight + 1
    /\ unsent' = script[flight + 1]
    /\ UNCHANGED <<script, inbound, reader, writer, library, step, need_flush>>

\* The library has read all the packets of its next flight that come wrapped.
WholeFlight ==
    /\ answered < Len(script)
    /\ \A i \in 1..Len(script[answered + 1]) :
         i > consumed => ~script[answered + 1][i].wrapped

\* It answers; the last flight, with its own Finished (TLS 1.2) or with nothing.
LibraryAnswers ==
    /\ status = "handshake" /\ step = "read" /\ records = <<>> /\ WholeFlight
    /\ \/ records' \in Answers
       \/ answered + 1 = Len(script) /\ records' = <<>>
    /\ answered' = answered + 1
    /\ consumed' = 0
    /\ step' = "write"
    /\ UNCHANGED <<client, inbound, reader, writer, status, need_flush>>

\* Nothing to read for now: the library is polled again.
LibraryTurns ==
    /\ status = "handshake" /\ step = "read"
    /\ step' = "write"
    /\ UNCHANGED <<client, inbound, reader, writer, library, need_flush>>

AfterWrites == IF need_flush THEN "flush" ELSE "read"

\* There is nothing to write.
LibraryWritten ==
    /\ status = "handshake" /\ step = "write" /\ records = <<>>
    /\ step' = AfterWrites
    /\ UNCHANGED <<client, inbound, reader, writer, library, need_flush>>

\* The library takes n bytes of its first record for written.
Written(n) ==
    /\ records' = IF n = Head(records) THEN Tail(records)
                  ELSE [records EXCEPT ![1] = @ - n]
    /\ need_flush' = TRUE
    /\ UNCHANGED <<answered, consumed, status, step>>

\* It must wait.
WouldBlock ==
    /\ step' = AfterWrites
    /\ UNCHANGED <<library, need_flush>>

Writing == status = "handshake" /\ step = "write" /\ records # <<>>

----------------------------------------------------------------------------
(* TdsTlsIo::poll_write, with poll_pending_write                           *)

Packet(n) == [i \in 1..(n + 1) |-> IF i = 1 THEN Header(n) ELSE Byte(TRUE)]
Raw(n) == [i \in 1..n |-> Byte(FALSE)]

WriteRaw ==
    /\ Writing /\ raw_write
    /\ \/ \E n \in 1..Head(records) :
            /\ wire' = wire \o Raw(n)
            /\ Written(n)
       \/ /\ WouldBlock
          /\ UNCHANGED wire
    /\ UNCHANGED <<client, inbound, reader, raw_write, pending, accepted>>

\* The socket takes all of the packet, or a part of it and then no more; the
\* position in pending_write is forgotten.
PutsRestarts(p, n) ==
    \/ /\ wire' = wire \o p
       /\ pending' = <<>> /\ accepted' = 0
       /\ Written(n)
    \/ /\ \E k \in 0..(Len(p) - 1) : wire' = wire \o SubSeq(p, 1, k)
       /\ pending' = p
       /\ accepted' = n
       /\ WouldBlock

\* The socket takes all of the packet, or a part of it and then no more.
Puts(p, n) ==
    \/ /\ wire' = wire \o p
       /\ pending' = <<>> /\ accepted' = 0
       /\ Written(n)
    \/ /\ \E k \in 0..(Len(p) - 1) : /\ wire' = wire \o SubSeq(p, 1, k)
                                     /\ pending' = SubSeq(p, k + 1, Len(p))
       /\ accepted' = n
       /\ WouldBlock

WriteWrapped ==
    /\ Writing /\ ~raw_write /\ pending = <<>>
    /\ LET take == IF Head(records) < Capacity THEN Head(records) ELSE Capacity
       IN  Puts(Packet(take), take)
    /\ UNCHANGED <<client, inbound, reader, raw_write>>

\* The same write again: what is pending goes out, and its length is accepted.
WriteAgain ==
    /\ Writing /\ ~raw_write /\ pending # <<>>
    /\ Puts(pending, accepted)
    /\ UNCHANGED <<client, inbound, reader, raw_write>>

\* poll_flush: what is pending goes out, or a part of it.
Flush ==
    /\ status = "handshake" /\ step = "flush"
    /\ \/ /\ ~raw_write
          /\ wire' = wire \o pending /\ pending' = <<>> /\ accepted' = 0
       \/ /\ ~raw_write
          /\ \E k \in 0..(Len(pending) - 1) : /\ wire' = wire \o SubSeq(pending, 1, k)
                                              /\ pending' = SubSeq(pending, k + 1, Len(pending))
          /\ UNCHANGED accepted
       \/ /\ raw_write
          /\ UNCHANGED <<wire, pending, accepted>>
    /\ step' = "read" /\ need_flush' = FALSE
    /\ UNCHANGED <<client, inbound, reader, raw_write, library>>

----------------------------------------------------------------------------
(* TdsTlsIo::poll_read                                                     *)

\* The library reads only when it has nothing to write.
Reading == status = "handshake" /\ step = "read" /\ records = <<>> /\ ~WholeFlight

Refuse ==
    /\ status' = "refused"
    /\ UNCHANGED <<raw_read, packet, left, records, answered, consumed>>

ReadHeader ==
    /\ Reading /\ ~raw_read /\ packet = NoPacket /\ inbound # <<>>
    /\ Head(inbound).size > 0
    /\ inbound' = Tail(inbound)
    /\ IF Head(inbound).wrapped
       THEN packet' = Head(inbound) /\ left' = Head(inbound).size /\ UNCHANGED <<raw_read, library>>
       ELSE Refuse
    /\ UNCHANGED <<client, writer, step, need_flush>>

\* The header of an empty packet is not forgotten.
ReadEmptyStays ==
    /\ Reading /\ ~raw_read /\ packet = NoPacket /\ inbound # <<>>
    /\ Head(inbound).size = 0
    /\ UNCHANGED vars

\* A packet without payload: the next header is read.
ReadEmpty ==
    /\ Reading /\ ~raw_read /\ packet = NoPacket /\ inbound # <<>>
    /\ Head(inbound).size = 0
    /\ inbound' = Tail(inbound)
    /\ consumed' = consumed + 1
    /\ UNCHANGED <<client, reader, writer, records, answered, status, step, need_flush>>

FinalFlightAnyHandshake(first) == first \in {"data", "ccs", "handshake", "hello"}

\* final_client_handshake_flight, by the first record of the payload
FinalFlight(first) == first \in {"data", "ccs", "handshake"}

DeliverKeepsWrapping ==
    /\ Reading /\ packet # NoPacket
    /\ \E n \in 1..left : left' = left - n
    /\ IF left' = 0
       THEN /\ packet' = NoPacket
            /\ consumed' = consumed + 1
            /\ raw_read' = (raw_read \/ FinalFlight(packet.first))
       ELSE UNCHANGED <<packet, consumed, raw_read>>
    /\ UNCHANGED <<client, inbound, raw_write, pending, accepted, wire, records, answered,
                   status, step, need_flush>>

\* Payload for the library; with the last of it the adapter may become raw.
Deliver ==
    /\ Reading /\ packet # NoPacket
    /\ \E n \in 1..left : left' = left - n
    /\ IF left' = 0
       THEN /\ packet' = NoPacket
            /\ consumed' = consumed + 1
            /\ raw_read' = (raw_read \/ FinalFlight(packet.first))
            /\ raw_write' = (raw_write \/ FinalFlight(packet.first))
       ELSE UNCHANGED <<packet, consumed, raw_read, raw_write>>
    /\ UNCHANGED <<client, inbound, pending, accepted, wire, records, answered, status,
                   step, need_flush>>

\* Raw: the header of a wrapped packet is no TLS record.
ReadRaw ==
    /\ Reading /\ raw_read /\ inbound # <<>>
    /\ inbound' = Tail(inbound)
    /\ IF Head(inbound).wrapped THEN Refuse
       ELSE UNCHANGED <<reader, library>>
    /\ UNCHANGED <<client, writer, step, need_flush>>

\* handshake: accept returns, and enable_raw_mode clears the adapter.
HandshakeDone ==
    /\ status = "handshake" /\ step = "read"
    /\ answered = Len(script) /\ records = <<>>
    /\ status' = "done"
    /\ raw_read' = TRUE /\ packet' = NoPacket /\ left' = 0
    /\ raw_write' = TRUE /\ pending' = <<>> /\ accepted' = 0
    /\ UNCHANGED <<client, inbound, wire, records, answered, consumed, step, need_flush>>

\* An I/O error, the end of the stream, or the handshake timeout.
SocketFails ==
    /\ status = "handshake"
    /\ status' = "failed"
    /\ UNCHANGED <<client, inbound, reader, writer, records, answered, consumed, step,
                   need_flush>>

Next ==
    \/ ClientSends \/ ClientAdvances
    \/ LibraryAnswers \/ LibraryTurns \/ LibraryWritten
    \/ WriteRaw \/ WriteWrapped \/ WriteAgain \/ Flush
    \/ ReadHeader \/ ReadEmpty \/ Deliver \/ ReadRaw
    \/ HandshakeDone \/ SocketFails

Spec == Init /\ [][Next]_vars

\* The client keeps sending; the task is polled while it can go on; the socket
\* takes what it is offered often enough (Kept: nothing stays pending).
Kept == pending' = <<>> /\ need_flush'
FairSpec ==
    /\ Spec
    /\ WF_vars(ClientSends) /\ WF_vars(ClientAdvances)
    /\ SF_vars(LibraryAnswers) /\ WF_vars(LibraryTurns) /\ WF_vars(LibraryWritten)
    /\ SF_vars((WriteRaw \/ WriteWrapped \/ WriteAgain) /\ Kept)
    /\ WF_vars(WriteRaw \/ WriteWrapped \/ WriteAgain) /\ WF_vars(Flush)
    /\ SF_vars(ReadHeader) /\ SF_vars(ReadEmpty) /\ SF_vars(Deliver) /\ SF_vars(ReadRaw)
    /\ SF_vars(HandshakeDone)

----------------------------------------------------------------------------
\* The clients that the switch is made for: of the packets that come wrapped, only
\* the very last begins with a record that a ClientHello does not begin with, and
\* what follows it is raw.
BeginsLast(p) == p.size > 0 /\ p.first \in {"data", "ccs", "handshake"}

FinalAt(f, k) ==
    /\ \A i \in 1..Len(f) : f[i].wrapped <=> i <= k
    /\ BeginsLast(f[k])
    /\ \A i \in 1..(k - 1) : ~BeginsLast(f[i])

Orderly(s) ==
    /\ \A n \in 1..(Len(s) - 1) :
         /\ s[n] # <<>>
         /\ \A i \in 1..Len(s[n]) : s[n][i].wrapped /\ ~BeginsLast(s[n][i])
    /\ \E k \in 1..Len(s[Len(s)]) : FinalAt(s[Len(s)], k)

----------------------------------------------------------------------------
\* A header on the wire is followed by exactly the bytes that it announces,
\* however the socket cuts the packet: pending_write_pos is kept over polls.
FramesWhole ==
    \A i \in 1..Len(wire) :
        wire[i].size > 0 =>
            \A j \in (i + 1)..Len(wire) :
                /\ j <= i + wire[i].size => wire[j].size = 0 /\ wire[j].wrapped
                /\ j = i + wire[i].size + 1 => wire[j].size > 0 \/ ~wire[j].wrapped

\* "After the handshake, it switches to raw TCP": once the adapter reads raw
\* records, no wrapped packet of the client is still to come.
SwitchAfterHandshake ==
    raw_read =>
        /\ \A i \in 1..Len(inbound) : ~inbound[i].wrapped
        /\ \A i \in 1..Len(unsent) : ~unsent[i].wrapped
        /\ flight = Len(script)

\* The answers before the client's last flight go out wrapped, the answer to
\* that flight goes out raw.
WrappedUntilFinished ==
    \A i \in 1..Len(wire) : wire[i].wrapped <=> wire[i].answer < Len(script)

\* Unless the connection fails, the handshake is completed.
HandshakeCompletes == <>(status \in {"done", "failed"})
=============================================================================
