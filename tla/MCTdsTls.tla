------------------------------ MODULE MCTdsTls ------------------------------
(* Clients for TdsTls: the packets of their flights.                       *)
EXTENDS TdsTls

Wrapped(first, size) == [wrapped |-> TRUE, first |-> first, size |-> size]
RawData == [wrapped |-> FALSE, first |-> "data", size |-> 1]

\* A ClientHello in one or two packets (the second begins inside the record),
\* perhaps after an empty packet, and perhaps a second ClientHello; the last
\* flight is one packet, whatever record it begins with, and data follows.
Hellos == {<<Wrapped("hello", 2)>>, <<Wrapped("hello", 1), Wrapped("middle", 2)>>,
           <<Wrapped("hello", 0), Wrapped("hello", 1)>>}
Finals == {<<Wrapped(f, 2), RawData>> : f \in {"data", "ccs", "handshake"}}
MCScripts == {<<h, f>> : h \in Hellos, f \in Finals}
                \cup {<<<<Wrapped("hello", 1)>>, <<Wrapped("hello", 1)>>, f>> : f \in Finals}

\* A second ClientHello behind a ChangeCipherSpec record in the same packet.
RetryScripts == {<<<<Wrapped("hello", 1)>>, <<Wrapped("ccs", 2)>>, <<Wrapped("data", 1)>>>>}

\* The second client is not one that the switch is made for; the others are.
ASSUME MCClients ==
    /\ \A s \in MCScripts : Orderly(s)
    /\ \A s \in RetryScripts : ~Orderly(s)

\* One record for each answer, which a packet can hold.
MCAnswers == {<<1>>, <<2>>}

\* Answers of several records, and of a record for which one packet is too small.
RecordAnswers == {<<1, 1>>, <<3>>}

AllAnswers == MCAnswers \cup RecordAnswers
=============================================================================
