------------------------------ MODULE Prelogin ------------------------------
(***************************************************************************)
(* The PRELOGIN message, src/tds/prelogin.rs: a table of options, each a   *)
(* token with the offset and the length of its value, and the values.      *)
(* parse_inner reads it in two ways: strictly, refusing at the first       *)
(* fault, and tolerantly, noting the fault and going on, which is how the  *)
(* connection handler reads what a client sends.                           *)
(*                                                                         *)
(* Every byte string is a sequence of whole descriptors followed by the    *)
(* end of the table and the rest: the terminator and the bytes after it,   *)
(* nothing at all, or a token and less than four bytes.  A payload here is *)
(* that decomposition.  Offsets count from zero, as in the code.           *)
(***************************************************************************)
EXTENDS Naturals, Sequences

VERSION == 0
ENCRYPTION == 1
INSTOPT == 2
THREADID == 3
MARS == 4
TRACEID == 5
FEDAUTHREQUIRED == 6
NONCEOPT == 7
TERMINATOR == 255

DESCRIPTOR_LEN == 5

\* Options that are kept as they are when they have this length, and options
\* that are one byte, zero or one.
PlainLength == [t \in {VERSION, THREADID, TRACEID, NONCEOPT} |->
    CASE t = VERSION -> 6 [] t = THREADID -> 4 [] t = TRACEID -> 36 [] t = NONCEOPT -> 32]
Flags == {MARS, FEDAUTHREQUIRED}

----------------------------------------------------------------------------
(* The payload as bytes.                                                   *)

Octet == 0..255
Word == 0..65535
Token == Octet \ {TERMINATOR}

Tables == Seq([token : Token, offset : Word, length : Word])
Payload ==
    [table : Tables, ending : {"terminator"}, token : {TERMINATOR}, rest : Seq(Octet)]
      \cup [table : Tables, ending : {"nothing"}, token : {TERMINATOR}, rest : {<<>>}]
      \cup [table : Tables, ending : {"descriptor"}, token : Token,
            rest : {r \in Seq(Octet) : Len(r) < DESCRIPTOR_LEN - 1}]

TableBytes(p) == DESCRIPTOR_LEN * Len(p.table)

\* Where the cursor is after the table: a terminator and a token are passed.
Cursor(p) == TableBytes(p) + (IF p.ending = "nothing" THEN 0 ELSE 1)

Size(p) == Cursor(p) + Len(p.rest)

\* The byte at position i: part of a descriptor, the byte that ends the table,
\* or one of the rest.
Byte(p, i) ==
    LET d == p.table[(i \div DESCRIPTOR_LEN) + 1]
        fields == <<d.token, d.offset \div 256, d.offset % 256, d.length \div 256, d.length % 256>>
    IN  CASE i < TableBytes(p) -> fields[(i % DESCRIPTOR_LEN) + 1]
          [] i >= TableBytes(p) /\ i < Cursor(p) ->
                IF p.ending = "terminator" THEN TERMINATOR ELSE p.token
          [] OTHER -> p.rest[i - Cursor(p) + 1]

Value(p, e) == [i \in 1..(e.end - e.start) |-> Byte(p, e.start + i - 1)]

----------------------------------------------------------------------------
(* parse_inner                                                             *)

Nothing ==
    [order |-> <<>>, entries |-> <<>>, values |-> {}, encryption |-> "none",
     certificate |-> FALSE, extension |-> FALSE, unknown |-> {}, warnings |-> {},
     error |-> FALSE]

\* A fault is a warning to a tolerant parse, the end of a strict one.
Fault(r, lenient, kind) ==
    IF lenient THEN [r EXCEPT !.warnings = @ \cup {kind}] ELSE [r EXCEPT !.error = TRUE]

\* The value ends behind the payload, or begins in the part of the table read
\* so far.  The sum of two u16 cannot overflow a usize.
OutOfBounds(p, d, cursor) == d.offset + d.length > Size(p) \/ d.offset < cursor

\* One turn of the loop, for the i-th descriptor.
Option(p, lenient, r, i) ==
    LET d == p.table[i]
        named == [r EXCEPT !.order = Append(@, d.token)]
    IN  CASE r.error -> r
          [] ~r.error /\ OutOfBounds(p, d, DESCRIPTOR_LEN * i) -> Fault(named, lenient, "bounds")
          [] ~r.error /\ ~OutOfBounds(p, d, DESCRIPTOR_LEN * i)
                /\ (\E k \in DOMAIN r.entries : r.entries[k].token = d.token) -> Fault(named, lenient, "duplicate")
          [] OTHER -> [named EXCEPT !.entries = Append(@,
                         [token |-> d.token, start |-> d.offset, end |-> d.offset + d.length])]

\* How the loop ends.
Ending(p, r, lenient) ==
    CASE r.error \/ p.ending = "terminator" -> r
      [] ~r.error /\ p.ending = "nothing" -> Fault(r, lenient, "table")
      [] OTHER -> Fault([r EXCEPT !.order = Append(@, p.token)], lenient, "descriptor")

Table(p, lenient) ==
    LET turn[i \in 0..Len(p.table)] ==
            IF i = 0 THEN Nothing ELSE Option(p, lenient, turn[i - 1], i)
    IN  Ending(p, turn[Len(p.table)], lenient)

\* VERSION must come first.
First(r, lenient) ==
    IF ~r.error /\ (r.order = <<>> \/ Head(r.order) # VERSION)
    THEN Fault(r, lenient, "version") ELSE r

\* The order in which the values begin.  Of those that begin together the lower
\* token comes first: the sort, though called unstable, inserts one by one where
\* there are so few.
Before(a, b) == a.start < b.start \/ (a.start = b.start /\ a.token < b.token)

\* Values are compared with one another and not with the end of the table.
OverlapsFromZero(p, r, lenient) ==
    IF ~r.error /\ \E j, k \in DOMAIN r.entries :
          Before(r.entries[j], r.entries[k]) /\ r.entries[k].start < r.entries[j].end
    THEN Fault(r, lenient, "overlap") ELSE r

\* No value begins before previous_end, the largest of the end of the table and
\* the ends of the values before it.
Overlaps(p, r, lenient) ==
    IF ~r.error /\ \E k \in DOMAIN r.entries :
          \/ r.entries[k].start < Cursor(p)
          \/ \E j \in DOMAIN r.entries :
                Before(r.entries[j], r.entries[k]) /\ r.entries[k].start < r.entries[j].end
    THEN Fault(r, lenient, "overlap") ELSE r

\* The bits 0x80 and 0x20 of the encryption byte, and what they leave.
Certificate(raw) == (raw \div 128) % 2 = 1
Extension(raw) == (raw \div 32) % 2 = 1
Base(raw) == raw - (IF Certificate(raw) THEN 128 ELSE 0) - (IF Extension(raw) THEN 32 ELSE 0)

Encryption == <<"Off", "On", "NotSupported", "Required">>

\* ENCRYPTION, one byte
EncryptionOption(r, raw, lenient) ==
    LET flagged == [r EXCEPT !.certificate = Certificate(raw), !.extension = Extension(raw),
                             !.values = @ \cup {<<ENCRYPTION, raw>>}]
        known == [flagged EXCEPT !.encryption = Encryption[Base(raw) + 1]]
    IN  CASE Base(raw) > 3 -> Fault(flagged, lenient, "encryption")
          [] Base(raw) = 2 /\ Certificate(raw) -> Fault(known, lenient, "certificate")
          [] OTHER -> known

\* MARS and FEDAUTHREQUIRED, one byte: kept as it came, with its truth value.
\* A tolerant parse takes any other byte for true and says nothing.
FlagOptionSilent(r, token, raw, lenient) ==
    LET kept == [r EXCEPT !.values = @ \cup {<<token, raw, raw # 0>>}]
    IN  IF raw \in {0, 1} \/ lenient THEN kept ELSE Fault(kept, lenient, "flag")

\* MARS and FEDAUTHREQUIRED, one byte: kept as it came, with its truth value.
FlagOption(r, token, raw, lenient) ==
    LET kept == [r EXCEPT !.values = @ \cup {<<token, raw, raw # 0>>}]
    IN  IF raw \in {0, 1} THEN kept ELSE Fault(kept, lenient, "flag")

\* INSTOPT without the zeros at its end
Trimmed(v) ==
    LET last == {i \in 1..Len(v) : v[i] # 0 /\ \A j \in (i + 1)..Len(v) : v[j] = 0}
    IN  IF last = {} THEN <<>> ELSE SubSeq(v, 1, CHOOSE i \in last : TRUE)

\* One option by its token.
Read(p, lenient, r, e) ==
    LET v == Value(p, e)
    IN  CASE r.error -> r
          [] ~r.error /\ e.token = ENCRYPTION /\ Len(v) = 1 ->
                EncryptionOption(r, v[1], lenient)
          [] ~r.error /\ e.token \in Flags /\ Len(v) = 1 ->
                FlagOption(r, e.token, v[1], lenient)
          [] ~r.error /\ e.token = INSTOPT ->
                [r EXCEPT !.values = @ \cup {<<INSTOPT, Trimmed(v)>>}]
          [] ~r.error /\ e.token \in DOMAIN PlainLength /\ Len(v) = PlainLength[e.token] ->
                [r EXCEPT !.values = @ \cup {<<e.token, v>>}]
          [] ~r.error /\ e.token > NONCEOPT ->
                [r EXCEPT !.unknown = @ \cup {<<e.token, Len(v)>>}]
          [] OTHER -> Fault(r, lenient, "length")

\* The options one after another.  The code takes them by their tokens; which one
\* is read first shows in no result.
ReadEach(p, r, lenient) ==
    LET turn[k \in 0..Len(r.entries)] ==
            IF k = 0 THEN r ELSE Read(p, lenient, turn[k - 1], r.entries[k])
    IN  turn[Len(r.entries)]

parse_inner(p, lenient) ==
    ReadEach(p, Overlaps(p, First(Table(p, lenient), lenient), lenient), lenient)

----------------------------------------------------------------------------
(* encode                                                                  *)

\* encode_request_with_nonce: the name of the instance ends with a zero.
Request(encryption, instance, nonce) ==
    [encryption |-> encryption, instance |-> Append(instance, 0), nonce |-> nonce]

\* encode_response_options: the instance is a status byte, and bit 0x80 answers
\* a client that has a certificate.
Response(encryption, matches, nonce, certificate) ==
    [encryption |-> encryption + (IF certificate THEN 128 ELSE 0),
     instance |-> <<IF matches THEN 0 ELSE 1>>, nonce |-> nonce]

\* The options of a message of ours in their order; <<>> is no nonce.
Values(g) ==
    << <<VERSION, <<16, 0, 16, 89, 0, 0>>>>, <<ENCRYPTION, <<g.encryption>>>>,
       <<INSTOPT, g.instance>>, <<THREADID, <<0, 0, 0, 0>>>>, <<MARS, <<0>>>> >>
    \o (IF g.nonce = <<>> THEN <<>> ELSE << <<NONCEOPT, g.nonce>> >>)

NoGreeting == [encryption |-> 0, instance |-> <<>>, nonce |-> <<>>]

\* The table is measured without its terminator.
TableLenShort(values) == Len(values) * 5
TableLen(values) == Len(values) * 5 + 1

encode(g) ==
    LET values == Values(g)
        offset[i \in 1..Len(values)] ==
            IF i = 1 THEN TableLen(values) ELSE offset[i - 1] + Len(values[i - 1][2])
        written[i \in 0..Len(values)] ==
            IF i = 0 THEN <<>> ELSE written[i - 1] \o values[i][2]
    IN  [table |-> [i \in 1..Len(values) |-> [token |-> values[i][1], offset |-> offset[i],
                                              length |-> Len(values[i][2])]],
         ending |-> "terminator", token |-> TERMINATOR,
         rest |-> written[Len(values)]]
============================================================================
