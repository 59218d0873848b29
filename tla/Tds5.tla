-------------------------------- MODULE Tds5 --------------------------------
(***************************************************************************)
(* The TDS 5 client token stream (src/tds/tds5.rs): parse_authentication   *)
(* reads tokens until the payload ends, an unpublished token stops it or a *)
(* malformed one fails it, and parse_for_telemetry looks behind a failure  *)
(* for an authentication exchange that is framed by itself.                *)
(*                                                                         *)
(* b is the whole payload.  A slice that the code cuts off at an offset is *)
(* read here from that offset on, so every position is one of b.  Of a     *)
(* command only its token is kept; names, labels and renderings of values  *)
(* are left out, but their lengths are read.                               *)
(***************************************************************************)
EXTENDS Bytes, FiniteSets

CONSTANTS MaxTokens,      \* 4096 in the code
          MaxColumns,     \* 1024, for parameters, columns and formats
          MaxSections,    \* 256
          DecodeOid(_), ParseSspi(_)     \* of src/tds/sspi.rs

Some(v) == <<v>>
None == <<>>
Sum0(s) ==
    LET sum[k \in 0..Len(s)] == IF k = 0 THEN 0 ELSE sum[k - 1] + s[k]
    IN  sum[Len(s)]
Concat(s) ==
    LET all[k \in 0..Len(s)] == IF k = 0 THEN <<>> ELSE all[k - 1] \o s[k]
    IN  all[Len(s)]
Repeat(f, n) == [k \in 1..n |-> f]
With(f, i, v) == [k \in DOMAIN f \cup {i} |-> IF k = i THEN v ELSE f[k]]
-----------------------------------------------------------------------------
(* Capabilities of a TDS 5 login *)

capability_enabled(bitmap, c) ==
    LET fromEnd == c \div 8
    IN  fromEnd < Len(bitmap) /\ Bit(At(bitmap, Len(bitmap) - fromEnd - 1), 2^(c % 8))

enabled_capabilities(bitmap) ==
    {c \in 0..(8 * Len(bitmap) - 1) : capability_enabled(bitmap, c)}

\* Sections 1, 2 and 3 belong to the first one that is not empty.
Section(b, c, end) ==
    LET i == c.at
        kind == At(b, i)
        known == kind \in 1..3 /\ c.section[kind] = <<>>
    IN  IF ~c.ok \/ i = end THEN c
        ELSE From(Fit(b, i, end, <<Fixed(1), Counted(1)>>), [c EXCEPT !.ok = FALSE], LAMBDA to :
               IF ~known /\ c.unknown = MaxSections THEN [c EXCEPT !.ok = FALSE]
               ELSE IF known THEN [c EXCEPT !.at = to, !.section[kind] = Slice(b, i + 2, to)]
               ELSE [c EXCEPT !.at = to, !.unknown = @ + 1])

\* A section has two bytes at least.
parse_capabilities(b, i, end) ==
    LET turn[n \in 0..end - i] ==
            IF n = 0 THEN [ok |-> TRUE, at |-> i, section |-> [k \in 1..3 |-> <<>>], unknown |-> 0]
            ELSE Section(b, turn[n - 1], end)
    IN  turn[end - i]
-----------------------------------------------------------------------------
(* Tokens and their framing *)

generic_u16 ==
    {\h23, \h2a, \h60, \ha0, \ha1, \ha2, \ha4, \ha5, \ha7, \ha9, \haa, \hab, \hac,
     \had, \hae, \haf, \hca, \he0, \he2, \he3, \he5}

FixedTokens == {\h78, \h79, \h7c, \hfd, \hfe, \hff}
FixedBody(token) == IF token \in {\h78, \h79} THEN 4 ELSE 8

MetadataTokens == {\hd1, \hd3, \hd7}        \* ROW, ALTROW, PARAMS

U8Tokens == {\h65, \h71}                    \* MSG, LOGOUT
U32Tokens == {\h10, \h20, \h21, \h22, \h61, \h62, \ha3, \he8}
U16Tokens == generic_u16 \cup (\h80..\h88) \cup {\ha6, \ha8, \he6, \he7, \hec, \hee}
FramedTokens == U8Tokens \cup U16Tokens \cup U32Tokens

PublishedTokens == FramedTokens \cup FixedTokens \cup MetadataTokens

LengthWidth(token) ==
    CASE token \in U8Tokens -> 1 [] token \in U16Tokens -> 2 [] token \in U32Tokens -> 4
-----------------------------------------------------------------------------
(* Bodies of commands: the bytes from i to e are taken to the last one *)

\* A procedure name may have a prefix of any width that fits exactly.
parse_exact_dbrpc2_name(b, i, e) ==
    \E w \in {1, 2, 4} : Exactly(b, i, e, <<Counted(w), Fixed(2)>>)

parse_dbrpc(b, i, e, wide) ==
    IF wide THEN parse_exact_dbrpc2_name(b, i, e)
            ELSE Exactly(b, i, e, <<Counted(1), Fixed(2)>>)

parse_dynamic(b, i, e, wide) ==
    LET named == <<Fixed(2), Counted(1)>>
    IN  \/ Exactly(b, i, e, named)
        \/ Exactly(b, i, e, named \o <<Counted(IF wide THEN 4 ELSE 2)>>)

parse_cursor_declare(b, i, e, wide) ==
    LET w == IF wide THEN 4 ELSE 1
        text == IF wide THEN 4 ELSE 2
    IN  From(Fit(b, i, e, <<Counted(1), Fixed(w), Fixed(1), Counted(text), Fixed(2)>>), FALSE,
             LAMBDA columns :
               /\ U16(b, columns - 2) <= MaxColumns
               /\ Exactly(b, columns, e, Repeat(Counted(1), U16(b, columns - 2))))

\* What follows a cursor's identity, which ends at p.
CursorFields(b, p, e, token) ==
    CASE token \in {\h80, \h84} -> <<Fixed(1)>>
      [] token = \h81 -> <<Fixed(1), Counted(1)>>
      [] token = \h82 -> IF p < e /\ At(b, p) \in {5, 6} THEN <<Fixed(1), Fixed(4)>>
                         ELSE <<Fixed(1)>>
      [] token = \h83 -> IF p + 1 < e /\ Bit(At(b, p + 1), 32) THEN <<Fixed(3), Fixed(4)>>
                         ELSE <<Fixed(3)>>
      [] token = \h85 -> <<Fixed(1), Counted(1), Counted(2)>>
      [] token = \h88 -> IF p + 1 < e /\ Bit(At(b, p + 1), 32) THEN <<Fixed(13), Fixed(4)>>
                         ELSE <<Fixed(13)>>

parse_simple_command(b, i, e, token) ==
    CASE token = \h87 -> TRUE
      [] token = \ha6 -> Exactly(b, i, e, <<Fixed(2), Counted(1)>>)
      [] OTHER ->
           LET byName == i + 4 <= e /\ \A k \in i..i + 3 : At(b, k) = 0
           IN  From(Fit(b, i, e, <<Fixed(4)>> \o (IF byName THEN <<Counted(1)>> ELSE <<>>)), FALSE,
                    LAMBDA p : Exactly(b, p, e, CursorFields(b, p, e, token)))

CommandTokens ==
    {\h10, \h21, \h62, \h71, \ha3, \ha6, \he6, \he7, \he8} \cup (\h80..\h88) \cup generic_u16

CommandBody(b, i, e, token) ==
    CASE token = \h21 -> i < e
      [] token \in {\he6, \he8} -> parse_dbrpc(b, i, e, token = \he8)
      [] token \in {\h62, \ha3, \he7} -> parse_dynamic(b, i, e, token # \he7)
      [] token \in {\h10, \h86} -> parse_cursor_declare(b, i, e, token = \h10)
      [] token \in (\h80..\h88) \cup {\ha6} -> parse_simple_command(b, i, e, token)
      [] OTHER -> TRUE
-----------------------------------------------------------------------------
(* Formats: sequences of columns, each with the encoding of its values *)

Encodings ==
    [fixed0 |-> {\h1f}, fixed1 |-> {\h30, \h32, \h40, \hb0}, fixed2 |-> {\h34, \h41},
     fixed4 |-> {\h31, \h33, \h38, \h3a, \h3b, \h42, \h7a},
     fixed8 |-> {\h2e, \h3c, \h3d, \h3e, \h43, \h7f, \hbf},
     numeric |-> {\h6a, \h6c}, time |-> {\hbb, \hbc},
     u8 |-> {\h25, \h26, \h27, \h2d, \h2f, \h44, \h67, \h68, \h6d, \h6e, \h6f, \h7b, \h93},
     u32 |-> {\haf, \he1}, lob |-> {\h22, \h23, \ha3, \hae}, blob |-> {\h24}]

FixedSize == [fixed0 |-> 0, fixed1 |-> 1, fixed2 |-> 2, fixed4 |-> 4, fixed8 |-> 8]

NoMaximum == Huge + 1
BadType == [at |-> Failed, encoding |-> "fixed0", max |-> 0, blob |-> 0]

\* What stands behind the type byte at i
TypeLayout(b, i, end, kind) ==
    CASE kind \in DOMAIN FixedSize -> <<>>
      [] kind = "numeric" -> <<Fixed(3)>>
      [] kind = "time" -> <<Fixed(2)>>
      [] kind = "u8" -> <<Fixed(1)>>
      [] kind = "u32" -> <<Fixed(4)>>
      [] kind = "lob" -> <<Fixed(4), Counted(2)>>
      [] kind = "blob" -> IF i + 2 < end /\ At(b, i + 2) \in {1, 2} THEN <<Fixed(2), Counted(2)>>
                          ELSE <<Fixed(2)>>

TypeSound(b, i, kind) ==
    CASE kind = "numeric" -> At(b, i + 2) \in 1..77 /\ At(b, i + 3) <= At(b, i + 2)
      [] kind = "time" -> At(b, i + 1) = 8 /\ At(b, i + 2) <= 6
      [] kind = "blob" -> At(b, i + 2) \in 1..8
      [] OTHER -> TRUE

TypeMaximum(b, i, kind) ==
    CASE kind \in DOMAIN FixedSize -> FixedSize[kind]
      [] kind \in {"numeric", "time", "u8"} -> At(b, i + 1)
      [] kind \in {"u32", "lob"} -> U32(b, i + 1)
      [] kind = "blob" -> NoMaximum

FieldType(b, i, end, kind) ==
    From(Fit(b, i + 1, end, TypeLayout(b, i, end, kind)), BadType, LAMBDA to :
      IF ~TypeSound(b, i, kind) THEN BadType
      ELSE [at |-> to, encoding |-> IF kind \in {"numeric", "time"} THEN "u8" ELSE kind,
            max |-> TypeMaximum(b, i, kind), blob |-> IF kind = "blob" THEN At(b, i + 2) ELSE 0])

\* The type byte at i and its metadata.
parse_field_type(b, i, end) ==
    IF i = end \/ (\A k \in DOMAIN Encodings : At(b, i) \notin Encodings[k]) THEN BadType
    ELSE FieldType(b, i, end, CHOOSE k \in DOMAIN Encodings : At(b, i) \in Encodings[k])

\* One column: names, a status, a user type, the type and a locale.
NoColumn == [at |-> Failed, column |-> BadType]
Column(b, i, end, names, statusWidth) ==
    From(Fit(b, i, end, names), NoColumn, LAMBDA status :
      From(Pass(b, status, end, Fixed(statusWidth + 4)), NoColumn, LAMBDA type :
        Then(parse_field_type(b, type, end), NoColumn, LAMBDA f :
          From(Pass(b, f.at, end, Counted(1)), NoColumn, LAMBDA to :
            [at |-> to,
             column |-> [status |-> statusWidth > 0 /\ Bit(At(b, status), 8),
                         encoding |-> f.encoding, max |-> f.max, blob |-> f.blob]]))))

NoFormat == [ok |-> FALSE, columns |-> <<>>]

\* One turn: c is what was read before the column.
NextColumn(b, c, end, names, statusWidth) ==
    Then(c, c, LAMBDA before :
      Then(Column(b, c.at, end, names, statusWidth), [at |-> Failed, columns |-> <<>>],
           LAMBDA read : [at |-> read.at, columns |-> Append(c.columns, read.column)]))

\* count columns from i; what lies between them and end is for the caller.  A column has eight
\* bytes at least.
Columns(b, i, end, count, names, statusWidth) ==
    LET turn[n \in 0..count] ==
            IF n = 0 THEN [at |-> i, columns |-> <<>>]
            ELSE NextColumn(b, turn[n - 1], end, names, statusWidth)
    IN  IF 8 * count > end - i THEN [at |-> Failed, columns |-> <<>>] ELSE turn[count]

\* PARAMFMT and ROWFMT; a wide row column has four more names.
ColumnFormat(b, i, e, names, statusWidth) ==
    IF i + 2 > e THEN NoFormat
    ELSE IF U16(b, i) > MaxColumns THEN NoFormat
    ELSE Then(Columns(b, i + 2, e, U16(b, i), names, statusWidth), NoFormat, LAMBDA c :
           IF c.at = e THEN [ok |-> TRUE, columns |-> c.columns] ELSE NoFormat)

parse_parameter_format(b, i, e, wide) ==
    ColumnFormat(b, i, e, <<Counted(1)>>, IF wide THEN 4 ELSE 1)

parse_row_format(b, i, e, wide) ==
    ColumnFormat(b, i, e, Repeat(Counted(1), IF wide THEN 5 ELSE 1), IF wide THEN 4 ELSE 1)

\* ALTFMT: a compute id, columns with operator and operand, the by-columns.
parse_alternate_format(b, i, e) ==
    IF i + 3 > e THEN NoFormat
    ELSE Then(Columns(b, i + 3, e, At(b, i + 2), <<Fixed(2)>>, 0), NoFormat, LAMBDA c :
           IF Pass(b, c.at, e, Counted(1)) = e
           THEN [ok |-> TRUE, columns |-> c.columns] ELSE NoFormat)
-----------------------------------------------------------------------------
(* Values: [at, bytes], at Failed when one is cut off or over the limit *)

NoBytes == [at |-> Failed, bytes |-> <<>>]

\* Chunks of a BLOB: the top bit of a length marks the last one.
ChunkLength(b, i) ==
    IF At(b, i + 3) % 128 > 0 THEN Huge ELSE U16(b, i) + 65536 * At(b, i + 2)

\* One turn: v is what was read, where the next chunk begins and whether there is one.
Chunk(b, v, limit) ==
    IF v.last \/ v.at = Failed THEN v
    ELSE From(IF v.at + 4 > Len(b) THEN Failed ELSE Upto(v.at + 4 + ChunkLength(b, v.at), Len(b)),
              [v EXCEPT !.at = Failed], LAMBDA to :
           IF Len(v.bytes) + (to - v.at - 4) > limit THEN [v EXCEPT !.at = Failed]
           ELSE [at |-> to, bytes |-> v.bytes \o Slice(b, v.at + 4, to), last |-> At(b, v.at + 3) >= 128])

Chunks(b, i, limit) ==
    LET turn[n \in 0..MaxTokens] ==
            IF n = 0 THEN [at |-> i, bytes |-> <<>>, last |-> FALSE] ELSE Chunk(b, turn[n - 1], limit)
        read == turn[MaxTokens]
    IN  IF read.last THEN [at |-> read.at, bytes |-> read.bytes] ELSE NoBytes

read_blob_value(b, i, blobType, limit) ==
    IF i = Len(b) THEN NoBytes
    ELSE IF At(b, i) > 2 \/ (At(b, i) # 0 /\ blobType # 5) THEN NoBytes
    ELSE Chunks(b, IF blobType \in {1, 2, 6, 7, 8} THEN Pass(b, i + 1, Len(b), Counted(2))
                   ELSE i + 1, limit)

\* Where the bytes of a value begin, and how many there are.
value_length(b, i, column) ==
    LET n == Len(b)
        none == [at |-> Failed, length |-> 0]
    IN  CASE column.encoding \in DOMAIN FixedSize -> [at |-> i, length |-> column.max]
          [] column.encoding = "u8" ->
               IF i + 1 > n THEN none ELSE [at |-> i + 1, length |-> At(b, i)]
          [] column.encoding = "u32" ->
               IF i + 4 > n THEN none ELSE [at |-> i + 4, length |-> U32(b, i)]
          [] column.encoding = "lob" ->
               IF i = n THEN none
               ELSE IF At(b, i) = 0 THEN [at |-> i + 1, length |-> 0]
               ELSE From(Fit(b, i, n, <<Counted(1), Fixed(8), Fixed(4)>>), none, LAMBDA pointer :
                      [at |-> pointer, length |-> U32(b, pointer - 4)])

read_parameter_value(b, i, column, limit) ==
    IF column.encoding = "blob" THEN read_blob_value(b, i, column.blob, limit)
    ELSE Then(value_length(b, i, column), NoBytes, LAMBDA v :
           IF v.length > limit \/ v.at + v.length > Len(b) THEN NoBytes
           ELSE [at |-> v.at + v.length, bytes |-> Slice(b, v.at, v.at + v.length)])

\* The values of one row or parameter set, used bytes of the limit being gone.
NoValues == [at |-> Failed, used |-> 0, values |-> <<>>]
\* One turn: v is what was read before the column.
ColumnValue(b, v, column, limit) ==
    IF v.at = Failed THEN v
    ELSE From(Pass(b, v.at, Len(b), Fixed(IF column.status THEN 1 ELSE 0)), NoValues, LAMBDA start :
           Then(read_parameter_value(b, start, column, limit - v.used), NoValues, LAMBDA read :
             IF Len(read.bytes) > column.max THEN NoValues
             ELSE [at |-> read.at, used |-> v.used + Len(read.bytes),
                   values |-> Append(v.values, read.bytes)]))

Values(b, i, columns, used, limit) ==
    LET turn[k \in 0..Len(columns)] ==
            IF k = 0 THEN [at |-> i, used |-> used, values |-> <<>>]
            ELSE ColumnValue(b, turn[k - 1], columns[k], limit)
    IN  turn[Len(columns)]
-----------------------------------------------------------------------------
(* The stream *)

EmptyStream ==
    [tokens |-> <<>>, items |-> 0, message_types |-> <<>>, parameter_sets |-> 0,
     raw_parameter_values |-> <<>>, row_value_bytes |-> <<>>,
     encrypted_login_password |-> None, encrypted_remote_passwords |-> <<>>,
     encrypted_symmetric_key |-> None, opaque_security |-> <<>>,
     unparsed_regions |-> <<>>, parse_warnings |-> <<>>,
     unknown_token |-> None, trailing_bytes |-> 0]

\* What the parser carries along: where it is, the formats it has read, the
\* bytes of values it has kept and the message whose parameters come next.
Start(i, limit) ==
    [at |-> i, state |-> "reading", r |-> EmptyStream, parameters |-> <<>>, row |-> <<>>,
     alternates |-> <<>>, used |-> 0, message |-> None, limit |-> limit]

Fail(s) == [s EXCEPT !.state = "error"]

\* A token that ends at `to`; most of them count towards the limit on items.
Took(s, token, to, items) ==
    [s EXCEPT !.at = to, !.r.items = @ + items,
              !.r.tokens = Append(@, [token |-> token, from |-> s.at, to |-> to]),
              !.state = IF s.r.items + items > MaxTokens THEN "error" ELSE @]

StopAt(b, s, token) ==
    [s EXCEPT !.state = "stopped", !.r.unknown_token = Some(token),
              !.r.trailing_bytes = Len(b) - s.at - 1]

\* Five parameters of an opaque security message; a missing one leaves its part
\* empty.
parse_opaque_security(values) ==
    LET value(k) == IF k <= Len(values) THEN values[k] ELSE <<>>
        le_i32(v) == IF Len(v) = 4 THEN Some(v) ELSE None
    IN  [version |-> le_i32(value(1)), type |-> le_i32(value(2)),
         mechanism |-> DecodeOid(value(3)), token |-> ParseSspi(value(4)),
         flags |-> le_i32(value(5))]

\* The values of a set, by the message they belong to.
Assign(r, message, values) ==
    LET first == SelectSeq(values, LAMBDA v : v # <<>>)
        pairs == [k \in 1..(Len(values) \div 2) |-> <<values[2 * k - 1], values[2 * k]>>]
    IN  CASE message \in {Some(2), Some(15), Some(31)} ->
               IF r.encrypted_login_password = None /\ first # <<>>
               THEN [r EXCEPT !.encrypted_login_password = Some(Head(first))] ELSE r
          [] message = Some(11) ->
               [r EXCEPT !.opaque_security = Append(@, parse_opaque_security(values))]
          [] message \in {Some(3), Some(22), Some(32)} ->
               [r EXCEPT !.encrypted_remote_passwords = @ \o pairs,
                         !.parse_warnings = IF Len(values) % 2 = 0 THEN @
                                            ELSE Append(@, "expected pairs")]
          [] message = Some(34) ->
               [r EXCEPT !.encrypted_symmetric_key = Some(Head(values)),
                         !.parse_warnings = IF Len(values) = 1 THEN @
                                            ELSE Append(@, "expected one")]
          [] OTHER -> r

ReadParams(b, s) ==
    IF s.parameters = <<>> THEN Fail(s)
    ELSE Then(Values(b, s.at + 1, s.parameters, s.used, s.limit), Fail(s), LAMBDA v :
           LET r == [s.r EXCEPT !.raw_parameter_values = @ \o v.values, !.parameter_sets = @ + 1]
           IN  Took([s EXCEPT !.r = Assign(r, s.message, v.values), !.used = v.used,
                              !.message = None], \hd7, v.at, 1))

ReadRow(b, s, token, i, columns) ==
    Then(Values(b, i, columns, s.used, s.limit), Fail(s), LAMBDA v :
      Took([s EXCEPT !.r.row_value_bytes = @ \o [k \in DOMAIN v.values |-> Len(v.values[k])],
                     !.used = v.used], token, v.at, 1))

ReadAltRow(b, s) ==
    IF s.at + 3 > Len(b) THEN Fail(s)
    ELSE IF U16(b, s.at + 1) \notin DOMAIN s.alternates THEN Fail(s)
    ELSE ReadRow(b, s, \hd3, s.at + 3, s.alternates[U16(b, s.at + 1)])

\* A token whose length comes first; its body runs from i to e.
ReadFramed(b, s, token, i, e) ==
    LET id == U16(b, i)
        type == U16(b, i + 1)
    IN  CASE token \in CommandTokens ->
               IF CommandBody(b, i, e, token) THEN Took(s, token, e, 1) ELSE Fail(s)
          [] token = \h65 ->
               IF e - i < 3 THEN Fail(s)
               ELSE Took([s EXCEPT !.message = Some(type), !.r.message_types = Append(@, type)],
                         token, e, 1)
          [] token \in {\h20, \hec} ->
               Given(parse_parameter_format(b, i, e, token = \h20), Fail(s), LAMBDA f :
                 Took([s EXCEPT !.parameters = f.columns], token, e, 1))
          [] token \in {\h61, \hee} ->
               Given(parse_row_format(b, i, e, token = \h61), Fail(s), LAMBDA f :
                 Took([s EXCEPT !.row = f.columns], token, e, 1))
          [] token = \ha8 ->
               Given(parse_alternate_format(b, i, e), Fail(s), LAMBDA f :
                 IF id \notin DOMAIN s.alternates /\ Cardinality(DOMAIN s.alternates) >= MaxColumns
                 THEN Fail(s)
                 ELSE Took([s EXCEPT !.alternates = With(@, id, f.columns)], token, e, 1))
          [] token = \h22 -> Took(s, token, e, 0)

ReadToken(b, s) ==
    LET token == At(b, s.at)
        i == s.at + 1
    IN  CASE token \notin PublishedTokens -> StopAt(b, s, token)
          [] token \in FramedTokens ->
               From(Pass(b, i, Len(b), Counted(LengthWidth(token))), Fail(s), LAMBDA e :
                 ReadFramed(b, s, token, i + LengthWidth(token), e))
          [] token \in FixedTokens ->
               From(Pass(b, i, Len(b), Fixed(FixedBody(token))), Fail(s), LAMBDA e :
                 Took(s, token, e, 0))
          [] token = \hd7 -> ReadParams(b, s)
          [] token = \hd1 -> IF s.row = <<>> THEN Fail(s) ELSE ReadRow(b, s, token, i, s.row)
          [] token = \hd3 -> ReadAltRow(b, s)

NextToken(b, s) == IF s.state # "reading" \/ s.at = Len(b) THEN s ELSE ReadToken(b, s)

\* Tokens one after another.  One that is no item has five bytes at least.
ReadTokens(b, s) ==
    LET turns == MaxTokens + (Len(b) - s.at) \div 5 + 1
        turn[n \in 0..turns] == IF n = 0 THEN s ELSE NextToken(b, turn[n - 1])
    IN  turn[turns]

Outcome(s) == [ok |-> s.state # "error", stream |-> s.r]

parse_authentication(b, offset, limit) == Outcome(ReadTokens(b, Start(offset, limit)))
-----------------------------------------------------------------------------
(* Challenges of an encrypted login: a message, its format, its parameters *)

\* Values are <<"int", n>> and <<"binary", bytes>>.
secure_challenge(type, values) ==
    LET format(v) == Repeat(0, 6) \o (IF v[1] = "int" THEN <<\h26, 4, 0>>
                                      ELSE <<\he1, 255, 255, 255, 255, 0>>)
        parameter(v) == IF v[1] = "int" THEN <<4>> \o LE32(v[2]) ELSE LE32(Len(v[2])) \o v[2]
        formats == LE16(Len(values)) \o Concat([k \in DOMAIN values |-> format(values[k])])
    IN  <<\h65, 3, 1>> \o LE16(type) \o <<\hec>> \o LE16(Len(formats)) \o formats
          \o <<\hd7>> \o Concat([k \in DOMAIN values |-> parameter(values[k])])

\* Cipher suite 1 and the public key
challenge(type, key) ==
    IF type # 14 THEN None ELSE Some(secure_challenge(type, << <<"int", 1>>, <<"binary", key>> >>))

challenge_with_nonce(type, key, nonce) ==
    IF type \notin {30, 35} THEN None
    ELSE Some(secure_challenge(type, << <<"int", 1>>, <<"binary", key>>, <<"binary", nonce>> >>))

\* One parameter that may be null, and so has a status before it
proprietary_login_challenge(key) ==
    IF key = <<>> \/ Len(key) > 255 THEN None
    ELSE Some(<<\h65, 3, 1, 1, 0, \hec, 11, 0, 1, 0, 0, 8, 0, 0, 0, 0, \h25, 255, 0, \hd7, 0, Len(key)>>
                \o key)
-----------------------------------------------------------------------------
(* Recovery *)

\* Mutant of is_published_message_type: the last type is left out.
PublishedBelow35(type) == type \in 1..34

is_published_message_type(type) == type \in 1..35

is_authentication_msg_prefix(b, i) ==
    /\ i + 2 <= Len(b)
    /\ At(b, i + 1) >= 3
    /\ i + 2 + At(b, i + 1) <= Len(b)
    /\ is_published_message_type(U16(b, i + 3))

ValueBytes(r) ==
    Sum0([k \in DOMAIN r.raw_parameter_values |-> Len(r.raw_parameter_values[k])])
      + Sum0(r.row_value_bytes)

\* An exchange that may be reported
Reportable(r) ==
    /\ \E k \in DOMAIN r.message_types : is_published_message_type(r.message_types[k])
    /\ r.unknown_token = None \/ (r.parameter_sets > 0 /\ r.raw_parameter_values # <<>>)

\* The suffix from offset is one.
Recoverable(b, offset, limit) ==
    /\ At(b, offset) = \h65
    /\ is_authentication_msg_prefix(b, offset)
    /\ Given(parse_authentication(b, offset, limit), FALSE, LAMBDA p : Reportable(p.stream))

Region(from, to) == [offset |-> from, bytes |-> to - from]

\* Where the token that stopped a parse lies.
UnknownAt(b, r) == Len(b) - (r.trailing_bytes + 1)

Prefer(a, z) == IF a # None THEN a ELSE z

prepend_authentication_prefix(target, prefix) ==
    [target EXCEPT
       !.tokens = prefix.tokens \o @,
       !.items = prefix.items + @,
       !.message_types = prefix.message_types \o @,
       !.parameter_sets = prefix.parameter_sets + @,
       !.raw_parameter_values = prefix.raw_parameter_values \o @,
       !.row_value_bytes = prefix.row_value_bytes \o @,
       !.encrypted_login_password = Prefer(prefix.encrypted_login_password, @),
       !.encrypted_remote_passwords = prefix.encrypted_remote_passwords \o @,
       !.encrypted_symmetric_key = Prefer(prefix.encrypted_symmetric_key, @),
       !.opaque_security = prefix.opaque_security \o @,
       !.parse_warnings = prefix.parse_warnings \o @]

\* Mutant of Joined: the bytes of both readings are not counted together.
JoinedUnmetered(b, offset, suffix, fallback, limit) ==
    LET merged == fallback.tokens # <<>> /\ UnknownAt(b, fallback) <= offset
    IN  [IF merged THEN prepend_authentication_prefix(suffix, fallback) ELSE suffix
           EXCEPT !.unparsed_regions =
                    @ \o <<Region(IF merged THEN UnknownAt(b, fallback) ELSE 0, offset)>>]

\* Mutant of Joined: the suffix may begin in what the first pass had read.
JoinedOverlapping(b, offset, suffix, fallback, limit) ==
    LET merged == fallback.tokens # <<>> /\ ValueBytes(fallback) + ValueBytes(suffix) <= limit
        tail == IF suffix.unknown_token = None THEN <<>>
                ELSE <<Region(UnknownAt(b, suffix), Len(b))>>
    IN  [IF merged THEN prepend_authentication_prefix(suffix, fallback) ELSE suffix
           EXCEPT !.unparsed_regions =
                    @ \o <<Region(IF merged THEN UnknownAt(b, fallback) ELSE 0, offset)>> \o tail]

\* The suffix from offset, behind what the first pass had read before it.
Joined(b, offset, suffix, fallback, limit) ==
    LET end == UnknownAt(b, fallback)
        merged == /\ fallback.tokens # <<>>
                  /\ end <= offset
                  /\ ValueBytes(fallback) + ValueBytes(suffix) <= limit
        tail == IF suffix.unknown_token = None THEN <<>>
                ELSE <<Region(UnknownAt(b, suffix), Len(b))>>
    IN  [IF merged THEN prepend_authentication_prefix(suffix, fallback) ELSE suffix
           EXCEPT !.unparsed_regions = @ \o <<Region(IF merged THEN end ELSE 0, offset)>> \o tail,
                  !.parse_warnings = @ \o <<"first error", "recovered">>]

First(offsets) == CHOOSE o \in offsets : \A z \in offsets : o <= z

\* The first exchange behind the start is reported, and what the first pass left of the payload
\* if there is none.
Recovered(b, fallback, offsets, limit) ==
    IF offsets # {}
    THEN Joined(b, First(offsets), parse_authentication(b, First(offsets), limit).stream, fallback, limit)
    ELSE [fallback EXCEPT !.unparsed_regions = <<Region(UnknownAt(b, fallback), Len(b))>>,
                          !.parse_warnings = Append(@, "first error")]

\* p is the first pass.
Salvaged(b, p, limit) ==
    IF p.ok /\ p.stream.unknown_token = None THEN p.stream
    ELSE Recovered(b, IF p.ok THEN p.stream
                      ELSE [EmptyStream EXCEPT !.unknown_token = Some(At(b, 0)),
                                               !.trailing_bytes = Len(b) - 1],
                   {o \in 1..Len(b) - 1 : Recoverable(b, o, limit)}, limit)

parse_for_telemetry(b, limit) == Salvaged(b, parse_authentication(b, 0, limit), limit)
=============================================================================
