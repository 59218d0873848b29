-------------------------------- MODULE Data --------------------------------
(***************************************************************************)
(* Type descriptions and the values that follow them in RPC requests and   *)
(* bulk loads: TYPE_INFO, table-valued parameters, partially               *)
(* length-prefixed values and variants (src/tds/data.rs).  A Cursor is     *)
(* [at, used, value]: its position, the bytes of values it has accounted   *)
(* for, at most max, and what it read last.  A value is Null,              *)
(* <<"text", units>>, <<"bytes", bytes>>, <<"variant", base, inner>> or    *)
(* <<"table", rows, sample>>; numbers, dates and GUIDs stand as the bytes  *)
(* they are rendered from.                                                 *)
(***************************************************************************)
EXTENDS Bytes, SequencesExt

CONSTANTS MaxTableColumns,   \* 1024 in the code
          MaxTableRows,      \* 1000000 in the code
          TableSample        \* 10 in the code

Null == <<"null">>
NoMaximum == Huge
NoScale == -1
-----------------------------------------------------------------------------
(* Descriptions of types *)

FixedIds == {\h1f, \h30, \h32, \h34, \h38, \h3a, \h3b, \h3c, \h3d, \h3e, \h7a, \h7f}
fixed_width(id) ==
    CASE id = \h1f -> 0
      [] id \in {\h30, \h32} -> 1
      [] id = \h34 -> 2
      [] id \in {\h38, \h3a, \h3b, \h7a} -> 4
      [] OTHER -> 8

TimeIds == {\h29, \h2a, \h2b}
DecimalIds == {\h37, \h3f, \h6a, \h6c}
ByteIds == DecimalIds \cup {\h24, \h25, \h26, \h27, \h2d, \h2f, \h68, \h6d, \h6e, \h6f}
BinaryIds == {\ha5, \had}
CharIds == {\ha7, \haf, \he7, \hef}
LobIds == {\h22, \h23, \h63}
Utf16Ids == {\h63, \he7, \hef}

LegacyIds ==
    (FixedIds \cup ByteIds \cup LobIds) \ {\h63}

allowed_tvp_type(id) ==
    id \notin FixedIds \cup {\h25, \h27, \h2d, \h2f, \h37, \h3f, \hf3}

BadType == [at |-> Failed, id |-> 0, kind |-> "none", maximum |-> 0, scale |-> NoScale,
            columns |-> <<>>, row_order |-> <<>>]

TypeInfo(at, id, kind, maximum, scale) ==
    [BadType EXCEPT !.at = at, !.id = id, !.kind = kind, !.maximum = maximum, !.scale = scale]

\* What follows the identifier of a type, from i on
TypeLayout(b, i, id) ==
    CASE id \in TimeIds -> <<Fixed(1)>>
      [] id \in DecimalIds -> <<Fixed(3)>>
      [] id \in ByteIds \ DecimalIds -> <<Fixed(1)>>
      [] id \in BinaryIds -> <<Fixed(2)>>
      [] id \in CharIds -> <<Fixed(7)>>
      [] id \in {\h22, \h62} -> <<Fixed(4)>>
      [] id \in {\h23, \h63} -> <<Fixed(9)>>
      [] id = \hf0 -> <<Fixed(2), Chars(1), Chars(1), Chars(1), Chars(2)>>
      [] id = \hf1 -> IF i < Len(b) /\ At(b, i) = 0 THEN <<Fixed(1)>>
                      ELSE <<Fixed(1), Chars(1), Chars(1), Chars(2)>>
      [] id = \hf5 -> <<Fixed(3)>>
      [] OTHER -> <<>>

PlainIds == TimeIds \cup ByteIds \cup BinaryIds \cup CharIds \cup LobIds
              \cup {\h28, \h62, \hf0, \hf1, \hf4, \hf5}

TypeLegal(b, i, id) ==
    /\ id \in TimeIds => At(b, i) <= 7
    /\ id \in DecimalIds => At(b, i + 1) <= 38 /\ At(b, i + 2) <= At(b, i + 1)
    /\ id = \hf5 => U16(b, i) <= 8000

TypeMaximum(b, i, id) ==
    CASE id \in ByteIds -> At(b, i)
      [] id \in BinaryIds \cup CharIds \cup {\hf5} -> U16(b, i)
      [] id \in LobIds \cup {\h62} -> U32(b, i)
      [] OTHER -> NoMaximum

TypeKind(b, i, id) ==
    CASE id \in TimeIds \cup ByteIds \cup {\h28} -> "byte"
      [] id \in BinaryIds \cup CharIds -> IF U16(b, i) = 65535 THEN "plp" ELSE "ushort"
      [] id = \hf5 -> "ushort"
      [] id \in LobIds -> "long"
      [] id = \h62 -> "variant"
      [] id \in {\hf0, \hf1} -> "plp"
      [] id = \hf4 -> "json"

TypeScale(b, i, id) ==
    CASE id \in TimeIds -> At(b, i) [] id = \hf5 -> At(b, i + 2) [] OTHER -> NoScale

\* The ordinals of a table's metadata token, width bytes for each entry
Ordinals(b, i, n, width) == [k \in 1..n |-> U16(b, i + width * (k - 1))]

\* A column that the rows leave at its default
IsDefault(column) == Bit(column.flags, 512)

OrderUnique(b, i, n, columns) ==
    LET ordinals == Ordinals(b, i, n, 3)
    IN  /\ IsInjective(ordinals)
        /\ \A k \in 1..n :
             /\ ordinals[k] \in DOMAIN columns
             /\ ~IsDefault(columns[ordinals[k]])
             /\ At(b, i + 3 * k - 1) \in {1, 2, 4, 5, 6}

\* The optional tokens behind a table's columns: where they end, and the order of a row
RECURSIVE TableTokens(_, _, _, _, _)
TableTokens(b, i, columns, order, seen) ==
    LET none == [at |-> Failed, order |-> <<>>]
        token == At(b, i)
        n == U16(b, i + 1)
        width == IF token = \h10 THEN 3 ELSE 2
        to == i + 3 + width * n
        ordinals == Ordinals(b, i + 3, n, 2)
    IN  IF i >= Len(b) THEN none
        ELSE IF token = 0 THEN [at |-> i + 1, order |-> order]
        ELSE IF token \notin {\h10, \h11} \ seen \/ i + 3 > Len(b) THEN none
        ELSE IF n > Len(columns) \/ to > Len(b) THEN none
        ELSE IF token = \h10
        THEN IF OrderUnique(b, i + 3, n, columns)
             THEN TableTokens(b, to, columns, order, seen \cup {token})
             ELSE none
        ELSE IF n = Len(columns) /\ IsInjective(ordinals) /\ Range(ordinals) \subseteq 1..n
        THEN TableTokens(b, to, columns, ordinals, seen \cup {token})
        ELSE none

RECURSIVE type_info(_, _), tvp_info(_, _), TableColumns(_, _, _, _)
type_info_after_id(b, i, id) ==
    IF id \in FixedIds THEN TypeInfo(i, id, "fixed", NoMaximum, NoScale)
    ELSE IF id = \hf3 THEN tvp_info(b, i)
    ELSE IF id \notin PlainIds THEN BadType
    ELSE From(Fit(b, i, Len(b), TypeLayout(b, i, id)), BadType, LAMBDA to :
           IF ~TypeLegal(b, i, id) THEN BadType
           ELSE TypeInfo(to, id, TypeKind(b, i, id), TypeMaximum(b, i, id), TypeScale(b, i, id)))

type_info(b, i) ==
    IF i >= Len(b) THEN BadType ELSE type_info_after_id(b, i + 1, At(b, i))

\* TDS 4.2: text and image carry no collation, and newer types are unknown.
type_info_legacy42(b, i) ==
    IF i >= Len(b) \/ (i < Len(b) /\ At(b, i) \notin LegacyIds) THEN BadType
    ELSE IF At(b, i) \in LobIds
    THEN IF i + 5 > Len(b) THEN BadType
         ELSE TypeInfo(i + 5, At(b, i), "long", U32(b, i + 1), NoScale)
    ELSE type_info_after_id(b, i + 1, At(b, i))

NoColumns == [at |-> Failed, columns |-> <<>>]

TableColumns(b, i, n, columns) ==
    IF n = 0 THEN [at |-> i, columns |-> columns]
    ELSE IF i + 6 > Len(b) THEN NoColumns
    ELSE Then(type_info(b, i + 6), NoColumns, LAMBDA ty :
           IF ~allowed_tvp_type(ty.id) THEN NoColumns
           ELSE From(Pass(b, ty.at, Len(b), Chars(1)), NoColumns, LAMBDA to :
                  TableColumns(b, to, n - 1,
                               Append(columns, [flags |-> U16(b, i + 4), ty |-> ty]))))

tvp_info(b, i) ==
    From(Fit(b, i, Len(b), <<Chars(1), Chars(1), Chars(1), Fixed(2)>>), BadType, LAMBDA at :
      IF U16(b, at - 2) \notin (0..MaxTableColumns) \cup {65535} THEN BadType
      ELSE Then(TableColumns(b, at, U16(b, at - 2) % 65535, <<>>), BadType, LAMBDA c :
             Then(TableTokens(b, c.at, c.columns, [k \in DOMAIN c.columns |-> k], {}), BadType,
               LAMBDA t : [TypeInfo(t.at, \hf3, "tvp", NoMaximum, NoScale)
                             EXCEPT !.columns = c.columns, !.row_order = t.order])))

\* The encryption of a parameter or column, from i on: the type of the plain value, an algorithm
\* with a name if it is 0, and so many more bytes
CryptoInfo(b, i, more) ==
    Then(type_info(b, i), Failed, LAMBDA base :
      IF base.at >= Len(b) THEN Failed
      ELSE Fit(b, base.at, Len(b),
               (IF At(b, base.at) = 0 THEN <<Fixed(1), Chars(1)>> ELSE <<Fixed(1)>>)
                 \o <<Fixed(more)>>))
-----------------------------------------------------------------------------
(* Values from their bytes *)

time_width(scale) == CASE scale <= 2 -> 3 [] scale \in 3..4 -> 4 [] OTHER -> 5

validate_value_width(ty, n) ==
    CASE ty.id = \h24 -> n = 16
      [] ty.id = \h26 -> n \in {1, 2, 4, 8}
      [] ty.id = \h28 -> n = 3
      [] ty.id = \h29 -> n = time_width(ty.scale)
      [] ty.id = \h2a -> n = time_width(ty.scale) + 3
      [] ty.id = \h2b -> n = time_width(ty.scale) + 5
      [] ty.id \in DecimalIds -> n \in {5, 9, 13, 17}
      [] ty.id = \h68 -> n = 1
      [] ty.id \in {\h6d, \h6e, \h6f} -> n \in {4, 8}
      [] ty.id = \hf5 -> n \in 8..8000
      [] OTHER -> TRUE

\* Layouts and dimension types that are not published are left unread.
validate_vector(ty, v) ==
    /\ At(v, 0) = \ha9
    /\ At(v, 1) = 1 =>
         /\ ty.scale = At(v, 4)
         /\ ty.scale \in {0, 1} =>
              Len(v) = 8 + U16(v, 2) * (IF ty.scale = 0 THEN 4 ELSE 2)

looks_like_utf16_xml(v) ==
    /\ Len(v) >= 2 /\ Len(v) % 2 = 0
    /\ \E start \in {<<60, 0>>, <<255, 254, 60, 0>>, <<0, 60>>} : IsPrefix(start, v)

decode_json_text(v) ==
    IF Len(v) >= 2 /\ Len(v) % 2 = 0 /\ \A k \in 1..(Len(v) \div 2) : v[2 * k] = 0
    THEN <<"text", Units(v)>>
    ELSE <<"text", v>>

\* Outcomes of decode other than a value: an error, and an index out of bounds
Undecodable == <<"none">>
Panicked == <<"panicked">>

decode(ty, v) ==
    IF ~validate_value_width(ty, Len(v)) THEN Undecodable
    ELSE IF ty.id = \hf5 /\ ~validate_vector(ty, v) THEN Undecodable
    ELSE CASE ty.id = \h1f -> Null
           [] ty.id = \h30 /\ v = <<>> -> Panicked
           [] ty.id \in {\h34, \h38, \h7f} /\ Len(v) \notin {1, 2, 4, 8} -> Undecodable
           [] ty.id \in {\h3b, \h3e} /\ Len(v) \notin {4, 8} -> Undecodable
           [] ty.id \in Utf16Ids -> IF Len(v) % 2 = 0 THEN <<"text", Units(v)>> ELSE Undecodable
           [] ty.id \in {\h23, \h27, \h2f, \ha7, \haf} -> <<"text", v>>
           [] ty.id = \hf4 -> decode_json_text(v)
           [] ty.id = \hf1 /\ looks_like_utf16_xml(v) -> <<"text", Units(v)>>
           [] OTHER -> <<"bytes", v>>

\* The type a variant's base identifier and properties describe
variant_type_info(id, p) ==
    LET plain == (FixedIds \ {\h1f}) \cup {\h24, \h28}
        known == \/ id \in plain /\ p = <<>>
                 \/ id \in TimeIds /\ Len(p) = 1 /\ p[1] <= 7
                 \/ id \in BinaryIds /\ Len(p) = 2
                 \/ id \in {\h6a, \h6c} /\ Len(p) = 2 /\ p[1] <= 38 /\ p[2] <= p[1]
                 \/ id \in CharIds /\ Len(p) = 7
    IN  IF ~known THEN BadType
        ELSE TypeInfo(0, id, "variant", NoMaximum, IF id \in TimeIds THEN p[1] ELSE NoScale)

\* What cannot be decoded in a variant is kept as such, but nothing is left of a panic.
variant(v) ==
    LET properties == At(v, 1)
        ty == variant_type_info(v[1], Slice(v, 2, 2 + properties))
        inner == IF Len(v) < 2 \/ (Len(v) >= 2 /\ 2 + properties > Len(v)) THEN Undecodable
                 ELSE IF ty.at = Failed THEN Undecodable
                 ELSE decode(ty, Slice(v, 2 + properties, Len(v)))
    IN  IF inner = Panicked THEN Panicked ELSE <<"variant", v[1], inner>>
-----------------------------------------------------------------------------
(* Values from a cursor *)

Read(at, used, v) == [at |-> at, used |-> used, value |-> v]
Stop == Read(Failed, 0, Undecodable)

\* value_bytes: n bytes, accounted for before they are taken
value_bytes(b, c, n, max) ==
    IF c.used + n > max \/ c.at + n > Len(b) THEN Stop
    ELSE Read(c.at + n, c.used + n, Slice(b, c.at, c.at + n))

\* A value read so far, decoded.  A panic, which aborts the program, is an end like an error here:
\* nothing is read behind it and the message has no result.
Decoded(r, v) == IF v \in {Undecodable, Panicked} THEN Stop ELSE [r EXCEPT !.value = v]
Decode(ty, read) == Then(read, Stop, LAMBDA r : Decoded(r, decode(ty, r.value)))

\* The chunks of a partially length-prefixed value, up to the empty one
RECURSIVE Chunks(_, _, _, _)
Chunks(b, c, max, seen) ==
    IF c.at + 4 > Len(b) THEN Stop
    ELSE IF U32(b, c.at) = 0 THEN Read(c.at + 4, c.used, <<seen>>)
    ELSE Then(value_bytes(b, [c EXCEPT !.at = @ + 4], U32(b, c.at), max), Stop,
              LAMBDA chunk : Chunks(b, chunk, max, seen \o chunk.value))

\* The total that stands before the chunks, unless it is unknown
PlpTotal(head) ==
    IF \E k \in 5..8 : head[k] > 0 THEN Huge ELSE U32(head, 0)
PlpBody(b, c, max, head, unknown) ==
    IF ~unknown /\ PlpTotal(head) > max THEN Stop
    ELSE Then(Chunks(b, c, max, <<>>), Stop, LAMBDA r :
           IF ~unknown /\ Len(r.value[1]) # PlpTotal(head) THEN Stop ELSE r)

\* value is empty for null, else the bytes of all chunks
plp(b, c, max) ==
    LET head == Slice(b, c.at, c.at + 8)
    IN  IF c.at + 8 > Len(b) THEN Stop
        ELSE IF head = [k \in 1..8 |-> 255] THEN Read(c.at + 8, c.used, <<>>)
        ELSE PlpBody(b, [c EXCEPT !.at = @ + 8], max, head,
                     head = <<254>> \o [k \in 1..7 |-> 255])

PlpValue(ty, read) ==
    Then(read, Stop, LAMBDA r :
      IF r.value = <<>> THEN [r EXCEPT !.value = Null]
      ELSE Decode(ty, [r EXCEPT !.value = @[1]]))

\* The published form first, then the one with a marker before it
json_value(b, c, max) ==
    Then(plp(b, c, max),
         IF IsPrefix(<<255, 255>>, Slice(b, c.at, Len(b)))
         THEN plp(b, [c EXCEPT !.at = @ + 2], max)
         ELSE Stop,
         LAMBDA canonical : canonical)

\* n bytes of a type with a length before its values
Sized(b, c, ty, n, max) ==
    IF n > ty.maximum THEN Stop
    ELSE Then(value_bytes(b, c, n, max), Stop, LAMBDA r :
           IF ty.kind = "variant" THEN Decoded(r, variant(r.value)) ELSE Decode(ty, r))

\* A length of so many bytes, and the lengths that stand for null
Lengthy(b, c, ty, width, nulls, max) ==
    IF c.at + width > Len(b) THEN Stop
    ELSE IF \/ LE(b, c.at, width) \in nulls
            \/ width = 4 /\ Slice(b, c.at, c.at + 4) = <<255, 255, 255, 255>>
    THEN Read(c.at + width, c.used, Null)
    ELSE Sized(b, [c EXCEPT !.at = @ + width], ty, LE(b, c.at, width), max)

LengthWidth(kind) == CASE kind = "byte" -> 1 [] kind = "ushort" -> 2 [] OTHER -> 4
NullLengths(kind) ==
    CASE kind \in {"byte", "variant"} -> {0} [] kind = "ushort" -> {65535} [] OTHER -> {}

RECURSIVE value(_, _, _, _), TableRow(_, _, _, _, _, _), tvp_value(_, _, _, _, _, _)
value(b, c, ty, max) ==
    CASE ty.kind = "fixed" -> Decode(ty, value_bytes(b, c, fixed_width(ty.id), max))
      [] ty.kind \in {"byte", "ushort", "long", "variant"} ->
           Lengthy(b, c, ty, LengthWidth(ty.kind), NullLengths(ty.kind), max)
      [] ty.kind \in {"plp", "json"} ->
           PlpValue(ty, IF ty.kind = "plp" THEN plp(b, c, max) ELSE json_value(b, c, max))
      [] ty.kind = "tvp" -> tvp_value(b, c, ty, max, 0, <<>>)

\* The values of a row from the k-th of its order on; defaults carry no bytes.
TableRow(b, c, ty, max, k, row) ==
    IF k > Len(ty.row_order) THEN Read(c.at, c.used, row)
    ELSE IF IsDefault(ty.columns[ty.row_order[k]])
    THEN TableRow(b, c, ty, max, k + 1, Append(row, <<"default">>))
    ELSE Then(value(b, c, ty.columns[ty.row_order[k]].ty, max), Stop, LAMBDA r :
           TableRow(b, r, ty, max, k + 1, Append(row, r.value)))

tvp_value(b, c, ty, max, rows, sample) ==
    IF c.at >= Len(b) THEN Stop
    ELSE IF At(b, c.at) = 0
    THEN Read(c.at + 1, c.used, <<"table", rows, sample>>)
    ELSE IF At(b, c.at) # 1 \/ rows = MaxTableRows THEN Stop
    ELSE Then(TableRow(b, [c EXCEPT !.at = @ + 1], ty, max, 1, <<>>), Stop, LAMBDA r :
           tvp_value(b, r, ty, max, rows + 1,
                     IF rows < TableSample THEN Append(sample, r.value) ELSE sample))
=============================================================================
