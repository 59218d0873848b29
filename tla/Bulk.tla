-------------------------------- MODULE Bulk --------------------------------
(***************************************************************************)
(* Bulk loads (src/tds/bulk.rs) in the three forms clients send: the       *)
(* tokens of TDS 7 with their column metadata, the rows of TDS 4.2 with    *)
(* their offset tables and trailing text, and the length-prefixed rows of  *)
(* TDS 5; and the replacement of one text value.                           *)
(***************************************************************************)
EXTENDS Data

CONSTANTS MaxBulkColumns,    \* 1024 in the code
          MaxBulkRows,       \* 1000000 in the code
          MaxStrings         \* 16 in the code

NoLoad == [ok |-> FALSE, format |-> "none"]

\* The runs of at least four printable bytes, as [from, to], the first ones
printable_strings(v) ==
    LET printable(k) == k \in DOMAIN v /\ v[k] \in 32..126
        runs == {r \in (1..Len(v)) \X (1..Len(v)) :
                   /\ r[2] - r[1] >= 3
                   /\ ~printable(r[1] - 1) /\ ~printable(r[2] + 1)
                   /\ \A k \in r[1]..r[2] : printable(k)}
        all == SetToSortSeq(runs, LAMBDA x, y : x[1] < y[1])
    IN  SubSeq(all, 1, IF Len(all) < MaxStrings THEN Len(all) ELSE MaxStrings)

Sampled(sample, limit, row) == IF Len(sample) < limit THEN Append(sample, row) ELSE sample
-----------------------------------------------------------------------------
(* TDS 4.2 rows *)

\* The offsets of a row's values, stored backwards in one byte each: an offset below the one
\* before it has wrapped.
Offsets(raw) ==
    FoldLeft(LAMBDA acc, n :
               LET high == IF acc.offsets # <<>> /\ n < Last(acc.offsets) THEN acc.high + 256
                           ELSE acc.high
               IN  [high |-> high, offsets |-> Append(acc.offsets, n + high)],
             [high |-> 0, offsets |-> <<>>], Reverse(raw)).offsets

\* A row of n bytes without its length, whose table of offsets starts at start: the lengths of its
\* values, if the offsets are in order and lead to the table
BcpValues(row, n, start, offsets) ==
    IF offsets[1] < 4 \/ offsets[1] > start THEN [ok |-> FALSE]
    ELSE IF \/ U16(row, offsets[1] - 2) # n
            \/ Last(offsets) # start
            \/ \E k \in 1..(Len(offsets) - 1) : offsets[k] > offsets[k + 1]
    THEN [ok |-> FALSE]
    ELSE [ok |-> TRUE, bytes |-> n, row_number |-> At(row, 1), fixed |-> offsets[1] - 4,
          lengths |-> [k \in 1..(Len(offsets) - 1) |-> offsets[k + 1] - offsets[k]],
          strings |-> printable_strings(Slice(row, 0, start))]

BcpRow(row) ==
    LET n == Len(row)
        adjust == (n + 255) \div 256
        start == n - adjust - (At(row, 0) + 1)
    IN  IF n < 2 THEN [ok |-> FALSE]
        ELSE IF start < 4 THEN [ok |-> FALSE]
        ELSE BcpValues(row, n, start, Offsets(Slice(row, start + adjust, n)))

\* Text and image values behind a row: where they end, how many they are and how long
RECURSIVE BcpText(_, _, _, _)
BcpText(b, i, count, bytes) ==
    LET length == U32(b, i + 6)
        to == i + 10 + length
    IN  IF i + 2 > Len(b) \/ Slice(b, i, i + 2) # <<0, 0>>
        THEN [at |-> i, count |-> count, bytes |-> bytes]
        ELSE IF i + 10 > Len(b) THEN [at |-> Failed]
        ELSE IF At(b, i + 2) \notin {\h22, \h23} \/ to > Len(b) THEN [at |-> Failed]
        ELSE BcpText(b, to, count + 1, bytes + length)

RECURSIVE BcpRows(_, _, _, _)
BcpRows(b, i, limit, load) ==
    IF i = Len(b) THEN load
    ELSE Then(BcpText(b, i, load.text_count, load.text_bytes), NoLoad, LAMBDA text :
      LET to == text.at + 2 + U16(b, text.at)
          seen == [load EXCEPT !.text_count = text.count, !.text_bytes = text.bytes]
      IN  IF text.at = Len(b) THEN seen
          ELSE IF text.at + 2 > Len(b) THEN NoLoad
          ELSE IF to = text.at + 2 \/ to > Len(b) \/ load.rows = MaxBulkRows THEN NoLoad
          ELSE Given(BcpRow(Slice(b, text.at + 2, to)), NoLoad, LAMBDA row :
                 BcpRows(b, to, limit,
                         [seen EXCEPT !.rows = @ + 1, !.sample = Sampled(@, limit, row)])))

parse_tds42_bcp(b, max, limit) ==
    IF Len(b) > max THEN NoLoad
    ELSE Given(BcpRows(b, 0, limit, [ok |-> TRUE, format |-> "tds42", rows |-> 0, sample |-> <<>>,
                                     text_count |-> 0, text_bytes |-> 0]),
               NoLoad, LAMBDA load : IF load.rows = 0 THEN NoLoad ELSE load)

\* A text value and nothing else
UpdateText(b, max) ==
    IF Len(b) < 4 \/ (Len(b) >= 4 /\ (U32(b, 0) > max \/ Len(b) # 4 + U32(b, 0))) THEN NoLoad
    ELSE [ok |-> TRUE, format |-> "update_text", bytes |-> U32(b, 0)]

parse_tds42_message(b, max, limit) ==
    Given(parse_tds42_bcp(b, max, limit), UpdateText(b, max), LAMBDA bcp : bcp)
-----------------------------------------------------------------------------
(* TDS 5 rows *)

RECURSIVE Tds5Rows(_, _, _, _)
Tds5Rows(b, i, limit, load) ==
    From(Pass(b, i, Len(b), Counted(2)), [load EXCEPT !.trailing = Len(b) - i], LAMBDA to :
      IF Len(load.lengths) = MaxBulkRows THEN NoLoad
      ELSE Tds5Rows(b, to, limit,
                    [load EXCEPT !.lengths = Append(@, to - i - 2),
                                 !.sample = Sampled(@, limit, printable_strings(Slice(b, i + 2, to)))]))

parse_tds5_rows(b, max, limit) ==
    IF Len(b) > max THEN NoLoad
    ELSE Tds5Rows(b, 0, limit, [ok |-> TRUE, format |-> "tds5", lengths |-> <<>>,
                                sample |-> <<>>, trailing |-> 0])
-----------------------------------------------------------------------------
(* TDS 7 tokens *)

\* Where n layouts, the first at i, end
RECURSIVE FitAll(_, _, _, _)
FitAll(b, i, n, layout) ==
    IF n = 0 THEN i
    ELSE From(Fit(b, i, Len(b), layout), Failed, LAMBDA to : FitAll(b, to, n - 1, layout))

\* The table of column encryption keys: where n entries that start at i end
RECURSIVE Keys(_, _, _)
Keys(b, i, n) ==
    IF n = 0 THEN i
    ELSE IF i + 21 > Len(b) THEN Failed
    ELSE From(FitAll(b, i + 21, At(b, i + 20), <<Counted(2), Chars(1), Chars(2), Chars(1)>>), Failed,
              LAMBDA to : Keys(b, to, n - 1))

\* The encryption of a column whose key is one of so many
ColumnEncryption(b, i, keys) ==
    IF i + 6 > Len(b) THEN Failed
    ELSE IF U16(b, i) >= keys THEN Failed
    ELSE From(CryptoInfo(b, i + 6, 2), Failed, LAMBDA to :
           IF At(b, to - 2) \notin {1, 2} \/ At(b, to - 1) = 0 THEN Failed ELSE to)

\* Where the names of a text or image column's table end
TableNames(b, ty) ==
    IF ty.id \notin LobIds THEN ty.at
    ELSE IF ty.at >= Len(b) THEN Failed
    ELSE FitAll(b, ty.at + 1, At(b, ty.at), <<Chars(2)>>)

\* The columns of the load: keys is Failed when column encryption was not negotiated.
RECURSIVE BulkColumns(_, _, _, _, _, _)
BulkColumns(b, i, n, wide, keys, types) ==
    LET head == i + (IF wide THEN 6 ELSE 4)
        none == [at |-> Failed, types |-> <<>>]
    IN  IF n = 0 THEN [at |-> i, types |-> types]
        ELSE IF head > Len(b) THEN none
        ELSE Then(type_info(b, head), none, LAMBDA ty :
          From(TableNames(b, ty), none, LAMBDA names :
            From(IF ~Bit(U16(b, head - 2), \h800) THEN names
                 ELSE IF keys = Failed THEN Failed
                 ELSE ColumnEncryption(b, names, keys), none, LAMBDA crypt :
              From(Pass(b, crypt, Len(b), Chars(1)), none, LAMBDA to :
                BulkColumns(b, to, n - 1, wide, keys, Append(types, ty))))))

\* A text or image value stands behind a pointer and a timestamp.
bulk_value(b, c, ty, max) ==
    LET head == c.at + 1 + At(b, c.at) + 8
    IN  IF ty.id \notin LobIds \/ Len(b) - c.at < 4 THEN value(b, c, ty, max)
        ELSE IF At(b, c.at) = 255
        THEN IF Slice(b, c.at + 1, c.at + 4) = <<255, 255, 255>> THEN Read(c.at + 4, c.used, Null)
             ELSE Stop
        ELSE IF head + 4 > Len(b) THEN Stop
        ELSE IF Slice(b, head, head + 4) = <<255, 255, 255, 255>>
        THEN Read(head + 4, c.used, Null)
        ELSE Decode(ty, value_bytes(b, [c EXCEPT !.at = head + 4], U32(b, head), max))

RECURSIVE BulkRow(_, _, _, _, _)
BulkRow(b, c, types, max, row) ==
    IF types = <<>> THEN Read(c.at, c.used, row)
    ELSE Then(bulk_value(b, c, Head(types), max), Stop, LAMBDA r :
           BulkRow(b, r, Tail(types), max, Append(row, r.value)))

RECURSIVE BulkRows(_, _, _, _, _, _, _)
\* Mutant of BulkRows: the end of the payload ends the load.
BulkRowsOpen(b, c, types, wide, max, limit, load) ==
    IF c.at >= Len(b) THEN load
    ELSE IF At(b, c.at) # \hd1 THEN NoLoad
    ELSE Then(BulkRow(b, [c EXCEPT !.at = @ + 1], types, max, <<>>), NoLoad, LAMBDA r :
           BulkRows(b, r, types, wide, max, limit, [load EXCEPT !.rows = @ + 1]))

BulkRows(b, c, types, wide, max, limit, load) ==
    IF c.at >= Len(b) THEN NoLoad
    ELSE IF At(b, c.at) = \hfd
    THEN IF c.at + (IF wide THEN 13 ELSE 9) = Len(b) THEN [load EXCEPT !.used = c.used]
         ELSE NoLoad
    ELSE IF At(b, c.at) # \hd1 \/ load.rows = MaxBulkRows THEN NoLoad
    ELSE Then(BulkRow(b, [c EXCEPT !.at = @ + 1], types, max, <<>>), NoLoad, LAMBDA r :
           BulkRows(b, r, types, wide, max, limit,
                    [load EXCEPT !.rows = @ + 1, !.sample = Sampled(@, limit, r.value)]))

parse(b, max, wide, encryption, limit) ==
    LET count == U16(b, 1)
        ceks == U16(b, 3)
    IN  IF Len(b) < 3 \/ (Len(b) >= 3 /\ (At(b, 0) # \h81 \/ count > MaxBulkColumns)) THEN NoLoad
        ELSE IF encryption /\ (Len(b) < 5 \/ (Len(b) >= 5 /\ ceks > MaxBulkColumns)) THEN NoLoad
        ELSE From(IF encryption THEN Keys(b, 5, ceks) ELSE 3, NoLoad, LAMBDA keys :
          Then(BulkColumns(b, keys, count, wide, IF encryption THEN ceks ELSE Failed, <<>>),
               NoLoad, LAMBDA columns :
            BulkRows(b, Read(columns.at, 0, Null), columns.types, wide, max, limit,
                     [ok |-> TRUE, format |-> "bcp", columns |-> columns.types, rows |-> 0,
                      sample |-> <<>>, used |-> 0])))

parse_message(b, max, wide, encryption, limit) ==
    Given(parse(b, max, wide, encryption, limit), UpdateText(b, max), LAMBDA bcp : bcp)
=============================================================================
