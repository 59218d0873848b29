------------------------------- MODULE Client -------------------------------
(***************************************************************************)
(* What a client writes, as the reference that the readers are compared    *)
(* with: remote procedure calls, bulk loads, headers, DER and the answers  *)
(* of the server as a client reads them.                                   *)
(*                                                                         *)
(* A sample is a value of some type as it stands on the wire: [type, data, *)
(* id, value, size], the bytes that describe the type, those of the value, *)
(* and what a reader should make of them.                                  *)
(***************************************************************************)
EXTENDS Bytes, Bitwise, FiniteSets, SequencesExt

Concat(parts) == FlattenSeq(parts)
Sum(s) == FoldLeft(LAMBDA a, n : a + n, 0, s)

Null == <<"null">>
Sampled(id, type, data, value, size) ==
    [id |-> id, type |-> <<id>> \o type, data |-> data, value |-> value, size |-> size]

\* A JSON null as some clients write it, behind a marker of two bytes
MarkedNull == Sampled(\hf4, <<>>, [k \in 1..10 |-> 255], Null, 0)
-----------------------------------------------------------------------------
(* Remote procedure calls: a request is a sequence of batches, each        *)
(* [procedure, options, samples, separator], the separator standing behind *)
(* a batch unless it is 0.                                                 *)

EncodeProcedure(procedure, dialect) ==
    CASE dialect = "tds42" -> <<Len(procedure)>> \o procedure
      [] dialect # "tds42" /\ Len(procedure) = 1 -> <<255, 255>> \o LE16(procedure[1])
      [] OTHER -> LE16(Len(procedure) \div 2) \o procedure

\* Parameters without a name; status 8 announces an encrypted one.
EncodeParameter(sample, encrypted) ==
    <<0, IF encrypted THEN 8 ELSE 0>> \o sample.type \o sample.data
      \o (IF encrypted THEN <<\h30, 1>> \o [k \in 1..22 |-> k] ELSE <<>>)

EncodeBatch(batch, dialect, package) ==
    EncodeProcedure(batch.procedure, dialect) \o LE16(batch.options) \o package
      \o Concat([k \in DOMAIN batch.samples |->
                    EncodeParameter(batch.samples[k], batch.encrypted)])
      \o (IF batch.separator = 0 THEN <<>> ELSE <<batch.separator>>)

EncodeCall(batches, dialect, package) ==
    Concat([k \in DOMAIN batches |-> EncodeBatch(batches[k], dialect, package)])

\* The one header that requests of TDS 7.2 must have
TransactionHeader == LE32(22) \o LE32(18) \o LE16(2) \o [k \in 1..12 |-> k]

SampleBytes(batches) ==
    Sum([k \in DOMAIN batches |->
           Sum([j \in DOMAIN batches[k].samples |-> batches[k].samples[j].size])])
-----------------------------------------------------------------------------
(* Bulk loads: rows of samples, of the same types in every row.  crypt is  *)
(* the algorithm of encrypted columns, or empty if they are not.           *)

LobSample(sample) == sample.id \in {\h22, \h23, \h63}

\* One key with one encrypted value
KeyTable == LE16(1) \o [k \in 1..20 |-> k] \o <<1, 2, 0, 5, 5, 1, 75, 0, 1, 0, 80, 0, 1, 82, 0>>

EncodeColumn(sample, wide, crypt) ==
    (IF wide THEN LE32(0) ELSE LE16(0)) \o LE16(IF crypt = <<>> THEN 0 ELSE 2048) \o sample.type
      \o (IF LobSample(sample) THEN <<1, 1, 0, 84, 0>> ELSE <<>>)
      \o (IF crypt = <<>> THEN <<>> ELSE <<0, 0, 0, 0, 0, 0, \h30>> \o crypt)
      \o <<1, 67, 0>>

EncodeValue(sample) ==
    (IF LobSample(sample) /\ sample.value # Null THEN <<2, 9, 9, 1, 1, 1, 1, 1, 1, 1, 1>> ELSE <<>>)
      \o sample.data

EncodeLoad(rows, wide, crypt) ==
    <<\h81>> \o LE16(Len(rows[1])) \o (IF crypt = <<>> THEN <<>> ELSE KeyTable)
      \o Concat([k \in DOMAIN rows[1] |-> EncodeColumn(rows[1][k], wide, crypt)])
      \o Concat([r \in DOMAIN rows |->
                   <<\hd1>> \o Concat([k \in DOMAIN rows[r] |-> EncodeValue(rows[r][k])])])
      \o <<\hfd, 0, 0, 0, 0>> \o LE32(Len(rows)) \o (IF wide THEN LE32(0) ELSE <<>>)

\* Where the values of a TDS 4.2 row begin, and where the last one ends
BcpOffsets(fixed, values) ==
    [k \in 1..(Len(values) + 1) |-> 4 + Len(fixed) + Sum([j \in 1..(k - 1) |-> Len(values[j])])]

\* A row of TDS 4.2: its length, the number of its values and its own number, the fixed part, the
\* length again, the values, an adjustment byte for every 256 bytes begun, and the last bytes of
\* the offsets, the last offset first.
EncodeBcpRow(number, fixed, values) ==
    LET offsets == BcpOffsets(fixed, values)
        unadjusted == Last(offsets) + Len(offsets)
        adjust == (unadjusted + 254) \div 255
        length == unadjusted + adjust
    IN  LE16(length) \o <<Len(values), number>> \o fixed \o LE16(length) \o Concat(values)
          \o [k \in 1..adjust |-> 2] \o Reverse([k \in DOMAIN offsets |-> offsets[k] % 256])

\* The last bytes of the offsets tell them apart from their order alone: up to 255 an offset stands as
\* it is, and from then on each is taken to lie in the 256 bytes behind those of the one before it.
Unfolds(offsets) ==
    /\ Head(offsets) < 256
    /\ \A k \in 1..(Len(offsets) - 1) :
          IF offsets[k] < 256 THEN offsets[k + 1] - offsets[k] < 256
          ELSE offsets[k + 1] \div 256 = offsets[k] \div 256 + 1

\* Text behind a row
EncodeBcpText(text) == <<0, 0, \h23, 1, 0, 0>> \o LE32(Len(text)) \o text
-----------------------------------------------------------------------------
(* DER: <<"leaf", tag, content>> or <<"node", tag, children, open>>, with  *)
(* an open node ended by two zero bytes                                    *)

RECURSIVE EncodeTree(_)
EncodeTree(t) ==
    IF t[1] = "leaf" THEN <<t[2], Len(t[3])>> \o t[3]
    ELSE LET inside == Concat([k \in DOMAIN t[3] |-> EncodeTree(t[3][k])])
         IN  IF t[4] THEN <<t[2], 128>> \o inside \o <<0, 0>> ELSE <<t[2], Len(inside)>> \o inside

\* The nodes of a tree in the order in which a walk meets them
RECURSIVE Nodes(_)
Nodes(t) ==
    IF t[1] = "leaf" THEN <<t>>
    ELSE <<t>> \o Concat([k \in DOMAIN t[3] |-> Nodes(t[3][k])])

RECURSIVE Depth(_)
Depth(t) ==
    IF t[1] = "leaf" \/ t[3] = <<>> THEN 0
    ELSE 1 + FoldLeft(LAMBDA a, c : IF Depth(c) > a THEN Depth(c) ELSE a, 0, t[3])

\* The contents of the leaves with one of the tags, each once
Leaves(t, tags) ==
    FoldLeft(LAMBDA s, n : IF n[1] = "leaf" /\ n[2] \in tags /\ ~Contains(s, n[3])
                           THEN Append(s, n[3]) ELSE s, <<>>, Nodes(t))
-----------------------------------------------------------------------------
(* Logins *)

Wide(text) == Concat([k \in DOMAIN text |-> LE16(text[k])])

\* A password as LOGIN7 carries it: nibbles change places, then every byte is combined with a5.
Obfuscate(text) ==
    [k \in DOMAIN Wide(text) |->
       (16 * (Wide(text)[k] % 16) + Wide(text)[k] \div 16) ^^ \ha5]

\* The descriptors of a LOGIN7 message up to the one of the database, in their order; the fifth
\* last one, at 56, points to the offset of the features.
EncodeLogin7(l) ==
    LET fixed == IF l.old THEN 86 ELSE 94
        parts == <<Wide(l.hostname), Wide(l.username), Obfuscate(l.password), <<>>, <<>>,
                   IF l.features = <<>> THEN <<>> ELSE <<0, 0, 0, 0>>, <<>>, <<>>,
                   Wide(l.database)>>
        from(k) == fixed + Sum([j \in 1..(k - 1) |-> Len(parts[j])])
        units(k) == IF k = 6 THEN Len(parts[k]) ELSE Len(parts[k]) \div 2
        pointers == Concat([k \in DOMAIN parts |-> LE16(from(k)) \o LE16(units(k))])
        sspi == from(10)
        chain == sspi + Len(l.sspi)
        features == IF l.features = <<>> THEN <<>>
                    ELSE Concat([k \in DOMAIN l.features |->
                            <<l.features[k].id>> \o LE32(Len(l.features[k].data)) \o l.features[k].data])
                         \o <<255>>
        values == Concat([parts EXCEPT ![6] = IF l.features = <<>> THEN <<>> ELSE LE32(chain)])
    IN  LE32(chain + Len(features)) \o <<0, 0, 0, IF l.old THEN \h71 ELSE \h74>>
          \o [k \in 1..19 |-> 0] \o <<IF l.features = <<>> THEN 0 ELSE 16>> \o [k \in 1..8 |-> 0]
          \o pointers \o <<1, 2, 3, 4, 5, 6>> \o LE16(sspi) \o LE16(Len(l.sspi)) \o LE16(chain)
          \o <<0, 0>> \o (IF l.old THEN <<>> ELSE LE16(chain) \o <<0, 0, 0, 0, 0, 0>>)
          \o values \o l.sspi \o features

\* The LOGIN record of older versions: texts in fields of fixed width
Place(record, offset, text, lengthAt) ==
    [k \in DOMAIN record |->
       IF k = lengthAt + 1 THEN Len(text)
       ELSE IF k \in (offset + 1)..(offset + Len(text)) THEN text[k - offset]
       ELSE record[k]]

\* The first capability is the last bit.
Bitmap(enabled, bytes) ==
    [k \in 1..bytes |-> Sum([n \in 1..8 |-> IF 8 * (bytes - k) + n - 1 \in enabled THEN 2^(n - 1) ELSE 0])]

EncodeCapabilities(request, response) ==
    <<\he2, 18, 0, 1, 7>> \o Bitmap(request, 7) \o <<2, 7>> \o Bitmap(response, 7)

EncodeLogin(l) ==
    LET blank == [k \in 1..(IF l.major = 4 /\ l.minor = 2 THEN 572 ELSE 568) |->
                    CASE k = 459 -> l.major [] k = 460 -> l.minor [] OTHER -> 0]
        named == Place(Place(blank, 31, l.username, 61), 62, l.password, 92)
    IN  Place(named, 557, l.packet_size, 563)
          \o (IF l.major # 5 THEN <<>> ELSE EncodeCapabilities(l.request, l.response) \o l.stream)
-----------------------------------------------------------------------------
(* Smaller messages *)

\* An NTLM message with its texts in order behind the descriptors; type 3 has six descriptors,
\* from 12 on, type 1 two from 16 on.
EncodeNtlm(type, flags, texts) ==
    LET head == IF type = 3 THEN 64 ELSE 32
        from(k) == head + Sum([j \in 1..(k - 1) |-> Len(texts[j])])
        buffers == Concat([k \in DOMAIN texts |->
                             LE16(Len(texts[k])) \o LE16(Len(texts[k])) \o LE32(from(k))])
    IN  <<78, 84, 76, 77, 83, 83, 80, 0>> \o LE32(type)
          \o (IF type = 3 THEN buffers \o LE32(flags) ELSE LE32(flags) \o buffers) \o Concat(texts)

EncodeFedauth(token, nonce) == LE32(4 + Len(token) + Len(nonce)) \o LE32(Len(token)) \o token \o nonce

\* Frames are [flag, data].
EncodeFrames(frames) ==
    Concat([k \in DOMAIN frames |->
              <<\h53, frames[k].flag, 1, 0>> \o LE32(16 + Len(frames[k].data))
                \o LE32(k) \o LE32(4) \o frames[k].data])
-----------------------------------------------------------------------------
(* The answers of the server, token by token: [id, from, to, cells]        *)

\* The columns of a result: where the metadata at i ends, and how many there are
Metadata(b, i, wide) ==
    LET column == <<Fixed(IF wide THEN 14 ELSE 12), Chars(1)>>
    IN  [count |-> U16(b, i + 1),
         to |-> Fit(b, i + 3, Len(b), Concat([k \in 1..U16(b, i + 1) |-> column]))]

\* A cell is <<>> for null, else <<text>>.
RECURSIVE Cells(_, _, _, _, _)
Cells(b, i, n, legacy, cells) ==
    LET null == IF legacy THEN At(b, i) = 0 ELSE U16(b, i) = 65535
        head == IF legacy THEN 1 ELSE 2
        to == Pass(b, i, Len(b), Counted(head))
        content == Slice(b, i + head, to)
    IN  IF n = 0 THEN [to |-> i, cells |-> cells]
        ELSE IF i + head > Len(b) THEN [to |-> Failed, cells |-> <<>>]
        ELSE IF null THEN Cells(b, i + head, n - 1, legacy, Append(cells, <<>>))
        ELSE IF to = Failed THEN [to |-> Failed, cells |-> <<>>]
        ELSE Cells(b, to, n - 1, legacy,
                   Append(cells, <<IF legacy THEN content ELSE Units(content)>>))

\* Behind the acknowledged features
RECURSIVE FeaturesEnd(_, _)
FeaturesEnd(b, i) ==
    IF i = Failed \/ i >= Len(b) THEN Failed
    ELSE IF At(b, i) = 255 THEN i + 1
    ELSE FeaturesEnd(b, Pass(b, i + 1, Len(b), Counted(4)))

\* The columns that the rows behind a token have
ColumnsBehind(b, i, to, wide, columns) ==
    CASE At(b, i) = \h81 -> Metadata(b, i, wide).count
      [] At(b, i) = \ha1 -> (to - i - 3) \div 6
      [] OTHER -> columns

\* The token at i: where it ends, and the cells of a row
TokenAt(b, i, legacy, wide, columns) ==
    LET id == At(b, i)
    IN  IF id = \hd1 THEN Cells(b, i + 1, columns, legacy, <<>>)
        ELSE [cells |-> <<>>,
              to |-> CASE id = \h81 -> Metadata(b, i, wide).to
                       [] id \in {\hfd, \hfe} -> Pass(b, i, Len(b), Fixed(IF wide THEN 13 ELSE 9))
                       [] id = \hae -> FeaturesEnd(b, i + 1)
                       [] id = \hee -> Pass(b, i + 1, Len(b), Counted(4))
                       [] OTHER -> Pass(b, i + 1, Len(b), Counted(2))]

RECURSIVE Walk(_, _, _, _, _, _)
Walk(b, i, legacy, wide, columns, seen) ==
    LET next(t) ==
            IF t.to = Failed THEN [ok |-> FALSE, tokens |-> seen]
            ELSE Walk(b, t.to, legacy, wide, ColumnsBehind(b, i, t.to, wide, columns),
                      Append(seen, [id |-> At(b, i), from |-> i, to |-> t.to, cells |-> t.cells]))
    IN  IF i = Len(b) THEN [ok |-> TRUE, tokens |-> seen]
        ELSE next(TokenAt(b, i, legacy, wide, columns))

ReadAnswer(b, legacy, wide) == Walk(b, 0, legacy, wide, 0, <<>>)
=============================================================================
