----------------------------- MODULE MCParsers ------------------------------
(***************************************************************************)
(* Messages for Parsers, of each kind some that are well formed; all or    *)
(* some of them are also cut at every byte and have single bytes replaced. *)
(***************************************************************************)
EXTENDS Parsers

Zeros(n) == [k \in 1..n |-> 0]
Collation == <<9, 4, 208, 0, 52>>

-----------------------------------------------------------------------------
(* PRELOGIN *)

Descriptors(tokens, offsets, lengths) == [token : tokens, offset : offsets, length : lengths]

Rest(first) == <<first, 1, 0, 0, 0, 0, 1, 130>>

Tables ==
    {<<>>} \cup {<<d>> : d \in Descriptors({0, 1, 2, 4, 9}, {5, 6, 7, 12}, {0, 1, 6})}
      \cup {<<d, e>> : d \in Descriptors({0, 1}, {9, 11, 17}, {1, 6}),
                       e \in Descriptors({0, 1, 6}, {11, 12, 17}, {0, 1, 2})}
      \cup {<<[token |-> 0, offset |-> 18, length |-> 6], d, e>> :
              d \in Descriptors({1, 4}, {16, 17, 24}, {0, 1}),
              e \in Descriptors({4, 8}, {16, 17, 18}, {0, 1, 2})}

MCPayloads ==
    [table : Tables, ending : {"terminator"}, token : {255}, rest : {Rest(b) : b \in {0, 2, 5}}]
      \cup [table : Tables, ending : {"nothing"}, token : {255}, rest : {<<>>}]
      \cup [table : Tables, ending : {"descriptor"}, token : {0, 1}, rest : {<<>>, <<0, 1, 0>>}]

MCGreetings ==
    LET nonces == {<<>>, [k \in 1..32 |-> k]}
    IN  {Prelogin!Request(e, i, n) : e \in 0..3, i \in {<<>>, <<77, 83>>}, n \in nonces}
          \cup {Prelogin!Response(e, m, n, c) : e \in {0, 1, 3}, m \in BOOLEAN, n \in nonces,
                                                c \in BOOLEAN}
-----------------------------------------------------------------------------
(* Logins *)

Plain7 == [old |-> FALSE, hostname |-> <<72>>, username |-> <<115, 97>>, password |-> <<112, 300>>,
           database |-> <<100>>, sspi |-> <<>>, features |-> <<>>]

\* A recovered session: a database, a collation, a language, one short and one long state
Recovery ==
    LET set == <<1, 100, 0, 5, 1, 2, 3, 4, 5, 0, 3, 1, 9>>
    IN  LE32(Len(set)) \o set

MCLogin7s ==
    {Plain7, [Plain7 EXCEPT !.old = TRUE, !.sspi = <<1, 2, 3>>],
     [Plain7 EXCEPT !.password = <<>>, !.sspi = <<5>>,
                    !.features = <<[id |-> 1, data |-> Recovery], [id |-> 4, data |-> <<2>>]>>],
     [Plain7 EXCEPT !.features = <<[id |-> 2, data |-> <<1>> \o LE32(1) \o <<7>>],
                                   [id |-> 10, data |-> <<1>>]>>],
     [Plain7 EXCEPT !.features = <<[id |-> 16, data |-> <<1, 0, 65, 0>>],
                                   [id |-> 5, data |-> <<>>]>>],
     [Plain7 EXCEPT !.database = [k \in 1..60 |-> 97]]}

Older(major, minor, request, stream) ==
    [major |-> major, minor |-> minor, username |-> <<115, 97>>, password |-> <<112, 119>>,
     packet_size |-> <<53, 49, 50>>, request |-> request, response |-> {3}, stream |-> stream]

Msg(t) == <<\h65, 3, 0, t, 0>>
Fmt == <<\hec, 14, 0, 1, 0, 0, 0, 0, 0, 0, 0, \he1, 9, 0, 0, 0, 0>>
Params(v) == <<\hd7>> \o LE32(Len(v)) \o v
Exchange(t, v) == Msg(t) \o Fmt \o Params(v)

MCLogins ==
    {Older(4, 2, {}, <<>>), Older(4, 6, {}, <<>>), Older(5, 0, {0, 1, 9, 55}, <<>>),
     Older(5, 0, {7, 8, 30}, Exchange(2, <<8, 9>>))}

-----------------------------------------------------------------------------
(* TDS 5 streams *)

Fmt2 == <<\hec, 18, 0, 2, 0, 0, 8, 0, 0, 0, 0, \h25, 4, 0, 0, 0, 0, 0, 0, 0, \h34, 0>>
Params2 == <<\hd7, 0, 1, \haa, 7, 7>>

Fragments ==
    {Msg(2), Msg(40), Fmt, Params(<<1, 2>>), Params(<<>>), Exchange(34, <<3>>),
     Exchange(11, <<1, 2, 3, 4, 5>>), Msg(3) \o Fmt2 \o Params2, <<0>>, <<\h65>>, <<0, \h65, 3>>,
     <<\h21, 1, 0, 0, 0, 5>>, <<\h21, 5, 0, 0, 0>>, <<\hfd>> \o Zeros(8), <<\h71, 0>>,
     <<\hee, 14, 0, 1, 0, 0, 0, 0, 0, 0, 0, \he1, 9, 0, 0, 0, 0>>, <<\hd1, 1, 0, 0, 0, 3>>,
     <<\hee, 11, 0, 1, 0, 0, 0, 0, 0, 0, 0, \h24, 0, 3, 0>>, <<\hd1, 0, 1, 0, 0, 0, 7, 1, 0, 0, 128, 8>>,
     <<\h80, 6, 0, 0, 0, 0, 0, 0, 1>>, <<\he6, 4, 0, 1, 65, 0, 0>>}

Stream(bytes, exchange, faults) ==
    [bytes |-> bytes, exchange |-> exchange, faults |-> faults, commands |-> <<>>]

Pairs == {f \o g : f, g \in Fragments}

\* Bytes at which a first reading stops, whatever follows them
Foreign ==
    {<<0>>, <<0, 0>>, <<\h65>>, <<0, \h65, 3>>, Msg(7) \o <<0>>, Exchange(2, <<9>>) \o <<0>>,
     Exchange(3, <<1, 2, 3, 4>>) \o <<1, 1>>, Msg(40) \o <<\h99, \h65>>}

Behind == {<<>>, <<0>>, <<\h99, 1>>, <<0>> \o Exchange(14, <<8>>)}

\* Foreign bytes, an exchange and what stands behind it
Recoverable(f, t, v, a, faults) ==
    Stream(f \o Exchange(t, v) \o a, [type |-> t, value |-> v, behind |-> a], faults)

\* Well-formed tokens, with their lengths in two bytes or in four
Short2(token, body) == [commands |-> <<token>>, bytes |-> <<token>> \o LE16(Len(body)) \o body]
Long4(token, body) == [commands |-> <<token>>, bytes |-> <<token>> \o LE32(Len(body)) \o body]

\* A format with one column, and the one set of values that it describes
Described(format, token, values) ==
    [commands |-> format.commands \o <<token>>, bytes |-> format.bytes \o <<token>> \o values]

Commands ==
    {Long4(\he8, name \o <<0, 0>>) : name \in {<<1, 65>>, <<1, 0, 65>>, <<1, 0, 0, 0, 65>>}}
      \cup {Short2(\he7, <<1, 0, 1, 73>> \o text) : text \in {<<>>, <<2, 0, 65, 66>>}}
      \cup {Long4(t, <<1, 0, 1, 73>> \o text) : t \in {\h62, \ha3}, text \in {<<>>, <<1, 0, 0, 0, 65>>}}
      \cup {Short2(\h86, <<1, 67, 0, 0, 2, 0, 83, 83, 1, 0, 1, 75>>),
            Long4(\h10, <<1, 67, 0, 0, 0, 0, 0, 1, 0, 0, 0, 83, 0, 0>>)}
      \cup {Short2(\h81, <<0, 0, 0, 0, 1, 67, 0, 1, 84>>), Short2(\h82, <<1, 0, 0, 0, 5, 9, 0, 0, 0>>),
            Short2(\h82, <<1, 0, 0, 0, 1>>), Short2(\h83, <<1, 0, 0, 0, 1, 32, 0, 9, 0, 0, 0>>),
            Short2(\h83, <<1, 0, 0, 0, 1, 0, 32>>), Short2(\h84, <<1, 0, 0, 0, 0>>),
            Short2(\h85, <<1, 0, 0, 0, 0, 1, 84, 1, 0, 85>>), Short2(\h87, <<9>>),
            Short2(\h88, <<1, 0, 0, 0, 1, 32, 0, 0, 0>> \o Zeros(12)), Short2(\ha6, <<1, 2, 1, 9>>)}
      \cup {[commands |-> <<\h78>>, bytes |-> <<\h78, 0, 0, 0, 0>>], Long4(\h22, <<7>>)}
      \cup {Described(Long4(\h20, <<1, 0, 0>> \o Zeros(8) \o <<\h6a, 5, 9, 2, 0>>), \hd7, <<2, 0, 7>>),
            Described(Short2(\hec, <<1, 0, 0, 0>> \o Zeros(4) \o <<\hbb, 8, 6, 0>>), \hd7, <<1, 7>>),
            Described(Long4(\h61, <<1, 0>> \o Zeros(13) \o <<\h22, 9, 0, 0, 0, 1, 0, 84, 0>>), \hd1,
                      <<1, 9>> \o Zeros(8) \o <<2, 0, 0, 0, 7, 8>>),
            Described(Short2(\hee, <<1, 0, 0, 0>> \o Zeros(4) \o <<\h24, 0, 5, 0>>), \hd1,
                      <<1, 1, 0, 0, 0, 7, 1, 0, 0, 128, 8>>),
            Described(Short2(\ha8, <<1, 0, 1, 75, 1>> \o Zeros(4) \o <<\h34, 0, 1, 3>>), \hd3,
                      <<1, 0, 5, 6>>)}

Script(c, d, faults) ==
    [bytes |-> c.bytes \o d.bytes, exchange |-> <<>>, faults |-> faults,
     commands |-> c.commands \o d.commands]
NoCommand == [commands |-> <<>>, bytes |-> <<>>]

MCStreams ==
    {Script(c, NoCommand, Damages) : c \in Commands} \cup {Script(c, d, {"cut"}) : c, d \in Commands} \cup
    {Stream(p, <<>>, {"cut"}) : p \in Pairs}
      \cup {Stream(p \o f, <<>>, {}) : p \in Pairs, f \in Fragments}
      \cup {Recoverable(f, t, v, a, {}) :
              f \in Foreign, t \in {11, 35}, v \in {<<5>>, <<5, 6, 7>>, <<5, 5, 5, 5, 5>>}, a \in Behind}
      \cup {Recoverable(f, 2, <<5>>, a, {"bent"}) : f \in Foreign, a \in Behind}
-----------------------------------------------------------------------------
(* Integrated and federated authentication, multiplexing *)

MCNtlms ==
    [before : {<<>>, <<\h60, 3, 78>>}, type : {3}, flags : {0, 1},
     texts : {<<<<1>>, <<2, 3>>, <<68, 0>>, <<117, 0, 44, 1>>, w, k>> : w \in {<<>>, <<87, 0>>},
                                                                     k \in {<<>>, <<9, 9>>}}]
      \cup [before : {<<>>, <<\h60, 3, 78>>}, type : {1}, flags : {0, 1},
            texts : {<<d, w>> : d \in {<<>>, <<68, 0>>}, w \in {<<87, 0, 88, 0>>}}]

Leaf(tag, content) == <<"leaf", tag, content>>
Node(tag, children, open) == <<"node", tag, children, open>>

DerLeaves == {Leaf(6, <<43, 6>>), Leaf(6, <<42>>), Leaf(12, <<97>>), Leaf(22, <<97>>), Leaf(4, <<7, 0>>)}
Forests(trees) == {<<>>} \cup {<<t>> : t \in trees} \cup {<<t, u>> : t, u \in trees}
Level1 == {Node(\h30, f, o) : f \in Forests(DerLeaves), o \in BOOLEAN}
Level2 == {Node(\ha1, <<t>> \o f, o) : t \in Level1, f \in {<<>>, <<Leaf(6, <<42>>)>>}, o \in BOOLEAN}
Level3 == {Node(\h60, <<t>>, o) : t \in Level2, o \in BOOLEAN}

MCTrees == DerLeaves \cup Level1 \cup Level2 \cup Level3

MCFedauths == [token : {<<>>, <<1, 2>>}, nonce : {<<>>, [k \in 1..32 |-> k]}, expected : BOOLEAN]

Frame == [flag : {1, 2, 4, 8}, data : {<<>>, <<1, 2>>}] \cup {[flag |-> 8, data |-> Zeros(Limit + 1)]}

MCMuxes == {<<f, g>> : f, g \in Frame} \cup {<<[flag |-> 8, data |-> <<1>>], f, f>> : f \in Frame}
-----------------------------------------------------------------------------
(* Requests *)

MCBatches ==
    [sql : {<<>>, <<83>>, <<83, 300, 66>>}, width : {0, 2, 4}, max : {28, 100}, old : {FALSE}]
      \cup [sql : {<<>>, <<83, 69, 76>>}, width : {0}, max : {2, 100}, old : {TRUE}]

MCTransactions ==
    UNION {[type : {0, 1}, body : {<<0, 0>>, <<2, 0, 7, 8>>}, begin : {FALSE}],
           [type : {5}, body : {<<2, 0>>, <<2, 1, 65>>}, begin : {FALSE}],
           [type : {6}, body : {<<>>}, begin : {FALSE}],
           [type : {7, 8}, body : {<<0, 0>>, <<1, 65, 0>>}, begin : {FALSE}],
           [type : {7, 8}, body : {<<0, 1, 2, 0>>, <<1, 65, 1, 2, 1, 66>>}, begin : {TRUE}],
           [type : {9}, body : {<<1, 65>>}, begin : {FALSE}]}

\* Values in chunks, behind their whole length or none
Chunk(v) == LE32(Len(v)) \o v
Known(v) == LE32(Len(v)) \o Zeros(4)
Unknown == <<254, 255, 255, 255, 255, 255, 255, 255>>
NullPlp == [k \in 1..8 |-> 255]
Chunked(total, parts) == total \o Concat([k \in DOMAIN parts |-> Chunk(parts[k])]) \o Zeros(4)

Tiny == Sampled(\h30, <<>>, <<5>>, <<"bytes", <<5>>>>, 1)
NullType == Sampled(\h1f, <<>>, <<>>, Null, 0)
IntN(v) == Sampled(\h26, <<4>>, <<Len(v)>> \o v, IF v = <<>> THEN Null ELSE <<"bytes", v>>, Len(v))
NVarChar(t) == Sampled(\he7, LE16(8) \o Collation, LE16(2 * Len(t)) \o Wide(t), <<"text", t>>, 2 * Len(t))
NullNVarChar == Sampled(\he7, LE16(8) \o Collation, <<255, 255>>, Null, 0)
Binary == Sampled(\ha5, LE16(4), <<2, 0, 7, 8>>, <<"bytes", <<7, 8>>>>, 2)
MaxBinary(total) ==
    Sampled(\ha5, <<255, 255>>, Chunked(total, <<<<1, 2>>, <<3>>>>), <<"bytes", <<1, 2, 3>>>>, 3)
LongBinary == Sampled(\ha5, LE16(400), LE16(380) \o Zeros(380), <<"bytes", Zeros(380)>>, 380)
NullMaxBinary == Sampled(\ha5, <<255, 255>>, NullPlp, Null, 0)
Text == Sampled(\h23, LE32(9) \o Collation, LE32(2) \o <<65, 66>>, <<"text", <<65, 66>>>>, 2)
NullText == Sampled(\h23, LE32(9) \o Collation, <<255, 255, 255, 255>>, Null, 0)
Xml == Sampled(\hf1, <<0>>, Chunked(Unknown, <<<<60, 0, 66, 0>>>>), <<"text", <<60, 66>>>>, 4)
Json(marker) ==
    Sampled(\hf4, <<>>, marker \o Chunked(Known(<<1, 2>>), <<<<123, 125>>>>), <<"text", <<123, 125>>>>, 2)
NullJson == Sampled(\hf4, <<>>, NullPlp, Null, 0)
Udt == Sampled(\hf0, <<8, 0, 1, 68, 0, 1, 83, 0, 1, 84, 0, 1, 0, 65, 0>>,
               Chunked(Known(<<1>>), <<<<6>>>>), <<"bytes", <<6>>>>, 1)
Decimal == Sampled(\h6a, <<5, 9, 2>>, <<5, 1, 2, 3, 4, 5>>, <<"bytes", <<1, 2, 3, 4, 5>>>>, 5)
Time == Sampled(\h29, <<0>>, <<3, 1, 2, 3>>, <<"bytes", <<1, 2, 3>>>>, 3)
Vector ==
    LET v == <<\ha9, 1, 1, 0, 0, 0, 0, 0, 1, 2, 3, 4>>
    IN  Sampled(\hf5, <<12, 0, 0>>, <<12, 0>> \o v, <<"bytes", v>>, 12)
Variant == Sampled(\h62, LE32(20), LE32(4) \o <<\h34, 0, 5, 6>>,
                   <<"variant", \h34, <<"bytes", <<5, 6>>>>>>, 4)
NullVariant == Sampled(\h62, LE32(20), LE32(0), Null, 0)

\* A table of a number, a column left at its default and a text, which comes first in a row
TableType ==
    <<0, 0, 1, 84, 0, 3, 0>> \o Zeros(6) \o <<\h26, 4, 0>> \o <<0, 0, 0, 0, 0, 2, \h26, 4, 0>>
      \o Zeros(6) \o <<\he7>> \o LE16(8) \o Collation \o <<0>>
      \o <<\h11, 3, 0, 3, 0, 1, 0, 2, 0, 0>>
Table(rows) ==
    Sampled(\hf3, TableType,
            Concat([k \in 1..rows |-> <<1, 2, 0, 65, 0, 1, k>>]) \o <<0>>,
            <<"table", rows,
              [k \in 1..(IF rows < TableSample THEN rows ELSE TableSample) |->
                 <<<<"text", <<65>>>>, <<"bytes", <<k>>>>, <<"default">>>>]>>, 3 * rows)
NullTable == Sampled(\hf3, <<0, 0, 1, 84, 0, 255, 255, 0>>, <<0>>, <<"table", 0, <<>>>>, 0)

Samples ==
    {Tiny, NullType, IntN(<<1, 2, 3, 4>>), IntN(<<>>), NVarChar(<<65, 300>>), NVarChar(<<>>), NullNVarChar,
     Binary, MaxBinary(Known(<<1, 2, 3>>)), MaxBinary(Unknown), NullMaxBinary, Text, NullText, Xml,
     Json(<<>>), Json(<<255, 255>>), NullJson, MarkedNull, Udt, Decimal, Time, Vector, Variant, NullVariant,
     Table(1), Table(3), NullTable}
FewSamples == {Tiny, NVarChar(<<65, 300>>), IntN(<<>>)}

\* Types of TDS 4.2: no collation, and text of one byte a character
OldSamples ==
    {Tiny, IntN(<<1, 2>>), IntN(<<>>), Sampled(\h27, <<8>>, <<2, 65, 66>>, <<"text", <<65, 66>>>>, 2),
     Sampled(\h23, LE32(9), LE32(1) \o <<65>>, <<"text", <<65>>>>, 1)}

Batch(procedure, samples, separator, encrypted) ==
    [procedure |-> procedure, options |-> 258, samples |-> samples, separator |-> separator,
     encrypted |-> encrypted]

Call(version, width, max, batches, faults) ==
    [version |-> version, dialect |-> IF version = <<FALSE, FALSE>> THEN "tds7" ELSE "tds72",
     width |-> width, max |-> max, batches |-> batches, faults |-> faults]
OldCall(max, batches) == [Call(<<>>, 0, max, batches, Damages) EXCEPT !.dialect = "tds42"]

Modern == <<TRUE, TRUE>>
Named == <<80, 0, 81, 0>>
One(s) == <<Batch(<<10>>, <<s>>, 0, FALSE)>>
Two(s, t, separator) == <<Batch(Named, <<s>>, separator, FALSE), Batch(<<12>>, <<t, s>>, 0, TRUE)>>
OldTwo(s, t) == <<Batch(<<80>>, <<s, t>>, 128, FALSE), Batch(<<81, 82>>, <<t>>, 0, FALSE)>>


MCCalls ==
    {Call(Modern, 0, 20, One(s), Damages) : s \in Samples}
      \cup {Call(h[1], h[2], max, <<Batch(<<10>>, <<s, t>>, 0, e)>>, {}) :
              h \in {<<<<>>, 0>>, <<Modern, 2>>}, s, t \in Samples, max \in {4, 16}, e \in BOOLEAN}
      \cup {Call(h[1], h[2], 20, Two(s, t, h[3]), {"cut"}) :
              h \in {<<<<>>, 0, 255>>, <<Modern, 4, 254>>, <<Modern, 0, 255>>, <<<<FALSE, FALSE>>, 0, 128>>},
              s \in FewSamples, t \in {Tiny, MaxBinary(Unknown)}}
      \cup {OldCall(max, OldTwo(s, t)) : max \in {4, 20}, s, t \in OldSamples}
      \cup {Call(Modern, 0, 20, [k \in 1..n |-> Batch(<<10>>, <<>>, 255, FALSE)], Damages) : n \in 1..3}
-----------------------------------------------------------------------------
(* Loads *)

Load(rows, wide, crypt, max, faults) ==
    [format |-> "bcp", rows |-> rows, wide |-> wide, crypt |-> crypt, max |-> max, faults |-> faults]

\* Not encrypted, with an algorithm that has a number, or with one that has a name
Crypts == {<<>>, <<1, 1, 1>>, <<0, 1, 65, 0, 2, 1>>}

\* Rows of the same types
Kinds ==
    {{Tiny}, {IntN(<<1, 2, 3, 4>>), IntN(<<7>>), IntN(<<>>)}, {NVarChar(<<65, 300>>), NullNVarChar},
     {Text, NullText}, {MaxBinary(Unknown), MaxBinary(Known(<<1, 2, 3>>)), NullMaxBinary},
     {Json(<<>>), NullJson, MarkedNull}, {Variant, NullVariant}, {Time}}
Columns1 == UNION {{<<<<s>>, <<t>>>> : s, t \in k} : k \in Kinds}
Columns2 == UNION {{<<<<s, u>>, <<t, u>>, <<s, u>>>> : s, t \in k, u \in {Tiny, Text}} : k \in Kinds}

BcpLoads ==
    {Load(r, w, c, max, {}) :
       r \in Columns1 \cup Columns2, w \in BOOLEAN, c \in Crypts, max \in {3, 40}}
      \cup {Load(r, FALSE, <<>>, 40, Damages) : r \in Columns1}
      \cup {Load(<<<<Text, Tiny>>>>, TRUE, c, 40, Damages) : c \in Crypts}
      \cup {Load(<<<<LongBinary>>>>, w, <<>>, 400, {"cut"}) : w \in BOOLEAN}

OldLoads ==
    [format : {"tds42"}, number : {0, 1}, fixed : {<<>>, <<8, 8>>},
     values : {<<<<<<65, 66, 67, 68>>>>>>, <<<<<<1>>, <<>>>>, <<<<2, 3>>, <<4>>>>>>,
               <<<<>>, <<>>, <<<<9>>>>>>},
     texts : {<<>>, <<<<84, 85>>>>, <<<<>>, <<1>>>>}, max : {30, 200}, faults : {Damages}]
\* Values of such lengths that their offsets need more than a byte
LongLoads ==
    [format : {"tds42"}, number : {1}, fixed : {<<>>, Zeros(60)},
     values : {<<[k \in DOMAIN lengths |-> Zeros(lengths[k])]>> :
                 lengths \in {<<200, 60>>, <<200, 60, 0>>, <<200, 60, 10>>, <<200, 96, 260>>, <<260>>,
                              <<266, 250, 10>>}}
       \cup {<<<<Zeros(200), <<>>>>, <<Zeros(250), <<1>>>>>>},
     texts : {<<>>}, max : {2000}, faults : {{}}]
      \cup [format : {"tds42"}, number : {1}, fixed : {Zeros(252)}, values : {<<<<<<1>>>>>>},
            texts : {<<>>}, max : {2000}, faults : {{}}]
Tds5Loads ==
    [format : {"tds5"}, lines : {<<<<1, 2>>>>, <<<<65, 66, 67, 68>>, <<>>, <<3>>>>},
     trailing : {<<>>, <<9>>, <<9, 0, 1>>}, max : {8, 100}, faults : {Damages}]
UpdateTexts ==
    [format : {"update_text"}, text : {[k \in 1..s |-> k] : s \in 0..4}, wide : {TRUE}, crypt : {<<>>}, max : {3},
     faults : {Damages}]

MCLoads == BcpLoads \cup OldLoads \cup LongLoads \cup Tds5Loads \cup UpdateTexts
-----------------------------------------------------------------------------
(* Answers *)

Protocols == {"tds42", "tds46", "tds50", "tds71", "tds72"}
Names == {<<>>, <<77, 83>>, <<65, 66, 67, 68, 69, 70>>}

Silent ==
    [form |-> "response", protocol |-> "tds72", sets |-> <<>>, messages |-> <<>>, failed |-> <<>>,
     server |-> <<77>>, done_proc |-> FALSE, features |-> <<>>, challenge |-> 1, spn |-> <<>>]

CellTexts == {<<>>, <<<<>>>>, <<<<65, 300>>>>, <<<<1, 2, 3, 4, 5, 6>>>>}
ResultSets ==
    {[columns |-> <<<<97>>, <<>>>>, rows |-> r] :
       r \in {<<>>} \cup {<<<<c, d>>>> : c, d \in CellTexts} \cup {<<<<c, c>>, <<<<>>, c>>>> : c \in CellTexts}}
Failure == [number |-> 208, state |-> 1, class |-> 16, message |-> <<66, 300>>]

MCAnswers ==
    {[Silent EXCEPT !.protocol = p, !.sets = s, !.messages = m, !.failed = f, !.done_proc = d] :
       p \in Protocols,
       s \in {<<>>} \cup {<<r>> : r \in ResultSets}
               \cup {<<r, [columns |-> <<<<98>>>>, rows |-> <<<<<<>>>>>>]>> : r \in ResultSets},
       m \in {<<>>, <<<<73>>, <<>>>>, <<[k \in 1..60 |-> 73]>>}, f \in {<<>>, <<Failure>>}, d \in BOOLEAN}
      \cup {[Silent EXCEPT !.form = "success", !.protocol = p, !.server = s, !.features = f] :
              p \in Protocols, s \in Names,
              f \in {<<>>, <<[id |-> 4, data |-> <<1>>], [id |-> 10, data |-> <<>>]>>}}
      \cup {[Silent EXCEPT !.form = "failure", !.protocol = p, !.server = s, !.done_proc = l] :
              p \in Protocols, s \in Names, l \in BOOLEAN}
      \cup {[Silent EXCEPT !.form = "negotiation", !.challenge = c, !.server = s, !.spn = n] :
              c \in {1, 14, 30, 35}, s \in {<<7>>, <<1, 2, 3>>}, n \in {<<5>>, Zeros(32)}}
      \cup {[Silent EXCEPT !.form = f, !.server = s, !.spn = n] :
              f \in {"fedauth", "sspi"}, s, n \in Names}
=============================================================================
