------------------------------ MODULE Parsers -------------------------------
(***************************************************************************)
(* The readers and writers of src/tds side by side: a client sends a       *)
(* message, which arrives whole, cut or with another byte in it, and the   *)
(* handler of its kind reads it (LoginReaders, StreamReaders and           *)
(* PartReaders have some of them, the others are here).  Each kind has its *)
(* own form of result.  What the client meant stays beside the bytes, and  *)
(* what the server wants to say beside its answer.                         *)
(***************************************************************************)
EXTENDS Client, LoginReaders, PartReaders

CONSTANTS
    Payloads, Greetings,       \* PRELOGIN: what clients send, and what encode is given
    Login7s, Logins,           \* LOGIN7, and the LOGIN of older versions
    Streams,                   \* the tokens of TDS 5
    Ntlms, Trees,              \* integrated authentication
    Fedauths, Muxes,           \* federated authentication, session multiplexing
    SqlBatches, Transactions, Calls, Loads,
    Answers,                   \* what the server is to say
    RowSample,                 \* of sampled rows
    MaxDepth, MaxNodes, MaxTableColumns, MaxTableRows, TableSample, MaxParameters, MaxBatches,
    MaxBulkColumns, MaxBulkRows, MaxStrings, MaxShort, MaxLong

\* What may happen to a message on its way
Damages == {"cut", "bent"}

Sspi == INSTANCE Sspi
Requests == INSTANCE Requests
Rpc == INSTANCE Rpc
Bulk == INSTANCE Bulk
Tokens == INSTANCE Tokens

\* The readers of integrated authentication as the TDS 5 stream uses them
SspiOid(b) == Sspi!decode_der_oid_tlv(b)
SspiToken(b) == Sspi!parse(b)

\* The readers of the TDS 5 stream as the LOGIN record uses them
StreamCapabilities(b, i, end) == Tds5!parse_capabilities(b, i, end)
StreamTokens(b, offset, limit) == Tds5!parse_authentication(b, offset, limit)
StreamTelemetry(b, limit) == Tds5!parse_for_telemetry(b, limit)
-----------------------------------------------------------------------------
(* Bytes of requests *)

CallBytes(c) ==
    (IF c.version # <<>> /\ c.version[1] THEN TransactionHeader ELSE <<>>)
      \o EncodeCall(c.batches, c.dialect,
                    IF c.width = 0 THEN <<>> ELSE <<1>> \o [k \in 1..(c.width - 1) |-> 0] \o <<99>>)

ParseCall(c, b) ==
    IF c.dialect = "tds42" THEN Rpc!parse_legacy42(b, c.max)
    ELSE Rpc!parse_inner(b, c.version, c.width, c.max)

LoadBytes(l) ==
    CASE l.format = "bcp" -> EncodeLoad(l.rows, l.wide, l.crypt)
      [] l.format = "tds42" ->
           Concat([k \in DOMAIN l.values |->
                     EncodeBcpRow(l.number, l.fixed, l.values[k])
                       \o Concat([j \in DOMAIN l.texts |-> EncodeBcpText(l.texts[j])])])
      [] l.format = "tds5" ->
           Concat([k \in DOMAIN l.lines |-> LE16(Len(l.lines[k])) \o l.lines[k]]) \o l.trailing
      [] l.format = "update_text" -> LE32(Len(l.text)) \o l.text

ParseLoad(l, b) ==
    CASE l.format = "tds42" -> Bulk!parse_tds42_message(b, l.max, RowSample)
      [] l.format = "tds5" -> Bulk!parse_tds5_rows(b, l.max, RowSample)
      [] OTHER -> Bulk!parse_message(b, l.max, l.wide, l.crypt # <<>>, RowSample)

BatchBytes(r) ==
    IF r.old THEN r.sql
    ELSE TransactionHeader \o (IF r.width = 0 THEN <<>> ELSE <<2>> \o [k \in 1..(r.width - 1) |-> 0]
                                                        \o <<7, 7>>) \o Wide(r.sql)

TransactionBytes(r) == TransactionHeader \o LE16(r.type) \o r.body

\* The challenge of a kind of encrypted login, by the type of its message
Challenge(type, key, nonce) ==
    CASE type = 1 -> Tds5!proprietary_login_challenge(key)
      [] type = 14 -> Tds5!challenge(type, key)
      [] type \in {30, 35} -> Tds5!challenge_with_nonce(type, key, nonce)

AnswerBytes(a) ==
    CASE a.form = "response" ->
           Tokens!response(a.protocol, a.sets, a.messages, a.failed, a.server, a.done_proc)
      [] a.form = "success" ->
           Tokens!login_success(a.protocol, <<\h74, 0, 0, 4>>, a.server, a.server, 4096, a.server,
                                a.features)
      [] a.form = "failure" -> Tokens!login_failure(a.protocol, a.server, a.done_proc)
      [] a.form = "negotiation" ->
           Tokens!tds5_login_negotiation(Challenge(a.challenge, a.server, a.spn)[1], a.server)
      [] a.form = "fedauth" -> Tokens!fedauth_info(a.server, a.spn)
      [] a.form = "sspi" ->
           Tokens!sspi_challenge(Sspi!ntlm_challenge(Wide(a.server), [k \in 1..8 |-> k]))
-----------------------------------------------------------------------------
(* A message is sent, and may be damaged on its way *)

\* A PRELOGIN stands as the parts it consists of, and an answer is yet to be written.
Encoded(m) ==
    CASE m.kind \in {"prelogin", "greeting", "answer"} -> <<>>
      [] m.kind = "login7" -> EncodeLogin7(m.login7)
      [] m.kind = "login" -> EncodeLogin(m.login)
      [] m.kind = "stream" -> m.stream.bytes
      [] m.kind = "ntlm" -> m.ntlm.before \o EncodeNtlm(m.ntlm.type, m.ntlm.flags, m.ntlm.texts)
      [] m.kind = "der" -> EncodeTree(m.tree)
      [] m.kind = "fedauth" -> EncodeFedauth(m.fedauth.token, m.fedauth.nonce)
      [] m.kind = "smp" -> EncodeFrames(m.frames)
      [] m.kind = "batch" -> BatchBytes(m.batch)
      [] m.kind = "transaction" -> TransactionBytes(m.transaction)
      [] m.kind = "call" -> CallBytes(m.call)
      [] m.kind = "load" -> LoadBytes(m.load)

Init ==
    /\ \/ \E m \in Payloads : input = [kind |-> "prelogin", faults |-> {}, payload |-> m]
       \/ \E m \in Greetings : input = [kind |-> "greeting", faults |-> {}, greeting |-> m]
       \/ \E m \in Login7s : input = [kind |-> "login7", faults |-> Damages, login7 |-> m]
       \/ \E m \in Logins : input = [kind |-> "login", faults |-> Damages, login |-> m]
       \/ \E m \in Streams : input = [kind |-> "stream", faults |-> m.faults, stream |-> m]
       \/ \E m \in Ntlms : input = [kind |-> "ntlm", faults |-> Damages, ntlm |-> m]
       \/ \E m \in Trees : input = [kind |-> "der", faults |-> Damages, tree |-> m]
       \/ \E m \in Fedauths : input = [kind |-> "fedauth", faults |-> Damages, fedauth |-> m]
       \/ \E m \in Muxes : input = [kind |-> "smp", faults |-> Damages, frames |-> m]
       \/ \E m \in SqlBatches : input = [kind |-> "batch", faults |-> Damages, batch |-> m]
       \/ \E m \in Transactions :
             input = [kind |-> "transaction", faults |-> Damages, transaction |-> m]
       \/ \E m \in Calls : input = [kind |-> "call", faults |-> m.faults, call |-> m]
       \/ \E m \in Loads : input = [kind |-> "load", faults |-> m.faults, load |-> m]
       \/ \E m \in Answers : input = [kind |-> "answer", faults |-> {}, answer |-> m]
    /\ wire = Encoded(input)
    /\ LoginInit
-----------------------------------------------------------------------------
(* The handlers *)

ReadGreeting ==
    /\ Handles("greeting")
    /\ output' = <<Prelogin!parse_inner(Prelogin!encode(input.greeting), FALSE)>>

ReadNtlm ==
    /\ Handles("ntlm")
    /\ output' = <<Sspi!parse(wire)>>

ReadDer ==
    /\ Handles("der")
    /\ output' = <<Sspi!recover_der_inventory(wire)>>

ReadBatch ==
    /\ Handles("batch")
    /\ output' = <<IF input.batch.old THEN Requests!decode_legacy(wire, input.batch.max)
                    ELSE Requests!parse_sql(wire, input.batch.max, input.batch.width, <<TRUE, TRUE>>)>>

ReadTransaction ==
    /\ Handles("transaction")
    /\ output' = <<Requests!parse_transaction(wire, 0, <<TRUE, TRUE>>)>>

ReadCall ==
    /\ Handles("call")
    /\ output' = <<ParseCall(input.call, wire)>>

ReadLoad ==
    /\ Handles("load")
    /\ output' = <<ParseLoad(input.load, wire)>>

Answer ==
    /\ Handles("answer")
    /\ output' = <<AnswerBytes(input.answer)>>

Next ==
    \/ CutOff \/ Bend
    \/ ReadPrelogin \/ ReadGreeting \/ ReadLogin7 \/ ReadLogin \/ ReadStream
    \/ ReadNtlm \/ ReadDer \/ ReadFedauth \/ ReadSmp
    \/ ReadBatch \/ ReadTransaction \/ ReadCall \/ ReadLoad
    \/ Answer

Spec == Init /\ [][Next]_vars
-----------------------------------------------------------------------------
(* Properties *)

\* The message came as it was sent, or was cut.
Whole(kind) == Handled(kind) /\ fault = <<>>
WasCut(kind) == Handled(kind) /\ fault = <<"cut">>

\* Bytes of values in what a reader kept
RECURSIVE Kept(_)
Kept(v) ==
    CASE v[1] \in {"text", "bytes"} -> Len(v[2])
      [] v[1] = "table" -> Sum([k \in DOMAIN v[3] |-> Sum([j \in DOMAIN v[3][k] |-> Kept(v[3][k][j])])])
      [] v[1] = "variant" -> Kept(v[3])
      [] OTHER -> 0

\* However a message is damaged, the bytes of values that are kept of it stay within the limit: in a
\* TDS 5 stream also when two readings of it are joined, in a call over all its parameters, batches
\* and table rows, and also when the first reading of a JSON value had to be given up.
BudgetHolds ==
    /\ StreamBudget
    /\ Handled("call") =>
          Sum([k \in DOMAIN Result.batches |->
                 Sum([j \in DOMAIN Result.batches[k].parameters |->
                        Kept(Result.batches[k].parameters[j].value)])]) <= input.call.max

\* Of the login exchanges of TDS 5 (a message of a published type, its format and its parameters)
\* behind foreign bytes the first one is reported: parse_for_telemetry finds its type and its value
\* although strict parsing stops before them.  It is the last one, too: from an unknown token behind
\* it on, all that follows is one unparsed region, a second exchange there included.
ExchangeRecovered ==
    (Whole("stream") /\ input.stream.exchange # <<>>) =>
        LET first == input.stream.exchange
            regions == Result.telemetry.unparsed_regions
        IN  /\ Contains(Result.telemetry.message_types, first.type)
            /\ Contains(Result.telemetry.raw_parameter_values, first.value)
            /\ first.behind # <<>> =>
                  Region(Last(regions)) = [from |-> Len(wire) - Len(first.behind), to |-> Len(wire)]

\* Text that der keeps: of one byte a character, or of two
Texts(t) == Leaves(t, {12, 19, 22, 26, 27})

\* The inventory of a DER or BER token is that of the tree it encodes: its nodes, the object
\* identifiers and texts in it, each once, and the nodes of indefinite length; it counts as complete
\* exactly when the tree is within the limits on depth and nodes.
DerExact ==
    Whole("der") =>
        LET t == input.tree
            nodes == Nodes(t)
            i == Result.inventory
        IN  /\ Result.complete = (Depth(t) <= MaxDepth /\ Len(nodes) <= MaxNodes)
            /\ Result.complete =>
                  /\ i.nodes = Len(nodes)
                  /\ i.oids = [k \in DOMAIN Leaves(t, {6}) |->
                                 [j \in DOMAIN Leaves(t, {6})[k] |-> <<Leaves(t, {6})[k][j]>>]]
                  /\ i.texts = Texts(t)
                  /\ i.indefinite = Len(SelectSeq(nodes, LAMBDA n : n[1] = "node" /\ n[4]))

\* The parts of a NTLM message that are text, in the order of their descriptors
NtlmTexts(t) == IF t.type = 3 THEN SubSeq(t.texts, 3, 5) ELSE t.texts
NtlmRead(t, r) ==
    IF t.type = 3 THEN <<r.domain, r.username, r.workstation>> ELSE <<r.domain, r.workstation>>

Enabled(c) == <<Tds5!enabled_capabilities(c.section[1]), Tds5!enabled_capabilities(c.section[2])>>

\* Who a client says it is arrives as it was meant: the options of a PRELOGIN that encode wrote; the
\* names, the password, the integrated token and the features of a LOGIN7 message; the fields of an
\* older LOGIN and the capabilities it announces; the texts and responses of an NTLM message,
\* wherever in its token it begins; the token and the nonce of a federated login.
LoginsReadBack ==
    /\ Handled("greeting") =>
          LET g == input.greeting
          IN  /\ ~Result.error
              /\ Result.encryption = Prelogin!Encryption[(g.encryption % 128) + 1]
              /\ Result.certificate = (g.encryption >= 128)
              /\ <<2, SelectSeq(g.instance, LAMBDA c : c # 0)>> \in Result.values
              /\ {v \in Result.values : v[1] = 7} = IF g.nonce = <<>> THEN {} ELSE {<<7, g.nonce>>}
    /\ Whole("login7") =>
          LET l == input.login7
              r == Result.strict
          IN  IF Len(wire) > MaxLogin7 THEN r.error
              ELSE
              /\ ~r.error
              /\ <<r.text.hostname, r.text.username, r.text.database, r.password, r.sspi>> =
                    <<l.hostname, l.username, l.database, l.password, l.sspi>>
              /\ r.password_present = (l.password # <<>>)
              /\ [k \in DOMAIN r.features |-> r.features[k].id] =
                    [k \in DOMAIN l.features |-> l.features[k].id]
    /\ Whole("login") =>
          LET l == input.login
              r == Result.strict
          IN  /\ ~r.error
              /\ <<r.text.username, Login!Password(r), r.text.packet_size>> =
                    <<l.username, l.password, l.packet_size>>
              /\ (r.authentication # <<>>) = (l.stream # <<>>)
              /\ [k \in DOMAIN r.capabilities |-> Enabled(r.capabilities[k])] =
                    IF l.major = 5 THEN << <<l.request, l.response>> >> ELSE <<>>
    /\ Whole("ntlm") =>
          LET t == input.ntlm
              unicode == t.flags = 1
              r == Result.ntlm[1]
          IN  /\ Result.family = IF t.before = <<>> THEN "ntlmssp" ELSE "spnego_ntlmssp"
              /\ r.ok /\ r.warnings = {}
              /\ NtlmRead(t, r) = [k \in DOMAIN NtlmTexts(t) |->
                                     IF unicode THEN Units(NtlmTexts(t)[k]) ELSE NtlmTexts(t)[k]]
              /\ t.type = 3 => r.secrets = <<t.texts[1], t.texts[2], t.texts[6]>>
    /\ Whole("fedauth") =>
          LET f == input.fedauth
              to == 8 + Len(f.token)
          IN  (f.expected => f.nonce # <<>>) =>
                /\ Result.strict.ok
                /\ Result.strict.token = Fedauth!Part(8, to)
                /\ Result.strict.nonce = IF f.nonce = <<>> THEN Fedauth!NoPart
                                         ELSE Fedauth!Part(to, to + 32)

\* A call as the sequence of what it asks for
Asked(procedure, options) == <<"call", procedure, options>>
With(id, value) == <<"with", id, value>>
Meant(batches) ==
    Concat([k \in DOMAIN batches |->
              <<Asked(batches[k].procedure, batches[k].options)>>
                \o [j \in DOMAIN batches[k].samples |->
                      With(batches[k].samples[j].id, batches[k].samples[j].value)]])
Understood(batches) ==
    Concat([k \in DOMAIN batches |->
              <<Asked(batches[k].procedure, batches[k].options)>>
                \o [j \in DOMAIN batches[k].parameters |->
                      With(batches[k].parameters[j].type_id, batches[k].parameters[j].value)]])

RowValues(rows) == [k \in DOMAIN rows |-> [j \in DOMAIN rows[k] |-> rows[k][j].value]]
RowSizes(rows) == [k \in DOMAIN rows |-> [j \in DOMAIN rows[k] |-> Len(rows[k][j])]]
FirstRows(rows) == SubSeq(rows, 1, IF Len(rows) < RowSample THEN Len(rows) ELSE RowSample)
LoadSize(l) == Sum([k \in DOMAIN l.rows |-> Sum([j \in DOMAIN l.rows[k] |-> l.rows[k][j].size])])

\* What is limited is the bytes of values, or of the load.
LoadOver(l) ==
    CASE l.format = "bcp" -> LoadSize(l) > l.max
      [] l.format \in {"tds42", "tds5"} -> Len(LoadBytes(l)) > l.max
      [] l.format = "update_text" -> Len(l.text) > l.max

\* The loads that are not understood although they are within the limit
LoadMisread(l) ==
    CASE l.format = "bcp" -> \E k \in DOMAIN l.rows : Contains(l.rows[k], MarkedNull)
      [] l.format = "tds42" ->
           \E k \in DOMAIN FirstRows(l.values) : ~Unfolds(BcpOffsets(l.fixed, l.values[k]))
      [] OTHER -> FALSE

\* What a load holds is what is counted and sampled of it.  (A text may hold what reads as a load, if
\* its length ends in the token of a load's columns.)
LoadUnderstood(l, r) ==
    CASE l.format = "bcp" ->
           r.ok /\ r.format = "bcp" /\ r.rows = Len(l.rows) /\ r.sample = FirstRows(RowValues(l.rows))
      [] l.format = "tds42" ->
           /\ r.ok /\ r.format = "tds42" /\ r.rows = Len(l.values)
           /\ [k \in DOMAIN r.sample |-> r.sample[k].lengths] = FirstRows(RowSizes(l.values))
           /\ r.text_count = Len(l.values) * Len(l.texts)
           /\ r.text_bytes = Len(l.values) * Len(Concat(l.texts))
      [] l.format = "tds5" ->
           /\ r.ok /\ r.lengths = [k \in DOMAIN l.lines |-> Len(l.lines[k])]
           /\ r.trailing = Len(l.trailing)
      [] l.format = "update_text" ->
           \/ r.ok /\ r.format = "update_text" /\ r.bytes = Len(l.text)
           \/ Len(l.text) % 256 = \h81

CallMisread(c) == \E k \in DOMAIN c.batches : Contains(c.batches[k].samples, MarkedNull)
CallUnderstood(c, r) == r.ok /\ Understood(r.batches) = Meant(c.batches)

\* A request that arrives whole is understood as it was meant, and refused if the bytes of its values
\* are over the limit: the statements of a batch behind its headers and enclave package; every
\* command, format, row and parameter set of a TDS 5 stream, as the token that it is; the kind of a
\* transaction request and whether another follows; every procedure of a call with its options, the
\* types of its parameters and their values, be they null, fixed, counted, in chunks, variants or
\* tables; every row of a load; frames, if they are legal.  Two kinds of request are never understood:
\* json_value takes the first bytes of a JSON null behind a marker for one without it and leaves the
\* last two to the next field, and parse_tds42_bcp cannot unfold the offsets of a row with two of
\* them in the same 256 bytes beyond the first, or with a value of 256 bytes.
RequestsReadBack ==
    /\ Whole("batch") =>
          IF Len(wire) > input.batch.max THEN ~Result.ok
          ELSE Result.ok /\ Result.sql = input.batch.sql
    /\ (Whole("stream") /\ input.stream.commands # <<>>) =>
          /\ Result.strict.ok /\ Result.strict.stream.unknown_token = <<>>
          /\ [k \in DOMAIN Result.strict.stream.tokens |-> Result.strict.stream.tokens[k].token] =
                input.stream.commands
    /\ Whole("transaction") =>
          /\ Result.ok
          /\ Result.type = input.transaction.type
          /\ Result.begin_after = input.transaction.begin
    /\ Whole("call") =>
          IF CallMisread(input.call) THEN ~CallUnderstood(input.call, Result)
          ELSE IF SampleBytes(input.call.batches) > input.call.max THEN ~Result.ok
          ELSE CallUnderstood(input.call, Result)
    /\ Whole("load") =>
          IF LoadMisread(input.load) THEN ~LoadUnderstood(input.load, Result)
          ELSE IF LoadOver(input.load) THEN ~(Result.ok /\ Result.format = input.load.format)
          ELSE LoadUnderstood(input.load, Result)
    /\ Whole("smp") =>
          Result.ok = /\ Len(input.frames) <= MaxFrames
                      /\ \A k \in DOMAIN input.frames :
                           LET n == Len(input.frames[k].data)
                           IN  n <= Limit /\ (input.frames[k].flag # 8 => n = 0)

\* Both readings of a stream succeeded, and the first is the beginning of the second.
StreamBegins(part, whole) ==
    (whole.ok /\ part.ok) =>
        /\ IsPrefix(part.stream.tokens, whole.stream.tokens)
        /\ IsPrefix(part.stream.raw_parameter_values, whole.stream.raw_parameter_values)

\* The first four bytes, whatever they stand for, count those that came behind them.
CountsItself(b, max) == Len(b) >= 4 /\ U32(b, 0) = Len(b) - 4 /\ U32(b, 0) <= max

\* A message that breaks off is not read as another one, with one exception.  What ends by its own
\* count (a bulk load of tokens, a transaction request, a federated login, a DER token) is refused
\* when it is cut anywhere; what may go on (the calls of a batch, rows, frames, tokens, the text of a
\* batch) is read up to the cut at most, with nothing in it that the whole does not hold.  The
\* exception is a load that breaks off where its first four bytes happen to count the rest: it is
\* taken for the new value of one text.  So is a TDS 4.2 load whose first row has no values and the
\* number 0, cut two bytes behind that row, and a load of one column cut at 389 bytes.
CutsInventNothing ==
    /\ WasCut("stream") =>
          StreamBegins(Result.strict, Tds5!parse_authentication(input.stream.bytes, 0, Limit))
    /\ WasCut("der") => ~Result.complete
    /\ WasCut("fedauth") => ~Result.strict.ok
    /\ WasCut("transaction") => ~Result.ok
    /\ (WasCut("smp") /\ Result.ok) =>
          \A k \in DOMAIN Result.frames :
             Result.frames[k].to - Result.frames[k].from = 16 + Len(input.frames[k].data)
    /\ (WasCut("batch") /\ Result.ok) => IsPrefix(Result.sql, input.batch.sql)
    /\ (WasCut("call") /\ Result.ok) =>
          IsPrefix(Understood(Result.batches), Meant(input.call.batches))
    /\ WasCut("load") =>
          LET l == input.load
              mistaken == l.format \in {"bcp", "tds42"} /\ CountsItself(wire, l.max)
          IN  /\ mistaken => Result.ok
              /\ Result.ok =>
                   CASE Result.format = "update_text" -> mistaken
                     [] Result.format = "bcp" -> FALSE
                     [] Result.format = "tds42" ->
                          /\ Result.rows <= Len(l.values)
                          /\ IsPrefix([k \in DOMAIN Result.sample |-> Result.sample[k].lengths],
                                      FirstRows(RowSizes(l.values)))
                     [] Result.format = "tds5" ->
                          IsPrefix(Result.lengths, [k \in DOMAIN l.lines |-> Len(l.lines[k])])
-----------------------------------------------------------------------------
(* Answers as a client reads them *)

Legacy(a) == a.protocol \in {"tds42", "tds46", "tds50"}
TokensRead(a) == ReadAnswer(Result.bytes, Legacy(a), a.protocol = "tds72")
IsDone(t) == t.id \in {\hfd, \hfe}
Status(t) == U16(Result.bytes, t.from + 1)
More(t) == Bit(Status(t), 1)
Of(tokens, ids) == SelectSeq(tokens, LAMBDA t : t.id \in ids)

\* A cell as it arrives: in older protocols at most so many characters of ASCII, and an empty text
\* is null.
Arrives(cell, legacy) ==
    IF ~legacy \/ cell = <<>> THEN cell
    ELSE LET n == IF Len(cell[1]) < MaxShort THEN Len(cell[1]) ELSE MaxShort
         IN  IF n = 0 THEN <<>>
             ELSE <<[k \in 1..n |-> IF cell[1][k] > 127 THEN 63 ELSE cell[1][k]]>>

\* The rows between one end and the next, by the numbers of their tokens
RowsBefore(tokens, k) ==
    Cardinality({j \in 1..(k - 1) : tokens[j].id = \hd1 /\ ~\E i \in j..(k - 1) : IsDone(tokens[i])})

ResponseRead(a, tokens) ==
    /\ Len(Of(tokens, {\hab})) = Len(a.messages)
    /\ IF a.failed # <<>>
       THEN /\ Len(Of(tokens, {\haa})) = 1
            /\ Of(tokens, {\hd1, \h81, \ha0}) = <<>>
            /\ Bit(Status(Last(tokens)), 2)
       ELSE /\ [k \in DOMAIN Of(tokens, {\hd1}) |-> Of(tokens, {\hd1})[k].cells] =
                 Concat([s \in DOMAIN a.sets |->
                           [r \in DOMAIN a.sets[s].rows |->
                              [c \in DOMAIN a.sets[s].rows[r] |->
                                 Arrives(a.sets[s].rows[r][c], Legacy(a))]]])
            /\ a.sets # <<>> =>
                 \A k \in DOMAIN tokens : IsDone(tokens[k]) =>
                    U32(Result.bytes, tokens[k].from + 5) = RowsBefore(tokens, k)

\* The two values of FEDAUTHINFO lie where the table says, from the count on.
FedauthInfoRead(a) ==
    LET b == Slice(Result.bytes, 5, Len(Result.bytes))
        option(k) == LET d == 4 + 9 * k
                     IN  Units(Slice(b, U32(b, d + 5), U32(b, d + 5) + U32(b, d + 1)))
    IN  <<option(0), option(1)>> = <<a.server, a.spn>>

\* The name in an NTLM challenge, behind the head of its token
ChallengeRead(a) ==
    LET b == Slice(Result.bytes, 3, Len(Result.bytes))
    IN  /\ Sspi!security_buffer_value(b, 0, 12) = [ok |-> TRUE, bytes |-> Wide(a.server)]
        /\ Sspi!security_buffer_value(b, 0, 40).ok

\* A TDS 5 client finds the message and what it is to answer with.
NegotiationRead(a, p) ==
    LET values == CASE a.challenge = 1 -> <<a.server>>
                    [] a.challenge = 14 -> <<LE32(1), a.server>>
                    [] OTHER -> <<LE32(1), a.server, a.spn>>
    IN  /\ p.ok /\ p.stream.unknown_token = <<>>
        /\ p.stream.message_types = <<a.challenge>>
        /\ p.stream.raw_parameter_values = values

\* Nothing in the answer is longer than a short text may be.
Short(a) ==
    /\ \A t \in {a.server, a.spn} \cup Range(a.messages) : Len(t) <= MaxShort
    /\ \A s \in DOMAIN a.sets : \A r \in DOMAIN a.sets[s].rows : \A c \in DOMAIN a.sets[s].rows[r] :
          a.sets[s].rows[r][c] = <<>> \/ Len(a.sets[s].rows[r][c][1]) <= MaxShort

AnswerRead(a, read) ==
    /\ read.ok
    /\ a.form \in {"response", "success", "failure"} =>
         /\ IsDone(Last(read.tokens))
         /\ \A k \in DOMAIN read.tokens :
               IsDone(read.tokens[k]) => (More(read.tokens[k]) = (k < Len(read.tokens)))
    /\ a.form = "response" => ResponseRead(a, read.tokens)
    /\ a.form = "success" => Len(Of(read.tokens, {\had})) = 1 /\ Of(read.tokens, {\haa}) = <<>>
    /\ a.form = "failure" => Len(Of(read.tokens, {\haa})) = 1 /\ Bit(Status(Last(read.tokens)), 2)
    /\ a.form = "fedauth" => FedauthInfoRead(a)
    /\ a.form = "sspi" => ChallengeRead(a)

\* An answer is one sequence of tokens to its last byte, in the framing of the client's protocol
\* version: exactly the last completion token says that nothing follows, each counts the rows before
\* it, rows arrive as the result set has them, messages and errors once each; a login answer
\* acknowledges once.  The tables of FEDAUTHINFO and of the NTLM challenge point to their values, and
\* the key and the nonce of an encrypted login are found by a TDS 5 client.  Only what is too long
\* for its length field is not answered.
AnswersReadBack ==
    /\ Handled("answer") => (Result.ok \/ ~Short(input.answer))
    /\ (Handled("answer") /\ Result.ok) =>
          IF input.answer.form = "negotiation"
          THEN NegotiationRead(input.answer,
                               Tds5!parse_authentication(Result.bytes, 0, Len(Result.bytes)))
          ELSE AnswerRead(input.answer, TokensRead(input.answer))
=============================================================================
