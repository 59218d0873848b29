# Verification of the MSSQL TDS honeypot

TLA+ specifications of metis-tds, the TLC configurations that check them on small instances, and
TLAPS proofs for the shared state, the framing, the TLS adapter, the session, the handler and the
parsers of logins and streams. `PROJECT.json` lists the runs, the mutants, the theorems, the
hazards and, for every definition, the source lines it models.

Run a check with `tlc -config X.cfg M` and a proof with `tlapm M.tla`, in this directory.

## The system

The server is one tokio process. An accept loop (`server/mod.rs`) admits TCP connections
under a global and a per-address limit and gives each a task. The task
(`server/connection.rs`) probes the first byte, negotiates PRELOGIN and TLS
(`server/tls.rs`), reads a login of one of six kinds, decides about it, answers it and
serves requests from a synthetic session (`semantic/`, `session.rs`) until the client
leaves or a limit is reached. Messages are cut into and put together from packets by
`tds/packet.rs` and decoded by the parsers of `tds/`. Three things are shared by the
tasks: the maps and counters of `Shared`, the payload store (`payload/`), and the
telemetry queue (`telemetry/`) with its writer task.

| Part | Source | Module | State |
| --- | --- | --- | --- |
| admission, per-address guards, metrics | `server/mod.rs` | `Admission` (refines `ConnectionPool`) | modelled, proved |
| request rate | `server/mod.rs` | `RateLimit` | modelled, proved |
| login attempts, bypass, decision | `server/connection.rs`, `server/mod.rs` | `SourceAuth` | modelled, proved |
| telemetry queue and writer | `telemetry/mod.rs` | `Telemetry` | modelled, safety proved |
| payload store | `payload/mod.rs` | `PayloadStore` (refines `ContentStore`) | modelled, proved |
| connection handler | `server/connection.rs` | `Connection`, `Taxonomy` | control modelled, safety proved |
| encryption negotiation | `server/connection.rs` | `Taxonomy`, `Connection` | modelled, proved |
| PRELOGIN messages | `tds/prelogin.rs` | `Prelogin` (read by `LoginReaders`) | modelled, proved |
| logins | `tds/login7.rs`, `tds/login.rs` | `Login7`, `LegacyLogin` (read by `LoginReaders`) | modelled, agreement of modes proved |
| TDS 5 streams, capabilities, challenges | `tds/tds5.rs` | `Tds5` (read by `StreamReaders`) | modelled but for RSA, extents and budget proved |
| integrated and federated login material | `tds/sspi.rs`, `tds/fedauth.rs` | `Sspi`, `Fedauth` (read by `PartReaders`) | modelled, checked, extents of `Fedauth` proved |
| batches, transactions, headers, enclave packages | `tds/batch.rs`, `tds/transaction.rs`, `tds/all_headers.rs`, `tds/enclave.rs` | `Requests` | modelled, checked |
| calls, loads, types and values | `tds/rpc.rs`, `tds/bulk.rs`, `tds/data.rs` | `Rpc`, `Bulk`, `Data` | modelled, checked |
| SMP frames | `tds/smp.rs` | `Fedauth` (`parse_smp`) | modelled, extents proved |
| answers | `tds/tokens.rs` | `Tokens` | modelled, checked |
| packet framing | `tds/packet.rs` | `Packet` (refines `MessageChannel`) | modelled, proved |
| TLS in PRELOGIN packets | `server/tls.rs` | `TdsTls` | adapter modelled, safety proved |
| semantic engine, session | `semantic/mod.rs`, `session.rs` | `Semantic` | modelled, proved |
| configuration, personality, entry | `config.rs`, `personality/`, `main.rs` | | not modelled |

## The modules

**Admission.** `stage[c]` is where connection `c` is: in the loop (`accepted`,
`permitted`, `guarded`, `refusing`), in its task (`serving`, `ended`, `dropping`,
`unguarded`), or in neither. `permits` is the semaphore, `perIp` and `tracked` the map of
guards, the rest the metrics. Each access to shared state is one action, so the drop of
the guard and the drop of the permit of one task interleave with the loop. `Stop` is the
return of `serve`; after it the runtime may drop handlers that wait (`CancelHandler`),
whose guard and permit are still returned but whose gauge is not lowered.
`ConnectionPool` says what all this promises: a set of slots and, per source, a bounded
set of guarded connections.

**RateLimit.** `rates` is the map; `ideal` is a map that is never pruned, and `allowed[ip][t]`
counts what passed before the instant `t`, so that the requests of a stretch of time are a
difference of two counts. One call of `allow_request` is one action, as the mutex makes it.

**SourceAuth.** A login is parsed, may go through a TDS 5 password exchange, is numbered
(`Record`, under the mutex), decided and answered, each a step of its own, for several
logins at once. `kind[l]` is what the parser found in it.

**Telemetry.** `emit` is two steps, `Send` (or its failure) and `CountDrop`. The writer
is a loop of receive, file write, file flush, stdout, and the look at the drop counter.
A line is the number of the event in the order of receipt. The file keeps what was written and
what was flushed apart; a write or a flush that fails may have put out the whole line, part of it
or nothing, and after a failed flush the file stays open. `Cancel` is the shutdown of the
runtime, which drops the writer where it waits and the queue with it.

**PayloadStore.** `capture` is one action per system call: check, create, write, sync,
link, recheck, cleanup. Every call may fail and the process may crash between two of them;
a crash takes unsynced data with it and keeps staging files. `ContentStore` is the
promise: a content is added at most once, in one step, and stays.

**Connection** and **Taxonomy.** `pc` is where the handler waits and `stage` the name
`Progress` reports, which lags behind `pc` where the code calls `enter` late. The client
is the choice of each step: the type of the next packet, and whether a read ends with a
message, with an error after part of one, or with a timeout. A message is its type, the
stage that read it, whether it is whole, and the stores it was given to. Parsers succeed
or fail by choice; what a login asks for is its `form`. `Taxonomy` has the tables of
packet types and transport names and the encryption negotiation.

**Packet.** Writer and reader at the two ends of a stream of chunks (a header, a body)
that may break after any of them. `MessageChannel` is the promise: messages arrive whole,
in order and once, until the channel fails. `returned` is what the last call of `read_message`
gave to its caller, the descriptors included. Where `foreign` is chosen at the start, a client
that sends any header of a set, SMP frames included, takes the place of the writer.

**The parsers.** Algorithms rather than processes. `Parsers` has one behaviour per message: the
client chooses what it wants to say, `Client` (external) encodes it, the network may cut the
bytes anywhere (`CutOff`) or replace one of them (`Bend`), and one action per kind of
message hands them to its reader; answers go the other way, from `Tokens` to a client
that walks over the tokens. What the sender meant stays in `input`, so that properties relate
it to what was understood. `Readers` has the message on its way, for `LoginReaders` (PRELOGIN
and the logins), `StreamReaders` (the TDS 5 stream) and `PartReaders` (federated authentication
and frames besides), which are kept apart because theorems are proved about them; the
other readers are in `Parsers` itself. A PRELOGIN stands as the parts it consists of, every other
message as its bytes. The readers are operators on byte strings, one to a function
of the source and with its name where TLA+ allows it:

- `Bytes` has the cursor: little-endian numbers, counted fields, and a read past the
  end as `Failed`. A layout is a sequence of fields. `From`, `Then` and `Given` are the `?`
  of the code.
- `Prelogin`: `parse_inner` with its two modes, one fold for each loop of the code. A
  payload is the unique decomposition of a byte string into whole descriptors, the end of
  the table and the rest; options may point anywhere, also into the table.
- `Login7` and `LegacyLogin`: records with offsets, or fields of fixed places; every fault
  with its two exits, the strict error and the tolerant warning.
- `Tds5`: `ReadToken` is the body of the loop of `parse_authentication`, its state the formats
  that later rows and parameters are read with; `parse_for_telemetry` looks for an
  exchange behind a fault and joins it with what was read before (`Joined`, `Recovered`).
- `Sspi`: NTLM messages and the walk over a DER or BER token with its limits on depth and
  nodes. `Fedauth`: federated-authentication messages in both modes, and SMP frames.
- `Requests`, `Rpc`, `Bulk` and `Data`: headers, enclave packages, batches, transaction
  requests, calls, loads of three formats, and the types and values in them. A value is
  what its decoding keeps: text, bytes, rows, or a scalar by its bytes.
- `Tokens`: every answer as bytes, except for the wording of messages.

The limits of the code (4096 tokens, 1024 columns, depth 32, 255 characters, ...) are
constants, small enough in the run that messages meet them. The legacy login hands its suffix to the
TDS 5 parser, and the TDS 5 parser its security tokens to the SSPI one. What is called there is a
CONSTANT of `LoginReaders` or `StreamReaders` (`AuthenticationAt`, `ParseSspi`, ...) that
`MCParsers.cfg` sets to an operator of `Parsers`, so that the theorems hold whatever the other
parser finds.

**TdsTls.** The adapter's two flags, its partly read packet and its pending write; the TLS
library around it (external: it writes until told to wait, flushes if it wrote, then
reads); a socket that takes any part of a write; and a client with a script of flights.
`wire` has the headers and bytes of the server in order, each with the number of the answer it
belongs to. `Orderly` describes the clients the switch is made for: of the packets that come
wrapped, the very last alone begins with a record other than a ClientHello, and what follows
is raw.

**Semantic.** A statement is the set of tests its text passes and the operands the code
cuts out; `apply_statement` takes the first test that applies in the code's order. `BACKUP`
stands for all branches with a fixed answer and `@@VERSION` for the discovery branches
that do not look at the session. A user or a job without a name has the code's default
(`Identity`, `JobName`). `replayed` is what a reader of the events knows; of an object called
"absent" it knows nothing (`Reportable`).

## Runs

| Run | Shows | Bounds |
| --- | --- | --- |
| `admission` | guards and metrics agree under every interleaving; what a handler held is given back; refinement of `ConnectionPool` | 5 connections, 2 sources (3 + 2), limits 3 and 2: both limits are met, and the second while a permit is held |
| `telemetry` | events accounted for, the file in the order of receipt and complete but for what an error strikes, drops noticed | 2 producers with 2 events each, queue of 2: overflow with both producers between send and count, and a shutdown at any point |
| `payload_store` | published content is complete; a success leaves no staging file; refinement of `ContentStore` | 3 captures of one content and one oversized, one crash |
| `source_auth` | numbering, entitlement | 3 logins of 9 kinds, 2 sources, threshold 2: the third attempt is the first beyond it |
| `rate_limit` | the burst bound, the pruning, the bound on the map | 2 sources, 2 requests in a window of 2, retention 4, 6 ticks: the ratio 60 s : 120 s is kept and pruning happens |
| `connection` | credentials, diagnostics, accounting of requests, encryption, end | 2 requests; every configuration, packet type and login form |
| `packet` | messages arrive; refinement of `MessageChannel`; the limits and the descriptors, also against any framing | 2 messages of up to 3 bytes, capacities 1, 2 and 3, identifiers modulo 3 (empty, exact and multi-packet messages, and the wrap); foreign packets of at most 24 and messages of at most 32 bytes, 3 packets, 3 frames |
| `parsers` | strict and tolerant parses agree, and values of a PRELOGIN lie apart; every byte is reported once; limits hold, also where two readings are joined; the first exchange behind a fault is found; logins, requests, DER tokens and answers are read back as they were meant; a part of a message is not taken for another message, but for a load that counts itself | 14 kinds of message, 466 thousand states: PRELOGIN tables of up to 3 options, logins of four versions, TDS 5 streams of every command and of up to three fragments, DER trees of depth 3, calls of up to 2 procedures over all types and encodings of values, loads of four formats (some with values long enough that offsets take more than a byte), answers for five protocol versions; most of them also cut at every byte and with each byte replaced by one of five |
| `tds_tls` | packets on the wire are whole, bytes wrapped until the client has finished, the switch at the right packet, the end of the handshake | packets of 2 bytes; answers of one or several records, one longer than a packet; hello in one or two packets, after an empty one, or sent twice |
| `semantic` | the events tell the session, also after an error, but for objects called "absent"; impersonation unwinds | 2 requests of up to 2 statements, 2 databases, a login called "absent", a job without a name, depth saturating at 1 |

Symmetry is used for the logins of `source_auth` (safety only). `rate_limit` leaves the
`limited` metric out of its view: no guard and no property reads it.
Deadlock is not checked because in every model the system may come to rest: all
connections released, all captures returned, the clock at its bound.

Every property of a passing run has a mutant: a variant of one definition, as a plausible
mistake would make it, under which the run fails.

### Where documentation and code differ

Two runs each check one statement of the documentation or of a comment and find a
behaviour of the code that contradicts it; `findings` in `PROJECT.json` quotes the lines.

- `connection_incomplete`: a login-only TLS packet that breaks off leaves nothing behind.
- `tds_tls_retry`: a ChangeCipherSpec record before a second ClientHello, in one packet,
  ends the wrapping early.

Other places where the models follow the code and a document says something else, or where
the code does not do what its callers count on:

- `server/tls.rs:480`: a flush that completes a packet whose write is still pending for the
  TLS library forgets the accepted length, so the library, which was never told that the
  write succeeded, offers the same bytes again (`Flush`, then `WriteWrapped`). It takes an
  answer of two records, or of one longer than a packet, and a socket that is full in
  between.
- `README.md:17` says that telemetry records every observation. An event that meets a full
  queue is counted, not recorded (`SendFails`, `CountDrop`), and of two assemblies in one
  batch only the last is captured, because an outcome has one slot for a payload (`Creates`).
- `README.md:35` says that attempts beyond the threshold are accepted. One whose login has
  parse warnings, or asks for a password exchange that is not completed, is rejected
  (`Undecidable` in `SourceAuth`).
- `tds/mod.rs:51` asks for the table of packet types to be chosen by the negotiated protocol.
  It is chosen by the name of the transport, which for a legacy login in login-only TLS
  stays a Microsoft one (`ProtocolTransport`, `AuthFor`).
- `README.md:33` says that incomplete exchanges are retained under the same policy. Part of
  a legacy login over TDS 8 becomes an ordinary artifact (`AuthFor` with `tds8`).
- `tds/tds5.rs:1202` and `docs/protocol-coverage.md:36` say that no malformed region hides an
  authentication exchange. Recovery returns with the first exchange it finds: of foreign bytes,
  an exchange, an unknown token and another exchange the second exchange becomes an unparsed
  region (`ExchangeRecovered` says so). Of two exchanges and an unknown token, in this order,
  recovery starts at the second, inside what has already been parsed, and the first becomes an
  unparsed region (`Recovered`); and of a complete exchange at the very beginning with a
  malformed region behind it nothing is reported, because recovery looks from the second
  byte on.
- `tds/tds5.rs:1343`: of two symmetric keys in one stream the last one is kept, but when
  recovery has joined two readings the first (`Assign`, `Prefer`).
- `tds/login.rs:308`: the recovery of a suffix is tried when its parse fails, not when it stops
  at an unknown token (`Authentication`).
- `tds/login7.rs:170`: for a message whose declared length is wrong the telemetry reports an SSPI
  token that `sspi_token` does not return (`LoginsHaveOneReading` relates them for what the
  strict parse accepts).
- `tds/data.rs:408` says that both encodings of a JSON value are accepted. A null in the marked
  form is read as a null in the other one, and its last two bytes are left for the next
  field (`json_value`); no call or load with one is understood (`CallMisread` and `LoadMisread`
  in `RequestsReadBack`).
- `tds/data.rs:700` indexes the first byte of a value without looking at its length, which
  is zero for a `sql_variant` of type `0x30` with nothing behind its header. The decoding ends
  in a panic (`Panicked` in `Data`), and the release profile aborts on one; in the model the reading
  ends there. The test at
  `tds/rpc.rs:323` is named `malformed_rpc_never_panics`, and `docs/protocol-coverage.md`
  says that every parser is exercised without panics.
- `tds/bulk.rs:209`: a wrap of the one-byte offsets of a TDS 4.2 row is found by comparing the
  raw byte with the adjusted offset before it (`Offsets`), and the adjustment bytes are not read.
  A row with two offsets in the same 256 bytes beyond the first, or with a value of 256 bytes, is
  refused or, as one with values of 266, 250 and 10 bytes, read with other lengths (`Unfolds` says
  which rows are understood).
- `tds/bulk.rs:106` and `tds/bulk.rs:339`: what is not a load is tried as the new value of a text,
  which is four bytes of length and as many bytes as they say. A load that breaks off where its
  own first four bytes count the rest is taken for one: two bytes behind the first row of a TDS 4.2
  load, if that row has no values and the number 0, and at 389 bytes of a load of one column
  (`CountsItself` in `CutsInventNothing`).
- `telemetry/mod.rs:111` throws the result of a flush away and keeps the file open. A line may be
  missing or broken off then, and the next is written behind the part, so an error can cost the
  events of two lines (`FileFlush`, `Readable`).
- `semantic/mod.rs:773`: a change is reported if the new value is not the old one, and a new login,
  assembly or job has the old value "absent". One with that name is made and not reported
  (`Reportable`).
- `server/connection.rs:1791`: a request that is half read when a deadline passes is dropped
  without capture; every other way out of the read captures it.
- `docs/protocol-coverage.md:6` says that unknown material is retained. A message in place
  of an SSPI continuation is refused before it is captured.

## Fairness

- `Admission`: the tail of `connection_task` has no await point, so once begun it finishes.
  Nobody has to connect and no handler has to return.
- `Telemetry`: the writer task is polled, and its file operations return. Producers that
  failed to send count the drop, which is the next instruction.
- `Connection`: every read has a timeout and the rest is computation, so the handler leaves
  every state except a write, which has no timeout. `ConnectionCloses` therefore says that
  a connection is closed or stays in one write for ever.
- `Packet`: both ends are polled. Nothing is assumed of the stream, which may break.
- `TdsTls`: the task is polled while it can go on, the client sends its flights, and the
  socket takes what it is offered again and again (strong fairness, since a poll may find
  it full any number of times). The login timeout would end a handshake that stalls;
  `HandshakeCompletes` does not rely on it.

## Proofs

Eight modules hold the proofs, for every value of the constants that satisfies the ASSUMEs
(non-empty limits, finite sets of connections, and so on, as `Config::validate` and the types
guarantee). Each part about a process follows one plan: an inductive invariant holds at the
start and is kept by every step (one lemma or step for each action or, in ConnectionProofs, a
lemma for each conjunct), so `Spec => []` of it, and each theorem about a property follows from
that. The invariant is called `IInv`, or has a name of its own where a module has several:
`SharedProofs` covers the three components that all connections share, whose definitions are
told apart by a prefix (`AuthSpec`, `RateSpec`, `StoreSpec`), and `EventProofs` and
`PacketProofs` have two parts each. Besides the properties of the runs the modules prove type
correctness and some properties no run lists: `PermitAccounting`, `LimitsHold` and
`RejectedOnlyAtLimit` of `Admission`, `StoredOnce` and `PublishedIsKept` of `PayloadStore`,
`BypassOnlyAfterThreshold` and `DelegatedNeverCounts` of `SourceAuth`, `NothingRefused` of
`Packet`, and that the TLS adapter refuses no packet of an orderly client.

- **AdmissionProofs.** The properties are equations between counters and cardinalities.
  `IInv` is all of them together, with the finiteness of the sets and the fact that handlers
  are cancelled only after the stop. `CountStep` and `CountGuards` say how
  the cardinality of a set of connections changes when one connection moves. Refinement
  maps each step to one of the pool or to a stutter (`PoolStep`).
- **EventProofs**, telemetry. `Accounted` is inductive with the types. For the file, `FileInv`
  says that the lines ascend, that a line is whole unless its operation failed, and that each
  event received has a whole line, or failed, or is the one in the writer's hands (`InHand`),
  whose line is in the buffer at most. From this `FileFollows` is drawn: a whole line can be
  read back unless the line before it is broken off, and the line before it is then that of the
  event before. The file is taken to be empty, or to end in a line break, when it is opened.
- **SharedProofs**, login attempts. The numbers given out for a source are exactly
  `1 .. attempts`, one login each, and a decision follows from the number it was made with
  (`AuthInv`).
- **SharedProofs**, request rate. Pruned and ideal map agree on each window in force, and an
  entry the map lacks is one whose window has expired (`RateInv`); this needs the retention to
  be at least the window. For the bound on the map, `Recent` adds that the windows in it have
  begun, and each call prunes those older than a retention time (`CallPrunes`). For the burst
  bound `PaceInv` follows the counts of one source against its ideal window (`Paced`): what
  passed since the window began is its count, any stretch that ends where the window begins and
  is shorter than a window saw at most one limit, and so a stretch of a window's length, which
  meets two windows at most, saw at most two. `PacedUse` is the step of one request.
- **SharedProofs**, payload store. The invariant ties each stage of a capture to the state of its
  staging file (complete from the sync on), and `newly_stored` to the capture that linked.
- **PacketProofs**, any sender. Whoever sends, headers and bodies alternate on the stream and
  each body has the length its header announces (`Framing`); a header that has been taken leaves
  room for its body (`Reading`). From this follow the limits and the tiling of the descriptors;
  a descriptor appended where the payload ends keeps them tiling (`TilesAppend`), up to the
  message that is returned.
- **PacketProofs**, the channel. With `write_message` at the other end, the invariant gives every
  chunk a place, a message and an offset in it: the first is where the reader stands, each chunk
  leads to the place of the next, and the last to where the writer stands (`Traced`). So no check
  of `read_message` can fail, what it has put together is a prefix of the message that is due,
  and the last packet completes exactly that message. `LocatedGrows` and `LocatedShrinks` move
  the places with the stream.
- **ConnectionProofs.** The invariant has a part for each promise: the counts (`Counting`), the
  channel of each stage (`Negotiation`), the stages that may have credentials in the clear
  behind them (`Exposure`), and what the store was given of the message in hand (`Kept`). The
  last is not inductive alone: whether a type carries credentials depends on the stage that read
  it (`Messages`), and the table that decides goes by the transport's name, which tells legacy
  sessions from others only because a login renames it and a peek has fixed the type that comes
  next (`Transport`).
- **TdsTlsProofs.** For any client, `FrameInv`: what is on the wire and what is still pending are
  together a sequence of whole packets and raw bytes (`Framed`). This is stronger than
  `FramesWhole`, in which the last packet may be cut, and is what a step that puts out a part of
  a packet leaves as it was; it needs that nothing is pending once writes are raw (`Waiting`). For
  orderly clients, `SwitchInv`: a flight is arriving, and what the library has read, what the
  adapter holds, what is on its way and what is unsent are the flight (`Arriving`), or it has
  been read and its answer is under way (`Between`), or the last packet of the last flight
  has been read and both directions are raw (`Switched`). That clients are orderly is a
  hypothesis of these theorems, `Spec /\ Orderly(script)`; it cannot be dropped, since
  `tds_tls_retry` shows a client for which the switch comes too early. `MCTdsTls` has TLC
  evaluate that the clients of the passing run are orderly and the one of `tds_tls_retry` is not.
- **EventProofs**, the session. `SessionInv` says that the session and the outcome in hand have
  their fields and that no change is kept between requests, next to the two properties. The
  events are replayed by a recursive function over the changes of an outcome, so the proof is an
  induction over data: `Least` gives the least counterexample of a set of numbers, and with it
  `ReplaysMore` shows that replaying one more change is one more step of `Replay`, and
  `FirstStep` that leaving items out of a sequence (`Without`) goes item by item, which
  `ReportableMore` uses for objects called "absent" and `ExecutedBatch` for calls that are not
  to be executed. Each branch of `apply_statement` then changes
  the session and appends the change that tells it (`TellsChange`), or does neither
  (`TellsNothing`), also in a batch that an error ends.
- **LoginProofs.** A parser is an algorithm, so there is nothing to be inductive about in its
  states: the lemma `LoginsAreComputed` says that what a handler has made of a message is what
  the parser gives for the bytes that arrived, and the rest is about operators on any byte
  string. The loops of the parsers are recursive functions over the number of their turns.
  `Loop` shows that such a function exists and `Upward` that what holds at first and is kept by
  every turn holds at the end; both rest on `Least`, which says that a set of numbers has a
  least element. The strict and the tolerant parse are run side by side: `Lockstep` holds of two
  reports that are the same and without a fault so far, or of which the strict one has refused
  and the tolerant one has noted something, and each step of the three parsers keeps it, however
  many options, fields and features there are. For `sspi_token`, `Carries` says that a report
  that has its token keeps it. For the values of a PRELOGIN, an option that would overlap an
  earlier one adds a fault (`PreloginApart`). From these, `OneReader`: `LoginSpec =>
  []LoginsHaveOneReading`.
- **StreamProofs.** `Covers` says that parts hold each position of a range once. A reading of a
  TDS 5 stream is `Sound` if its tokens cover what lies between its start and its cursor, the
  formats it remembers are columns, and the bytes of its values are those it has counted, within
  the limit. `Follows` relates a reading to the one before it; every field, column, value and
  token of the parser keeps it, and `NextTokenFollows` shows that a turn advances the cursor, so
  that the loop, which has a turn for every item it may keep and for every five bytes, ends at
  the end of the stream or at a fault. `TelemetryWhole` joins the reading before a fault, the
  region that was not understood and the reading behind it, where recovery may also start inside
  what has been read. `FedauthOnce` and `FramesOnce` do the same for the parts of a
  federated-authentication message and for frames. With the lemma `PartsAreComputed` these give
  `EveryByteOnce` (`PartSpec => []BytesHaveOneMeaning`) and `WithinTheLimit` (`StreamBudget`,
  which is the part of `BudgetHolds` about streams).

In `LoginSpec` and `PartSpec` any bytes may arrive and any other handler may report anything. The
messages of the run are some of those and its handlers some of these, so `Spec` of `Parsers` has
no behaviour the two do not have; that is by construction, and not a theorem, because `Parsers`
reaches the RECURSIVE operators of the other readers. The assumptions are that the limits are
natural numbers and a damaged byte is a byte (`LoginLimits`, `StreamLimits`, `FrameLimit`,
`BentAreBytes`); nothing is assumed of the operators that stand for other parsers.

Leaves that take long, or that only one prover can do, name it, with a time limit where
needed (`SMTT`, `ZenonT`), so that the proofs do not depend on how busy the machine is. In the longer
modules most leaves that Zenon can do name it, since the translation for the SMT solver becomes slower
as a module goes on.

Only model-checked: all liveness (`DropsAreNoticed`, `ReturnedIsReleased`, `ConnectionCloses`,
`MessageArrives`, `HandshakeCompletes`), because the prover has no rules for fairness and
ENABLED; and of the parsers `ExchangeRecovered`, `DerExact`, `LoginsReadBack`,
`RequestsReadBack`, `CutsInventNothing`, `AnswersReadBack` and what `BudgetHolds` says beyond
`StreamBudget`. They relate a reader to the encoder of `Client` or are about the readers of requests,
values and DER tokens, which are RECURSIVE operators, and the SMT backend cannot be used with
those.

## Limits of the model

- `Connection` takes what a parser reports as a choice (success, failure, what a login asks
  for); the parsers themselves are in `Parsers`. The two are not composed, since the
  handler takes every outcome that a tolerant parse can have.
- The parsers: a character is a UTF-16 unit or a byte. An unpaired surrogate becomes a replacement
  character in the code and fails nothing, so it is not told apart; the lossy
  conversion of UTF-8 and the control characters above 127 are left out of the texts of a DER
  token. Numbers, dates and decimals are their bytes. A length of four bytes whose last byte is
  not zero is one value, `Huge`, beyond every message. Messages are damaged in one place.
- The RSA operations of TDS 5 (`decrypt_*`) are library calls on opaque bytes.
- `TdsTls`: the clients of the passing run, and of the theorems about the switch, are orderly. No
  ChangeCipherSpec comes before a second hello, which is the run `tds_tls_retry`, and the first
  byte of a continuation packet does not look like a final flight, although it is arbitrary
  in the code. That every byte is sent once does not hold (see above), so no run asks it.
  PrefixedIo, the acceptor's set-up and the framing of login-only TLS are left
  out, the last being one step of `Connection`.
- `Connection` models one connection; decisions on attempts and rates are free choices there
  and precise in `SourceAuth` and `RateLimit`. Byte counters and event fields are left out.
- USE is found anywhere in a statement, so SYSTEM_USER is taken for a change of
  database. `Semantic` keeps this; no document says what should happen.
- A configured packet size of 8 or less makes every answer after the login fail; `Packet`
  assumes a larger one, and messages of no more bytes than a message may have packets, so that
  the packet limit is not met at any packet size. The session identifier (u32) is taken not to wrap.

## Not modelled

- Configuration (`config.rs`), the personality and the entry point: files are read and
  checked once, before anything runs; the bounds that `validate` establishes are the ASSUMEs of
  the modules, and the comparison of credentials is a choice of `SourceAuth`.
- The byte counters of `MeteredIo`, and the layout of events: copies of what the modelled state
  holds.
- `PrefixedIo`, the TLS acceptor and the stream after a login-only exchange: what they do depends on
  what the TLS library has read ahead, which it does not say. (`server/tls.rs:191` drops
  the library's buffer when the stream becomes plain again.)
- The wording of results, messages and warnings.

Next: the composition of `Connection` with `Admission`, `RateLimit` and `SourceAuth`, so that a
stuck write is seen to hold its permit; the remaining readers (`Requests`, `Rpc`, `Bulk`, `Data`,
`Sspi`) and the encoders as recursive functions, so that their round trips can be proved.
