----------------------------- MODULE Connection -----------------------------
(***************************************************************************)
(* One client connection, from its first byte to the report that closes it *)
(* (src/server/connection.rs, with the failure report of src/server/mod.rs). *)
(*                                                                         *)
(* pc is where the handler waits, stage the name that Progress reports,    *)
(* which lags behind pc wherever the code calls enter late.  The client    *)
(* and the network are the choices of each step: what type of packet comes *)
(* next, and whether a read ends with a whole message, with an error after *)
(* a part of one, or with a timeout.  Of a message the model keeps its     *)
(* type, the stage that read it, whether it is whole, and what the handler *)
(* gave to the payload store: "authentication" for a credential bearing    *)
(* message, "artifact" for any other.                                      *)
(***************************************************************************)
EXTENDS Taxonomy, Naturals

CONSTANT MaxRequests        \* max_requests_per_session

ASSUME MaxRequestsAssumption == MaxRequests \in Nat

VARIABLES
    config,         \* TLS mode, payloads.enabled, captures_login_messages()
    pc, stage,
    channel,        \* the stream is the socket or a TLS stream over it
    first,          \* the first byte the client sent, kept in read_prefix
    next,           \* the type that a peek has seen to come next, or "any"
    transport,
    advertised,     \* encryption announced by the PRELOGIN response
    plan,           \* what follows that response: "plain", "tls" or "refuse"
    form,           \* what the parsed login asks for
    message,        \* the last message read, whole or in part
    exposed,        \* credentials were read from the socket in the clear
    requests, reported,     \* session.request_count and progress.requests
    responses, silent,      \* answers written, requests left unanswered
    outcome,        \* close reason, or the kind of the error
    diagnostics,    \* what connection_failure shows of the first bytes
    malformed       \* the connection counted as a malformed message

link == <<channel, first, next, transport, advertised, plan>>
counts == <<requests, reported, responses, silent>>
report == <<outcome, diagnostics, malformed>>
vars == <<config, pc, stage, link, form, message, exposed, counts, report>>

NoForm == [protocol |-> "none", secure |-> "none", integrated |-> FALSE, federated |-> "no"]

\* LOGIN carries no feature extension; the secure password modes are TDS 5.0's.
\* A federated feature may be cut short (partial), ask for the server's token
\* authority first (info) or come with all it needs (direct).
Forms(t) ==
    IF t = "LOGIN"
    THEN {f \in [protocol : LegacyProtocols, secure : {"none", "v1", "rsa"},
                 integrated : BOOLEAN, federated : {"no"}] :
             f.secure # "none" => f.protocol = "Tds50"}
    ELSE [protocol : {"Tds7"}, secure : {"none"}, integrated : BOOLEAN,
          federated : {"no", "partial", "info", "direct"}]

NoMessage == [stage |-> "none", type |-> "none", whole |-> FALSE, kept |-> {}]

\* Config::validate: capture_login_messages needs the payload store.
Configs == {c \in [tls : TlsModes, store : BOOLEAN, retain : BOOLEAN] : c.retain => c.store}

Legacy == form.protocol \in LegacyProtocols

\* Where the protocol puts credentials: the types that carry them, by the stage
\* that reads them.  The requests of a session may present a new token.
Credentials(s) ==
    CASE s \in {"login_read", "prelogin8_read"} -> Candidates \cup {"SMP_AUTH"}
      [] s = "tls_login_only" -> MicrosoftAuth
      [] s = "sspi_read" -> {"SSPI", "SMP_AUTH"}
      [] s = "fedauth_read" -> {"FEDAUTH", "SMP_AUTH"}
      [] s = "tds5_secure_login_read" -> {"TDS5_NORMAL", "SMP_AUTH"}
      [] s = "request_read" /\ ~Legacy -> {"SSPI", "FEDAUTH", "SMP_AUTH"}
      [] OTHER -> {}

LoginMaterial(m) == m.type \in Credentials(m.stage)

----------------------------------------------------------------------------
(* The payload store, as the handler uses it (PayloadStore has the rest).  *)

\* Artifacts of any type.
ArtifactUnguarded(t, tr) == IF config.store THEN {"artifact"} ELSE {}

\* capture_authentication_message
Authentication == IF config.retain THEN {"authentication"} ELSE {}

\* capture_protocol_artifact
Artifact(t, tr) == IF config.store /\ ~AuthFor(t, tr) THEN {"artifact"} ELSE {}

\* observe_inbound_message
Observed(t, tr) == IF AuthFor(t, tr) THEN Authentication ELSE {}

\* emit_smp_embedded_authentication: an SMP frame holds the start of a login, or
\* of another of the Candidates, whether it parses or not.
Embedded(t) == t = "SMP_AUTH"

\* capture_incomplete_authentication_message
IncompleteAuthentication(t, tr, force) ==
    IF t # "none" /\ (force \/ AuthFor(t, tr)) THEN Authentication ELSE {}

\* capture_incomplete_ingress
Incomplete(t, tr) ==
    IncompleteAuthentication(t, tr, Embedded(t))
        \cup IF t = "none" \/ Embedded(t) THEN {} ELSE Artifact(t, tr)

\* What read_message may find: the type peeked at, or any.  It refuses SMP.
WholeTypes == IF next = "any" THEN PacketTypes ELSE {next} \cap PacketTypes
BrokenTypes == CASE next = "any" -> PartialTypes \cup {"none"}
                 [] next = "SMP" -> {"SMP", "SMP_AUTH"}
                 [] OTHER -> {next}

Took(s, t, whole, kept) ==
    /\ message' = [stage |-> s, type |-> t, whole |-> whole, kept |-> kept]
    /\ exposed' = (exposed \/ (channel = "plain" /\ t \in Credentials(s)))
    /\ next' = "any"

\* A stage reads a whole message of type t.
Reads(s, to, t, kept) ==
    /\ pc = s
    /\ Took(s, t, TRUE, kept)
    /\ pc' = to
    /\ UNCHANGED <<config, stage, channel, first, transport, advertised, plan, form,
                   counts, report>>

\* handle returns.
Return(to, why) == pc' = to /\ outcome' = why
Fail(kinds) ==
    /\ \E kind \in kinds : Return("failed", kind)
    /\ UNCHANGED <<diagnostics, malformed>>
Close(reason) ==
    /\ Return("closed", reason)
    /\ UNCHANGED <<diagnostics, malformed>>

\* A stage's read ends in an error or at its timeout, after a part of a message.
ReadBreaks(s, kinds, t, kept) ==
    /\ pc = s
    /\ Took(s, t, FALSE, kept)
    /\ Fail(kinds)
    /\ UNCHANGED <<config, stage, channel, first, transport, advertised, plan, form, counts>>

\* read_message fails with one of these; a timeout is reported as "protocol".
ReadErrors == {"io", "protocol", "limit"}

\* The handler goes on to the next stage of the login.
Go(to, s) ==
    /\ pc' = to
    /\ stage' = s
    /\ UNCHANGED <<config, form, exposed, counts, report>>

----------------------------------------------------------------------------
(* handle: the first byte decides what kind of client this is.             *)

Init ==
    /\ config \in Configs
    /\ pc = "probe" /\ stage = "initial_probe"
    /\ channel = "plain" /\ first = "none" /\ next = "any" /\ transport = "none"
    /\ advertised = "none" /\ plan = "none"
    /\ form = NoForm
    /\ message = NoMessage /\ exposed = FALSE
    /\ requests = 0 /\ reported = 0 /\ responses = 0 /\ silent = 0
    /\ outcome = "none" /\ diagnostics = "none" /\ malformed = FALSE

\* The peek fails, finds the connection closed, or takes too long.
ProbeFails ==
    /\ pc = "probe"
    /\ Fail({"io", "protocol"})
    /\ UNCHANGED <<config, stage, link, form, message, exposed, counts>>

\* The first byte is t: the connection goes on as transport tr.
Probe(t, tr, to) ==
    /\ pc = "probe"
    /\ first' = t /\ transport' = tr
    /\ next' = IF t = "CLIENT_HELLO" THEN "any" ELSE t
    /\ Go(to, to)
    /\ UNCHANGED <<channel, advertised, plan, message>>

ProbeTls == Probe("CLIENT_HELLO", "tds8", "tls8_handshake")
ProbeSmp == Probe("SMP", "smp_unnegotiated", "login_read")
ProbeLogin == \E t \in Candidates : Probe(t, DirectTransport[t], "login_read")
ProbePrelogin == \E t \in PacketTypes \ Candidates : Probe(t, "tds7", "prelogin_read")

----------------------------------------------------------------------------
(* handle_tds8: TLS first, PRELOGIN inside it.                             *)

Tls8Handshake ==
    /\ pc = "tls8_handshake"
    /\ config.tls # "Disabled"
    /\ channel' = "tls"
    /\ Go("prelogin8_read", "prelogin8_read")
    /\ UNCHANGED <<first, next, transport, advertised, plan, message>>

\* No acceptor is configured, or the handshake fails or times out.
Tls8HandshakeFails ==
    /\ pc = "tls8_handshake"
    /\ Fail(IF config.tls = "Disabled" THEN {"protocol"} ELSE {"tls", "io"})
    /\ UNCHANGED <<config, stage, link, form, message, exposed, counts>>

Prelogin8Read ==
    \E t \in WholeTypes : Reads("prelogin8_read", "prelogin8_parse", t, Observed(t, "tds8"))
Prelogin8ReadBreaks ==
    \E t \in BrokenTypes :
        ReadBreaks("prelogin8_read", ReadErrors, t, Incomplete(t, "tds8"))

\* A login in the place of PRELOGIN is taken as it is ...
Prelogin8IsLogin ==
    /\ pc = "prelogin8_parse"
    /\ message.type \in Candidates
    /\ Go("login_parse", "prelogin8_parse")
    /\ UNCHANGED <<link, message>>

\* ... anything else is kept and refused.
Prelogin8Unexpected ==
    /\ pc = "prelogin8_parse"
    /\ message.type \notin Candidates \cup {"PRELOGIN"}
    /\ message' = [message EXCEPT !.kept = @ \cup Artifact(message.type, "tds8")]
    /\ stage' = "prelogin8_parse"
    /\ Fail({"protocol"})
    /\ UNCHANGED <<config, link, form, exposed, counts>>

Prelogin8Parse ==
    /\ pc = "prelogin8_parse"
    /\ message.type = "PRELOGIN"
    /\ advertised' = "Required" /\ plan' = "plain"
    /\ Go("prelogin8_response", "prelogin8_parse")
    /\ UNCHANGED <<channel, first, next, transport, message>>

Prelogin8Response ==
    /\ pc = "prelogin8_response"
    /\ Go("login_read", "login_read")
    /\ UNCHANGED <<link, message>>

----------------------------------------------------------------------------
(* handle_inner: PRELOGIN in the clear, and the encryption it negotiates.  *)

PreloginRead ==
    \E t \in WholeTypes : Reads("prelogin_read", "prelogin_parse", t, Observed(t, "tds7"))

\* Nothing of a broken PRELOGIN goes to the store.
PreloginReadBreaks ==
    \E t \in BrokenTypes :
        ReadBreaks("prelogin_read", ReadErrors, t, {})

PreloginUnexpected ==
    /\ pc = "prelogin_parse"
    /\ message.type # "PRELOGIN"
    /\ message' = [message EXCEPT !.kept = @ \cup Artifact(message.type, "tds7")]
    /\ stage' = "prelogin_parse"
    /\ Fail({"protocol"})
    /\ UNCHANGED <<config, link, form, exposed, counts>>

PreloginParse ==
    /\ pc = "prelogin_parse"
    /\ message.type = "PRELOGIN"
    /\ \E client \in Encryptions, certificate \in BOOLEAN :
         /\ advertised' = Negotiated(config.tls, client)
         /\ plan' = CASE config.tls = "Required" /\ client = "NotSupported" -> "refuse"
                      [] UsesTls(config.tls, client, certificate) -> "tls"
                      [] OTHER -> "plain"
    /\ Go("prelogin_response", "prelogin_parse")
    /\ UNCHANGED <<channel, first, next, transport, message>>

PreloginResponse ==
    /\ pc = "prelogin_response"
    /\ plan # "refuse"
    /\ IF plan = "tls" THEN Go("tls_peek", "tls_handshake") ELSE Go("login_read", "login_read")
    /\ UNCHANGED <<link, message>>

\* The server insists on TLS and the client has none: the response is the end.
PreloginRefuse ==
    /\ pc = "prelogin_response"
    /\ plan = "refuse"
    /\ stage' = "prelogin_response"
    /\ Close("client_does_not_support_required_tls")
    /\ UNCHANGED <<config, link, form, message, exposed, counts>>

\* A client that ignores the selected encryption sends its login in the clear.
PlaintextLogin ==
    /\ pc = "tls_peek"
    /\ \E t \in MicrosoftAuth : next' = t /\ transport' = PlaintextTransport[t]
    /\ Go("login_read", "login_read")
    /\ UNCHANGED <<channel, first, advertised, plan, message>>

\* Every TLS login is taken for a login-only one.
TlsHandshakeLoginOnly ==
    /\ pc = "tls_peek"
    /\ channel' = "tls"
    /\ Go("tls_login_only", "tls_login_only")
    /\ UNCHANGED <<first, next, transport, advertised, plan, message>>

TlsHandshake ==
    /\ pc = "tls_peek"
    /\ channel' = "tls"
    /\ LET to == IF advertised = "Off" THEN "tls_login_only" ELSE "login_read" IN Go(to, to)
    /\ UNCHANGED <<first, next, transport, advertised, plan, message>>

TlsHandshakeFails ==
    /\ pc = "tls_peek"
    /\ Fail({"tls", "io"})
    /\ UNCHANGED <<config, stage, link, form, message, exposed, counts>>

\* tls::finish_login_only: one packet under TLS, then the socket again, with
\* that packet in front of what the client sends next.
LoginOnly ==
    /\ pc = "tls_login_only"
    /\ \E t \in MicrosoftAuth : next' = t
    /\ channel' = "plain"
    /\ transport' = "tds7_login_only_tls"
    /\ Go("login_read", "login_read")
    /\ UNCHANGED <<first, advertised, plan, message>>

\* The packet does not come whole, is no login, or takes too long.
LoginOnlyBreaks ==
    \E t \in BrokenTypes :
        ReadBreaks("tls_login_only", {"io", "tls", "protocol", "limit"}, t, {})

----------------------------------------------------------------------------
(* login_and_serve_inner: the login.                                       *)

LoginRead ==
    \E t \in WholeTypes : Reads("login_read", "login_parse", t, Observed(t, transport))
LoginReadBreaks ==
    \E t \in BrokenTypes :
        ReadBreaks("login_read", ReadErrors, t, Incomplete(t, transport))

\* The transport that the rest of the connection goes by.
Renamed(f) == ProtocolTransport(LoginTransport(transport, message.type), f.protocol)

LoginParse ==
    /\ pc = "login_parse"
    /\ message.type \in {"LOGIN", "LOGIN7"}
    /\ \E f \in Forms(message.type) :
         /\ form' = f
         /\ transport' = Renamed(f)
         /\ pc' = IF f.secure = "none" THEN "authentication" ELSE "tds5_challenge"
    /\ stage' = "login_parse"
    /\ UNCHANGED <<config, channel, first, next, advertised, plan, message, exposed,
                   counts, report>>

LoginParseFails ==
    /\ pc = "login_parse"
    /\ message.type \in {"LOGIN", "LOGIN7"}
    /\ stage' = "login_parse"
    /\ Fail({"protocol", "limit"})
    /\ UNCHANGED <<config, link, form, message, exposed, counts>>

\* No login request: each type is kept in its own way and refused.
LoginUnexpected ==
    /\ pc = "login_parse"
    /\ message.type \notin {"LOGIN", "LOGIN7"}
    /\ LET t == message.type
           kept == CASE t = "SSPI" -> {}
                     [] t \in Tds5Auth ->
                          IF AuthFor(t, transport) THEN {} ELSE Authentication
                     [] OTHER -> Artifact(t, transport)
       IN  message' = [message EXCEPT !.kept = @ \cup kept]
    /\ stage' = "login_parse"
    /\ Fail({"protocol"})
    /\ UNCHANGED <<config, link, form, exposed, counts>>

\* negotiate_tds5_secure_password: the challenge, the encrypted password.
Tds5Challenge ==
    /\ pc = "tds5_challenge"
    /\ Go("tds5_secure_login_read", "tds5_secure_login_read")
    /\ UNCHANGED <<link, message>>

\* Whatever answers the challenge counts as authentication.
Tds5Read ==
    \E t \in WholeTypes : Reads("tds5_secure_login_read", "tds5_parse", t, Authentication)
Tds5ReadBreaks ==
    \E t \in BrokenTypes :
        ReadBreaks("tds5_secure_login_read", ReadErrors, t, IncompleteAuthentication(t, transport, TRUE))

Tds5Parse ==
    /\ pc = "tds5_parse"
    /\ message.type = "TDS5_NORMAL"
    /\ Go("authentication", "tds5_secure_login_parse")
    /\ UNCHANGED <<link, message>>

\* Another type, no encrypted password in it, or one that does not decrypt.
Tds5ParseFails ==
    /\ pc = "tds5_parse"
    /\ stage' = IF message.type = "TDS5_NORMAL" THEN "tds5_secure_login_parse" ELSE stage
    /\ Fail({"protocol"})
    /\ UNCHANGED <<config, link, form, message, exposed, counts>>

----------------------------------------------------------------------------
(* The decision (SourceAuth has its detail), and the ways to refuse.       *)

\* Acceptable: nothing about the form of the login makes the server refuse it.
Acceptable == form.secure # "v1" /\ ~form.integrated /\ form.federated = "no"

Answer(to, reason) ==
    /\ pc = "authentication"
    /\ pc' = to
    /\ stage' = "authentication"
    /\ outcome' = reason
    /\ UNCHANGED <<config, link, form, message, exposed, counts, diagnostics, malformed>>

AnswerFederated ==
    /\ form.federated \in {"info", "direct"}
    /\ Answer(IF form.federated = "info" THEN "fedauth_info" ELSE "login_failure",
              "federated_authentication_rejected")

AnswerIntegrated ==
    /\ form.integrated /\ form.federated \in {"no", "partial"}
    /\ \/ /\ form.protocol = "Tds50"
          /\ Answer("login_failure", "tds5_secure_session_rejected")
       \/ /\ form.protocol # "Tds50"
          /\ Answer("login_failure", "integrated_authentication_rejected")
       \/ /\ form.protocol = "Tds7"     \* LOGIN7 came with an NTLM negotiation
          /\ Answer("sspi_challenge", "integrated_authentication_rejected")

AnswerRejected ==
    /\ ~form.integrated /\ form.federated \in {"no", "partial"}
    /\ Answer("login_failure", "login_rejected")

AnswerAccepted ==
    /\ Acceptable
    /\ Answer("login_success", "none")

\* negotiate_federated_authentication
FedauthInfo ==
    /\ pc = "fedauth_info"
    /\ Go("fedauth_read", "fedauth_read")
    /\ UNCHANGED <<link, message>>

FedauthRead ==
    \E t \in WholeTypes : Reads("fedauth_read", "fedauth_parse", t, Observed(t, transport))
FedauthReadBreaks ==
    \E t \in BrokenTypes :
        ReadBreaks("fedauth_read", ReadErrors, t, Incomplete(t, transport))

FedauthParse ==
    /\ pc = "fedauth_parse"
    /\ message.type = "FEDAUTH"
    /\ Go("login_failure", "fedauth_parse")
    /\ UNCHANGED <<link, message>>

FedauthUnexpected ==
    /\ pc = "fedauth_parse"
    /\ message.type # "FEDAUTH"
    /\ message' = [message EXCEPT !.kept = @ \cup Artifact(message.type, transport)]
    /\ stage' = "fedauth_parse"
    /\ Fail({"protocol"})
    /\ UNCHANGED <<config, link, form, exposed, counts>>

\* negotiate_integrated_authentication
SspiChallenge ==
    /\ pc = "sspi_challenge"
    /\ Go("sspi_read", "sspi_read")
    /\ UNCHANGED <<link, message>>

SspiRead ==
    \E t \in WholeTypes : Reads("sspi_read", "sspi_parse", t, Observed(t, transport))
SspiReadBreaks ==
    \E t \in BrokenTypes :
        ReadBreaks("sspi_read", ReadErrors, t, Incomplete(t, transport))

SspiParse ==
    /\ pc = "sspi_parse"
    /\ message.type = "SSPI"
    /\ Go("login_failure", "sspi_parse")
    /\ UNCHANGED <<link, message>>

SspiUnexpected ==
    /\ pc = "sspi_parse"
    /\ message.type # "SSPI"
    /\ stage' = "sspi_parse"
    /\ Fail({"protocol"})
    /\ UNCHANGED <<config, link, form, message, exposed, counts>>

LoginFailure ==
    /\ pc = "login_failure"
    /\ stage' = "login_response"
    /\ Close(outcome)
    /\ UNCHANGED <<config, link, form, message, exposed, counts>>

LoginSuccess ==
    /\ pc = "login_success"
    /\ Go("loop", "login_response")
    /\ UNCHANGED <<link, message>>

----------------------------------------------------------------------------
(* login_and_serve_inner: the request loop.                                *)

LoopTop ==
    /\ pc = "loop"
    /\ requests < MaxRequests
    /\ pc' = "request_read" /\ stage' = "request_read"
    /\ reported' = requests
    /\ UNCHANGED <<config, link, form, message, exposed, requests, responses,
                   silent, report>>

RequestLimit ==
    /\ pc = "loop"
    /\ requests >= MaxRequests
    /\ reported' = requests
    /\ Close("request_limit")
    /\ UNCHANGED <<config, stage, link, form, message, exposed, requests, responses, silent>>

RequestRead ==
    \E t \in WholeTypes : Reads("request_read", "request_parse", t, Observed(t, transport))
RequestReadBreaks ==
    \E t \in BrokenTypes :
        ReadBreaks("request_read", ReadErrors, t, Incomplete(t, transport))

\* End of file is how a client leaves; what it left behind is kept.
ClientCloses ==
    /\ pc = "request_read"
    /\ \E t \in BrokenTypes : Took("request_read", t, FALSE, Incomplete(t, transport))
    /\ Close("client_closed")
    /\ UNCHANGED <<config, stage, channel, first, transport, advertised, plan, form, counts>>

\* The idle or the session deadline passes: what was read so far is dropped.
RequestTimeout ==
    /\ pc = "request_read"
    /\ \E t \in BrokenTypes : Took("request_read", t, FALSE, {})
    /\ \E reason \in {"idle_timeout", "session_timeout"} : Close(reason)
    /\ UNCHANGED <<config, stage, channel, first, transport, advertised, plan, form, counts>>

RateLimited ==
    /\ pc = "request_parse"
    /\ stage' = "request_parse"
    /\ Close("rate_limit")
    /\ UNCHANGED <<config, link, form, message, exposed, counts>>

\* The encrypted command is not counted as a request.
EncryptedCommandUncounted ==
    /\ pc = "request_parse"
    /\ form.protocol = "Tds50"
    /\ pc' = "loop" /\ stage' = "request_parse"
    /\ message' = [message EXCEPT !.kept = @ \cup Artifact(message.type, transport)]
    /\ UNCHANGED <<config, link, form, exposed, counts, report>>

\* TDS 5.0 packets under the session key are kept, counted, and not answered.
EncryptedCommand ==
    /\ pc = "request_parse"
    /\ form.protocol = "Tds50"
    /\ pc' = "loop" /\ stage' = "request_parse"
    /\ message' = [message EXCEPT !.kept = @ \cup Artifact(message.type, transport)]
    /\ requests' = requests + 1 /\ reported' = requests + 1
    /\ silent' = silent + 1
    /\ UNCHANGED <<config, link, form, exposed, responses, report>>

CountRequest ==
    /\ pc = "request_parse"
    /\ pc' = "dispatch" /\ stage' = "request_parse"
    /\ requests' = requests + 1 /\ reported' = requests + 1
    /\ UNCHANGED <<config, link, form, message, exposed, responses, silent, report>>

\* A request of one of the types is handled, with what that leaves in the store.
Served(types, s, kept) ==
    /\ pc = "dispatch"
    /\ message.type \in types
    /\ message' = [message EXCEPT !.kept = @ \cup kept]
    /\ Go("respond", s)
    /\ UNCHANGED link

\* ... or cannot be parsed, which ends the connection.
Refused(types, s, kept) ==
    /\ pc = "dispatch"
    /\ message.type \in types
    /\ message' = [message EXCEPT !.kept = @ \cup kept]
    /\ stage' = s
    /\ Fail({"protocol", "limit"})
    /\ UNCHANGED <<config, link, form, exposed, counts>>

ThisArtifact == Artifact(message.type, transport)

SqlBatch ==
    \/ Served({"SQL_BATCH"}, "sql_batch_parse", {})
    \/ Refused({"SQL_BATCH"}, "sql_batch_parse", ThisArtifact)

Rpc ==
    \/ Served({"RPC"}, "rpc_parse", {})
    \/ Refused({"RPC"}, "rpc_parse", ThisArtifact)

\* ATTENTION with a payload is malformed.
Attention ==
    \/ Served({"ATTENTION"}, stage, {})
    \/ Refused({"ATTENTION"}, stage, ThisArtifact)

\* An operation that is not known is kept and answered.
TransactionManager ==
    /\ ~Legacy
    /\ \/ \E kept \in {{}, ThisArtifact} :
            Served({"TRANSACTION_MANAGER"}, "transaction_manager_parse", kept)
       \/ Refused({"TRANSACTION_MANAGER"}, "transaction_manager_parse", ThisArtifact)

BulkLoad ==
    \/ Served({"BULK_LOAD"}, "bulk_load_parse", ThisArtifact)
    \/ Refused({"BULK_LOAD"}, "bulk_load_parse", ThisArtifact)

SspiRequest == ~Legacy /\ Served({"SSPI"}, stage, {})

FedauthRequest == ~Legacy /\ Served({"FEDAUTH"}, stage, ThisArtifact)

Tds5TokenStream == Legacy /\ Served({"TDS5_NORMAL"}, stage, ThisArtifact)

\* The rest of the legacy table: control messages, and the types whose bytes
\* mean something else to Microsoft clients.
LegacyControl ==
    /\ Legacy
    /\ Served(PacketTypes \ {"SQL_BATCH", "RPC", "ATTENTION", "BULK_LOAD", "TDS5_NORMAL",
                             "FOREIGN"},
              stage, ThisArtifact)

\* A type that is not handled is kept and left without an answer.
UnhandledSilent ==
    /\ pc = "dispatch"
    /\ message.type \in {"FOREIGN"}
    /\ message' = [message EXCEPT !.kept = @ \cup ThisArtifact]
    /\ Go("loop", stage)
    /\ UNCHANGED link

Unhandled ==
    Served(IF Legacy THEN {"FOREIGN"}
           ELSE {"LOGIN", "LOGIN7", "PRELOGIN", "CONTROL", "FOREIGN"} \cup Tds5Auth,
           stage, ThisArtifact)

Respond ==
    /\ pc = "respond"
    /\ pc' = "loop" /\ stage' = "response_write"
    /\ responses' = responses + 1
    /\ UNCHANGED <<config, link, form, message, exposed, requests, reported,
                   silent, report>>

----------------------------------------------------------------------------
(* What every stage shares.                                                *)

\* The stage that a write is reported under.
WriteStage ==
    [prelogin8_response |-> "prelogin8_response", prelogin_response |-> "prelogin_response",
     tds5_challenge |-> "tds5_secure_login_challenge_write",
     fedauth_info |-> "fedauth_info_write", sspi_challenge |-> "sspi_challenge_write",
     login_failure |-> "login_response", login_success |-> "login_response",
     respond |-> "response_write"]

\* write_message(..).await?
WriteFails ==
    /\ pc \in DOMAIN WriteStage
    /\ stage' = WriteStage[pc]
    /\ Fail({"io"})
    /\ UNCHANGED <<config, link, form, message, exposed, counts>>

\* The tokens of the message do not fit: only login_failure has by then
\* entered the stage of the write.
EncodeFails ==
    /\ pc \in DOMAIN WriteStage \ {"prelogin8_response", "prelogin_response"}
    /\ stage' = IF pc = "login_failure" THEN WriteStage[pc] ELSE stage
    /\ Fail({"protocol", "limit"})
    /\ UNCHANGED <<config, link, form, message, exposed, counts>>

\* The read of a login counts among the stages that show their bytes.
SafeStagesWithLogin ==
    {"connection_setup", "initial_probe", "prelogin_read", "prelogin_parse",
     "prelogin_response", "tls_handshake", "tls8_handshake", "prelogin8_read",
     "prelogin8_parse", "prelogin8_response", "login_read"}

\* diagnostic_prefix_is_safe
SafeStages ==
    {"connection_setup", "initial_probe", "prelogin_read", "prelogin_parse",
     "prelogin_response", "tls_handshake", "tls8_handshake", "prelogin8_read",
     "prelogin8_parse", "prelogin8_response"}

\* connection_task: the connection_failure event and the malformed count.
ReportFailure ==
    /\ pc = "failed"
    /\ pc' = "closed"
    /\ diagnostics' =
         CASE stage \in SafeStages /\ first \notin {"LOGIN", "LOGIN7"} -> "prefix"
           [] stage = "login_read" /\ first \in {"LOGIN", "LOGIN7"} -> "header"
           [] OTHER -> "none"
    /\ malformed' = (outcome \in {"protocol", "limit"})
    /\ UNCHANGED <<config, stage, link, form, message, exposed, counts, outcome>>

OpeningStep ==
    \/ ProbeFails \/ ProbeTls \/ ProbeSmp \/ ProbeLogin \/ ProbePrelogin
    \/ Tls8Handshake \/ Tls8HandshakeFails \/ Prelogin8Read \/ Prelogin8ReadBreaks
    \/ Prelogin8IsLogin \/ Prelogin8Unexpected \/ Prelogin8Parse \/ Prelogin8Response
    \/ PreloginRead \/ PreloginReadBreaks \/ PreloginUnexpected \/ PreloginParse
    \/ PreloginResponse \/ PreloginRefuse \/ PlaintextLogin \/ TlsHandshake
    \/ TlsHandshakeFails \/ LoginOnly \/ LoginOnlyBreaks

LoginStep ==
    \/ LoginRead \/ LoginReadBreaks \/ LoginParse \/ LoginParseFails \/ LoginUnexpected
    \/ Tds5Challenge \/ Tds5Read \/ Tds5ReadBreaks \/ Tds5Parse \/ Tds5ParseFails
    \/ AnswerFederated \/ AnswerIntegrated \/ AnswerRejected \/ AnswerAccepted
    \/ FedauthInfo \/ FedauthRead \/ FedauthReadBreaks \/ FedauthParse \/ FedauthUnexpected
    \/ SspiChallenge \/ SspiRead \/ SspiReadBreaks \/ SspiParse \/ SspiUnexpected
    \/ LoginFailure \/ LoginSuccess

RequestStep ==
    \/ LoopTop \/ RequestLimit \/ RequestRead \/ RequestReadBreaks \/ ClientCloses
    \/ RequestTimeout \/ RateLimited \/ EncryptedCommand \/ CountRequest
    \/ SqlBatch \/ Rpc \/ Attention \/ TransactionManager \/ BulkLoad \/ SspiRequest
    \/ FedauthRequest \/ Tds5TokenStream \/ LegacyControl \/ Unhandled \/ Respond

Next ==
    \/ OpeningStep \/ LoginStep \/ RequestStep
    \/ WriteFails \/ EncodeFails \/ ReportFailure

Spec == Init /\ [][Next]_vars

\* Every read has a timeout and the rest is computation, so the handler goes on
\* from where it is, unless it writes: a write ends only when the client takes
\* what is written or the connection breaks.
Writing == pc \in DOMAIN WriteStage
FairSpec == Spec /\ WF_vars(~Writing /\ Next)

----------------------------------------------------------------------------
(* Properties.                                                             *)

SessionStates == {"loop", "request_read", "request_parse", "dispatch", "respond"}
\* Every whole message that carries credentials, wherever in the exchange it was
\* read, is given to the store as authentication when the operator asks for that,
\* whatever its transport is called.  A TDS 5 stream in place of a login is
\* recognised only when it is parsed.
AuthenticationRetained ==
    (/\ config.retain /\ message.whole /\ LoginMaterial(message)
     /\ pc \notin {"prelogin8_parse", "login_parse"})
    => "authentication" \in message.kept

\* No whole message that carries credentials ends up among the ordinary
\* artifacts, which are stored even where logins are not to be.
ArtifactsCredentialFree ==
    (message.whole /\ LoginMaterial(message)) => "artifact" \notin message.kept

\* The bytes that a connection_failure event shows, which are the first ones of
\* the connection, never include credentials sent in the clear: the stage that
\* is reported, which may lag behind, decides whether they are shown.
DiagnosticsCredentialFree == diagnostics = "prefix" => ~exposed

\* When the handler waits for a request, each earlier one has had exactly one
\* response, the encrypted TDS 5 commands excepted, and the number of requests
\* that connection_close reports is the session's, on every way out of the loop.
\* No session serves more requests than it may.
RequestsAccounted ==
    /\ requests <= MaxRequests
    /\ pc = "request_read" => responses + silent = requests
    /\ pc \in {"failed", "closed"} => reported = requests

\* A session runs on the channel that the PRELOGIN response announced: under TLS
\* if that was on or required, in the clear again after a login-only exchange.
\* Only a client that sent its login in the clear, against that response, is
\* served in the clear, and none that cannot do the TLS that is required.
EncryptionHonoured ==
    pc \in SessionStates =>
        /\ advertised \in {"On", "Required"} =>
             channel = "tls" \/ transport \in {PlaintextTransport[t] : t \in MicrosoftAuth}
        /\ advertised = "Off" => channel = "plain"
        /\ plan # "refuse"

\* Every connection is closed and reported, whatever the client sends or fails to
\* send: the stages follow one another and the request limit bounds the loop.
\* Only a client that does not read can keep the handler, in one write, for ever.
ConnectionCloses == <>(pc = "closed") \/ <>[]Writing

----------------------------------------------------------------------------
(* What the documentation says of the code, and the code does not do.      *)

\* What was read of an incomplete authentication exchange is retained.
IncompleteRetained ==
    (config.retain /\ ~message.whole /\ LoginMaterial(message)) => message.kept # {}
=============================================================================
