-------------------------- MODULE ConnectionProofs --------------------------
(***************************************************************************)
(* The handler of a connection keeps its promises about requests,          *)
(* encryption and credentials, for every request limit.                    *)
(*                                                                         *)
(* The invariant has a part for each promise, and each part is kept by     *)
(* every group of steps.  Exposure needs the channel of each stage from    *)
(* Negotiation, and Kept needs to know which message is in hand (Messages) *)
(* and that the transport tells legacy sessions from others (Transport).   *)
(***************************************************************************)
EXTENDS Connection, TLAPS

(* The steps, in groups that are met in the same states. *)

ProbeSteps ==
    \/ ProbeFails \/ ProbeTls \/ ProbeSmp \/ ProbeLogin \/ ProbePrelogin

Tls8Steps ==
    \/ Tls8Handshake \/ Tls8HandshakeFails \/ Prelogin8Read \/ Prelogin8ReadBreaks
    \/ Prelogin8IsLogin \/ Prelogin8Unexpected \/ Prelogin8Parse \/ Prelogin8Response

PreloginSteps ==
    \/ PreloginRead \/ PreloginReadBreaks \/ PreloginUnexpected \/ PreloginParse
    \/ PreloginResponse \/ PreloginRefuse

TlsSteps ==
    \/ PlaintextLogin \/ TlsHandshake \/ TlsHandshakeFails \/ LoginOnly \/ LoginOnlyBreaks

LoginSteps ==
    \/ LoginRead \/ LoginReadBreaks \/ LoginParse \/ LoginParseFails \/ LoginUnexpected

Tds5Steps ==
    \/ Tds5Challenge \/ Tds5Read \/ Tds5ReadBreaks \/ Tds5Parse \/ Tds5ParseFails

AnswerSteps ==
    \/ AnswerFederated \/ AnswerIntegrated \/ AnswerRejected \/ AnswerAccepted
    \/ LoginFailure \/ LoginSuccess

ExchangeSteps ==
    \/ FedauthInfo \/ FedauthRead \/ FedauthReadBreaks \/ FedauthParse \/ FedauthUnexpected
    \/ SspiChallenge \/ SspiRead \/ SspiReadBreaks \/ SspiParse \/ SspiUnexpected

LoopSteps ==
    \/ LoopTop \/ RequestLimit \/ RequestRead \/ RequestReadBreaks \/ ClientCloses
    \/ RequestTimeout \/ RateLimited \/ EncryptedCommand \/ CountRequest \/ Respond

DispatchSteps ==
    \/ SqlBatch \/ Rpc \/ Attention \/ TransactionManager \/ BulkLoad \/ SspiRequest
    \/ FedauthRequest \/ Tds5TokenStream \/ LegacyControl \/ Unhandled

OtherSteps ==
    \/ WriteFails \/ EncodeFails \/ ReportFailure

-----------------------------------------------------------------------------
(* Requests *)

Final == {"failed", "closed"}

\* The session's count and the reported one agree at all times.  A request that
\* is being handled is the one that has not been answered.
Counting ==
    /\ requests \in Nat /\ responses \in Nat /\ silent \in Nat
    /\ reported = requests /\ requests <= MaxRequests
    /\ pc \in {"request_read", "request_parse"} => requests < MaxRequests
    /\ pc \in {"dispatch", "respond"} => responses + silent + 1 = requests
    /\ pc \notin {"dispatch", "respond"} \cup Final => responses + silent = requests

\* Each request is counted once and answered once.
LEMMA KeepsCounting == Counting /\ [Next]_vars => Counting'
<1> SUFFICES ASSUME Counting, [Next]_vars PROVE Counting'
  OBVIOUS
<1> USE DEF Counting, Final, Fail, Close, Return, Go, Reads, ReadBreaks, counts
<1>1. CASE ProbeSteps
  BY ZenonT(60), <1>1
  DEF ProbeSteps, ProbeFails, ProbeTls, ProbeSmp, ProbeLogin, ProbePrelogin, Probe
<1>2. CASE Tls8Steps
  BY ZenonT(60), <1>2
  DEF Tls8Steps, Tls8Handshake, Tls8HandshakeFails, Prelogin8Read, Prelogin8ReadBreaks,
      Prelogin8IsLogin, Prelogin8Unexpected, Prelogin8Parse, Prelogin8Response
<1>3. CASE PreloginSteps
  BY ZenonT(60), <1>3
  DEF PreloginSteps, PreloginRead, PreloginReadBreaks, PreloginUnexpected, PreloginParse,
      PreloginResponse, PreloginRefuse
<1>4. CASE TlsSteps
  BY ZenonT(60), <1>4
  DEF TlsSteps, PlaintextLogin, TlsHandshake, TlsHandshakeFails, LoginOnly, LoginOnlyBreaks
<1>5. CASE LoginSteps
  BY ZenonT(60), <1>5
  DEF LoginSteps, LoginRead, LoginReadBreaks, LoginParse, LoginParseFails, LoginUnexpected
<1>6. CASE Tds5Steps
  BY ZenonT(60), <1>6
  DEF Tds5Steps, Tds5Challenge, Tds5Read, Tds5ReadBreaks, Tds5Parse, Tds5ParseFails
<1>7. CASE AnswerSteps
  BY <1>7
  DEF AnswerSteps, AnswerFederated, AnswerIntegrated, AnswerRejected, AnswerAccepted,
      LoginFailure, LoginSuccess, Answer
<1>8. CASE ExchangeSteps
  BY ZenonT(60), <1>8
  DEF ExchangeSteps, FedauthInfo, FedauthRead, FedauthReadBreaks, FedauthParse,
      FedauthUnexpected, SspiChallenge, SspiRead, SspiReadBreaks, SspiParse, SspiUnexpected
<1>9. CASE LoopSteps
  <2>1. CASE LoopTop
    BY <2>1, MaxRequestsAssumption DEF LoopTop
  <2>2. CASE RequestLimit
    BY <2>2, MaxRequestsAssumption DEF RequestLimit
  <2>3. CASE RequestRead
    BY <2>3, MaxRequestsAssumption DEF RequestRead
  <2>4. CASE RequestReadBreaks
    BY <2>4, MaxRequestsAssumption DEF RequestReadBreaks
  <2>5. CASE ClientCloses
    BY <2>5, MaxRequestsAssumption DEF ClientCloses
  <2>6. CASE RequestTimeout
    BY <2>6, MaxRequestsAssumption DEF RequestTimeout
  <2>7. CASE RateLimited
    BY <2>7, MaxRequestsAssumption DEF RateLimited
  <2>8. CASE EncryptedCommand
    BY <2>8, MaxRequestsAssumption DEF EncryptedCommand
  <2>9. CASE CountRequest
    BY <2>9, MaxRequestsAssumption DEF CountRequest
  <2>10. CASE Respond
    BY <2>10, MaxRequestsAssumption DEF Respond
  <2> QED
    BY <1>9, <2>1, <2>2, <2>3, <2>4, <2>5, <2>6, <2>7, <2>8, <2>9, <2>10 DEF LoopSteps
<1>10. CASE DispatchSteps
  BY <1>10
  DEF DispatchSteps, SqlBatch, Rpc, Attention, TransactionManager, BulkLoad, SspiRequest,
      FedauthRequest, Tds5TokenStream, LegacyControl, Unhandled, Served, Refused
<1>11. CASE OtherSteps
  BY <1>11
  DEF OtherSteps, WriteFails, EncodeFails, ReportFailure, WriteStage
<1>12. CASE UNCHANGED vars
  BY <1>12 DEF vars, counts
<1> QED
  BY <1>1, <1>2, <1>3, <1>4, <1>5, <1>6, <1>7, <1>8, <1>9, <1>10, <1>11, <1>12
  DEF Next, OpeningStep, LoginStep, RequestStep, ProbeSteps, Tls8Steps, PreloginSteps,
      TlsSteps, LoginSteps, Tds5Steps, AnswerSteps, ExchangeSteps, LoopSteps, DispatchSteps,
      OtherSteps

-----------------------------------------------------------------------------
(* The channel, and what it exposes *)

Opening == {"probe", "tls8_handshake", "prelogin8_read", "prelogin8_parse", "prelogin8_response",
            "prelogin_read", "prelogin_parse", "prelogin_response", "tls_peek", "tls_login_only"}

Plaintext == {PlaintextTransport[t] : t \in MicrosoftAuth}

\* What the PRELOGIN response announced is what the channel has become.
Honoured ==
    /\ advertised \in {"On", "Required"} => channel = "tls" \/ transport \in Plaintext
    /\ advertised = "Off" => channel = "plain"
    /\ plan # "refuse"

\* On the way there: the channel of each stage, and what is still to come.
Negotiation ==
    /\ config \in Configs
    /\ pc \in {"probe", "tls8_handshake", "prelogin_read", "prelogin_parse", "prelogin_response",
              "tls_peek"} => channel = "plain"
    /\ pc \in {"prelogin8_read", "prelogin8_parse", "prelogin8_response", "tls_login_only"} =>
         channel = "tls"
    /\ pc \in {"probe", "tls8_handshake", "prelogin8_read", "prelogin8_parse", "prelogin_read",
              "prelogin_parse"} => advertised = "none" /\ plan = "none"
    /\ pc = "prelogin8_response" => plan = "plain" /\ advertised = "Required"
    /\ pc = "prelogin_response" =>
         plan \in {"tls", "plain", "refuse"} /\ (plan = "plain" => advertised = "NotSupported")
    /\ pc = "tls_peek" => plan = "tls"
    /\ pc = "tls_login_only" => plan = "tls" /\ advertised = "Off"
    /\ pc \notin Opening \cup Final => Honoured

\* The stages that wait for credentials are reported under their own name.
Waiting == {"login_read", "tds5_secure_login_read", "sspi_read", "fedauth_read", "request_read"}

Exposure ==
    /\ exposed \in BOOLEAN
    /\ pc \in Waiting => stage = pc
    /\ exposed => stage \notin SafeStages /\ pc \notin Opening
    /\ diagnostics # "none" => pc = "closed"
    /\ diagnostics = "prefix" => ~exposed

\* The transport of a login in the clear is not renamed.
LEMMA PlaintextKeepsName ==
    \A tr \in Plaintext : \A t, p : ProtocolTransport(LoginTransport(tr, t), p) = tr
<1>1. Plaintext = {"tds42_plaintext_after_prelogin", "tds7_plaintext_after_prelogin",
                   "sspi_plaintext_after_prelogin", "fedauth_plaintext_after_prelogin"}
  BY DEF Plaintext, PlaintextTransport, MicrosoftAuth
<1> QED
  BY <1>1 DEF ProtocolTransport, LoginTransport

\* Each stage leaves the channel that the next one expects.
LEMMA KeepsNegotiation == Negotiation /\ [Next]_vars => Negotiation'
<1> SUFFICES ASSUME Negotiation, [Next]_vars PROVE Negotiation'
  OBVIOUS
<1> USE DEF Negotiation, Honoured, Opening, Final, Fail, Close, Return, Go, Reads, ReadBreaks,
            Took, link
<1>1. CASE ProbeSteps
  BY SMTT(60), <1>1
  DEF ProbeSteps, ProbeFails, ProbeTls, ProbeSmp, ProbeLogin, ProbePrelogin, Probe
<1>2. CASE Tls8Steps
  <2>1. CASE Tls8Handshake
    BY <2>1 DEF Tls8Handshake
  <2>2. CASE Tls8HandshakeFails
    BY <2>2 DEF Tls8HandshakeFails
  <2>3. CASE Prelogin8Read
    BY <2>3 DEF Prelogin8Read
  <2>4. CASE Prelogin8ReadBreaks
    BY <2>4 DEF Prelogin8ReadBreaks
  <2>5. CASE Prelogin8IsLogin
    BY <2>5 DEF Prelogin8IsLogin
  <2>6. CASE Prelogin8Unexpected
    BY <2>6 DEF Prelogin8Unexpected
  <2>7. CASE Prelogin8Parse
    BY <2>7 DEF Prelogin8Parse
  <2>8. CASE Prelogin8Response
    BY SMTT(60), <2>8 DEF Prelogin8Response
  <2> QED
    BY <1>2, <2>1, <2>2, <2>3, <2>4, <2>5, <2>6, <2>7, <2>8 DEF Tls8Steps
<1>3. CASE PreloginSteps
  <2>1. CASE PreloginRead
    BY <2>1 DEF PreloginRead
  <2>2. CASE PreloginReadBreaks
    BY <2>2 DEF PreloginReadBreaks
  <2>3. CASE PreloginUnexpected
    BY <2>3 DEF PreloginUnexpected
  <2>4. CASE PreloginParse
    BY <2>4 DEF PreloginParse, Negotiated, UsesTls, TlsModes, Configs, Encryptions
  <2>5. CASE PreloginResponse
    BY <2>5 DEF PreloginResponse
  <2>6. CASE PreloginRefuse
    BY <2>6 DEF PreloginRefuse
  <2> QED
    BY <1>3, <2>1, <2>2, <2>3, <2>4, <2>5, <2>6 DEF PreloginSteps
<1>4. CASE TlsSteps
  <2>1. CASE PlaintextLogin
    BY <2>1 DEF PlaintextLogin, Plaintext
  <2>2. CASE TlsHandshake
    BY <2>2 DEF TlsHandshake, Plaintext
  <2>3. CASE TlsHandshakeFails
    BY <2>3 DEF TlsHandshakeFails, Plaintext
  <2>4. CASE LoginOnly
    BY <2>4 DEF LoginOnly, Plaintext
  <2>5. CASE LoginOnlyBreaks
    BY <2>5 DEF LoginOnlyBreaks, Plaintext
  <2> QED
    BY SMTT(60), <1>4, <2>1, <2>2, <2>3, <2>4, <2>5 DEF TlsSteps
<1>5. CASE LoginSteps
  BY SMTT(60), <1>5, PlaintextKeepsName
  DEF LoginSteps, LoginRead, LoginReadBreaks, LoginParse, LoginParseFails, LoginUnexpected,
      Renamed
<1>6. CASE Tds5Steps
  BY ZenonT(60), <1>6
  DEF Tds5Steps, Tds5Challenge, Tds5Read, Tds5ReadBreaks, Tds5Parse, Tds5ParseFails
<1>7. CASE AnswerSteps
  BY <1>7
  DEF AnswerSteps, AnswerFederated, AnswerIntegrated, AnswerRejected, AnswerAccepted,
      LoginFailure, LoginSuccess, Answer
<1>8. CASE ExchangeSteps
  BY <1>8
  DEF ExchangeSteps, FedauthInfo, FedauthRead, FedauthReadBreaks, FedauthParse,
      FedauthUnexpected, SspiChallenge, SspiRead, SspiReadBreaks, SspiParse, SspiUnexpected
<1>9. CASE LoopSteps
  BY <1>9
  DEF LoopSteps, LoopTop, RequestLimit, RequestRead, RequestReadBreaks, ClientCloses,
      RequestTimeout, RateLimited, EncryptedCommand, CountRequest, Respond
<1>10. CASE DispatchSteps
  BY <1>10
  DEF DispatchSteps, SqlBatch, Rpc, Attention, TransactionManager, BulkLoad, SspiRequest,
      FedauthRequest, Tds5TokenStream, LegacyControl, Unhandled, Served, Refused
<1>11. CASE OtherSteps
  BY <1>11
  DEF OtherSteps, WriteFails, EncodeFails, ReportFailure, WriteStage
<1>12. CASE UNCHANGED vars
  BY <1>12 DEF vars, link
<1> QED
  BY ZenonT(60), <1>1, <1>2, <1>3, <1>4, <1>5, <1>6, <1>7, <1>8, <1>9, <1>10, <1>11, <1>12
  DEF Next, OpeningStep, LoginStep, RequestStep, ProbeSteps, Tls8Steps, PreloginSteps,
      TlsSteps, LoginSteps, Tds5Steps, AnswerSteps, ExchangeSteps, LoopSteps, DispatchSteps,
      OtherSteps

\* Credentials are read in the clear only where the stage does not show its bytes.
LEMMA KeepsExposure == Negotiation /\ Exposure /\ [Next]_vars => Exposure'
<1> SUFFICES ASSUME Negotiation, Exposure, [Next]_vars PROVE Exposure'
  OBVIOUS
<1> USE DEF Negotiation, Exposure, Waiting, Opening, Fail, Close, Return, Go, Reads,
            ReadBreaks, Took, link, report, Credentials, SafeStages
<1>1. CASE ProbeSteps
  BY <1>1
  DEF ProbeSteps, ProbeFails, ProbeTls, ProbeSmp, ProbeLogin, ProbePrelogin, Probe
<1>2. CASE Tls8Steps
  <2>1. CASE Tls8Handshake
    BY <2>1 DEF Tls8Handshake
  <2>2. CASE Tls8HandshakeFails
    BY <2>2 DEF Tls8HandshakeFails
  <2>3. CASE Prelogin8Read
    BY <2>3 DEF Prelogin8Read
  <2>4. CASE Prelogin8ReadBreaks
    BY <2>4 DEF Prelogin8ReadBreaks
  <2>5. CASE Prelogin8IsLogin
    BY <2>5 DEF Prelogin8IsLogin
  <2>6. CASE Prelogin8Unexpected
    BY <2>6 DEF Prelogin8Unexpected
  <2>7. CASE Prelogin8Parse
    BY <2>7 DEF Prelogin8Parse
  <2>8. CASE Prelogin8Response
    BY SMTT(60), <2>8 DEF Prelogin8Response
  <2> QED
    BY <1>2, <2>1, <2>2, <2>3, <2>4, <2>5, <2>6, <2>7, <2>8 DEF Tls8Steps
<1>3. CASE PreloginSteps
  <2>1. CASE PreloginRead
    BY <2>1 DEF PreloginRead
  <2>2. CASE PreloginReadBreaks
    BY <2>2 DEF PreloginReadBreaks
  <2>3. CASE PreloginUnexpected
    BY <2>3 DEF PreloginUnexpected
  <2>4. CASE PreloginParse
    BY <2>4 DEF PreloginParse
  <2>5. CASE PreloginResponse
    BY <2>5 DEF PreloginResponse
  <2>6. CASE PreloginRefuse
    BY <2>6 DEF PreloginRefuse
  <2> QED
    BY <1>3, <2>1, <2>2, <2>3, <2>4, <2>5, <2>6 DEF PreloginSteps
<1>4. CASE TlsSteps
  <2>1. CASE PlaintextLogin
    BY <2>1 DEF PlaintextLogin
  <2>2. CASE TlsHandshake
    BY <2>2 DEF TlsHandshake
  <2>3. CASE TlsHandshakeFails
    BY <2>3 DEF TlsHandshakeFails
  <2>4. CASE LoginOnly
    BY <2>4 DEF LoginOnly
  <2>5. CASE LoginOnlyBreaks
    BY <2>5 DEF LoginOnlyBreaks
  <2> QED
    BY <1>4, <2>1, <2>2, <2>3, <2>4, <2>5 DEF TlsSteps
<1>5. CASE LoginSteps
  BY ZenonT(60), <1>5
  DEF LoginSteps, LoginRead, LoginReadBreaks, LoginParse, LoginParseFails, LoginUnexpected
<1>6. CASE Tds5Steps
  <2>1. CASE Tds5Challenge
    BY <2>1 DEF Tds5Challenge
  <2>2. CASE Tds5Read
    BY <2>2 DEF Tds5Read
  <2>3. CASE Tds5ReadBreaks
    BY <2>3 DEF Tds5ReadBreaks
  <2>4. CASE Tds5Parse
    BY <2>4 DEF Tds5Parse
  <2>5. CASE Tds5ParseFails
    BY <2>5 DEF Tds5ParseFails
  <2> QED
    BY <1>6, <2>1, <2>2, <2>3, <2>4, <2>5 DEF Tds5Steps
<1>7. CASE AnswerSteps
  BY <1>7
  DEF AnswerSteps, AnswerFederated, AnswerIntegrated, AnswerRejected, AnswerAccepted,
      LoginFailure, LoginSuccess, Answer
<1>8. CASE ExchangeSteps
  BY ZenonT(60), <1>8
  DEF ExchangeSteps, FedauthInfo, FedauthRead, FedauthReadBreaks, FedauthParse,
      FedauthUnexpected, SspiChallenge, SspiRead, SspiReadBreaks, SspiParse, SspiUnexpected
<1>9. CASE LoopSteps
  <2>1. CASE LoopTop
    BY <2>1 DEF LoopTop
  <2>2. CASE RequestLimit
    BY <2>2 DEF RequestLimit
  <2>3. CASE RequestRead
    BY <2>3 DEF RequestRead
  <2>4. CASE RequestReadBreaks
    BY <2>4 DEF RequestReadBreaks
  <2>5. CASE ClientCloses
    BY <2>5 DEF ClientCloses
  <2>6. CASE RequestTimeout
    BY <2>6 DEF RequestTimeout
  <2>7. CASE RateLimited
    BY <2>7 DEF RateLimited
  <2>8. CASE EncryptedCommand
    BY <2>8 DEF EncryptedCommand
  <2>9. CASE CountRequest
    BY <2>9 DEF CountRequest
  <2>10. CASE Respond
    BY SMTT(60), <2>10 DEF Respond
  <2> QED
    BY <1>9, <2>1, <2>2, <2>3, <2>4, <2>5, <2>6, <2>7, <2>8, <2>9, <2>10 DEF LoopSteps
<1>10. CASE DispatchSteps
  BY <1>10
  DEF DispatchSteps, SqlBatch, Rpc, Attention, TransactionManager, BulkLoad, SspiRequest,
      FedauthRequest, Tds5TokenStream, LegacyControl, Unhandled, Served, Refused
<1>11. CASE OtherSteps
  BY <1>11
  DEF OtherSteps, WriteFails, EncodeFails, ReportFailure, WriteStage
<1>12. CASE UNCHANGED vars
  BY SMTT(60), <1>12 DEF vars, link, report
<1> QED
  BY <1>1, <1>2, <1>3, <1>4, <1>5, <1>6, <1>7, <1>8, <1>9, <1>10, <1>11, <1>12
  DEF Next, OpeningStep, LoginStep, RequestStep, ProbeSteps, Tls8Steps, PreloginSteps,
      TlsSteps, LoginSteps, Tds5Steps, AnswerSteps, ExchangeSteps, LoopSteps, DispatchSteps,
      OtherSteps

-----------------------------------------------------------------------------
(* The messages that carry credentials *)

\* The types that a legacy transport takes for a login.
LegacyLogins == {"LOGIN"} \cup Tds5Auth

\* The message in hand is the one that the stage has read, ...
Messages ==
    /\ DOMAIN message = {"stage", "type", "whole", "kept"}
    /\ message.whole => message.type \in PacketTypes
    /\ pc = "prelogin8_parse" => message.whole /\ message.stage = "prelogin8_read"
    /\ pc = "prelogin_parse" => message.stage = "prelogin_read"
    /\ pc = "login_parse" => message.whole /\ message.stage \in {"login_read", "prelogin8_read"}
    /\ pc = "sspi_parse" => message.stage = "sspi_read"
    /\ pc = "fedauth_parse" => message.stage = "fedauth_read"
    /\ pc \in {"request_parse", "dispatch"} => message.stage = "request_read"

\* ... and the name of the transport tells a legacy session from a Microsoft one.
Transport ==
    /\ pc \in {"tls8_handshake", "prelogin8_read", "prelogin8_parse", "prelogin8_response"} =>
         transport = "tds8"
    /\ pc \in {"prelogin_read", "prelogin_parse", "prelogin_response", "tls_peek",
              "tls_login_only"} => transport = "tds7"
    /\ pc = "login_read" => (transport \in LegacyTransports => next \in LegacyLogins)
    /\ pc = "login_parse" => (transport \in LegacyTransports => message.type \in LegacyLogins)
    /\ pc \notin Opening \cup Final \cup {"login_read", "login_parse"} =>
         (~Legacy => transport \notin LegacyTransports)
    /\ form.federated # "no" => ~Legacy
    /\ pc \in {"fedauth_info", "fedauth_read", "fedauth_parse", "sspi_challenge", "sspi_read",
              "sspi_parse"} => ~Legacy

\* What the handler has given to the store of a message that carries credentials.
Kept ==
    (message.whole /\ LoginMaterial(message)) =>
        /\ "artifact" \notin message.kept
        /\ (/\ config.retain
            /\ pc \in {"prelogin8_parse", "login_parse"} => AuthFor(message.type, transport))
           => "authentication" \in message.kept

\* Every stage parses what it has read.
LEMMA KeepsMessages == Messages /\ [Next]_vars => Messages'
<1> SUFFICES ASSUME Messages, [Next]_vars PROVE Messages'
  OBVIOUS
<1> USE DEF Messages, Fail, Close, Return, Go, Reads, ReadBreaks, Took, WholeTypes
<1>1. CASE ProbeSteps
  BY <1>1
  DEF ProbeSteps, ProbeFails, ProbeTls, ProbeSmp, ProbeLogin, ProbePrelogin, Probe
<1>2. CASE Tls8Steps
  BY <1>2
  DEF Tls8Steps, Tls8Handshake, Tls8HandshakeFails, Prelogin8Read, Prelogin8ReadBreaks,
      Prelogin8IsLogin, Prelogin8Unexpected, Prelogin8Parse, Prelogin8Response
<1>3. CASE PreloginSteps
  BY SMTT(60), <1>3
  DEF PreloginSteps, PreloginRead, PreloginReadBreaks, PreloginUnexpected, PreloginParse,
      PreloginResponse, PreloginRefuse
<1>4. CASE TlsSteps
  BY SMTT(60), <1>4
  DEF TlsSteps, PlaintextLogin, TlsHandshake, TlsHandshakeFails, LoginOnly, LoginOnlyBreaks
<1>5. CASE LoginSteps
  <2>1. CASE LoginRead
    BY <2>1 DEF LoginRead
  <2>2. CASE LoginReadBreaks
    BY <2>2 DEF LoginReadBreaks
  <2>3. CASE LoginParse
    BY <2>3 DEF LoginParse
  <2>4. CASE LoginParseFails
    BY <2>4 DEF LoginParseFails
  <2>5. CASE LoginUnexpected
    BY <2>5 DEF LoginUnexpected
  <2> QED
    BY SMTT(60), <1>5, <2>1, <2>2, <2>3, <2>4, <2>5 DEF LoginSteps
<1>6. CASE Tds5Steps
  <2>1. CASE Tds5Challenge
    BY SMTT(60), <2>1 DEF Tds5Challenge
  <2>2. CASE Tds5Read
    BY SMTT(60), <2>2 DEF Tds5Read
  <2>3. CASE Tds5ReadBreaks
    BY <2>3 DEF Tds5ReadBreaks
  <2>4. CASE Tds5Parse
    BY <2>4 DEF Tds5Parse
  <2>5. CASE Tds5ParseFails
    BY <2>5 DEF Tds5ParseFails
  <2> QED
    BY <1>6, <2>1, <2>2, <2>3, <2>4, <2>5 DEF Tds5Steps
<1>7. CASE AnswerSteps
  BY <1>7
  DEF AnswerSteps, AnswerFederated, AnswerIntegrated, AnswerRejected, AnswerAccepted,
      LoginFailure, LoginSuccess, Answer
<1>8. CASE ExchangeSteps
  BY <1>8
  DEF ExchangeSteps, FedauthInfo, FedauthRead, FedauthReadBreaks, FedauthParse,
      FedauthUnexpected, SspiChallenge, SspiRead, SspiReadBreaks, SspiParse, SspiUnexpected
<1>9. CASE LoopSteps
  BY SMTT(60), <1>9
  DEF LoopSteps, LoopTop, RequestLimit, RequestRead, RequestReadBreaks, ClientCloses,
      RequestTimeout, RateLimited, EncryptedCommand, CountRequest, Respond
<1>10. CASE DispatchSteps
  <2>1. CASE SqlBatch
    BY <2>1 DEF SqlBatch, Served, Refused
  <2>2. CASE Rpc
    BY <2>2 DEF Rpc, Served, Refused
  <2>3. CASE Attention
    BY <2>3 DEF Attention, Served, Refused
  <2>4. CASE TransactionManager
    BY <2>4 DEF TransactionManager, Served, Refused
  <2>5. CASE BulkLoad
    BY <2>5 DEF BulkLoad, Served, Refused
  <2>6. CASE SspiRequest
    BY <2>6 DEF SspiRequest, Served, Refused
  <2>7. CASE FedauthRequest
    BY <2>7 DEF FedauthRequest, Served, Refused
  <2>8. CASE Tds5TokenStream
    BY <2>8 DEF Tds5TokenStream, Served, Refused
  <2>9. CASE LegacyControl
    BY <2>9 DEF LegacyControl, Served, Refused
  <2>10. CASE Unhandled
    BY <2>10 DEF Unhandled, Served, Refused
  <2> QED
    BY <1>10, <2>1, <2>2, <2>3, <2>4, <2>5, <2>6, <2>7, <2>8, <2>9, <2>10 DEF DispatchSteps
<1>11. CASE OtherSteps
  BY <1>11
  DEF OtherSteps, WriteFails, EncodeFails, ReportFailure, WriteStage
<1>12. CASE UNCHANGED vars
  BY SMTT(60), <1>12 DEF vars
<1> QED
  BY ZenonT(60), <1>1, <1>2, <1>3, <1>4, <1>5, <1>6, <1>7, <1>8, <1>9, <1>10, <1>11, <1>12
  DEF Next, OpeningStep, LoginStep, RequestStep, ProbeSteps, Tls8Steps, PreloginSteps,
      TlsSteps, LoginSteps, Tds5Steps, AnswerSteps, ExchangeSteps, LoopSteps, DispatchSteps,
      OtherSteps

\* The transport is renamed with the form of the login.
LEMMA KeepsTransport == Messages /\ Transport /\ [Next]_vars => Transport'
<1> SUFFICES ASSUME Messages, Transport, [Next]_vars PROVE Transport'
  OBVIOUS
<1> USE DEF Messages, Transport, Opening, Final, Legacy, Fail, Close, Return, Go, Reads,
            ReadBreaks, Took, link, LegacyTransports
<1>1. CASE ProbeSteps
  <2>1. CASE ProbeFails
    BY <2>1 DEF ProbeFails, Probe
  <2>2. CASE ProbeTls
    BY <2>2 DEF ProbeTls, Probe
  <2>3. CASE ProbeSmp
    BY <2>3 DEF ProbeSmp, Probe
  <2>4. CASE ProbeLogin
    BY <2>4
    DEF ProbeLogin, Probe, DirectTransport, Candidates, MicrosoftAuth, Tds5Auth, LegacyLogins
  <2>5. CASE ProbePrelogin
    BY <2>5 DEF ProbePrelogin, Probe
  <2> QED
    BY SMTT(60), <1>1, <2>1, <2>2, <2>3, <2>4, <2>5 DEF ProbeSteps
<1>2. CASE Tls8Steps
  BY <1>2
  DEF Tls8Steps, Tls8Handshake, Tls8HandshakeFails, Prelogin8Read, Prelogin8ReadBreaks,
      Prelogin8IsLogin, Prelogin8Unexpected, Prelogin8Parse, Prelogin8Response
<1>3. CASE PreloginSteps
  BY <1>3
  DEF PreloginSteps, PreloginRead, PreloginReadBreaks, PreloginUnexpected, PreloginParse,
      PreloginResponse, PreloginRefuse
<1>4. CASE TlsSteps
  <2>1. CASE PlaintextLogin
    BY <2>1 DEF PlaintextLogin, PlaintextTransport, MicrosoftAuth, LegacyLogins
  <2>2. CASE TlsHandshake
    BY <2>2 DEF TlsHandshake
  <2>3. CASE TlsHandshakeFails
    BY <2>3 DEF TlsHandshakeFails
  <2>4. CASE LoginOnly
    BY SMTT(60), <2>4 DEF LoginOnly
  <2>5. CASE LoginOnlyBreaks
    BY SMTT(60), <2>5 DEF LoginOnlyBreaks
  <2> QED
    BY <1>4, <2>1, <2>2, <2>3, <2>4, <2>5 DEF TlsSteps
<1>5. CASE LoginSteps
  <2>1. CASE LoginRead
    BY SMTT(60), <2>1 DEF LoginRead, WholeTypes, LegacyLogins, Tds5Auth
  <2>2. CASE LoginReadBreaks
    BY <2>2 DEF LoginReadBreaks
  <2>3. CASE LoginParse
    BY SMTT(60), <2>3
    DEF LoginParse, Renamed, LoginTransport, ProtocolTransport, Forms, LegacyProtocols,
        LegacyLogins, Tds5Auth
  <2>4. CASE LoginParseFails
    BY <2>4 DEF LoginParseFails
  <2>5. CASE LoginUnexpected
    BY SMTT(60), <2>5 DEF LoginUnexpected
  <2> QED
    BY <1>5, <2>1, <2>2, <2>3, <2>4, <2>5 DEF LoginSteps
<1>6. CASE Tds5Steps
  BY ZenonT(60), <1>6
  DEF Tds5Steps, Tds5Challenge, Tds5Read, Tds5ReadBreaks, Tds5Parse, Tds5ParseFails
<1>7. CASE AnswerSteps
  <2>1. CASE AnswerFederated
    BY <2>1 DEF AnswerFederated, Answer
  <2>2. CASE AnswerIntegrated
    BY <2>2 DEF AnswerIntegrated, Answer, LegacyProtocols
  <2>3. CASE AnswerRejected
    BY <2>3 DEF AnswerRejected, Answer
  <2>4. CASE AnswerAccepted
    BY <2>4 DEF AnswerAccepted, Answer
  <2>5. CASE LoginFailure
    BY <2>5 DEF LoginFailure, Answer
  <2>6. CASE LoginSuccess
    BY <2>6 DEF LoginSuccess, Answer
  <2> QED
    BY <1>7, <2>1, <2>2, <2>3, <2>4, <2>5, <2>6 DEF AnswerSteps
<1>8. CASE ExchangeSteps
  BY <1>8
  DEF ExchangeSteps, FedauthInfo, FedauthRead, FedauthReadBreaks, FedauthParse,
      FedauthUnexpected, SspiChallenge, SspiRead, SspiReadBreaks, SspiParse, SspiUnexpected
<1>9. CASE LoopSteps
  BY SMTT(60), <1>9
  DEF LoopSteps, LoopTop, RequestLimit, RequestRead, RequestReadBreaks, ClientCloses,
      RequestTimeout, RateLimited, EncryptedCommand, CountRequest, Respond
<1>10. CASE DispatchSteps
  <2>1. CASE SqlBatch
    BY <2>1 DEF SqlBatch, Served, Refused
  <2>2. CASE Rpc
    BY <2>2 DEF Rpc, Served, Refused
  <2>3. CASE Attention
    BY <2>3 DEF Attention, Served, Refused
  <2>4. CASE TransactionManager
    BY <2>4 DEF TransactionManager, Served, Refused
  <2>5. CASE BulkLoad
    BY <2>5 DEF BulkLoad, Served, Refused
  <2>6. CASE SspiRequest
    BY <2>6 DEF SspiRequest, Served, Refused
  <2>7. CASE FedauthRequest
    BY <2>7 DEF FedauthRequest, Served, Refused
  <2>8. CASE Tds5TokenStream
    BY <2>8 DEF Tds5TokenStream, Served, Refused
  <2>9. CASE LegacyControl
    BY <2>9 DEF LegacyControl, Served, Refused
  <2>10. CASE Unhandled
    BY <2>10 DEF Unhandled, Served, Refused
  <2> QED
    BY <1>10, <2>1, <2>2, <2>3, <2>4, <2>5, <2>6, <2>7, <2>8, <2>9, <2>10 DEF DispatchSteps
<1>11. CASE OtherSteps
  BY SMTT(60), <1>11
  DEF OtherSteps, WriteFails, EncodeFails, ReportFailure, WriteStage
<1>12. CASE UNCHANGED vars
  BY SMTT(60), <1>12 DEF vars, link
<1> QED
  BY ZenonT(60), <1>1, <1>2, <1>3, <1>4, <1>5, <1>6, <1>7, <1>8, <1>9, <1>10, <1>11, <1>12
  DEF Next, OpeningStep, LoginStep, RequestStep, ProbeSteps, Tls8Steps, PreloginSteps,
      TlsSteps, LoginSteps, Tds5Steps, AnswerSteps, ExchangeSteps, LoopSteps, DispatchSteps,
      OtherSteps

\* A message that carries credentials is kept as authentication, or not at all.
LEMMA KeepsKept == Messages /\ Transport /\ Kept /\ [Next]_vars => Kept'
<1> SUFFICES ASSUME Messages, Transport, Kept, [Next]_vars PROVE Kept'
  OBVIOUS
<1> USE DEF Kept, Credentials, Messages, Transport, Legacy, LoginMaterial, Fail, Close, Return,
            Go, Reads, ReadBreaks, Took, link
<1>1. CASE ProbeSteps
  <2>1. CASE ProbeFails
    BY <2>1 DEF ProbeFails, Probe
  <2>2. CASE ProbeTls
    BY <2>2 DEF ProbeTls, Probe
  <2>3. CASE ProbeSmp
    BY <2>3 DEF ProbeSmp, Probe
  <2>4. CASE ProbeLogin
    BY <2>4 DEF ProbeLogin, Probe
  <2>5. CASE ProbePrelogin
    BY <2>5 DEF ProbePrelogin, Probe
  <2> QED
    BY <1>1, <2>1, <2>2, <2>3, <2>4, <2>5 DEF ProbeSteps
<1>2. CASE Tls8Steps
  <2>1. CASE Tls8Handshake
    BY <2>1 DEF Tls8Handshake
  <2>2. CASE Tls8HandshakeFails
    BY <2>2 DEF Tls8HandshakeFails
  <2>3. CASE Prelogin8Read
    BY <2>3
    DEF Prelogin8Read, WholeTypes, Observed, Authentication, AuthFor, PacketTypes, Candidates,
        MicrosoftAuth, LegacyTransports, RequestTypes, Tds5Auth
  <2>4. CASE Prelogin8ReadBreaks
    BY <2>4 DEF Prelogin8ReadBreaks
  <2>5. CASE Prelogin8IsLogin
    BY <2>5 DEF Prelogin8IsLogin
  <2>6. CASE Prelogin8Unexpected
    BY <2>6 DEF Prelogin8Unexpected, PacketTypes, Candidates, RequestTypes
  <2>7. CASE Prelogin8Parse
    BY <2>7 DEF Prelogin8Parse, Candidates, MicrosoftAuth, Tds5Auth
  <2>8. CASE Prelogin8Response
    BY <2>8 DEF Prelogin8Response
  <2> QED
    BY <1>2, <2>1, <2>2, <2>3, <2>4, <2>5, <2>6, <2>7, <2>8 DEF Tls8Steps
<1>3. CASE PreloginSteps
  <2>1. CASE PreloginRead
    BY <2>1 DEF PreloginRead
  <2>2. CASE PreloginReadBreaks
    BY <2>2 DEF PreloginReadBreaks
  <2>3. CASE PreloginUnexpected
    BY <2>3 DEF PreloginUnexpected
  <2>4. CASE PreloginParse
    BY <2>4 DEF PreloginParse
  <2>5. CASE PreloginResponse
    BY <2>5 DEF PreloginResponse
  <2>6. CASE PreloginRefuse
    BY <2>6 DEF PreloginRefuse
  <2> QED
    BY <1>3, <2>1, <2>2, <2>3, <2>4, <2>5, <2>6 DEF PreloginSteps
<1>4. CASE TlsSteps
  <2>1. CASE PlaintextLogin
    BY <2>1 DEF PlaintextLogin
  <2>2. CASE TlsHandshake
    BY <2>2 DEF TlsHandshake
  <2>3. CASE TlsHandshakeFails
    BY <2>3 DEF TlsHandshakeFails
  <2>4. CASE LoginOnly
    BY <2>4 DEF LoginOnly
  <2>5. CASE LoginOnlyBreaks
    BY <2>5 DEF LoginOnlyBreaks
  <2> QED
    BY <1>4, <2>1, <2>2, <2>3, <2>4, <2>5 DEF TlsSteps
<1>5. CASE LoginSteps
  <2>1. CASE LoginRead
    BY <2>1 DEF LoginRead, WholeTypes, Observed, Authentication, AuthFor
  <2>2. CASE LoginReadBreaks
    BY <2>2 DEF LoginReadBreaks
  <2>3. CASE LoginParse
    BY <2>3 DEF LoginParse, AuthFor, MicrosoftAuth, LegacyLogins, Tds5Auth
  <2>4. CASE LoginParseFails
    BY <2>4 DEF LoginParseFails, AuthFor, MicrosoftAuth, LegacyLogins, Tds5Auth
  <2>5. CASE LoginUnexpected
    BY <2>5
    DEF LoginUnexpected, Artifact, Authentication, AuthFor, MicrosoftAuth, LegacyLogins,
        Tds5Auth, Candidates, PacketTypes, RequestTypes
  <2> QED
    BY <1>5, <2>1, <2>2, <2>3, <2>4, <2>5 DEF LoginSteps
<1>6. CASE Tds5Steps
  <2>1. CASE Tds5Challenge
    BY <2>1 DEF Tds5Challenge
  <2>2. CASE Tds5Read
    BY <2>2 DEF Tds5Read, Authentication
  <2>3. CASE Tds5ReadBreaks
    BY <2>3 DEF Tds5ReadBreaks
  <2>4. CASE Tds5Parse
    BY <2>4 DEF Tds5Parse
  <2>5. CASE Tds5ParseFails
    BY <2>5 DEF Tds5ParseFails
  <2> QED
    BY <1>6, <2>1, <2>2, <2>3, <2>4, <2>5 DEF Tds5Steps
<1>7. CASE AnswerSteps
  <2>1. CASE AnswerFederated
    BY <2>1 DEF AnswerFederated, Answer
  <2>2. CASE AnswerIntegrated
    BY <2>2 DEF AnswerIntegrated, Answer
  <2>3. CASE AnswerRejected
    BY <2>3 DEF AnswerRejected, Answer
  <2>4. CASE AnswerAccepted
    BY <2>4 DEF AnswerAccepted, Answer
  <2>5. CASE LoginFailure
    BY <2>5 DEF LoginFailure, Answer
  <2>6. CASE LoginSuccess
    BY <2>6 DEF LoginSuccess, Answer
  <2> QED
    BY <1>7, <2>1, <2>2, <2>3, <2>4, <2>5, <2>6 DEF AnswerSteps
<1>8. CASE ExchangeSteps
  <2>1. CASE FedauthInfo
    BY <2>1 DEF FedauthInfo
  <2>2. CASE FedauthRead
    BY <2>2
    DEF FedauthRead, WholeTypes, Observed, Authentication, AuthFor, Opening, Final,
        PacketTypes, Candidates, MicrosoftAuth, Tds5Auth, RequestTypes
  <2>3. CASE FedauthReadBreaks
    BY <2>3 DEF FedauthReadBreaks
  <2>4. CASE FedauthParse
    BY <2>4 DEF FedauthParse
  <2>5. CASE FedauthUnexpected
    BY <2>5
    DEF FedauthUnexpected, PacketTypes, Candidates, MicrosoftAuth, Tds5Auth, RequestTypes
  <2>6. CASE SspiChallenge
    BY <2>6 DEF SspiChallenge
  <2>7. CASE SspiRead
    BY <2>7
    DEF SspiRead, WholeTypes, Observed, Authentication, AuthFor, Opening, Final, PacketTypes,
        Candidates, MicrosoftAuth, Tds5Auth, RequestTypes
  <2>8. CASE SspiReadBreaks
    BY <2>8 DEF SspiReadBreaks
  <2>9. CASE SspiParse
    BY <2>9 DEF SspiParse
  <2>10. CASE SspiUnexpected
    BY <2>10 DEF SspiUnexpected
  <2> QED
    BY <1>8, <2>1, <2>2, <2>3, <2>4, <2>5, <2>6, <2>7, <2>8, <2>9, <2>10 DEF ExchangeSteps
<1>9. CASE LoopSteps
  <2>1. CASE LoopTop
    BY <2>1 DEF LoopTop
  <2>2. CASE RequestLimit
    BY <2>2 DEF RequestLimit
  <2>3. CASE RequestRead
    BY <2>3
    DEF RequestRead, WholeTypes, Observed, Authentication, AuthFor, Opening, Final,
        PacketTypes, Candidates, MicrosoftAuth, Tds5Auth, RequestTypes
  <2>4. CASE RequestReadBreaks
    BY <2>4 DEF RequestReadBreaks
  <2>5. CASE ClientCloses
    BY <2>5 DEF ClientCloses
  <2>6. CASE RequestTimeout
    BY <2>6 DEF RequestTimeout
  <2>7. CASE RateLimited
    BY <2>7 DEF RateLimited
  <2>8. CASE EncryptedCommand
    BY <2>8 DEF EncryptedCommand, LegacyProtocols
  <2>9. CASE CountRequest
    BY <2>9 DEF CountRequest
  <2>10. CASE Respond
    BY <2>10 DEF Respond
  <2> QED
    BY <1>9, <2>1, <2>2, <2>3, <2>4, <2>5, <2>6, <2>7, <2>8, <2>9, <2>10 DEF LoopSteps
<1>10. CASE DispatchSteps
  <2>1. CASE SqlBatch
    BY <2>1
    DEF SqlBatch, Served, Refused, Artifact, ThisArtifact, AuthFor, MicrosoftAuth, Opening,
        Final, PacketTypes, Candidates, Tds5Auth, RequestTypes
  <2>2. CASE Rpc
    BY <2>2
    DEF Rpc, Served, Refused, Artifact, ThisArtifact, AuthFor, MicrosoftAuth, Opening, Final,
        PacketTypes, Candidates, Tds5Auth, RequestTypes
  <2>3. CASE Attention
    BY <2>3
    DEF Attention, Served, Refused, Artifact, ThisArtifact, AuthFor, MicrosoftAuth, Opening,
        Final, PacketTypes, Candidates, Tds5Auth, RequestTypes
  <2>4. CASE TransactionManager
    BY <2>4
    DEF TransactionManager, Served, Refused, Artifact, ThisArtifact, AuthFor, MicrosoftAuth,
        Opening, Final, PacketTypes, Candidates, Tds5Auth, RequestTypes
  <2>5. CASE BulkLoad
    BY <2>5
    DEF BulkLoad, Served, Refused, Artifact, ThisArtifact, AuthFor, MicrosoftAuth, Opening,
        Final, PacketTypes, Candidates, Tds5Auth, RequestTypes
  <2>6. CASE SspiRequest
    BY <2>6
    DEF SspiRequest, Served, Refused, Artifact, ThisArtifact, AuthFor, MicrosoftAuth, Opening,
        Final, PacketTypes, Candidates, Tds5Auth, RequestTypes
  <2>7. CASE FedauthRequest
    BY <2>7
    DEF FedauthRequest, Served, Refused, Artifact, ThisArtifact, AuthFor, MicrosoftAuth,
        Opening, Final, PacketTypes, Candidates, Tds5Auth, RequestTypes
  <2>8. CASE Tds5TokenStream
    BY <2>8
    DEF Tds5TokenStream, Served, Refused, Artifact, ThisArtifact, AuthFor, MicrosoftAuth,
        Opening, Final, PacketTypes, Candidates, Tds5Auth, RequestTypes
  <2>9. CASE LegacyControl
    BY <2>9
    DEF LegacyControl, Served, Refused, Artifact, ThisArtifact, AuthFor, MicrosoftAuth,
        Opening, Final, PacketTypes, Candidates, Tds5Auth, RequestTypes
  <2>10. CASE Unhandled
    BY <2>10
    DEF Unhandled, Served, Refused, Artifact, ThisArtifact, AuthFor, MicrosoftAuth, Opening,
        Final, PacketTypes, Candidates, Tds5Auth, RequestTypes
  <2> QED
    BY <1>10, <2>1, <2>2, <2>3, <2>4, <2>5, <2>6, <2>7, <2>8, <2>9, <2>10 DEF DispatchSteps
<1>11. CASE OtherSteps
  <2>1. CASE WriteFails
    BY <2>1 DEF WriteFails, WriteStage
  <2>2. CASE EncodeFails
    BY <2>2 DEF EncodeFails, WriteStage
  <2>3. CASE ReportFailure
    BY <2>3 DEF ReportFailure, WriteStage
  <2> QED
    BY <1>11, <2>1, <2>2, <2>3 DEF OtherSteps
<1>12. CASE UNCHANGED vars
  BY <1>12 DEF vars, link
<1> QED
  BY <1>1, <1>2, <1>3, <1>4, <1>5, <1>6, <1>7, <1>8, <1>9, <1>10, <1>11, <1>12
  DEF Next, OpeningStep, LoginStep, RequestStep, ProbeSteps, Tls8Steps, PreloginSteps,
      TlsSteps, LoginSteps, Tds5Steps, AnswerSteps, ExchangeSteps, LoopSteps, DispatchSteps,
      OtherSteps

-----------------------------------------------------------------------------
(* The theorems *)

IInv ==
    Counting /\ Negotiation /\ Exposure /\ Messages /\ Transport /\ Kept

\* A connection that has just been accepted satisfies the invariant.
LEMMA InitIInv == Init => IInv
<1> SUFFICES ASSUME Init PROVE IInv
  OBVIOUS
<1> USE DEF Init
<1>1. Counting
  BY MaxRequestsAssumption DEF Counting
<1>2. Negotiation
  BY DEF Negotiation, Opening
<1>3. Exposure
  BY ZenonT(60) DEF Exposure, Waiting
<1>4. Messages
  BY DEF Messages, NoMessage
<1>5. Transport
  BY DEF Transport, Opening, NoForm, Legacy
<1>6. Kept
  BY DEF Kept, NoMessage
<1> QED
  BY <1>1, <1>2, <1>3, <1>4, <1>5, <1>6 DEF IInv

\* Whatever the client sends, and wherever a read or a write breaks off, every
\* step of the handler keeps the invariant.
THEOREM Invariance == Spec => []IInv
<1>1. IInv /\ [Next]_vars => IInv'
  BY KeepsCounting, KeepsNegotiation, KeepsExposure, KeepsMessages,
     KeepsTransport, KeepsKept DEF IInv
<1> QED
  BY <1>1, InitIInv, PTL DEF Spec

\* For every request limit, a session answers each request once and reports the
\* number it has counted.
THEOREM AccountsForRequests == Spec => []RequestsAccounted
<1>1. IInv => RequestsAccounted
  BY DEF IInv, Counting, Final, RequestsAccounted
<1> QED
  BY <1>1, Invariance, PTL

\* A session runs on the channel that the PRELOGIN response announced.
THEOREM HonoursEncryption == Spec => []EncryptionHonoured
<1>1. IInv => EncryptionHonoured
  BY DEF IInv, Negotiation, Honoured, Plaintext, Opening, Final, EncryptionHonoured, SessionStates
<1> QED
  BY <1>1, Invariance, PTL

\* A failure report shows the first bytes only of connections that have sent no
\* credentials in the clear.
THEOREM HidesCredentials == Spec => []DiagnosticsCredentialFree
<1>1. IInv => DiagnosticsCredentialFree
  BY DEF IInv, Exposure, DiagnosticsCredentialFree
<1> QED
  BY <1>1, Invariance, PTL

\* No message that carries credentials is stored as an ordinary artifact.
THEOREM SeparatesCredentials == Spec => []ArtifactsCredentialFree
<1>1. IInv => ArtifactsCredentialFree
  BY DEF IInv, Kept, ArtifactsCredentialFree
<1> QED
  BY <1>1, Invariance, PTL

\* Every whole message that carries credentials is retained where that is asked for.
THEOREM RetainsAuthentication == Spec => []AuthenticationRetained
<1>1. IInv => AuthenticationRetained
  BY DEF IInv, Kept, AuthenticationRetained
<1> QED
  BY <1>1, Invariance, PTL
=============================================================================
