------------------------------ MODULE Taxonomy ------------------------------
(***************************************************************************)
(* Packet types, transports, and which packet of which transport carries   *)
(* authentication: the tables that the connection handler consults before  *)
(* it stores what it read.  A packet type byte means different things to   *)
(* Microsoft and to legacy (TDS 4.2, 4.6, 5.0) clients, hence two tables.  *)
(***************************************************************************)

\* tds::is_authentication_packet
MicrosoftAuth == {"LOGIN", "LOGIN7", "SSPI", "FEDAUTH"}
Tds5Auth == {"TDS5_NORMAL", "TDS5_SEQUENCE_LOGIN"}

\* is_initial_authentication_candidate
Candidates == MicrosoftAuth \cup Tds5Auth

\* CONTROL stands for the other types of the legacy table (0x01 to 0x17) and
\* FOREIGN for those beyond it.
RequestTypes == {"SQL_BATCH", "RPC", "ATTENTION", "TRANSACTION_MANAGER",
                 "BULK_LOAD", "CONTROL", "FOREIGN"}
PacketTypes == Candidates \cup RequestTypes \cup {"PRELOGIN"}

\* What a read that fails may have begun with: a packet of some type, or SMP
\* frames, with an authentication message inside or without.
PartialTypes == PacketTypes \cup {"SMP", "SMP_AUTH"}

\* handle: the transport of a connection that opens with its login.
DirectTransport ==
    [t \in Candidates |->
        CASE t = "LOGIN"       -> "tds42_direct"
          [] t = "LOGIN7"      -> "tds7_direct"
          [] t = "SSPI"        -> "sspi_direct"
          [] t = "FEDAUTH"     -> "fedauth_direct"
          [] t = "TDS5_NORMAL" -> "tds50_authentication_direct"
          [] t = "TDS5_SEQUENCE_LOGIN" -> "tds50_command_sequence_login_direct"]

\* handle_inner: the transport of a login sent in the clear where the server
\* has selected encryption.
PlaintextTransport ==
    [t \in MicrosoftAuth |->
        CASE t = "LOGIN"   -> "tds42_plaintext_after_prelogin"
          [] t = "LOGIN7"  -> "tds7_plaintext_after_prelogin"
          [] t = "SSPI"    -> "sspi_plaintext_after_prelogin"
          [] t = "FEDAUTH" -> "fedauth_plaintext_after_prelogin"]

\* login_and_serve_inner: the transport once the type of the login is known.
LoginTransport(tr, t) ==
    CASE tr = "tds7" /\ t = "LOGIN" -> "tds42_after_prelogin"
      [] tr = "tds8" /\ t = "LOGIN" -> "tds42_over_tds8"
      [] OTHER -> tr

LegacyProtocols == {"Tds42", "Tds46", "Tds50"}
Protocols == LegacyProtocols \cup {"Tds7"}

\* ... and once its version is known.
ProtocolTransport(tr, p) ==
    CASE tr = "tds42_direct" /\ p = "Tds46" -> "tds46_direct"
      [] tr = "tds42_direct" /\ p = "Tds50" -> "tds50_direct"
      [] tr = "tds42_after_prelogin" /\ p = "Tds46" -> "tds46_after_prelogin"
      [] tr = "tds42_after_prelogin" /\ p = "Tds50" -> "tds50_after_prelogin"
      [] OTHER -> tr

\* is_legacy_transport: the names that begin with tds42, tds46 or tds50.
LegacyTransports ==
    {"tds42_direct", "tds46_direct", "tds50_direct", "tds50_authentication_direct",
     "tds50_command_sequence_login_direct", "tds42_after_prelogin",
     "tds46_after_prelogin", "tds50_after_prelogin", "tds42_over_tds8",
     "tds42_plaintext_after_prelogin"}
Transports ==
    LegacyTransports \cup
    {"tds7", "tds8", "tds7_direct", "sspi_direct", "fedauth_direct", "smp_unnegotiated",
     "tds7_plaintext_after_prelogin", "sspi_plaintext_after_prelogin",
     "fedauth_plaintext_after_prelogin", "tds7_login_only_tls"}

----------------------------------------------------------------------------
(* Wrong variants of the table below.                                      *)

\* The federated token is not taken for authentication.
AuthForForgetsFedauth(t, tr) == t \in (MicrosoftAuth \ {"FEDAUTH"}) \cup Tds5Auth
----------------------------------------------------------------------------
\* is_authentication_packet_for_transport
AuthFor(t, tr) ==
    IF tr \in LegacyTransports
    THEN \/ t \in {"LOGIN", "TDS5_SEQUENCE_LOGIN"}
         \/ t = "TDS5_NORMAL" /\ tr = "tds50_authentication_direct"
    ELSE t \in MicrosoftAuth

Encryptions == {"Off", "On", "NotSupported", "Required"}
TlsModes == {"Disabled", "Optional", "Preferred", "Required"}

\* negotiate: the encryption the PRELOGIN response announces ...
Negotiated(mode, client) ==
    CASE mode = "Disabled" -> "NotSupported"
      [] mode \in {"Optional", "Preferred"} /\ client = "NotSupported" -> "NotSupported"
      [] mode = "Optional" /\ client = "Off" -> "Off"
      [] mode = "Required" /\ client \in {"Off", "NotSupported"} -> "Required"
      [] OTHER -> "On"

\* ... and whether TLS follows.  A client certificate asks for TLS as well.
UsesTls(mode, client, certificate) ==
    mode # "Disabled" /\ (client # "NotSupported" \/ certificate)
=============================================================================
