----------------------------- MODULE SourceAuth -----------------------------
(***************************************************************************)
(* The decision about a login, taken by many connections of many sources   *)
(* at once: the count of attempts per source (record_login_attempt), the   *)
(* bypass that accepts a persistent source, and the credential policy of   *)
(* Personality.  A login is abstracted to what the decision looks at.      *)
(***************************************************************************)
EXTENDS Integers, FiniteSets

CONSTANTS
    Logins,     \* the login messages that are parsed
    Peers,    \* peer.ip() values
    Kinds,      \* what the decision looks at: a subset of LoginKinds
    Threshold   \* personality.accept_source_after_attempts; 0 stands for null

\* credentials is what Personality::authenticate says of user and password.
LoginKinds == [
    valid: BOOLEAN,             \* login.parse_warnings is empty
    integrated: BOOLEAN,        \* login.integrated_security
    federated: {"no", "partial", "feature"},    \* FEDAUTH feature extension
    secure: BOOLEAN,            \* tds5_secure_password_requested
    external: BOOLEAN,          \* tds5_external_security_requested
    credentials: {"Accept", "Reject", "Locked"}]

\* Config::validate refuses Some(0).
ASSUME SourceAuthAssumption ==
    /\ IsFiniteSet(Logins)
    /\ Kinds \subseteq LoginKinds
    /\ Threshold \in Nat

VARIABLES
    phase,      \* where each login is
    source,     \* peer.ip() of each login
    kind,       \* the kind of each login
    recovered,  \* logins whose TDS 5 password was recovered
    attempts,   \* login_attempts_by_ip
    number,     \* source_login_attempt of each login, 0 for None
    decision,   \* `decision` of each login
    bypassed,   \* logins with source_auth_bypass that were accepted by it
    sessions,   \* metrics.login_attempts
    bypasses,   \* metrics.source_auth_bypasses
    accepted    \* metrics.accepted_logins

login == <<source, kind>>
auth_vars == <<phase, login, recovered, attempts, number, decision, bypassed,
          sessions, bypasses, accepted>>

Phases == {"unparsed", "parsed", "negotiated", "recorded", "decided", "served",
           "refused", "delegated", "failed"}
Decisions == {"Undecided", "Accept", "Reject", "Locked"}

Go(l, s) == phase' = [phase EXCEPT ![l] = s]

----------------------------------------------------------------------------
(* Wrong variants of the conditions below.                                 *)

\* External security is not looked at.
UndecidableForgetsExternal(l) ==
    \/ ~kind[l].valid
    \/ kind[l].integrated
    \/ kind[l].federated # "no"
    \/ kind[l].secure /\ l \notin recovered

----------------------------------------------------------------------------
\* SQL authentication is what counts towards the threshold.
Counted(l) == ~kind[l].integrated /\ kind[l].federated = "no"
SourceAuthBypass(l) == Threshold > 0 /\ number[l] > Threshold
Undecidable(l) ==
    \/ ~kind[l].valid
    \/ kind[l].integrated
    \/ kind[l].federated # "no"
    \/ kind[l].secure /\ l \notin recovered
    \/ kind[l].external
----------------------------------------------------------------------------
AuthInit ==
    /\ phase = [l \in Logins |-> "unparsed"]
    /\ source \in [Logins -> Peers]
    /\ kind \in [Logins -> Kinds]
    /\ recovered = {}
    /\ attempts = [s \in Peers |-> 0]
    /\ number = [l \in Logins |-> 0]
    /\ decision = [l \in Logins |-> "Undecided"]
    /\ bypassed = {}
    /\ sessions = 0
    /\ bypasses = 0
    /\ accepted = 0
----------------------------------------------------------------------------
(* Wrong variants of actions below.                                        *)

\* The count is read, then written back by a later step of the same login:
\* two connections of one source read the same number.
RecordReadsFirst(l) ==
    /\ phase[l] = "negotiated"
    /\ IF ~Counted(l)
       THEN UNCHANGED <<attempts, number>>
       ELSE /\ number' = [number EXCEPT ![l] = attempts[source[l]] + 1]
            /\ attempts' \in {attempts, [attempts EXCEPT ![source[l]] = @ + 1]}
    /\ Go(l, "recorded")
    /\ UNCHANGED <<login, recovered, decision, bypassed, sessions, bypasses, accepted>>

----------------------------------------------------------------------------
\* A parsed login gets a session id and is counted.
Parse(l) ==
    /\ phase[l] = "unparsed"
    /\ sessions' = sessions + 1
    /\ Go(l, "parsed")
    /\ UNCHANGED <<login, recovered, attempts, number, decision, bypassed, bypasses, accepted>>

\* negotiate_tds5_secure_password, when the login asks for it: the password is
\* recovered or not, or the connection ends here with an error.
Negotiate(l) ==
    /\ phase[l] = "parsed"
    /\ \/ Go(l, "negotiated") /\ UNCHANGED recovered
       \/ kind[l].secure /\ Go(l, "negotiated") /\ recovered' = recovered \cup {l}
       \/ kind[l].secure /\ Go(l, "failed") /\ UNCHANGED recovered
    /\ UNCHANGED <<login, attempts, number, decision, bypassed, sessions, bypasses, accepted>>

\* record_login_attempt, under its lock.
Record(l) ==
    /\ phase[l] = "negotiated"
    /\ IF ~Counted(l)
       THEN UNCHANGED <<attempts, number>>
       ELSE /\ attempts' = [attempts EXCEPT ![source[l]] = @ + 1]
            /\ number' = [number EXCEPT ![l] = attempts[source[l]] + 1]
    /\ Go(l, "recorded")
    /\ UNCHANGED <<login, recovered, decision, bypassed, sessions, bypasses, accepted>>

\* The decision, from the flags, the number of the attempt and the policy.
Decide(l) ==
    /\ phase[l] = "recorded"
    /\ \/ /\ Undecidable(l)
          /\ decision' = [decision EXCEPT ![l] = "Reject"]
          /\ UNCHANGED <<bypassed, bypasses>>
       \/ /\ ~Undecidable(l) /\ SourceAuthBypass(l)
          /\ decision' = [decision EXCEPT ![l] = "Accept"]
          /\ bypassed' = bypassed \cup {l}
          /\ bypasses' = bypasses + 1
       \/ /\ ~Undecidable(l) /\ ~SourceAuthBypass(l)
          /\ decision' = [decision EXCEPT ![l] = kind[l].credentials]
          /\ UNCHANGED <<bypassed, bypasses>>
    /\ Go(l, "decided")
    /\ UNCHANGED <<login, recovered, attempts, number, sessions, accepted>>

\* A federated or integrated login goes to an exchange of its own that ends
\* in a rejection (TDS 5 answers an integrated login at once); a partial FEDAUTH
\* feature is rejected like a password.
Answer(l) ==
    /\ phase[l] = "decided"
    /\ \/ /\ kind[l].federated = "feature" \/ kind[l].integrated
          /\ Go(l, "delegated")
          /\ UNCHANGED accepted
       \/ /\ kind[l].federated # "feature" /\ ~kind[l].integrated /\ decision[l] # "Accept"
          /\ Go(l, "refused")
          /\ UNCHANGED accepted
       \/ /\ kind[l].federated # "feature" /\ ~kind[l].integrated /\ decision[l] = "Accept"
          /\ Go(l, "served")
          /\ accepted' = accepted + 1
    /\ UNCHANGED <<login, recovered, attempts, number, decision, bypassed, sessions, bypasses>>

AuthNext == \E l \in Logins : Parse(l) \/ Negotiate(l) \/ Record(l) \/ Decide(l) \/ Answer(l)

AuthSpec == AuthInit /\ [][AuthNext]_auth_vars
----------------------------------------------------------------------------
\* The values of the counters and the logins.
AuthTypeOK ==
    /\ phase \in [Logins -> Phases]
    /\ source \in [Logins -> Peers]
    /\ kind \in [Logins -> Kinds]
    /\ recovered \subseteq Logins
    /\ attempts \in [Peers -> Nat]
    /\ number \in [Logins -> Nat]
    /\ decision \in [Logins -> Decisions]
    /\ bypassed \subseteq Logins
    /\ sessions \in Nat
    /\ bypasses \in Nat
    /\ accepted \in Nat

\* Whatever the interleaving of the connections of a source, their attempts
\* are numbered 1, 2, ... without a gap or a repetition.
AttemptsNumbered ==
    /\ \A l \in Logins : number[l] <= attempts[source[l]]
    /\ \A s \in Peers : \A n \in 1 .. attempts[s] :
         \E l \in Logins : source[l] = s /\ number[l] = n
    /\ \A l, m \in Logins :
         source[l] = source[m] /\ number[l] = number[m] /\ number[l] > 0 => l = m

\* A login is accepted past the credential policy only after X attempts of the
\* same source, and the first X attempts never are.
BypassOnlyAfterThreshold ==
    \A l \in bypassed :
        /\ Threshold > 0
        /\ \A n \in 1 .. Threshold :
             \E m \in Logins \ {l} : source[m] = source[l] /\ number[m] = n

\* A login is served only if it is well-formed SQL authentication, with its
\* password recovered where that was asked for, and either the policy accepts
\* its credentials or the source has earned the bypass.
ServedOnlyIfEntitled ==
    \A l \in Logins : phase[l] = "served" =>
        /\ kind[l].valid /\ ~kind[l].integrated /\ kind[l].federated = "no" /\ ~kind[l].external
        /\ kind[l].secure => l \in recovered
        /\ \/ kind[l].credentials = "Accept"
           \/ Threshold > 0 /\ number[l] > Threshold

\* Integrated and federated logins neither count nor gain by the counts.
DelegatedNeverCounts ==
    \A l \in Logins : kind[l].integrated \/ kind[l].federated # "no" =>
        number[l] = 0 /\ l \notin bypassed /\ phase[l] # "served"
=============================================================================
