---------------------------- MODULE LoginReaders ----------------------------
(***************************************************************************)
(* The readers of the messages before and at a login: PRELOGIN, LOGIN7 and *)
(* the LOGIN record of older versions.  Each reads strictly or tolerantly. *)
(***************************************************************************)
EXTENDS Readers

CONSTANTS
    MaxLogin7, MaxFeatures,
    CapabilitiesAt(_, _, _), AuthenticationAt(_, _, _),     \* of the TDS 5 stream
    AuthenticationTelemetry(_, _)

ASSUME LoginLimits == {MaxLogin7, MaxFeatures} \subseteq Nat

Prelogin == INSTANCE Prelogin
Login7 == INSTANCE Login7
Login == INSTANCE LegacyLogin
-----------------------------------------------------------------------------
(* The handlers.  A parser that reads in two ways gives both results. *)

\* A PRELOGIN stands as the parts it consists of.
ReadPrelogin ==
    /\ Handles("prelogin")
    /\ output' = <<[strict |-> Prelogin!parse_inner(input.payload, FALSE),
                    tolerant |-> Prelogin!parse_inner(input.payload, TRUE)]>>

ReadLogin7 ==
    /\ Handles("login7")
    /\ output' = <<[strict |-> Login7!parse_inner(wire, FALSE),
                    tolerant |-> Login7!parse_inner(wire, TRUE),
                    token |-> Login7!sspi_token(wire)]>>

ReadLogin ==
    /\ Handles("login")
    /\ output' = <<[strict |-> Login!parse_inner(wire, FALSE),
                    tolerant |-> Login!parse_inner(wire, TRUE)]>>

LoginNext ==
    \/ CutOff \/ Bend
    \/ ReadPrelogin \/ ReadLogin7 \/ ReadLogin
    \/ ReadElsewhere({"prelogin", "login7", "login"})

LoginInit == ReaderInit /\ (input.kind = "prelogin" => input.payload \in Prelogin!Payload)
LoginSpec == LoginInit /\ [][LoginNext]_vars
-----------------------------------------------------------------------------
(* Properties *)

\* The strict and the tolerant reading of a PRELOGIN, LOGIN7 or LOGIN message are one reader: the
\* strict one refuses exactly what the tolerant one has something to note about, and otherwise they
\* report the same, whichever byte of the message is wrong.  sspi_token, which reads a LOGIN7 message
\* a third time, finds the token that a strict parse reports.
ModesAgree ==
    \A kind \in {"prelogin", "login7", "login"} : Handled(kind) =>
        /\ Result.strict.error <=> (Result.tolerant.error \/ Result.tolerant.warnings # {})
        /\ Result.strict.error \/ Result.strict = Result.tolerant
        /\ (kind = "login7" /\ ~Result.strict.error) =>
              Result.token = [ok |-> TRUE, bytes |-> Result.strict.sspi]

\* The values of a PRELOGIN that parse accepts lie behind the table and apart from one another,
\* whichever order their options come in.
ValuesApart ==
    (Handled("prelogin") /\ ~Result.strict.error) =>
        LET entries == Result.strict.entries
        IN  /\ \A k \in DOMAIN entries : Prelogin!Cursor(input.payload) <= entries[k].start
            /\ \A j, k \in DOMAIN entries :
                  \/ j = k
                  \/ entries[j].end <= entries[k].start
                  \/ entries[k].end <= entries[j].start

\* A PRELOGIN, LOGIN7 or LOGIN message can be read in one way only: its two readers, and for LOGIN7
\* sspi_token as a third, agree about it (ModesAgree), and no byte of a PRELOGIN is part of two
\* values, or of a value and the table (ValuesApart).
LoginsHaveOneReading == ModesAgree /\ ValuesApart
=============================================================================
