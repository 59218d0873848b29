------------------------------- MODULE Login7 -------------------------------
(***************************************************************************)
(* The LOGIN7 request (src/tds/login7.rs): a fixed header with descriptors *)
(* that point into the rest, and a chain of features.  parse_inner reads   *)
(* it strictly or tolerantly; a fault ends a strict parse and is a warning *)
(* to a tolerant one.  p is the payload; text is the sequence of its code  *)
(* units, and the numbers of the header that nothing depends on are left   *)
(* out.                                                                    *)
(***************************************************************************)
EXTENDS Bytes

CONSTANTS MaxLogin7,      \* 128 * 1024 - 1 in the code
          MaxFeatures     \* 256, also for states of a session recovery

LEGACY_FIXED_LENGTH == 86
EXTENDED_FIXED_LENGTH == 94

fixed_length(p) ==
    IF At(p, 7) \in {\h70, \h71} THEN LEGACY_FIXED_LENGTH ELSE EXTENDED_FIXED_LENGTH

\* The descriptors of text, with the longest text that is legal.
TextFields ==
    [hostname |-> 36, username |-> 40, application |-> 48, server |-> 52, library |-> 60,
     language |-> 64, database |-> 68, attach |-> 82]
MaximumCharacters(offset) == IF offset = 82 THEN 260 ELSE 128

Unread ==
    [error |-> FALSE, warnings |-> {}, text |-> [f \in DOMAIN TextFields |-> <<>>],
     password |-> <<>>, password_present |-> FALSE,
     new_password |-> <<>>, new_password_present |-> FALSE,
     sspi |-> <<>>, features |-> <<>>, remainder |-> <<>>]

Fault(r, tolerant, kind) ==
    IF tolerant THEN [r EXCEPT !.warnings = @ \cup {kind}] ELSE [r EXCEPT !.error = TRUE]
-----------------------------------------------------------------------------
(* Text and secrets *)

decode_utf16(bytes) ==
    [ok |-> Len(bytes) % 2 = 0 /\ (\A k \in DOMAIN Units(bytes) : Units(bytes)[k] # 0),
     units |-> Units(bytes)]

\* Exclusive or with a5: the bits 7, 5, 2 and 0 are turned; then the nibbles
\* change places.
Turned(byte, mask) == IF Bit(byte, mask) THEN -mask ELSE mask
Xora5(byte) == byte + Turned(byte, 128) + Turned(byte, 32) + Turned(byte, 4) + Turned(byte, 1)
Clear(byte) == LET x == Xora5(byte) IN 16 * (x % 16) + x \div 16

deobfuscate_password(bytes) == decode_utf16([k \in DOMAIN bytes |-> Clear(bytes[k])])

Outside == [ok |-> FALSE, bytes |-> <<>>]
Inside(p, from, size, declared, fixed) ==
    IF size = 0 THEN [ok |-> TRUE, bytes |-> <<>>]
    ELSE IF from + size > declared \/ from < fixed THEN Outside
    ELSE [ok |-> TRUE, bytes |-> Slice(p, from, from + size)]

\* Descriptors count characters, or bytes.
raw_field(p, d, declared, fixed) ==
    Inside(p, U16(p, d), 2 * U16(p, d + 2), declared, fixed)
raw_byte_field(p, d, declared, fixed) ==
    Inside(p, U16(p, d), U16(p, d + 2), declared, fixed)

\* A length of ffff stands for the long length, which a legacy header lacks.
sspi_field(p, declared, fixed) ==
    IF U16(p, 80) # 65535 THEN raw_byte_field(p, 78, declared, fixed)
    ELSE IF fixed < EXTENDED_FIXED_LENGTH THEN Outside
    ELSE Inside(p, U16(p, 78), U32(p, 90), declared, fixed)

validate_character_count(p, d) == U16(p, d + 2) <= MaximumCharacters(d)

\* The text of field f
recover_field(p, f, declared, fixed) ==
    Given(raw_field(p, TextFields[f], declared, fixed), [ok |-> FALSE, units |-> <<>>], LAMBDA raw :
      decode_utf16(raw.bytes))

\* A password: [present, clear], and whether it could be read
Secret(raw, clear) ==
    [ok |-> raw.ok /\ clear.ok, present |-> raw.bytes # <<>>,
     clear |-> IF clear.ok THEN clear.units ELSE <<>>]

recover_raw_field(p, d, declared, fixed) ==
    LET raw == raw_field(p, d, declared, fixed)
    IN  Secret(raw, deobfuscate_password(raw.bytes))
-----------------------------------------------------------------------------
(* Features *)

\* Where the state of a session that begins at i ends: an identifier, a length in one or five bytes.
SessionState(d, i) ==
    LET long == At(d, i + 1) = 255
    IN  IF i \in {Failed, Len(d)} THEN i
        ELSE IF At(d, i) = 255 \/ i + 1 >= Len(d) THEN Failed
        ELSE From(Fit(d, i + 1, Len(d), IF long THEN <<Fixed(1), Counted(4)>> ELSE <<Counted(1)>>),
                  Failed, LAMBDA to : IF long /\ U32(d, i + 2) < 255 THEN Failed ELSE to)

\* So many of them at most, to the last byte
parse_session_state_data(d, i) ==
    LET at[n \in 0..MaxFeatures] == IF n = 0 THEN i ELSE SessionState(d, at[n - 1])
    IN  at[MaxFeatures] = Len(d)

\* A string of the length in characters that stands before it
recovery_b_varchar(d, i) ==
    From(Pass(d, i, Len(d), Chars(1)), Failed, LAMBDA to :
      IF decode_utf16(Slice(d, i + 1, to)).ok THEN to ELSE Failed)

\* A database, a collation, a language and the states
RecoverySet(d) ==
    From(recovery_b_varchar(d, 0), FALSE, LAMBDA collation :
      From(Pass(d, collation, Len(d), Counted(1)), FALSE, LAMBDA language :
        /\ At(d, collation) \in {0, 5}
        /\ From(recovery_b_varchar(d, language), FALSE, LAMBDA states :
             parse_session_state_data(d, states))))

\* Where the set that begins at i ends
NextSet(d, i) ==
    IF i \in {Failed, Len(d)} THEN i
    ELSE From(Pass(d, i, Len(d), Counted(4)), Failed, LAMBDA to :
           IF RecoverySet(Slice(d, i + 4, to)) THEN to ELSE Failed)

\* Two sets at most
parse_session_recovery(d) == NextSet(d, NextSet(d, 0)) = Len(d)

\* A token, then a nonce, a channel binding and a signature (library 0), or at
\* most a nonce (library 1)
fedauth_token(d) ==
    LET to == Pass(d, 1, Len(d), Counted(4))
        library == At(d, 0) % 128
    IN  /\ to > 5
        /\ \/ library = 0 /\ Len(d) - to >= 64
           \/ library = 1 /\ Len(d) - to \in {0, 32}

UserAgentCharacters ==
    (48..57) \cup (65..90) \cup (97..122) \cup {32, 43, 45, 46, 95, 124}

one_byte(d, legal) == Len(d) = 1 /\ d[1] \in legal

\* The data of a feature is as its identifier demands.
populate_feature(id, d) ==
    CASE id = 1 -> parse_session_recovery(d)
      [] id = 2 -> /\ d # <<>>
                   /\ IF At(d, 0) % 128 = 2 THEN Len(d) = 2 /\ At(d, 1) \in {1, 2}
                      ELSE fedauth_token(d)
      [] id = 4 -> one_byte(d, 1..3)
      [] id \in {5, 11, 15} -> d = <<>>
      [] id \in {8, 10} -> one_byte(d, {0, 1})
      [] id \in {9, 14} -> one_byte(d, {1, 2})
      [] id = 13 -> one_byte(d, {1})
      [] id = 16 -> IF Len(d) < 2 THEN FALSE
                    ELSE /\ U16(d, 0) <= 256
                         /\ 2 * U16(d, 0) + 2 = Len(d)
                         /\ \A k \in 1..U16(d, 0) : U16(d, 2 * k) \in UserAgentCharacters
      [] OTHER -> TRUE

\* What is left from i on when the chain breaks
partial_features(r, i, declared) == [r EXCEPT !.remainder = <<[offset |-> i, bytes |-> declared - i]>>]

\* The chain from i on: a feature that is wrong in itself is kept.
Kept(p, r, i, to, tolerant) ==
    [(IF populate_feature(At(p, i), Slice(p, i + 5, to)) THEN r ELSE Fault(r, tolerant, "feature"))
       EXCEPT !.features = Append(@, [id |-> At(p, i), from |-> i, to |-> to])]

\* One turn: s is what was read and where the next feature begins, Failed behind the last one.
Ended(r) == [r |-> r, at |-> Failed]
Feature(p, s, declared, tolerant) ==
    LET broken == partial_features(s.r, s.at, declared)
    IN  IF s.r.error \/ s.at = Failed THEN s
        ELSE IF s.at >= declared THEN Ended(Fault(broken, tolerant, "terminator"))
        ELSE IF At(p, s.at) = 255 THEN Ended(s.r)
        ELSE From(Pass(p, s.at + 1, declared, Counted(4)),
                  Ended(Fault(broken, tolerant, "truncated")), LAMBDA to :
               IF Len(s.r.features) = MaxFeatures THEN Ended([s.r EXCEPT !.error = TRUE])
               ELSE [r |-> Kept(p, s.r, s.at, to, tolerant), at |-> to])

\* A turn keeps a feature or is the last one.
Features(p, r, i, declared, tolerant) ==
    LET turn[n \in 0..MaxFeatures + 1] ==
            IF n = 0 THEN [r |-> r, at |-> i] ELSE Feature(p, turn[n - 1], declared, tolerant)
    IN  turn[MaxFeatures + 1].r

parse_features(p, r, declared, fixed, tolerant) ==
    IF r.error \/ ~Bit(At(p, 27), 16) \/ fixed < EXTENDED_FIXED_LENGTH THEN r
    ELSE Given(raw_byte_field(p, 56, declared, fixed), Fault(r, tolerant, "extension"),
               LAMBDA extension :
           IF Len(extension.bytes) # 4 THEN Fault(r, tolerant, "extension")
           ELSE LET first == U32(extension.bytes, 0)
                IN  IF first < fixed \/ first >= declared THEN Fault(r, tolerant, "outside")
                    ELSE Features(p, r, first, declared, tolerant))
-----------------------------------------------------------------------------
(* The request *)

Refused == [Unread EXCEPT !.error = TRUE]

\* A declared length that cannot be is replaced by the one received.
DeclaredBad(p, fixed) == U32(p, 0) < fixed \/ U32(p, 0) > Len(p)
Declared(p, fixed) == IF DeclaredBad(p, fixed) THEN Len(p) ELSE U32(p, 0)

Lengths(p, r, tolerant) ==
    LET differs == IF U32(p, 0) = Len(p) THEN r ELSE Fault(r, tolerant, "declared")
    IN  IF Len(p) > MaxLogin7 THEN Fault(differs, tolerant, "limit") ELSE differs

CountedFields(fixed) ==
    {36, 40, 44, 48, 52, 60, 64, 68, 82} \cup (IF fixed < EXTENDED_FIXED_LENGTH THEN {} ELSE {86})

Counts(p, r, fixed, tolerant) ==
    IF \A d \in CountedFields(fixed) : validate_character_count(p, d) THEN r
    ELSE Fault(r, tolerant, "count")

OldPassword(r, s, tolerant) ==
    [(IF s.ok THEN r ELSE Fault(r, tolerant, "password")) EXCEPT
       !.password = s.clear, !.password_present = s.present]

NewPassword(r, s, tolerant) ==
    [(IF s.ok THEN r ELSE Fault(r, tolerant, "new password")) EXCEPT
       !.new_password = s.clear, !.new_password_present = s.present]

Passwords(p, r, declared, fixed, tolerant) ==
    LET old == OldPassword(r, recover_raw_field(p, 44, declared, fixed), tolerant)
    IN  IF fixed < EXTENDED_FIXED_LENGTH THEN old
        ELSE NewPassword(old, recover_raw_field(p, 86, declared, fixed), tolerant)

Sspi(p, r, declared, fixed, tolerant) ==
    Given(sspi_field(p, declared, fixed), Fault(r, tolerant, "sspi"), LAMBDA s :
      [r EXCEPT !.sspi = s.bytes])

\* A text that cannot be read stays empty.
Texts(p, r, declared, fixed, tolerant) ==
    LET text == [f \in DOMAIN TextFields |-> recover_field(p, f, declared, fixed)]
    IN  [(IF \A f \in DOMAIN text : text[f].ok THEN r ELSE Fault(r, tolerant, "text")) EXCEPT
           !.text = [f \in DOMAIN text |-> IF text[f].ok THEN text[f].units ELSE <<>>]]

Fields(p, declared, fixed, tolerant) ==
    Texts(p, parse_features(p,
               Sspi(p, Passwords(p, Counts(p, Lengths(p, Unread, tolerant), fixed, tolerant),
                                 declared, fixed, tolerant),
                    declared, fixed, tolerant),
               declared, fixed, tolerant),
          declared, fixed, tolerant)

parse_inner(p, tolerant) ==
    IF Len(p) < 8 THEN Refused
    ELSE LET fixed == fixed_length(p)
         IN  IF Len(p) < fixed THEN Refused ELSE Fields(p, Declared(p, fixed), fixed, tolerant)

\* The token for a continuation: only out of a request whose length is right
sspi_token(p) ==
    IF Len(p) < 8 THEN Outside
    ELSE LET fixed == fixed_length(p)
         IN  IF DeclaredBad(p, fixed) THEN Outside ELSE sspi_field(p, U32(p, 0), fixed)
=============================================================================
