----------------------------- MODULE LegacyLogin ----------------------------
(***************************************************************************)
(* The fixed LOGIN record of TDS 4.x and 5.0 (src/tds/login.rs), with the  *)
(* capabilities and the token stream behind the one of TDS 5.0.  A fault   *)
(* ends a strict parse and is a warning to a tolerant one.  p is the       *)
(* payload; a text is its bytes.                                           *)
(***************************************************************************)
EXTENDS Bytes

CONSTANTS CapabilitiesAt(_, _, _), AuthenticationAt(_, _, _),
          AuthenticationTelemetry(_, _)                    \* of src/tds/tds5.rs

MIN_LENGTH == 564

\* <<offset, width, offset of the length>>
TextFields ==
    [hostname |-> <<0, 30, 30>>, username |-> <<31, 30, 61>>, password |-> <<62, 30, 92>>,
     application |-> <<140, 30, 170>>, server |-> <<171, 30, 201>>,
     process |-> <<93, 30, 123>>, program |-> <<462, 10, 472>>, language |-> <<480, 30, 510>>,
     charset |-> <<525, 30, 555>>, packet_size |-> <<557, 6, 563>>]

Unread ==
    [error |-> FALSE, warnings |-> {}, text |-> [f \in DOMAIN TextFields |-> <<>>],
     remote |-> <<>>, capabilities |-> <<>>, capability_bytes |-> 0,
     authentication |-> <<>>, authentication_bytes |-> 0]

Fault(r, tolerant, kind) ==
    IF tolerant THEN [r EXCEPT !.warnings = @ \cup {kind}] ELSE [r EXCEPT !.error = TRUE]

\* A text no longer than its field
field(p, d) ==
    IF At(p, d[3]) > d[2] THEN [ok |-> FALSE, bytes |-> <<>>]
    ELSE [ok |-> TRUE, bytes |-> Slice(p, d[1], d[1] + At(p, d[3]))]

\* The texts; one that cannot be read stays empty.
recover_fields(p, r, tolerant) ==
    LET text == [f \in DOMAIN TextFields |-> field(p, TextFields[f])]
        bad == {f \in DOMAIN text : ~text[f].ok}
        kept == [r EXCEPT !.text = [f \in DOMAIN text |-> text[f].bytes]]
    IN  IF bad = {} THEN kept
        ELSE IF tolerant THEN [kept EXCEPT !.warnings = @ \cup bad]
        ELSE [kept EXCEPT !.error = TRUE]

\* Digits, behind a plus sign or not
Decimal(text) ==
    LET digits == IF text # <<>> /\ Head(text) = 43 THEN Tail(text) ELSE text
    IN  digits # <<>> /\ \A k \in DOMAIN digits : digits[k] \in 48..57

PacketSize(r, tolerant) ==
    IF r.text.packet_size = <<>> \/ Decimal(r.text.packet_size) THEN r
    ELSE Fault(r, tolerant, "not decimal")

Major(p) == At(p, 458)
Minor(p) == At(p, 459)

fixed_record_expected_bytes(p) ==
    CASE Major(p) = 4 /\ Minor(p) = 2 -> 572
      [] (Major(p) = 4 /\ Minor(p) = 6) \/ Major(p) = 5 -> 568
      [] OTHER -> MIN_LENGTH

RecordLength(p, r, tolerant) ==
    LET short == IF Len(p) < fixed_record_expected_bytes(p) THEN Fault(r, tolerant, "short") ELSE r
    IN  IF Major(p) = 4 /\ Len(p) > 572 THEN Fault(short, tolerant, "long") ELSE short

\* In TDS 4.2 a field like the others, elsewhere a length and the text
recover_remote_password(p, r, tolerant) ==
    Given(field(p, IF Major(p) = 4 /\ Minor(p) = 2 THEN <<202, 255, 457>> ELSE <<204, 253, 203>>),
          Fault(r, tolerant, "remote"), LAMBDA remote : [r EXCEPT !.remote = remote.bytes])

\* The password that is reported: the primary one if there is one
Password(r) == IF r.text.password # <<>> THEN r.text.password ELSE r.remote

\* A suffix without readable capabilities is searched as a whole.
recover_suffix_authentication(p, r, capabilityBytes, tolerant) ==
    Fault([r EXCEPT !.capability_bytes = capabilityBytes,
                    !.authentication_bytes = Len(p) - 568,
                    !.authentication = <<AuthenticationTelemetry(Slice(p, 568, Len(p)), Len(p))>>],
          tolerant, "suffix")

\* The capabilities end at e, and the token stream follows.
Authentication(p, r, e, tolerant) ==
    IF e = Len(p) THEN r
    ELSE Given(AuthenticationAt(p, e, Len(p)),
               Fault([r EXCEPT !.authentication =
                         <<AuthenticationTelemetry(Slice(p, e, Len(p)), Len(p))>>],
                     tolerant, "authentication"),
               LAMBDA parsed : [r EXCEPT !.authentication = <<parsed.stream>>])

Capabilities(p, r, c, e, tolerant) ==
    LET kept == [r EXCEPT !.capability_bytes = e - 571, !.authentication_bytes = Len(p) - e,
                          !.capabilities = IF c.ok THEN <<c>> ELSE <<>>]
    IN  IF c.ok THEN kept ELSE Fault(kept, tolerant, "capabilities")

\* The suffix starts with a length of capabilities.
Prefixed(p) == Len(p) >= 571 /\ At(p, 568) = \he2

parse_suffix(p, r, tolerant) ==
    IF r.error THEN r
    ELSE IF Major(p) # 5 \/ Len(p) <= 568
    THEN [r EXCEPT !.authentication_bytes = IF Len(p) > 572 THEN Len(p) - 572 ELSE 0]
    ELSE From(IF Prefixed(p) THEN Upto(571 + U16(p, 569), Len(p)) ELSE Failed,
              recover_suffix_authentication(p, r, IF Prefixed(p) THEN Len(p) - 571 ELSE 0, tolerant),
              LAMBDA e : Authentication(p, Capabilities(p, r, CapabilitiesAt(p, 571, e),
                                                        e, tolerant), e, tolerant))

parse_inner(p, tolerant) ==
    IF Len(p) < MIN_LENGTH THEN [Unread EXCEPT !.error = TRUE]
    ELSE parse_suffix(p, recover_remote_password(p,
                           RecordLength(p, PacketSize(recover_fields(p, Unread, tolerant), tolerant),
                                        tolerant),
                           tolerant), tolerant)
=============================================================================
