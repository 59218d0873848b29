------------------------------- MODULE Tokens -------------------------------
(***************************************************************************)
(* The answers of the server (src/tds/tokens.rs).  A text is the sequence  *)
(* of its characters, none of which needs two UTF-16 units; the wording of *)
(* messages is left out, so that a message about a name is the name.  An   *)
(* answer is [ok, bytes]; a protocol is "tds42", "tds46", "tds50", "tds71" *)
(* or "tds72", for the versions before and from 7.2 on.                    *)
(***************************************************************************)
EXTENDS Bytes, SequencesExt

CONSTANTS MaxShort,    \* what one byte counts: 255
          MaxLong      \* what two bytes count: 65535

LOGINACK == \had
CAPABILITY == \he2
ENVCHANGE == \he3
ERROR == \haa
INFO == \hab
FEATUREEXTACK == \hae
COLMETADATA == \h81
COLNAME == \ha0
COLFMT == \ha1
ROW == \hd1
DONE == \hfd
DONEPROC == \hfe
SSPI == \hed
FEDAUTHINFO == \hee

DONE_MORE == 1
DONE_ERROR == 2
DONE_COUNT == 16

is_legacy(protocol) == protocol \in {"tds42", "tds46", "tds50"}
uses_wide_fields(protocol) == protocol = "tds72"

Good(bytes) == [ok |-> TRUE, bytes |-> bytes]
TooLong == [ok |-> FALSE, bytes |-> <<>>]

\* One part behind the other, unless one of them is too long
Join(parts) ==
    IF \E k \in DOMAIN parts : ~parts[k].ok THEN TooLong
    ELSE Good(FlattenSeq([k \in DOMAIN parts |-> parts[k].bytes]))
-----------------------------------------------------------------------------
(* Fields *)

TakeFirst(text, n) == SubSeq(text, 1, IF Len(text) < n THEN Len(text) ELSE n)

utf16(text) == FlattenSeq([k \in DOMAIN text |-> LE16(text[k])])

legacy_string(text, max) ==
    [k \in DOMAIN TakeFirst(text, max) |-> IF text[k] < 128 THEN text[k] ELSE 63]

b_varchar(text) == LET t == TakeFirst(text, MaxShort) IN <<Len(t)>> \o utf16(t)
us_varchar(text) == LET t == TakeFirst(text, MaxLong) IN LE16(Len(t)) \o utf16(t)
legacy_b_varchar(text) == LET t == legacy_string(text, MaxShort) IN <<Len(t)>> \o t
legacy_us_varchar(text) == LET t == legacy_string(text, MaxLong) IN LE16(Len(t)) \o t

\* The digits of a number
RECURSIVE Digits(_)
Digits(n) == IF n < 10 THEN <<48 + n>> ELSE Append(Digits(n \div 10), 48 + (n % 10))

length_prefixed(token, body) ==
    IF Len(body) > MaxLong THEN TooLong ELSE Good(<<token>> \o LE16(Len(body)) \o body)
-----------------------------------------------------------------------------
(* Tokens *)

envchange(kind, new, old) ==
    length_prefixed(ENVCHANGE, <<kind>> \o b_varchar(new) \o b_varchar(old))
envchange_legacy(kind, new, old) ==
    length_prefixed(ENVCHANGE, <<kind>> \o legacy_b_varchar(new) \o legacy_b_varchar(old))
envchange_binary(kind, new, old) ==
    length_prefixed(ENVCHANGE, <<kind, Len(new)>> \o new \o <<Len(old)>> \o old)

message_token(protocol, token, number, state, class, text, server) ==
    length_prefixed(token,
        LE32(number) \o <<state, class>>
          \o (IF is_legacy(protocol)
              THEN legacy_us_varchar(text) \o legacy_b_varchar(server) \o legacy_b_varchar(<<>>)
              ELSE us_varchar(text) \o b_varchar(server) \o b_varchar(<<>>))
          \o (IF uses_wide_fields(protocol) THEN LE32(0) ELSE LE16(0)))

info(protocol, number, state, text, server) ==
    message_token(protocol, INFO, number, state, 0, text, server)

\* Mutant of done: the row count has four bytes in every version.
DoneNarrow(protocol, token, status, rows) == Good(<<token>> \o LE16(status) \o LE16(0) \o LE32(rows))

done(protocol, token, status, rows) ==
    Good(<<token>> \o LE16(status) \o LE16(0) \o LE32(rows)
           \o (IF uses_wide_fields(protocol) THEN LE32(0) ELSE <<>>))

\* version is four bytes, most significant first
legacy_login_ack(acknowledgement, version, product) ==
    length_prefixed(LOGINACK, <<acknowledgement>> \o version \o legacy_b_varchar(product)
                                \o <<95, 16, 0, 89>>)

tds5_capabilities ==
    length_prefixed(CAPABILITY,
        <<1, 7, 7, 97, 65, 207, 255, 255, 230, 2, 7, 0, 0, 2, 0, 0, 0, 0>>)

\* features is a sequence of [id, data].
feature_ext_ack(features) ==
    IF features = <<>> THEN Good(<<>>)
    ELSE Good(<<FEATUREEXTACK>>
                \o FlattenSeq([k \in DOMAIN features |->
                      <<features[k].id>> \o LE32(Len(features[k].data)) \o features[k].data])
                \o <<255>>)

Collation == <<\h09, \h04, \hd0, 0, \h34>>

colmetadata(protocol, columns) ==
    IF Len(columns) > MaxLong THEN TooLong
    ELSE Good(<<COLMETADATA>> \o LE16(Len(columns))
                \o FlattenSeq([k \in DOMAIN columns |->
                      (IF uses_wide_fields(protocol) THEN LE32(0) ELSE LE16(0))
                        \o LE16(1) \o <<\he7>> \o LE16(8000) \o Collation
                        \o b_varchar(columns[k])]))

legacy_colmetadata(columns) ==
    Join(<<length_prefixed(COLNAME,
               FlattenSeq([k \in DOMAIN columns |-> legacy_b_varchar(columns[k])])),
           length_prefixed(COLFMT,
               FlattenSeq([k \in DOMAIN columns |-> LE16(2) \o LE16(1) \o <<\h27, 255>>]))>>)

\* A cell is <<>> for null, else <<text>>.
row_token(row, expected) ==
    LET cell(c) == IF c = <<>> THEN Good(LE16(65535))
                   ELSE IF Len(utf16(c[1])) > MaxLong THEN TooLong
                   ELSE Good(LE16(Len(utf16(c[1]))) \o utf16(c[1]))
    IN  IF Len(row) # expected THEN TooLong
        ELSE Join(<<Good(<<ROW>>)>> \o [k \in DOMAIN row |-> cell(row[k])])

legacy_row_token(row, expected) ==
    LET cell(c) == IF c = <<>> THEN <<0>> ELSE legacy_b_varchar(c[1])
    IN  IF Len(row) # expected THEN TooLong
        ELSE Good(<<ROW>> \o FlattenSeq([k \in DOMAIN row |-> cell(row[k])]))
-----------------------------------------------------------------------------
(* Answers *)

login_success(protocol, version, database, language, packet_size, product, features) ==
    LET finish == done(protocol, DONE, 0, 0)
        size == Digits(packet_size)
    IN  CASE protocol \in {"tds42", "tds46"} ->
               Join(<<legacy_login_ack(1, <<4, IF protocol = "tds46" THEN 6 ELSE 2, 0, 0>>, product),
                      finish>>)
          [] protocol = "tds50" ->
               Join(<<envchange_legacy(1, database, <<>>),
                      info(protocol, 5701, 2, database, <<>>),
                      envchange_legacy(2, language, <<>>),
                      info(protocol, 5703, 1, language, <<>>),
                      envchange_legacy(4, size, <<>>),
                      legacy_login_ack(5, <<5, 0, 0, 0>>, product), tds5_capabilities, finish>>)
          [] OTHER ->
               Join(<<envchange(1, database, <<>>), info(protocol, 5701, 2, database, <<>>),
                      envchange_binary(7, Collation, <<>>),
                      envchange(2, language, <<>>), info(protocol, 5703, 1, language, <<>>),
                      length_prefixed(LOGINACK, <<1>> \o version \o b_varchar(product)
                                                  \o <<16, 0, 16, 89>>),
                      feature_ext_ack(features), envchange(4, size, Digits(4096)), finish>>)

tds5_login_negotiation(challenge, product) ==
    Join(<<legacy_login_ack(7, <<5, 0, 0, 0>>, product), Good(challenge),
           done("tds50", DONE, 0, 0)>>)

login_failure(protocol, server, locked) ==
    Join(<<message_token(protocol, ERROR, 18456, IF locked THEN 23 ELSE 1, 14, <<>>, server)>>
           \o (IF protocol = "tds50" THEN <<legacy_login_ack(6, <<5, 0, 0, 0>>, server)>> ELSE <<>>)
           \o <<done(protocol, DONE, DONE_ERROR, 0)>>)

sspi_challenge(token) == length_prefixed(SSPI, token)

\* Two values behind a table of their lengths and offsets
fedauth_info(sts_url, spn) ==
    LET first == 4 + 2 * 9
        second == first + Len(utf16(sts_url))
    IN  Good(<<FEDAUTHINFO>> \o LE32(second + Len(utf16(spn))) \o LE32(2)
               \o <<1>> \o LE32(Len(utf16(sts_url))) \o LE32(first)
               \o <<2>> \o LE32(Len(utf16(spn))) \o LE32(second)
               \o utf16(sts_url) \o utf16(spn))

\* The k-th of the result sets, each [columns, rows]
ResultSet(protocol, sets, k, finish) ==
    LET set == sets[k]
        row(r) == IF is_legacy(protocol) THEN legacy_row_token(r, Len(set.columns))
                  ELSE row_token(r, Len(set.columns))
        more == IF k < Len(sets) THEN DONE_MORE ELSE 0
    IN  Join(<<IF is_legacy(protocol) THEN legacy_colmetadata(set.columns)
               ELSE colmetadata(protocol, set.columns)>>
               \o [r \in DOMAIN set.rows |-> row(set.rows[r])]
               \o <<done(protocol, finish, more + DONE_COUNT, Len(set.rows))>>)

\* failed is <<>>, or the message of an error, which replaces the result sets.
response(protocol, sets, messages, failed, server, done_proc) ==
    LET finish == IF done_proc THEN DONEPROC ELSE DONE
        infos == [k \in DOMAIN messages |-> info(protocol, 0, 1, messages[k], server)]
    IN  IF failed # <<>>
        THEN Join(infos \o <<message_token(protocol, ERROR, failed[1].number, failed[1].state,
                                           failed[1].class, failed[1].message, server),
                             done(protocol, finish, DONE_ERROR, 0)>>)
        ELSE Join(infos \o [k \in DOMAIN sets |-> ResultSet(protocol, sets, k, finish)]
                        \o (IF sets = <<>> THEN <<done(protocol, finish, 0, 0)>> ELSE <<>>))
=============================================================================
