------------------------------ MODULE Requests ------------------------------
(***************************************************************************)
(* What stands before a request and two kinds of request: the stream       *)
(* headers (src/tds/all_headers.rs), the enclave package                   *)
(* (src/tds/enclave.rs), SQL batches (src/tds/batch.rs) and transaction    *)
(* manager requests (src/tds/transaction.rs).  A parse is [ok, ...], at    *)
(* being where the part behind it begins; names and identifiers that       *)
(* nothing depends on are left out.                                        *)
(***************************************************************************)
EXTENDS Bytes

Bad == [ok |-> FALSE, headers |-> <<>>, at |-> 0]
-----------------------------------------------------------------------------
(* ALL_HEADERS *)

\* A string with its length in bytes, which is even
unicode_byte_string(b, i, e) ==
    From(Pass(b, i, e, Counted(2)), Failed, LAMBDA to : IF (to - i) % 2 = 0 THEN to ELSE Failed)

\* The data of a header, from i to e
parse_header(b, type, i, e) ==
    CASE type = 1 ->
           From(unicode_byte_string(b, i, e), FALSE, LAMBDA first :
             From(unicode_byte_string(b, first, e), FALSE, LAMBDA second : e - second \in {0, 4}))
      [] type = 2 -> e - i = 12
      [] type = 3 -> e - i = 20
      [] OTHER -> TRUE

RECURSIVE Headers(_, _, _, _)
Headers(b, i, total, seen) ==
    LET to == i + U32(b, i)
        type == U16(b, i + 4)
    IN  IF i = total THEN [ok |-> TRUE, headers |-> seen, at |-> total]
        ELSE IF i + 4 > Len(b) THEN Bad
        ELSE IF U32(b, i) < 6 \/ to > total THEN Bad
        ELSE IF (\E k \in DOMAIN seen : seen[k].type = type) \/ ~parse_header(b, type, i + 6, to)
        THEN Bad
        ELSE Headers(b, to, total, Append(seen, [type |-> type, from |-> i, to |-> to]))

\* Headers that may be missing: what cannot be their length is the request.
parse_headers(b) ==
    LET plain == [ok |-> TRUE, headers |-> <<>>, at |-> 0]
    IN  IF Len(b) < 4 THEN plain
        ELSE IF U32(b, 0) = 0 THEN Bad
        ELSE IF U32(b, 0) < 10 \/ U32(b, 0) > Len(b) THEN plain
        ELSE Headers(b, 4, U32(b, 0), <<>>)

parse_required(b) ==
    IF Len(b) < 10 THEN Bad
    ELSE IF U32(b, 0) < 10 \/ U32(b, 0) > Len(b) THEN Bad
    ELSE parse_headers(b)

\* version is <<>> when it is not known, else <<at least 7.2, at least 7.4>>.
parse_for_version(b, version, kind) ==
    IF version = <<>> THEN parse_headers(b)
    ELSE IF ~version[1] THEN [ok |-> TRUE, headers |-> <<>>, at |-> 0]
    ELSE Given(parse_required(b), Bad, LAMBDA h :
           LET types == {h.headers[k].type : k \in DOMAIN h.headers}
           IN  IF \/ 2 \notin types
                  \/ 1 \in types /\ kind = "transaction"
                  \/ 3 \in types /\ ~version[2]
               THEN Bad ELSE h)
-----------------------------------------------------------------------------
(* The enclave package: [ok, at], its length in no, two or four bytes *)

strip(b, i, width, max) ==
    LET length == LE(b, i, width)
    IN  IF width = 0 THEN [ok |-> TRUE, at |-> i]
        ELSE IF i + width > Len(b) THEN [ok |-> FALSE, at |-> i]
        ELSE IF length > max \/ i + width + length > Len(b) THEN [ok |-> FALSE, at |-> i]
        ELSE [ok |-> TRUE, at |-> i + width + length]
-----------------------------------------------------------------------------
(* SQL batches *)

Utf16(b, i) == [k \in 1..((Len(b) - i) \div 2) |-> U16(b, i + 2 * k - 2)]

NoBatch == [ok |-> FALSE, headers |-> <<>>, at |-> 0, sql |-> <<>>]

parse_sql(b, max, width, version) ==
    IF Len(b) > max THEN NoBatch
    ELSE Given(parse_for_version(b, version, "batch"), NoBatch, LAMBDA h :
           Given(strip(b, h.at, width, max), NoBatch, LAMBDA s :
             IF (Len(b) - s.at) % 2 # 0 THEN NoBatch
             ELSE [ok |-> TRUE, headers |-> h.headers, at |-> s.at, sql |-> Utf16(b, s.at)]))

decode_legacy(b, max) ==
    IF Len(b) > max THEN NoBatch
    ELSE [ok |-> TRUE, headers |-> <<>>, at |-> 0, sql |-> b]
-----------------------------------------------------------------------------
(* Transaction manager requests *)

NoTransaction == [ok |-> FALSE, headers |-> <<>>, type |-> 0, begin_after |-> FALSE]

\* A commit or rollback has flags behind the name, which may ask for a new transaction.
BeginsAfter(b, i) ==
    From(Pass(b, i, Len(b), Counted(1)), FALSE, LAMBDA flags :
      flags < Len(b) /\ Bit(At(b, flags), 1))

\* What the type demands of the body from i on, to its last byte
TransactionLayout(b, type, i) ==
    CASE type \in {0, 1} -> <<Counted(2)>>
      [] type = 5 -> <<Fixed(1), Counted(1)>>
      [] type = 6 -> <<>>
      [] type \in {7, 8} -> <<Counted(1), Fixed(1)>>
                              \o (IF BeginsAfter(b, i) THEN <<Fixed(1), Counted(1)>> ELSE <<>>)
      [] type = 9 -> <<Counted(1)>>

TransactionBody(b, type, i) ==
    \/ type \notin {0, 1} \cup 5..9
    \/ Exactly(b, i, Len(b), TransactionLayout(b, type, i)) /\ (type = 9 => Len(b) > i + 1)

parse_transaction(b, width, version) ==
    Given(parse_for_version(b, version, "transaction"), NoTransaction, LAMBDA h :
      Given(strip(b, h.at, width, Len(b) - h.at), NoTransaction, LAMBDA s :
        IF s.at + 2 > Len(b) THEN NoTransaction
        ELSE IF ~TransactionBody(b, U16(b, s.at), s.at + 2) THEN NoTransaction
        ELSE [ok |-> TRUE, headers |-> h.headers, type |-> U16(b, s.at),
              begin_after |-> U16(b, s.at) \in {7, 8} /\ BeginsAfter(b, s.at + 2)]))
=============================================================================
