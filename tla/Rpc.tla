-------------------------------- MODULE Rpc ---------------------------------
(***************************************************************************)
(* Remote procedure calls (src/tds/rpc.rs): batches of a procedure and its *)
(* parameters, between separators.  A dialect is "tds72", "tds7" (before   *)
(* 7.2) or "tds42"; the separator of a batch is 0 when none stands before  *)
(* it.                                                                     *)
(***************************************************************************)
EXTENDS Data, Requests

CONSTANTS MaxParameters, MaxBatches      \* both 1024 in the code

NoRequest == [ok |-> FALSE, used |-> 0, batches |-> <<>>, headers |-> <<>>]

\* Mutant of separators: the one that forbids execution is not known.
SeparatorsExecute(dialect) ==
    CASE dialect = "tds72" -> {\hff} [] OTHER -> {\h80}

separators(dialect) ==
    CASE dialect = "tds72" -> {\hff, \hfe} [] OTHER -> {\h80}

\* The published procedures, and 0 for every other
procedure_name(id) == IF id \in 1..15 THEN id ELSE 0

\* One parameter: a Cursor whose value is the parameter
Parameter(p, c, dialect, max) ==
    LET legacy == dialect = "tds42"
    IN  From(Pass(p, c.at, Len(p), IF legacy THEN Counted(1) ELSE Chars(1)), Stop, LAMBDA name :
          IF name >= Len(p) THEN Stop
          ELSE Then(IF legacy THEN type_info_legacy42(p, name + 1) ELSE type_info(p, name + 1),
                    Stop, LAMBDA ty :
            Then(value(p, [c EXCEPT !.at = ty.at], ty, max), Stop, LAMBDA v :
              LET encrypted == ~legacy /\ Bit(At(p, name), 8)
              IN  From(IF encrypted THEN CryptoInfo(p, v.at, 22) ELSE v.at, Stop, LAMBDA to :
                    Read(to, v.used, [status |-> At(p, name), type_id |-> ty.id,
                                      value |-> v.value, encrypted |-> encrypted])))))

\* The parameters of a batch, up to a separator or the end
RECURSIVE Parameters(_, _, _, _, _)
Parameters(p, c, dialect, max, seen) ==
    IF c.at = Len(p) THEN Read(c.at, c.used, [seen |-> seen, next |-> 0])
    ELSE IF At(p, c.at) \in separators(dialect)
    THEN Read(c.at + 1, c.used, [seen |-> seen, next |-> At(p, c.at)])
    ELSE IF Len(seen) = MaxParameters THEN Stop
    ELSE Then(Parameter(p, c, dialect, max), Stop, LAMBDA r :
           Parameters(p, r, dialect, max, Append(seen, r.value)))

\* The procedure of a batch: where its name ends, and the name
Procedure(p, i, dialect) ==
    LET none == [at |-> Failed, name |-> <<>>]
    IN  IF dialect = "tds42"
        THEN From(Pass(p, i, Len(p), Counted(1)), none, LAMBDA to :
               IF to = i + 1 THEN none ELSE [at |-> to, name |-> Slice(p, i + 1, to)])
        ELSE IF i + 2 <= Len(p) /\ Slice(p, i, i + 2) = <<255, 255>>
        THEN From(Pass(p, i, Len(p), Fixed(4)), none, LAMBDA to :
               [at |-> to, name |-> <<procedure_name(U16(p, i + 2))>>])
        ELSE From(Pass(p, i, Len(p), Chars(2)), none, LAMBDA to :
               [at |-> to, name |-> Slice(p, i + 2, to)])

parse_batch(p, c, separator, dialect, width, max) ==
    Then(Procedure(p, c.at, dialect), Stop, LAMBDA procedure :
      From(Fit(p, procedure.at, Len(p),
               IF width = 0 THEN <<Fixed(2)>> ELSE <<Fixed(2), Counted(width)>>),
           Stop, LAMBDA enclave :
        Then(Parameters(p, [c EXCEPT !.at = enclave], dialect, max, <<>>), Stop, LAMBDA r :
          Read(r.at, r.used,
               [batch |-> [separator |-> separator, procedure |-> procedure.name,
                           options |-> U16(p, procedure.at), no_execute |-> r.value.next = \hfe,
                           parameters |-> r.value.seen],
                next |-> r.value.next]))))

RECURSIVE Batches(_, _, _, _, _, _, _)
Batches(p, c, separator, dialect, width, max, seen) ==
    LET done(used, batches) ==
            [NoRequest EXCEPT !.ok = batches # <<>>, !.used = used, !.batches = batches]
    IN  IF c.at = Len(p) THEN done(c.used, seen)
        ELSE Then(parse_batch(p, c, separator, dialect, width, max), NoRequest, LAMBDA r :
               IF dialect = "tds42" /\ Len(seen) = MaxBatches THEN NoRequest
               ELSE IF r.value.next = 0 THEN done(r.used, Append(seen, r.value.batch))
               ELSE Batches(p, r, r.value.next, dialect, width, max,
                            Append(seen, r.value.batch)))

\* A whole request behind its headers h
Request(b, h, dialect, width, max) ==
    Given(Batches(Slice(b, h.at, Len(b)), Read(0, 0, Null), 0, dialect, width, max, <<>>),
          NoRequest, LAMBDA r : [r EXCEPT !.headers = h.headers])

\* The dialect of a client whose version is as parse_for_version takes it
Dialect(version) ==
    IF version = <<>> THEN "tds72" ELSE IF version[1] THEN "tds72" ELSE "tds7"

\* width is that of the length of an enclave package.
parse_inner(b, version, width, max) ==
    Given(parse_for_version(b, version, "rpc"), NoRequest, LAMBDA h :
      Request(b, h, Dialect(version), width, max))

parse_legacy42(b, max) == Request(b, [at |-> 0, headers |-> <<>>], "tds42", 0, max)
=============================================================================
