------------------------------ MODULE Fedauth -------------------------------
(***************************************************************************)
(* Federated-authentication tokens (src/tds/fedauth.rs) and the frames of  *)
(* session multiplexing (src/tds/smp.rs): two formats that are lengths and *)
(* the bytes they measure.  Parts of a payload are [from, to].             *)
(***************************************************************************)
EXTENDS Bytes

CONSTANT MaxFrames       \* 65536 in the code

Part(i, j) == [from |-> i, to |-> j]
NoPart == Part(0, 0)

\* The token and the nonce, NoPart when there is none
parse(b, nonceExpected) ==
    IF Len(b) < 8 THEN [ok |-> FALSE]
    ELSE IF U32(b, 0) # Len(b) - 4 THEN [ok |-> FALSE]
    ELSE From(Pass(b, 4, Len(b), Counted(4)), [ok |-> FALSE], LAMBDA token :
           IF Len(b) - token = 32 \/ (Len(b) = token /\ ~nonceExpected)
           THEN [ok |-> TRUE, token |-> Part(8, token),
                 nonce |-> IF Len(b) = token THEN NoPart ELSE Part(token, Len(b))]
           ELSE [ok |-> FALSE])

\* Where the token lies that a payload out of form holds
Presented(b, nonceExpected) ==
    IF Len(b) < 8 THEN Part(0, Len(b))
    ELSE From(Pass(b, 4, Len(b), Counted(4)),
              Part(8, IF nonceExpected /\ Len(b) - 8 >= 32 THEN Len(b) - 32 ELSE Len(b)),
              LAMBDA to : Part(8, to))

\* What is behind the token, as a nonce or as bytes of no known kind
Unclassified(token, rest) ==
    LET isNonce == rest.to - rest.from = 32
    IN  [token |-> token, nonce |-> IF isNonce THEN rest ELSE NoPart,
         unclassified |-> IF isNonce THEN NoPart ELSE rest, warned |-> TRUE]

Salvaged(b, token) == Unclassified(token, Part(token.to, Len(b)))

parse_for_telemetry(b, nonceExpected) ==
    Given(parse(b, nonceExpected), Salvaged(b, Presented(b, nonceExpected)), LAMBDA strict :
      [token |-> strict.token, nonce |-> strict.nonce, unclassified |-> NoPart, warned |-> FALSE])
-----------------------------------------------------------------------------
(* Session multiplexing *)

HEADER_LEN == 16

\* One turn: s is what was read of the payload and where the next frame begins.
Frame(b, s, max) ==
    LET i == s.at
        flag == At(b, i + 1)
        length == U32(b, i + 4)
    IN  IF ~s.ok \/ i = Len(b) THEN s
        ELSE IF i + HEADER_LEN > Len(b) THEN [s EXCEPT !.ok = FALSE]
        ELSE IF \/ At(b, i) # \h53
                \/ flag \notin {1, 2, 4, 8}
                \/ length < HEADER_LEN \/ length > max
                \/ flag # 8 /\ length # HEADER_LEN
                \/ i + length > Len(b)
                \/ Len(s.frames) = MaxFrames
        THEN [s EXCEPT !.ok = FALSE]
        ELSE [s EXCEPT !.at = i + length, !.frames = Append(@, Part(i, i + length))]

\* A turn adds a frame or is the last one.
parse_smp(b, max) ==
    LET turn[n \in 0..MaxFrames + 1] ==
            IF n = 0 THEN [ok |-> TRUE, at |-> 0, frames |-> <<>>] ELSE Frame(b, turn[n - 1], max)
    IN  turn[MaxFrames + 1]
=============================================================================
