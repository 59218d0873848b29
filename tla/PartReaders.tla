---------------------------- MODULE PartReaders -----------------------------
(***************************************************************************)
(* The readers of what is a sequence of parts: besides the TDS 5 stream,   *)
(* federated authentication and session multiplexing.                      *)
(***************************************************************************)
EXTENDS StreamReaders

CONSTANT MaxFrames

ASSUME FrameLimit == MaxFrames \in Nat

Fedauth == INSTANCE Fedauth
-----------------------------------------------------------------------------
(* The handlers *)

ReadFedauth ==
    /\ Handles("fedauth")
    /\ output' = <<[strict |-> Fedauth!parse(wire, input.fedauth.expected),
                    tolerant |-> Fedauth!parse_for_telemetry(wire, input.fedauth.expected)]>>

ReadSmp ==
    /\ Handles("smp")
    /\ output' = <<Fedauth!parse_smp(wire, Limit + 16)>>

PartNext ==
    \/ CutOff \/ Bend
    \/ ReadStream \/ ReadFedauth \/ ReadSmp
    \/ ReadElsewhere({"stream", "fedauth", "smp"})

PartSpec == ReaderInit /\ [][PartNext]_vars
-----------------------------------------------------------------------------
(* Properties *)

\* No byte is reported twice and none is lost.  The tokens and unparsed regions that
\* parse_for_telemetry reports for a TDS 5 stream, also when it has joined what it read before and
\* behind a fault, are the whole stream; the token, the nonce and the unclassified bytes of a
\* federated-authentication message are all that follows its two lengths; frames are the payload.
BytesHaveOneMeaning ==
    /\ Handled("stream") =>
          LET regions == Result.telemetry.unparsed_regions
              parts == Result.telemetry.tokens \o [k \in DOMAIN regions |-> Region(regions[k])]
          IN  \A i \in 0..(Len(wire) - 1) : Once(parts, i)
    /\ Handled("fedauth") =>
          LET parts == <<Result.tolerant.token, Result.tolerant.nonce, Result.tolerant.unclassified>>
          IN  \A i \in (IF Len(wire) < 8 THEN 0 ELSE 8)..(Len(wire) - 1) : Once(parts, i)
    /\ (Handled("smp") /\ Result.ok) => \A i \in 0..(Len(wire) - 1) : Once(Result.frames, i)
=============================================================================
