--------------------------- MODULE StreamReaders ----------------------------
(***************************************************************************)
(* The reader of the TDS 5 token stream, and what it means that the parts  *)
(* a message is taken for hold each of its bytes once.                     *)
(***************************************************************************)
EXTENDS Readers

CONSTANTS
    Limit,                     \* of the bytes of values
    MaxTokens, MaxColumns, MaxSections,
    DecodeOid(_), ParseSspi(_)

ASSUME StreamLimits == {Limit, MaxTokens, MaxColumns, MaxSections} \subseteq Nat

Tds5 == INSTANCE Tds5
-----------------------------------------------------------------------------
(* The handler *)

ReadStream ==
    /\ Handles("stream")
    /\ output' = <<[strict |-> Tds5!parse_authentication(wire, 0, Limit),
                    telemetry |-> Tds5!parse_for_telemetry(wire, Limit)]>>
-----------------------------------------------------------------------------
(* Parts of a payload *)

\* Parts of a payload are [from, to]; the regions of a stream that were not read are [offset, bytes].
Holds(part, i) == part.from <= i /\ i < part.to
AtMostOnce(parts, i) ==
    \A j, k \in DOMAIN parts : Holds(parts[j], i) /\ Holds(parts[k], i) => j = k
Once(parts, i) == AtMostOnce(parts, i) /\ \E k \in DOMAIN parts : Holds(parts[k], i)

Region(region) == [from |-> region.offset, to |-> region.offset + region.bytes]
-----------------------------------------------------------------------------
(* Properties *)

\* However a TDS 5 stream is damaged, the bytes of values that parse_for_telemetry keeps of it stay
\* within the limit, also when two readings of it are joined.
StreamBudget == Handled("stream") => Tds5!ValueBytes(Result.telemetry) <= Limit
=============================================================================
