------------------------------ MODULE Readers -------------------------------
(***************************************************************************)
(* A message on its way to the reader of its kind (src/tds): it may be cut *)
(* or have another byte in it, and is read once.  LoginReaders has the     *)
(* readers of PRELOGIN and of logins, StreamReaders that of the TDS 5      *)
(* token stream, PartReaders those of federated authentication and session *)
(* multiplexing, and Parsers the others and the messages that TLC sends.   *)
(***************************************************************************)
EXTENDS Integers, Sequences

CONSTANT BentBytes             \* what a byte may turn into

Byte == 0..255

ASSUME BentAreBytes == BentBytes \subseteq Byte

VARIABLES input,     \* the message, with its kind and the faults it may meet
          wire,      \* its bytes
          fault,     \* what happened to them: <<>>, <<"cut">> or <<"bent">>
          output     \* <<>>, then what was made of it

vars == <<input, wire, fault, output>>
-----------------------------------------------------------------------------
(* A message is sent, and may be damaged on its way *)

\* Anything may arrive.
ReaderInit ==
    /\ wire \in Seq(Byte)
    /\ fault = <<>>
    /\ output = <<>>

\* Only the first n bytes arrive.
CutOff ==
    /\ output = <<>> /\ fault = <<>> /\ "cut" \in input.faults
    /\ \E n \in 0..(Len(wire) - 1) : wire' = SubSeq(wire, 1, n)
    /\ fault' = <<"cut">>
    /\ UNCHANGED <<input, output>>

\* One byte is another.
Bend ==
    /\ output = <<>> /\ fault = <<>> /\ "bent" \in input.faults
    /\ \E i \in DOMAIN wire : \E byte \in BentBytes \ {wire[i]} : wire' = [wire EXCEPT ![i] = byte]
    /\ fault' = <<"bent">>
    /\ UNCHANGED <<input, output>>
-----------------------------------------------------------------------------
(* The handlers *)

\* A handler runs once, on a message of its kind.
Handles(kind) ==
    /\ input.kind = kind /\ output = <<>>
    /\ UNCHANGED <<input, wire, fault>>

\* A handler of another kind, whatever it makes of the message.
ReadElsewhere(kinds) ==
    /\ input.kind \notin kinds /\ output = <<>>
    /\ UNCHANGED <<input, wire, fault>>

Handled(kind) == input.kind = kind /\ output # <<>>
Result == output[1]
=============================================================================
