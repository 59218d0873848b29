--------------------------- MODULE MessageChannel ---------------------------
(***************************************************************************)
(* What the packet layer promises: whole messages, in the order in which   *)
(* they were sent, each with the type and the payload it had, until the    *)
(* connection fails.                                                       *)
(***************************************************************************)
EXTENDS Naturals, Sequences

CONSTANT Messages

VARIABLES sent, received, failed

vars == <<sent, received, failed>>

Init == sent = <<>> /\ received = <<>> /\ failed = FALSE

Send ==
    /\ \E m \in Messages : sent' = Append(sent, m)
    /\ UNCHANGED <<received, failed>>

Receive ==
    /\ ~failed
    /\ Len(received) < Len(sent)
    /\ received' = Append(received, sent[Len(received) + 1])
    /\ UNCHANGED <<sent, failed>>

Fail ==
    /\ failed' = TRUE
    /\ UNCHANGED <<sent, received>>

Next == Send \/ Receive \/ Fail

Spec == Init /\ [][Next]_vars
=============================================================================
