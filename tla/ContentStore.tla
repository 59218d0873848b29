---------------------------- MODULE ContentStore ----------------------------
(***************************************************************************)
(* What PayloadStore promises: a set of contents.  A call adds its content *)
(* in one step, if it is not there, and is answered "stored" only if it    *)
(* did, "duplicate" only if the content is there.  A crash may lose        *)
(* contents, never part of one.                                            *)
(***************************************************************************)
CONSTANTS Captures, Content

VARIABLES
    present,    \* the contents in the store
    winners,    \* the calls since the last crash that added theirs
    answer      \* what each call was answered

storeVars == <<present, winners, answer>>

Init ==
    /\ present = {}
    /\ winners = {}
    /\ answer = [c \in Captures |-> "none"]

Add(c) ==
    /\ answer[c] = "none"
    /\ Content[c] \notin present
    /\ present' = present \cup {Content[c]}
    /\ winners' = winners \cup {c}
    /\ UNCHANGED answer

Answer(c) ==
    /\ answer[c] = "none"
    /\ \E r \in {"not_enabled", "too_large", "stored", "duplicate", "error"} :
         /\ r = "stored" => c \in winners
         /\ r = "duplicate" => Content[c] \in present /\ c \notin winners
         /\ r \in {"not_enabled", "too_large"} => c \notin winners
         /\ answer' = [answer EXCEPT ![c] = r]
    /\ UNCHANGED <<present, winners>>

Crash ==
    /\ present' \subseteq present
    /\ winners' = {}
    /\ UNCHANGED answer

Next == Crash \/ \E c \in Captures : Add(c) \/ Answer(c)

Spec == Init /\ [][Next]_storeVars
=============================================================================
