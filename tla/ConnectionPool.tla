--------------------------- MODULE ConnectionPool ---------------------------
(***************************************************************************)
(* What admission promises, without semaphore, map or counters: a pool of  *)
(* connections that respects a global limit and a limit per source, turns  *)
(* a connection away only when one of them is reached, decides about each  *)
(* connection once and never takes one back.                               *)
(***************************************************************************)
EXTENDS Integers, FiniteSets

CONSTANTS Conns, Sources, Peer, MaxConnections, MaxConnectionsPerIp

VARIABLES
    slots,      \* connections that occupy a place in the pool
    guarded,    \* connections that count against their source
    refused,    \* connections turned away
    gone        \* connections that were served and have left

poolVars == <<slots, guarded, refused, gone>>

Fresh(c) == c \notin slots \cup refused \cup gone
Undecided(c) == c \in slots \ (guarded \cup refused \cup gone)
SameSource(c) == {d \in guarded : Peer[d] = Peer[c]}

Init == slots = {} /\ guarded = {} /\ refused = {} /\ gone = {}

Reserve(c) ==
    /\ Fresh(c)
    /\ Cardinality(slots) < MaxConnections
    /\ slots' = slots \cup {c}
    /\ UNCHANGED <<guarded, refused, gone>>

Admit(c) ==
    /\ Undecided(c)
    /\ Cardinality(SameSource(c)) < MaxConnectionsPerIp
    /\ guarded' = guarded \cup {c}
    /\ UNCHANGED <<slots, refused, gone>>

Refuse(c) ==
    /\ \/ Fresh(c) /\ Cardinality(slots) >= MaxConnections
       \/ /\ Undecided(c)
          /\ Cardinality(SameSource(c)) >= MaxConnectionsPerIp
    /\ refused' = refused \cup {c}
    /\ UNCHANGED <<slots, guarded, gone>>

\* A refused connection that held a place gives it back.
Forget(c) ==
    /\ c \in slots \cap refused
    /\ slots' = slots \ {c}
    /\ UNCHANGED <<guarded, refused, gone>>

\* A served connection stops counting against its source before its place is
\* free, and is never admitted again.
Leave(c) ==
    /\ c \in guarded
    /\ guarded' = guarded \ {c}
    /\ gone' = gone \cup {c}
    /\ UNCHANGED <<slots, refused>>

Free(c) ==
    /\ c \in slots \cap gone
    /\ slots' = slots \ {c}
    /\ UNCHANGED <<guarded, refused, gone>>

Next ==
    \E c \in Conns :
        Reserve(c) \/ Admit(c) \/ Refuse(c) \/ Forget(c) \/ Leave(c) \/ Free(c)

Spec == Init /\ [][Next]_poolVars
=============================================================================
