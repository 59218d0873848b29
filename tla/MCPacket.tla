------------------------------ MODULE MCPacket ------------------------------
(***************************************************************************)
(* Messages whose payloads leave a packet empty, part full, just full and  *)
(* one byte over, and identifiers that wrap within a message.  The foreign *)
(* client has headers on both sides of every limit.                        *)
(***************************************************************************)
EXTENDS Packet

MCMessages ==
    {[type |-> t, payload |-> [i \in 1..n |-> i]] : t \in {"TABULAR_RESULT"}, n \in 0..3}
    \cup {[type |-> "PRELOGIN", payload |-> <<9>>]}

Hdr(t, s, n) == [type |-> t, status |-> s, length |-> n, id |-> 1]
MCHeaders ==
    {Hdr(t, s, n) : t \in {"RPC"}, s \in {"eom", "more"}, n \in {7, 8, 9, 24, 25}}
    \cup {Hdr("SQL_BATCH", "more", 8)}
    \cup {Hdr("SMP", s, n) : s \in {"control", "data"}, n \in {15, 16, 32, 33}}
=============================================================================
