---------------------------- MODULE MCAdmission ----------------------------
(***************************************************************************)
(* Five connections, three from one source and two from another, against   *)
(* three permits and two guards per source: both limits are reached, alone *)
(* and together.                                                           *)
(***************************************************************************)
EXTENDS Admission

MCPeer == [c \in Conns |-> IF c \in {1, 2, 3} THEN "a" ELSE "b"]
MCConns == 1 .. 5
MCSources == {"a", "b"}
============================================================================
