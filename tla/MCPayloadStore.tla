--------------------------- MODULE MCPayloadStore ---------------------------
(***************************************************************************)
(* Three calls race for one content, a fourth brings one that is too long; *)
(* one crash at any point, after which idle calls begin in the new         *)
(* process.  Calls with different contents share no file.                  *)
(***************************************************************************)
EXTENDS PayloadStore

MCCaptures == 1 .. 4
MCContents == {"x", "long"}
MCContent == <<"x", "x", "x", "long">>
MCOversized == {"long"}
=============================================================================
