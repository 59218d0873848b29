---------------------------- MODULE MCSourceAuth ----------------------------
(***************************************************************************)
(* Three logins of two sources against a threshold of one or two.  The     *)
(* kinds below contain every reason to refuse a login, each alone, and     *)
(* every answer of the credential policy.                                  *)
(***************************************************************************)
EXTENDS SourceAuth, TLC

CONSTANTS l1, l2, l3

MCLogins == {l1, l2, l3}
MCSymmetry == Permutations(MCLogins)

Plain(c) == [valid |-> TRUE, integrated |-> FALSE, federated |-> "no",
             secure |-> FALSE, external |-> FALSE, credentials |-> c]
MCKinds == {Plain("Accept"), Plain("Reject"), Plain("Locked"),
            [Plain("Accept") EXCEPT !.valid = FALSE],
            [Plain("Accept") EXCEPT !.integrated = TRUE],
            [Plain("Accept") EXCEPT !.federated = "feature"],
            [Plain("Accept") EXCEPT !.federated = "partial"],
            [Plain("Reject") EXCEPT !.secure = TRUE],
            [Plain("Accept") EXCEPT !.external = TRUE]}
=============================================================================
