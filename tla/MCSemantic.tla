----------------------------- MODULE MCSemantic -----------------------------
(* Statements for Semantic, one for each branch and some that pass several  *)
(* tests.                                                                   *)
EXTENDS Semantic

Plain(tests) ==
    [tests |-> tests, word |-> NoWord, name |-> NoWord, value |-> "absent", body |-> NoWord]

UseOf(d) == [Plain({"USE", "USE "}) EXCEPT !.word = d]
Option(o, v) == [Plain({"SP_CONFIGURE"} \cup (IF o = "xp_cmdshell_enabled" THEN {"XP_CMDSHELL"} ELSE {}))
                    EXCEPT !.name = o, !.value = v]
Assembly(n) == [Plain({"CREATE ASSEMBLY"}) EXCEPT !.name = "a", !.body = n]

Impersonation ==
    {[Plain({"EXECUTE AS"}) EXCEPT !.name = "u"],
     [Plain({"USE", "EXECUTE AS"}) EXCEPT !.word = "R", !.name = "u"], Plain({"EXECUTE AS"}),
     [Plain({"USE", "SYSTEM_USER"}) EXCEPT !.word = "R"],
     Plain({"REVERT"})}
Shell ==
    {Option("xp_cmdshell_enabled", v) : v \in {"absent", "zero", "nonzero"}}
        \cup {Option("other", "nonzero"), Plain({"RECONFIGURE", "= RECONFIGURE"}), Plain({"XP_CMDSHELL"})}
Objects ==
    {[Plain({"CREATE LOGIN"}) EXCEPT !.name = n] : n \in {"l", "absent"}}
    \cup {Plain({"SP_ADD_JOB", "MSDB JOB"}), Assembly("x"), Plain({"BACKUP"}),
          Plain({"@@VERSION", "HONEY"}), Plain({"DB_NAME"}), Plain({"SYSJOBS"})}

MCStatements ==
    {UseOf("db1"), UseOf("absent"), Plain({}), Plain({"BLANK"}), Plain({"BEGIN TRAN"}), Plain({"COMMIT"}),
     Plain({"ROLLBACK"})} \cup Impersonation \cup Shell \cup Objects
=============================================================================
