------------------------------ MODULE Semantic ------------------------------
(***************************************************************************)
(* The synthetic session, src/semantic/mod.rs and src/session.rs.  A       *)
(* request is a batch of statements; each is recognised by marker words,   *)
(* tested in a fixed order, and changes the session, adds a result or ends *)
(* the batch with an error.  What changed is reported as                   *)
(* synthetic_state_change events when the batch is over.                   *)
(*                                                                         *)
(* A statement is the set of tests its text passes, with the operands the  *)
(* code cuts out of the text.  A text that contains SYSTEM_USER, USER_NAME *)
(* or AS USER also contains USE: the tests are on substrings.              *)
(***************************************************************************)
EXTENDS Naturals, Sequences, SequencesExt

CONSTANTS
    Statements,     \* [tests, word, name, value, body]
    Databases,      \* personality.databases
    LoginName,      \* the name in the login, and the database it asked for
    LoginDatabase,
    DepthMax,       \* u32::MAX
    MaxBatch, MaxRequests

NoWord == "none"

\* The tests of apply_statement and discovery, in their order.  BLANK is an empty
\* text, BACKUP stands for the branches with a fixed answer, and @@VERSION for
\* the discovery branches that do not look at the session.
Order == <<"BLANK", "USE", "SP_CONFIGURE", "RECONFIGURE", "XP_CMDSHELL", "EXECUTE AS", "REVERT",
           "BEGIN TRAN", "COMMIT", "ROLLBACK", "CREATE LOGIN", "CREATE ASSEMBLY",
           "SP_ADD_JOB", "BACKUP", "@@VERSION", "SYSTEM_USER", "DB_NAME",
           "SYS.DATABASES", "SYS.SERVER_PRINCIPALS", "SYS.SERVERS", "SYSJOBS">>

\* Tests that only classify has: a honey object is named, "USE " begins the text,
\* the text is RECONFIGURE and no more, MSDB.DBO.SP_ stands beside JOB.
Tests == ToSet(Order) \cup {"HONEY", "USE ", "= RECONFIGURE", "MSDB JOB", "CLR ENABLED",
                           "OLE AUTOMATION", "EXTERNAL SCRIPT", "SERVER ROLE",
                           "FN_MY_PERMISSIONS"}

Options == {"xp_cmdshell_enabled", "clr_enabled", "ole_automation_enabled",
            "ad_hoc_distributed_queries_enabled"}

ASSUME SemanticAssumption ==
    /\ DepthMax \in Nat /\ MaxBatch \in Nat
    /\ \A s \in Statements :
          /\ s.tests \subseteq Tests
          /\ s.tests \cap {"SYSTEM_USER", "USE "} # {} => "USE" \in s.tests
          /\ "SYSTEM_USER" \in s.tests => s.word # NoWord
          /\ s.value \in {"absent", "zero", "nonzero"}

VARIABLES
    session,        \* SessionState
    batch,          \* statements of the request still to apply
    outcome,        \* Outcome, of the request in progress
    replayed,       \* the session as the emitted events tell it
    highest_risk,   \* of the connection's progress
    busy,           \* a request is in progress
    requests,       \* how many there were
    unknown         \* personality.unknown_query_behavior

reports == <<replayed, highest_risk>>
control == <<busy, requests, unknown>>
vars == <<session, batch, outcome, reports, control>>

NewSession ==
    [current_database |-> LoginDatabase, effective_login |-> LoginName,
     transaction_depth |-> 0, enabled |-> [o \in Options |-> FALSE],
     synthetic |-> <<>>, impersonation_stack |-> <<>>]

NewOutcome(c) ==
    [classification |-> c, changes |-> <<>>, results |-> <<>>, error |-> FALSE,
     payload |-> NoWord]

\* The items without those at the positions `out`
Without(items, out) ==
    LET first[i \in 0..Len(items)] ==
            IF i = 0 THEN <<>>
            ELSE IF i \in out THEN first[i - 1]
            ELSE Append(first[i - 1], items[i])
    IN  first[Len(items)]

\* What the events of a session can tell: all but the stack, and but for the
\* objects that are called "absent".  change is given that word as the old
\* value of an object, and finds that nothing changed.
Reportable(objects) == Without(objects, {i \in 1..Len(objects) : objects[i][2] = "absent"})

Reported(s) ==
    [current_database |-> s.current_database, effective_login |-> s.effective_login,
     transaction_depth |-> s.transaction_depth, enabled |-> s.enabled,
     synthetic |-> Reportable(s.synthetic)]

----------------------------------------------------------------------------
(* classify, update_risk and risk_rank                                     *)

HasTest(b, t) == \E i \in 1..Len(b) : t \in b[i].tests
StartsWith(b, t) == b # <<>> /\ t \in Head(b).tests

\* In the order in which classify tries them.
Classes == <<"HoneyObjectAccess", "XpCmdshell", "OleAutomation", "ExternalScripts", "ClrActivity",
             "LinkedServerActivity", "SqlAgentActivity", "FilesystemActivity", "ExecuteAs",
             "LoginManipulation", "RoleManipulation", "Configuration", "DatabaseEnumeration",
             "PrincipalEnumeration", "PermissionEnumeration", "DatabaseContext", "Transaction",
             "EnvironmentDiscovery", "Unknown">>

Found(c, b) ==
    CASE c = "HoneyObjectAccess" -> HasTest(b, "HONEY")
      [] c = "XpCmdshell" -> HasTest(b, "XP_CMDSHELL")
      [] c = "OleAutomation" -> HasTest(b, "OLE AUTOMATION")
      [] c = "ExternalScripts" -> HasTest(b, "EXTERNAL SCRIPT")
      [] c = "ClrActivity" -> HasTest(b, "CREATE ASSEMBLY") \/ HasTest(b, "CLR ENABLED")
      [] c = "LinkedServerActivity" -> HasTest(b, "SYS.SERVERS")
      [] c = "SqlAgentActivity" -> HasTest(b, "MSDB JOB") \/ HasTest(b, "SYSJOBS")
      [] c = "FilesystemActivity" -> HasTest(b, "BACKUP")
      [] c = "ExecuteAs" -> HasTest(b, "EXECUTE AS") \/ StartsWith(b, "REVERT")
      [] c = "LoginManipulation" -> HasTest(b, "CREATE LOGIN")
      [] c = "RoleManipulation" -> HasTest(b, "SERVER ROLE")
      [] c = "Configuration" ->
            HasTest(b, "SP_CONFIGURE") \/ (Len(b) = 1 /\ StartsWith(b, "= RECONFIGURE"))
      [] c = "DatabaseEnumeration" -> HasTest(b, "SYS.DATABASES")
      [] c = "PrincipalEnumeration" -> HasTest(b, "SYS.SERVER_PRINCIPALS")
      [] c = "PermissionEnumeration" -> HasTest(b, "FN_MY_PERMISSIONS")
      [] c = "DatabaseContext" -> StartsWith(b, "USE ")
      [] c = "Transaction" -> \E t \in {"BEGIN TRAN", "COMMIT", "ROLLBACK"} : StartsWith(b, t)
      [] c = "EnvironmentDiscovery" ->
            \E t \in {"@@VERSION", "SYSTEM_USER", "DB_NAME"} : HasTest(b, t)
      [] OTHER -> TRUE

Classify(b) == Head(SelectSeq(Classes, LAMBDA c : Found(c, b)))

RiskRank(c) ==
    CASE c = "HoneyObjectAccess" -> 5
      [] c \in {"XpCmdshell", "ClrActivity", "ExternalScripts", "SqlAgentActivity"} -> 4
      [] c \in {"OleAutomation", "LinkedServerActivity", "FilesystemActivity",
                "LoginManipulation", "RoleManipulation", "ExecuteAs"} -> 3
      [] c \in {"Configuration", "PrincipalEnumeration", "PermissionEnumeration"} -> 2
      [] c \in {"EnvironmentDiscovery", "DatabaseEnumeration"} -> 1
      [] OTHER -> 0

UpdateRisk(c) ==
    highest_risk' = IF RiskRank(c) > RiskRank(highest_risk) THEN c ELSE highest_risk

----------------------------------------------------------------------------
Init ==
    /\ session = NewSession /\ replayed = Reported(NewSession)
    /\ batch = <<>> /\ outcome = NewOutcome("Unknown")
    /\ highest_risk = "Unknown" /\ busy = FALSE /\ requests = 0
    /\ unknown \in {"empty", "success", "syntax_error", "permission_denied"}

Begin(b) ==
    /\ ~busy /\ requests < MaxRequests
    /\ busy' = TRUE /\ requests' = requests + 1
    /\ batch' = b
    /\ outcome' = NewOutcome(Classify(b))
    /\ UNCHANGED <<session, reports, unknown>>

\* handle_sql on the text of a SQL batch or of TDS 5 commands
HandleSql == \E b \in BoundedSeq(Statements, MaxBatch) : Begin(b)

\* handle_rpc: a statement for each call that is to be executed
Executed(calls) ==
    Without([i \in 1..Len(calls) |-> calls[i].statement],
            {i \in 1..Len(calls) : calls[i].no_execute})

HandleRpc ==
    \E calls \in BoundedSeq([statement : Statements, no_execute : BOOLEAN], MaxBatch) :
        Begin(Executed(calls))

----------------------------------------------------------------------------
(* apply_statement: one action for each branch                             *)

\* The first test that the statement passes; USE wants a word behind it.
Branch(s) ==
    LET passed == SelectSeq(Order, LAMBDA t : t \in s.tests /\ (t = "USE" => s.word # NoWord))
    IN  IF passed = <<>> THEN "unknown" ELSE Head(passed)

Is(t) == busy /\ batch # <<>> /\ Branch(Head(batch)) = t

\* handle_sql breaks off at the first error, and otherwise goes on.
Advance(failed) == batch' = IF failed THEN <<>> ELSE Tail(batch)

\* change: an entry only if the value differs
Change(property, old, new) ==
    IF old = new THEN <<>> ELSE <<[property |-> property, old |-> old, new |-> new]>>

\* The statement sets a field of the session and reports it.
Sets(field, new) ==
    /\ outcome' = [outcome EXCEPT !.changes = @ \o Change(field, session[field], new)]
    /\ Advance(FALSE)
    /\ UNCHANGED <<reports, control>>

Results(r) ==
    /\ outcome' = [outcome EXCEPT !.results = @ \o r]
    /\ Advance(FALSE)
    /\ UNCHANGED <<session, reports, control>>

Fails ==
    /\ outcome' = [outcome EXCEPT !.error = TRUE]
    /\ Advance(TRUE)
    /\ UNCHANGED <<session, reports, control>>

Use ==
    /\ Is("USE")
    /\ \/ /\ Head(batch).word \in Databases
          /\ Sets("current_database", Head(batch).word)
          /\ session' = [session EXCEPT !.current_database = Head(batch).word]
       \/ /\ Head(batch).word \notin Databases
          /\ Fails

\* configure: an option is set if a number ends the text, and shown
Configure ==
    /\ Is("SP_CONFIGURE")
    /\ LET s == Head(batch)
           on == s.value = "nonzero"
           set == s.value # "absent"
       IN  \/ /\ s.name \in Options /\ set
              /\ outcome' = [outcome EXCEPT
                     !.changes = @ \o Change(s.name, session.enabled[s.name], on),
                     !.results = Append(@, "option")]
              /\ session' = [session EXCEPT !.enabled[s.name] = on]
              /\ Advance(FALSE)
              /\ UNCHANGED <<reports, control>>
           \/ s.name \in Options /\ ~set /\ Results(<<"option">>)
           \/ s.name \notin Options /\ Results(<<>>)

Blank == Is("BLANK") /\ Results(<<>>)

Reconfigure == Is("RECONFIGURE") /\ Results(<<>>)

XpCmdshell ==
    /\ Is("XP_CMDSHELL")
    /\ \/ session.enabled["xp_cmdshell_enabled"] /\ Results(<<"shell">>)
       \/ ~session.enabled["xp_cmdshell_enabled"] /\ Fails

Identity == IF Head(batch).name = NoWord THEN "dbo" ELSE Head(batch).name

\* The identity taken on is put on the stack, not the one left.
ExecuteAsPushesNew ==
    /\ Is("EXECUTE AS")
    /\ Sets("effective_login", Identity)
    /\ session' = [session EXCEPT !.impersonation_stack = Append(@, Identity),
                                  !.effective_login = Identity]

ExecuteAs ==
    /\ Is("EXECUTE AS")
    /\ Sets("effective_login", Identity)
    /\ session' = [session EXCEPT !.impersonation_stack = Append(@, session.effective_login),
                                  !.effective_login = Identity]

Revert ==
    /\ Is("REVERT")
    /\ \/ /\ session.impersonation_stack # <<>>
          /\ Sets("effective_login", Last(session.impersonation_stack))
          /\ session' = [session EXCEPT !.impersonation_stack = Front(@),
                                        !.effective_login = Last(session.impersonation_stack)]
       \/ session.impersonation_stack = <<>> /\ Results(<<>>)

SetDepth(d) ==
    /\ Sets("transaction_depth", d)
    /\ session' = [session EXCEPT !.transaction_depth = d]

\* saturating_add and saturating_sub
BeginTran ==
    /\ Is("BEGIN TRAN")
    /\ SetDepth(IF session.transaction_depth = DepthMax THEN DepthMax
                ELSE session.transaction_depth + 1)

Commit ==
    /\ Is("COMMIT")
    /\ SetDepth(IF session.transaction_depth = 0 THEN 0 ELSE session.transaction_depth - 1)

Rollback == Is("ROLLBACK") /\ SetDepth(0)

\* A login, an assembly or a job: an entry, reported as absent before.
Creates(kind, name, payload) ==
    /\ LET named == name # NoWord
       IN  /\ session' = [session EXCEPT !.synthetic = IF named THEN Append(@, <<kind, name>>) ELSE @]
           /\ outcome' = [outcome EXCEPT
                  !.changes = @ \o (IF named THEN Change(kind, "absent", name) ELSE <<>>),
                  !.payload = IF payload # NoWord THEN payload ELSE @]
    /\ Advance(FALSE)
    /\ UNCHANGED <<reports, control>>

\* The entries of one kind that the session has added.
Made(kind) == SelectSeq(session.synthetic, LAMBDA e : e[1] = kind)

JobName ==
    IF Head(batch).name # NoWord THEN Head(batch).name
    ELSE "Job" \o ToString(Len(Made("synthetic_job")) + 1)

CreateLogin == Is("CREATE LOGIN") /\ Creates("synthetic_login", Head(batch).name, NoWord)
CreateAssembly ==
    Is("CREATE ASSEMBLY") /\ Creates("synthetic_assembly", Head(batch).name, Head(batch).body)
AddJob == Is("SP_ADD_JOB") /\ Creates("synthetic_job", JobName, NoWord)

\* sp_start_job, sp_OACreate, xp_fileexist, BACKUP and RESTORE
Canned == Is("BACKUP") /\ Results(<<"canned">>)

Answer(t) ==
    CASE t = "SYS.SERVER_PRINCIPALS" -> <<t, Made("synthetic_login")>>
      [] t = "SYSJOBS" -> <<t, Made("synthetic_job")>>
      [] t = "SYSTEM_USER" -> session.effective_login
      [] t = "DB_NAME" -> session.current_database
      [] OTHER -> t

Discovery ==
    \E t \in {"@@VERSION", "SYSTEM_USER", "DB_NAME", "SYS.DATABASES", "SYS.SERVER_PRINCIPALS",
             "SYS.SERVERS", "SYSJOBS"} :
        Is(t) /\ Results(<<Answer(t)>>)

UnknownStatement ==
    /\ Is("unknown")
    /\ \/ unknown = "empty" /\ Results(<<"empty">>)
       \/ unknown = "success" /\ Results(<<>>)
       \/ unknown \in {"syntax_error", "permission_denied"} /\ Fails

----------------------------------------------------------------------------
(* The end of a request: update_risk, then process_outcome                 *)

\* What a reader of the events knows after one more of them.
Replay(known, c) ==
    CASE c.property \in Options -> [known EXCEPT !.enabled[c.property] = c.new]
      [] c.property \in {"synthetic_login", "synthetic_assembly", "synthetic_job"} ->
            [known EXCEPT !.synthetic = Append(@, <<c.property, c.new>>)]
      [] OTHER -> [known EXCEPT ![c.property] = c.new]
Replays(known, changes) ==
    LET told[i \in 0..Len(changes)] ==
            IF i = 0 THEN known ELSE Replay(told[i - 1], changes[i])
    IN  told[Len(changes)]

FinishErrorUnreported ==
    /\ busy /\ batch = <<>>
    /\ UpdateRisk(outcome.classification)
    /\ replayed' = IF outcome.error THEN replayed ELSE Replays(replayed, outcome.changes)
    /\ outcome' = NewOutcome("Unknown")
    /\ busy' = FALSE
    /\ UNCHANGED <<session, batch, requests, unknown>>

Finish ==
    /\ busy /\ batch = <<>>
    /\ UpdateRisk(outcome.classification)
    /\ replayed' = Replays(replayed, outcome.changes)
    /\ outcome' = NewOutcome("Unknown")
    /\ busy' = FALSE
    /\ UNCHANGED <<session, batch, requests, unknown>>

Next ==
    \/ HandleSql \/ HandleRpc \/ Finish
    \/ Blank \/ Use \/ Configure \/ Reconfigure \/ XpCmdshell \/ ExecuteAs \/ Revert
    \/ BeginTran \/ Commit \/ Rollback \/ CreateLogin \/ CreateAssembly \/ AddJob
    \/ Canned \/ Discovery \/ UnknownStatement

Spec == Init /\ [][Next]_vars

----------------------------------------------------------------------------
\* The events tell the session: replaying the synthetic_state_change events,
\* with those the request in progress will emit, gives the current database,
\* login, transaction depth, options and objects, whatever failed on the way;
\* of the objects all but those called "absent", which no event reports.
\* The depth stays within its u32 however BEGIN and COMMIT are mixed.
EventsTellSession ==
    /\ Replays(replayed, outcome.changes) = Reported(session)
    /\ session.transaction_depth \in 0..DepthMax

\* REVERT finds its way back: the lowest entry of the impersonation stack is the
\* login itself, and with an empty stack the login is the effective one.
IdentityUnwinds ==
    IF session.impersonation_stack = <<>> THEN session.effective_login = LoginName
    ELSE Head(session.impersonation_stack) = LoginName

=============================================================================
