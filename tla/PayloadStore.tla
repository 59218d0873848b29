---------------------------- MODULE PayloadStore ----------------------------
(***************************************************************************)
(* PayloadStore::capture, run by any number of connection tasks at once on *)
(* one directory: look for the content, write it to a staging file, link   *)
(* that into the content-addressed name, remove the staging file.  Every   *)
(* file operation may fail, and the process may crash between any two.     *)
(* A content stands for its SHA-256 and its size.                          *)
(***************************************************************************)
EXTENDS Integers, FiniteSets

CONSTANTS
    Captures,       \* the calls of capture
    Contents,       \* the byte strings captured
    Content,        \* Content[c]: the bytes call c is given
    Oversized,      \* contents longer than limits.max_payload_bytes
    MaxCrashes      \* bound: crashes of the process

ASSUME PayloadAssumption ==
    /\ IsFiniteSet(Captures)
    /\ Content \in [Captures -> Contents]
    /\ Oversized \subseteq Contents
    /\ MaxCrashes \in Nat

VARIABLES
    enabled,    \* payloads.enabled, fixed from the start
    pc,         \* where each call is
    staging,    \* the staging file of each call
    published,  \* what is under each content-addressed name
    outcome,    \* `publication`, set between the link and the return
    result,     \* what each call returned
    captured,   \* metrics.payloads_captured
    winners,    \* history: calls of this process that created a name
    crashes     \* history: crashes so far

store_vars == <<enabled, pc, staging, published, outcome, result, captured, winners, crashes>>

InProgress == {"checking", "creating", "writing", "syncing", "discarding",
               "linking", "rechecking", "cleaning"}
CaptureStages == {"idle", "finished", "crashed"} \cup InProgress

\* A file has its full length in the page cache ("volatile") before it has it
\* on disk ("durable").
FileStates == {"absent", "torn", "volatile", "durable"}
FullLength == {"volatile", "durable"}
Results == {"none", "not_enabled", "too_large", "stored", "duplicate", "error"}

At(c, s) == pc[c] = s
GoTo(c, s) == pc' = [pc EXCEPT ![c] = s]

\* The call returns r.  Callers raise payloads_captured when newly_stored.
Return(c, r) ==
    /\ GoTo(c, "finished")
    /\ result' = [result EXCEPT ![c] = r]
    /\ captured' = IF r = "stored" THEN captured + 1 ELSE captured

NoReturn == UNCHANGED <<result, captured>>
disk == <<staging, published>>
history == <<winners, crashes>>
fixed == <<enabled, history>>
----------------------------------------------------------------------------
StoreInit ==
    /\ enabled \in BOOLEAN
    /\ pc = [c \in Captures |-> "idle"]
    /\ staging = [c \in Captures |-> "absent"]
    /\ published = [d \in Contents |-> "absent"]
    /\ outcome = [c \in Captures |-> "none"]
    /\ result = [c \in Captures |-> "none"]
    /\ captured = 0
    /\ winners = {}
    /\ crashes = 0
----------------------------------------------------------------------------
(* Wrong variants of actions below.                                        *)

\* sync_data is left out.
SyncLeftOut(c) ==
    /\ At(c, "syncing")
    /\ GoTo(c, "linking")
    /\ NoReturn
    /\ UNCHANGED <<disk, outcome, fixed>>

\* The failure of the last remove_file is ignored, as it is after a failed write.
CleanupIgnoresFailure(c) ==
    /\ At(c, "cleaning")
    /\ staging' \in {staging, [staging EXCEPT ![c] = "absent"]}
    /\ Return(c, outcome[c])
    /\ UNCHANGED <<published, outcome, fixed>>

\* The first look reports a name that is not there as a duplicate.
CheckFindsAlways(c) ==
    /\ At(c, "checking")
    /\ Return(c, "duplicate")
    /\ UNCHANGED <<disk, outcome, fixed>>
----------------------------------------------------------------------------
Begin(c) ==
    /\ At(c, "idle")
    /\ \/ ~enabled /\ Return(c, "not_enabled")
       \/ enabled /\ Content[c] \in Oversized /\ Return(c, "too_large")
       \/ enabled /\ Content[c] \notin Oversized /\ GoTo(c, "checking") /\ NoReturn
    /\ UNCHANGED <<disk, outcome, fixed>>

\* stored_payload_exists: present with the right size, absent, corrupt, or
\* metadata fails.
Check(c) ==
    /\ At(c, "checking")
    /\ \/ published[Content[c]] \in FullLength /\ Return(c, "duplicate")
       \/ published[Content[c]] = "absent" /\ GoTo(c, "creating") /\ NoReturn
       \/ Return(c, "error")
    /\ UNCHANGED <<disk, outcome, fixed>>

Create(c) ==
    /\ At(c, "creating")
    /\ \/ /\ staging' = [staging EXCEPT ![c] = "torn"]
          /\ GoTo(c, "writing")
          /\ NoReturn
       \/ Return(c, "error") /\ UNCHANGED staging
    /\ UNCHANGED <<published, outcome, fixed>>

\* write_all and flush
Write(c) ==
    /\ At(c, "writing")
    /\ \/ staging' = [staging EXCEPT ![c] = "volatile"] /\ GoTo(c, "syncing")
       \/ GoTo(c, "discarding") /\ UNCHANGED staging
    /\ NoReturn
    /\ UNCHANGED <<published, outcome, fixed>>

Sync(c) ==
    /\ At(c, "syncing")
    /\ \/ staging' = [staging EXCEPT ![c] = "durable"] /\ GoTo(c, "linking")
       \/ GoTo(c, "discarding") /\ UNCHANGED staging
    /\ NoReturn
    /\ UNCHANGED <<published, outcome, fixed>>

\* A failed write: remove_file, whose own failure is ignored.
Discard(c) ==
    /\ At(c, "discarding")
    /\ staging' \in {staging, [staging EXCEPT ![c] = "absent"]}
    /\ Return(c, "error")
    /\ UNCHANGED <<published, outcome, fixed>>

\* hard_link creates the name, finds it taken, or fails otherwise.
Link(c) ==
    /\ At(c, "linking")
    /\ published[Content[c]] = "absent"
    /\ published' = [published EXCEPT ![Content[c]] = staging[c]]
    /\ outcome' = [outcome EXCEPT ![c] = "stored"]
    /\ winners' = winners \cup {c}
    /\ GoTo(c, "cleaning")
    /\ NoReturn
    /\ UNCHANGED <<enabled, staging, crashes>>

LinkExists(c) ==
    /\ At(c, "linking")
    /\ published[Content[c]] # "absent"
    /\ GoTo(c, "rechecking")
    /\ NoReturn
    /\ UNCHANGED <<disk, outcome, fixed>>

LinkFails(c) ==
    /\ At(c, "linking")
    /\ outcome' = [outcome EXCEPT ![c] = "error"]
    /\ GoTo(c, "cleaning")
    /\ NoReturn
    /\ UNCHANGED <<disk, fixed>>

Recheck(c) ==
    /\ At(c, "rechecking")
    /\ \/ /\ published[Content[c]] \in FullLength
          /\ outcome' = [outcome EXCEPT ![c] = "duplicate"]
       \/ outcome' = [outcome EXCEPT ![c] = "error"]
    /\ GoTo(c, "cleaning")
    /\ NoReturn
    /\ UNCHANGED <<disk, fixed>>

\* remove_file; `publication?` comes before `cleanup?`.
Cleanup(c) ==
    /\ At(c, "cleaning")
    /\ \/ staging' = [staging EXCEPT ![c] = "absent"] /\ Return(c, outcome[c])
       \/ Return(c, "error") /\ UNCHANGED staging
    /\ UNCHANGED <<published, outcome, fixed>>

\* What a crash may leave of a file: everything only if it was synced.  The
\* directory is never synced, so any name may be missing afterwards.
Remains(f) ==
    CASE f = "durable"  -> {"absent", "durable"}
      [] f = "volatile" -> {"absent", "torn", "durable"}
      [] f = "torn"     -> {"absent", "torn"}
      [] f = "absent"   -> {"absent"}

\* The process ends and is started again: metrics start at 0.  Nothing looks
\* at a staging file left behind, whatever the crash made of it.
Crash ==
    /\ crashes < MaxCrashes
    /\ crashes' = crashes + 1
    /\ pc' = [c \in Captures |-> IF pc[c] \in InProgress THEN "crashed" ELSE pc[c]]
    /\ published' \in [Contents -> FileStates]
    /\ \A d \in Contents : published'[d] \in Remains(published[d])
    /\ captured' = 0
    /\ winners' = {}
    /\ UNCHANGED <<enabled, staging, outcome, result>>

Step(c) ==
    \/ Begin(c) \/ Check(c) \/ Create(c) \/ Write(c) \/ Sync(c) \/ Discard(c)
    \/ Link(c) \/ LinkExists(c) \/ LinkFails(c) \/ Recheck(c) \/ Cleanup(c)

StoreNext == Crash \/ \E c \in Captures : Step(c)

StoreSpec == StoreInit /\ [][StoreNext]_store_vars
----------------------------------------------------------------------------
\* The values the calls and the directory can take.
StoreTypeOK ==
    /\ enabled \in BOOLEAN
    /\ pc \in [Captures -> CaptureStages]
    /\ staging \in [Captures -> FileStates]
    /\ published \in [Contents -> FileStates]
    /\ outcome \in [Captures -> Results]
    /\ result \in [Captures -> Results]
    /\ captured \in Nat
    /\ winners \subseteq Captures
    /\ crashes \in Nat

\* A content-addressed name only ever leads to the complete payload on disk,
\* after any crash too: the payload is synced before it is linked.
PublishedIsComplete == \A d \in Contents : published[d] \in {"absent", "durable"}

\* Of the captures of one content that race, exactly the one that created the
\* name may report it as newly stored; nobody is told "duplicate" of a content
\* that is not there (until a crash, which may undo the link).
StoredOnce ==
    /\ \A c, d \in winners : Content[c] = Content[d] => c = d
    /\ crashes = 0 =>
         /\ \A c \in Captures : result[c] = "stored" => c \in winners
         /\ \A c \in Captures : result[c] \in {"stored", "duplicate"} =>
               published[Content[c]] = "durable"

\* A call that returns Ok has removed its staging file, whichever way it went.
OkLeavesNoStaging ==
    \A c \in Captures : result[c] \in {"stored", "duplicate"} => staging[c] = "absent"

\* A published payload stays: no call of capture ever replaces or removes it.
PublishedIsKept ==
    [][\A d \in Contents :
         crashes' = crashes /\ published[d] # "absent" => published'[d] = published[d]]_store_vars

Store == INSTANCE ContentStore WITH
    present <- {d \in Contents : published[d] = "durable"},
    answer <- result

\* The staging file and the link implement a store that adds a content in one
\* step and answers "stored" to one call at most for each content it holds.
ImplementsContentStore == Store!Spec
============================================================================
