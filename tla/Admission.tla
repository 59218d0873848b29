----------------------------- MODULE Admission -----------------------------
(***************************************************************************)
(* Connection admission: the accept loop of Server::serve, the semaphore   *)
(* and the per-source guard it takes, and the part of connection_task that *)
(* gives them back and keeps the connection metrics.  One accept loop runs *)
(* beside one task per admitted connection on a multi-threaded runtime, so *)
(* every access to shared state is a step of its own.  What the handler    *)
(* does between Spawn and HandleReturns is the business of Connection.     *)
(***************************************************************************)
EXTENDS Integers, FiniteSets

CONSTANTS
    Conns,                  \* the TCP connections that ever arrive
    Sources,                \* peer.ip() values
    Peer,                   \* Peer[c]: the source of connection c
    MaxConnections,         \* listener.max_connections
    MaxConnectionsPerIp     \* listener.max_connections_per_ip

\* What Config::validate and the types guarantee before Server::new goes on.
ASSUME AdmissionAssumption ==
    /\ IsFiniteSet(Conns)
    /\ Peer \in [Conns -> Sources]
    /\ MaxConnections \in Nat \ {0}
    /\ MaxConnectionsPerIp \in Nat \ {0}

VARIABLES
    running,    \* serve has not returned
    stage,      \* where each connection is in serve or connection_task
    permits,    \* connection_limit: permits left in the semaphore
    perIp,      \* per_ip: the count of each source (0 when it has no entry)
    tracked,    \* per_ip: the sources that have an entry
    active,     \* metrics.active_connections
    total,      \* metrics.total_connections
    rejected,   \* metrics.rejected_connections
    completed,  \* metrics.completed_sessions
    cancelled   \* the handlers the runtime dropped while it shut down

metrics == <<active, total, rejected, completed>>
vars == <<running, stage, permits, perIp, tracked, active, total, rejected,
          completed, cancelled>>

\* A connection is in the accept loop, in its task, or in neither.
LoopStages == {"accepted", "permitted", "guarded", "refusing"}
TaskStages == {"serving", "ended", "dropping", "unguarded"}
Stages == {"arriving", "rejected", "released"} \cup LoopStages \cup TaskStages

PermitStages == {"permitted", "guarded", "refusing"} \cup TaskStages
GuardStages == {"guarded", "serving", "ended", "dropping"}
PastReport == {"dropping", "unguarded", "released"}

In(S) == {c \in Conns : stage[c] \in S}
PermitHolders == In(PermitStages)
GuardHolders(ip) == {c \in In(GuardStages) : Peer[c] = ip}

Goto(c, s) == stage' = [stage EXCEPT ![c] = s]
----------------------------------------------------------------------------
Init ==
    /\ running = TRUE
    /\ stage = [c \in Conns |-> "arriving"]
    /\ permits = MaxConnections
    /\ perIp = [ip \in Sources |-> 0]
    /\ tracked = {}
    /\ active = 0
    /\ total = 0
    /\ rejected = 0
    /\ completed = 0
    /\ cancelled = {}
----------------------------------------------------------------------------
(* Wrong variants of actions below, each a slip the code could contain;    *)
(* the properties must tell them from the real ones.                       *)

\* try_acquire that does not look at the permits left.
TryAcquirePermitUnchecked(c) ==
    /\ running
    /\ stage[c] = "accepted"
    /\ permits' = permits - 1
    /\ Goto(c, "permitted")
    /\ UNCHANGED <<running, perIp, tracked, metrics, cancelled>>

\* The per-source rejection is not counted.
RejectPerIpUncounted(c) ==
    /\ running
    /\ stage[c] = "permitted"
    /\ perIp[Peer[c]] >= MaxConnectionsPerIp
    /\ Goto(c, "refusing")
    /\ UNCHANGED <<running, permits, perIp, tracked, metrics, cancelled>>

\* Drop keeps the entry of a source without connections.
DropGuardKeepsEntry(c) ==
    /\ stage[c] = "dropping"
    /\ perIp' = [perIp EXCEPT ![Peer[c]] = @ - 1]
    /\ Goto(c, "unguarded")
    /\ UNCHANGED <<running, permits, tracked, metrics, cancelled>>

\* The permit is given back by the accept loop, which may be gone.
DropPermitByLoop(c) ==
    /\ running
    /\ stage[c] = "unguarded"
    /\ permits' = permits + 1
    /\ Goto(c, "released")
    /\ UNCHANGED <<running, perIp, tracked, metrics, cancelled>>
----------------------------------------------------------------------------
\* listener.accept() returns a stream.  The loop handles one at a time.
Accept(c) ==
    /\ running
    /\ In(LoopStages) = {}
    /\ stage[c] = "arriving"
    /\ Goto(c, "accepted")
    /\ total' = total + 1
    /\ UNCHANGED <<running, permits, perIp, tracked, active, rejected, completed, cancelled>>

TryAcquirePermit(c) ==
    /\ running
    /\ stage[c] = "accepted"
    /\ permits > 0
    /\ permits' = permits - 1
    /\ Goto(c, "permitted")
    /\ UNCHANGED <<running, perIp, tracked, metrics, cancelled>>

\* reject("global_connection_limit"); continue
RejectGlobal(c) ==
    /\ running
    /\ stage[c] = "accepted"
    /\ permits = 0
    /\ rejected' = rejected + 1
    /\ Goto(c, "rejected")
    /\ UNCHANGED <<running, permits, perIp, tracked, active, total, completed, cancelled>>

\* IpGuard::acquire: entry(ip).or_default() creates the entry either way.
AcquireGuard(c) ==
    /\ running
    /\ stage[c] = "permitted"
    /\ perIp[Peer[c]] < MaxConnectionsPerIp
    /\ perIp' = [perIp EXCEPT ![Peer[c]] = @ + 1]
    /\ tracked' = tracked \cup {Peer[c]}
    /\ Goto(c, "guarded")
    /\ UNCHANGED <<running, permits, metrics, cancelled>>

\* reject("per_ip_connection_limit"); the permit is still held.
RejectPerIp(c) ==
    /\ running
    /\ stage[c] = "permitted"
    /\ perIp[Peer[c]] >= MaxConnectionsPerIp
    /\ tracked' = tracked \cup {Peer[c]}
    /\ rejected' = rejected + 1
    /\ Goto(c, "refusing")
    /\ UNCHANGED <<running, permits, perIp, active, total, completed, cancelled>>

\* continue leaves the scope of the permit, which drops it.
DropRefusedPermit(c) ==
    /\ running
    /\ stage[c] = "refusing"
    /\ permits' = permits + 1
    /\ Goto(c, "rejected")
    /\ UNCHANGED <<running, perIp, tracked, metrics, cancelled>>

\* active_connections is raised before the task exists.
Spawn(c) ==
    /\ running
    /\ stage[c] = "guarded"
    /\ active' = active + 1
    /\ Goto(c, "serving")
    /\ UNCHANGED <<running, permits, perIp, tracked, total, rejected, completed, cancelled>>

\* ctrl_c, or an error of accept or local_addr: serve returns between two
\* connections and main begins to shut the runtime down.  The tasks go on
\* until they next wait.
Stop ==
    /\ running
    /\ In(LoopStages) = {}
    /\ running' = FALSE
    /\ UNCHANGED <<stage, permits, perIp, tracked, metrics, cancelled>>

\* The runtime drops a task that waits, which is inside the handler: the rest
\* of connection_task never runs, only its parameters are dropped.
CancelHandler(c) ==
    /\ ~running
    /\ stage[c] = "serving"
    /\ cancelled' = cancelled \cup {c}
    /\ Goto(c, "dropping")
    /\ UNCHANGED <<running, permits, perIp, tracked, metrics>>

\* connection::handle has returned: active_connections.fetch_sub(1).
HandleReturns(c) ==
    /\ stage[c] = "serving"
    /\ active' = active - 1
    /\ Goto(c, "ended")
    /\ UNCHANGED <<running, permits, perIp, tracked, total, rejected, completed, cancelled>>

\* completed_sessions.fetch_add(1), then the closing events.
Report(c) ==
    /\ stage[c] = "ended"
    /\ completed' = completed + 1
    /\ Goto(c, "dropping")
    /\ UNCHANGED <<running, permits, perIp, tracked, active, total, rejected, cancelled>>

\* The parameters of connection_task drop in reverse order: first the guard,
\* whose count saturates at 0 and whose entry is removed at 0 ...
DropGuard(c) ==
    LET left == IF perIp[Peer[c]] = 0 THEN 0 ELSE perIp[Peer[c]] - 1
    IN  /\ stage[c] = "dropping"
        /\ perIp' = [perIp EXCEPT ![Peer[c]] = left]
        /\ tracked' = IF left = 0 THEN tracked \ {Peer[c]} ELSE tracked
        /\ Goto(c, "unguarded")
        /\ UNCHANGED <<running, permits, metrics, cancelled>>

\* ... then the permit.
DropPermit(c) ==
    /\ stage[c] = "unguarded"
    /\ permits' = permits + 1
    /\ Goto(c, "released")
    /\ UNCHANGED <<running, perIp, tracked, metrics, cancelled>>

LoopStep(c) ==
    \/ TryAcquirePermit(c)
    \/ RejectGlobal(c)
    \/ AcquireGuard(c)
    \/ RejectPerIp(c)
    \/ DropRefusedPermit(c)
    \/ Spawn(c)

\* What follows the handler in connection_task does not wait for anything.
TaskTail(c) ==
    \/ Report(c)
    \/ DropGuard(c)
    \/ DropPermit(c)

Next ==
    \/ Stop
    \/ \E c \in Conns :
          \/ Accept(c)
          \/ LoopStep(c)
          \/ HandleReturns(c)
          \/ CancelHandler(c)
          \/ TaskTail(c)

\* The tail of a task contains no await point, so once begun it finishes.
\* Nothing obliges a peer to connect or a handler to return.
Fairness == \A c \in Conns : WF_vars(TaskTail(c))

Spec == Init /\ [][Next]_vars
FairSpec == Spec /\ Fairness
----------------------------------------------------------------------------
\* The values the shared state of Server::serve can take.
TypeOK ==
    /\ running \in BOOLEAN
    /\ stage \in [Conns -> Stages]
    /\ permits \in Nat
    /\ perIp \in [Sources -> Nat]
    /\ tracked \subseteq Sources
    /\ active \in Nat
    /\ total \in Nat
    /\ rejected \in Nat
    /\ completed \in Nat
    /\ cancelled \subseteq Conns

\* No permit leaks and none is returned twice: on every path through the loop,
\* the task and the shutdown, the semaphore is short of exactly the permits
\* that some connection still owns.
PermitAccounting == permits + Cardinality(PermitHolders) = MaxConnections

\* The per_ip map agrees with the guards alive: the count of a source is the
\* number of its guards, and a source has an entry exactly while it has one
\* (Drop removes the entry at 0, so the map cannot grow without bound).
GuardAccounting ==
    /\ \A ip \in Sources : perIp[ip] = Cardinality(GuardHolders(ip))
    /\ tracked = {ip \in Sources : GuardHolders(ip) # {}}

\* The two limits of the configuration hold at every moment, also while
\* guards and permits of earlier connections are still being dropped.
LimitsHold ==
    /\ Cardinality(PermitHolders) <= MaxConnections
    /\ \A ip \in Sources : Cardinality(GuardHolders(ip)) <= MaxConnectionsPerIp

\* The metrics add up: every accepted connection is in the loop, rejected,
\* active, past its handler, or completed, and is counted once.  In particular
\* the gauge active_connections never wraps below 0.
MetricsBalance ==
    /\ active = Cardinality(In({"serving"}) \cup cancelled)
    /\ rejected = Cardinality(In({"refusing", "rejected"}))
    /\ completed = Cardinality(In(PastReport) \ cancelled)
    /\ total = Cardinality(In(Stages \ {"arriving"}))

\* A connection is turned away only at a limit: all permits are owned by other
\* connections, or the source has all its guards.
RejectedOnlyAtLimit ==
    [][\A c \in Conns :
         rejected' # rejected /\ stage'[c] # stage[c] =>
            \/ Cardinality(PermitHolders) = MaxConnections
            \/ Cardinality(GuardHolders(Peer[c])) = MaxConnectionsPerIp]_vars

\* Whatever happens after the handler has returned, the connection gives back
\* its guard and its permit.
ReturnedIsReleased ==
    \A c \in Conns : stage[c] = "ended" ~> stage[c] = "released"

Pool == INSTANCE ConnectionPool WITH
    slots <- PermitHolders,
    guarded <- In(GuardStages),
    refused <- In({"refusing", "rejected"}),
    gone <- In({"unguarded", "released"})

\* The semaphore, the map and the guards together behave as a bounded pool:
\* the loop and the tasks implement ConnectionPool.
ImplementsPool == Pool!Spec
============================================================================
