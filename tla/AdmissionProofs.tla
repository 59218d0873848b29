-------------------------- MODULE AdmissionProofs --------------------------
(***************************************************************************)
(* For every number of connections and sources and every pair of limits:   *)
(* the semaphore, the map and the metrics agree with the connections that  *)
(* own permits and guards, the limits hold, and Admission implements       *)
(* ConnectionPool.                                                         *)
(***************************************************************************)
EXTENDS Admission, FiniteSetTheorems, TLAPS

One(b) == IF b THEN 1 ELSE 0

\* What moving one connection does to a set of connections given by stages.
LEMMA GotoIn ==
    ASSUME stage \in [Conns -> Stages],
           NEW c \in Conns, NEW s, Goto(c, s), NEW S
    PROVE  In(S)' = IF s \in S THEN In(S) \cup {c} ELSE In(S) \ {c}
  BY DEF In, Goto

\* What adding or removing one element does to a cardinality.
LEMMA CountStep ==
    ASSUME NEW A, IsFiniteSet(A), NEW c
    PROVE  /\ Cardinality(A) \in Nat
           /\ Cardinality(A \cup {c}) = Cardinality(A) + 1 - One(c \in A)
           /\ Cardinality(A \ {c}) = Cardinality(A) - One(c \in A)
           /\ Cardinality(A \ {c}) \in Nat
<1>1. Cardinality(A) \in Nat
  BY FS_CardinalityType
<1>2. Cardinality(A \cup {c}) = IF c \in A THEN Cardinality(A) ELSE Cardinality(A) + 1
  BY FS_AddElement
<1>3. /\ Cardinality(A \ {c}) = IF c \in A THEN Cardinality(A) - 1 ELSE Cardinality(A)
      /\ IsFiniteSet(A \ {c})
  BY FS_RemoveElement
<1>4. Cardinality(A \ {c}) \in Nat
  BY <1>3, FS_CardinalityType
<1> QED
  BY <1>1, <1>2, <1>3, <1>4 DEF One

\* Every set given by stages is finite and changes by the connection moved.
LEMMA CountIn ==
    ASSUME stage \in [Conns -> Stages],
           NEW c \in Conns, NEW s, Goto(c, s), NEW S
    PROVE  /\ Cardinality(In(S)) \in Nat
           /\ Cardinality(In(S)') \in Nat
           /\ Cardinality(In(S)') = Cardinality(In(S)) + One(s \in S) - One(stage[c] \in S)
<1>1. IsFiniteSet(In(S))
  BY FS_Subset, AdmissionAssumption DEF In
<1>2. In(S)' = IF s \in S THEN In(S) \cup {c} ELSE In(S) \ {c}
  BY GotoIn
<1>3. (c \in In(S)) <=> (stage[c] \in S)
  BY DEF In
<1>4. /\ Cardinality(In(S)) \in Nat
      /\ Cardinality(In(S)') \in Nat
      /\ Cardinality(In(S)') = Cardinality(In(S)) + One(s \in S) - One(c \in In(S))
  <2>1. /\ Cardinality(In(S)) \in Nat
        /\ Cardinality(In(S) \cup {c}) = Cardinality(In(S)) + 1 - One(c \in In(S))
        /\ Cardinality(In(S) \ {c}) = Cardinality(In(S)) - One(c \in In(S))
        /\ Cardinality(In(S) \ {c}) \in Nat
    BY ZenonT(60), <1>1, CountStep
  <2> QED
    BY <1>2, <2>1 DEF One
<1> QED
  BY <1>3, <1>4 DEF One

\* The same for the guards of one source.
LEMMA CountGuards ==
    ASSUME stage \in [Conns -> Stages],
           NEW c \in Conns, NEW s, Goto(c, s), NEW ip
    PROVE  /\ Cardinality(GuardHolders(ip)) \in Nat
           /\ Cardinality(GuardHolders(ip)') \in Nat
           /\ Cardinality(GuardHolders(ip)') = Cardinality(GuardHolders(ip))
                 + One(s \in GuardStages /\ Peer[c] = ip)
                 - One(stage[c] \in GuardStages /\ Peer[c] = ip)
<1>1. IsFiniteSet(GuardHolders(ip))
  BY FS_Subset, AdmissionAssumption DEF In, GuardHolders
<1>2. GuardHolders(ip)' = IF s \in GuardStages /\ Peer[c] = ip
                          THEN GuardHolders(ip) \cup {c} ELSE GuardHolders(ip) \ {c}
  BY GotoIn DEF GuardHolders, In, Goto
<1>3. (c \in GuardHolders(ip)) <=> (stage[c] \in GuardStages /\ Peer[c] = ip)
  BY DEF In, GuardHolders
<1>4. /\ Cardinality(GuardHolders(ip)) \in Nat
      /\ Cardinality(GuardHolders(ip)') \in Nat
      /\ Cardinality(GuardHolders(ip)') = Cardinality(GuardHolders(ip))
            + One(s \in GuardStages /\ Peer[c] = ip) - One(c \in GuardHolders(ip))
  <2>1. /\ Cardinality(GuardHolders(ip)) \in Nat
        /\ Cardinality(GuardHolders(ip) \cup {c})
              = Cardinality(GuardHolders(ip)) + 1 - One(c \in GuardHolders(ip))
        /\ Cardinality(GuardHolders(ip) \ {c})
              = Cardinality(GuardHolders(ip)) - One(c \in GuardHolders(ip))
        /\ Cardinality(GuardHolders(ip) \ {c}) \in Nat
    BY ZenonT(60), <1>1, CountStep
  <2> QED
    BY <1>2, <2>1 DEF One
<1> QED
  BY <1>3, <1>4 DEF One
----------------------------------------------------------------------------
(***************************************************************************)
(* The inductive invariant.  The accounting invariants need one another:   *)
(* active stays a natural number only because it counts the connections    *)
(* being served, and those are told from the cancelled ones only because   *)
(* a cancelled handler is past its report.                                 *)
(***************************************************************************)
IInv ==
    /\ TypeOK
    /\ PermitAccounting
    /\ GuardAccounting
    /\ MetricsBalance
    /\ LimitsHold
    /\ cancelled \subseteq In(PastReport)

USE AdmissionAssumption

\* A server that has just been built (Server::new) satisfies the invariant.
LEMMA InitIInv == Init => IInv
<1> SUFFICES ASSUME Init PROVE IInv
  OBVIOUS
<1>1. TypeOK
  BY DEF Init, TypeOK, Stages
<1>2. /\ PermitHolders = {}
      /\ \A ip \in Sources : GuardHolders(ip) = {}
      /\ In({"serving"}) \cup cancelled = {}
      /\ In({"refusing", "rejected"}) = {}
      /\ In(PastReport) \ cancelled = {}
      /\ In(Stages \ {"arriving"}) = {}
      /\ cancelled = {}
  BY DEF Init, PermitHolders, GuardHolders, In, PermitStages, TaskStages, GuardStages, PastReport
<1>3. Cardinality({}) = 0
  BY FS_EmptySet
<1>4. PermitAccounting /\ MetricsBalance
  <2>1. PermitAccounting
    BY <1>2, <1>3 DEF Init, PermitAccounting
  <2>2. active = 0 /\ rejected = 0 /\ completed = 0 /\ total = 0
    BY DEF Init
  <2>3. MetricsBalance
    BY <1>2, <1>3, <2>2, Zenon DEF MetricsBalance
  <2> QED
    BY <2>1, <2>3
<1>5. \A ip \in Sources : Cardinality(GuardHolders(ip)) = 0
  BY SMTT(60), <1>2, <1>3
<1>6. GuardAccounting
  <2>1. \A ip \in Sources : perIp[ip] = Cardinality(GuardHolders(ip))
    BY <1>5 DEF Init
  <2>2. tracked = {ip \in Sources : GuardHolders(ip) # {}}
    BY <1>2 DEF Init
  <2> QED
    BY <2>1, <2>2 DEF GuardAccounting
<1>7. LimitsHold
  BY <1>2, <1>3, <1>5 DEF LimitsHold
<1> QED
  BY <1>1, <1>2, <1>4, <1>6, <1>7 DEF IInv

\* The facts about a step that moves connection c to stage s, collected.
LEMMA MoveFacts ==
    ASSUME IInv, NEW c \in Conns, NEW s \in Stages, Goto(c, s)
    PROVE  /\ stage' \in [Conns -> Stages]
           /\ Cardinality(PermitHolders) \in Nat
           /\ Cardinality(PermitHolders') = Cardinality(PermitHolders)
                 + One(s \in PermitStages) - One(stage[c] \in PermitStages)
           /\ Cardinality(In({"refusing", "rejected"})) \in Nat
           /\ Cardinality(In({"refusing", "rejected"})') =
                 Cardinality(In({"refusing", "rejected"}))
                 + One(s \in {"refusing", "rejected"})
                 - One(stage[c] \in {"refusing", "rejected"})
           /\ Cardinality(In(Stages \ {"arriving"})) \in Nat
           /\ Cardinality(In(Stages \ {"arriving"})') =
                 Cardinality(In(Stages \ {"arriving"}))
                 + One(s \in Stages \ {"arriving"}) - One(stage[c] \in Stages \ {"arriving"})
<1>1. stage \in [Conns -> Stages]
  BY DEF IInv, TypeOK
<1>2. stage' \in [Conns -> Stages]
  BY <1>1 DEF Goto
<1>3. /\ Cardinality(PermitHolders) \in Nat
      /\ Cardinality(PermitHolders') = Cardinality(PermitHolders)
            + One(s \in PermitStages) - One(stage[c] \in PermitStages)
  BY <1>1, CountIn DEF PermitHolders
<1>4. /\ Cardinality(In({"refusing", "rejected"})) \in Nat
      /\ Cardinality(In({"refusing", "rejected"})') =
            Cardinality(In({"refusing", "rejected"}))
            + One(s \in {"refusing", "rejected"})
            - One(stage[c] \in {"refusing", "rejected"})
  BY <1>1, CountIn
<1>5. /\ Cardinality(In(Stages \ {"arriving"})) \in Nat
      /\ Cardinality(In(Stages \ {"arriving"})') =
            Cardinality(In(Stages \ {"arriving"}))
            + One(s \in Stages \ {"arriving"}) - One(stage[c] \in Stages \ {"arriving"})
  BY <1>1, CountIn
<1> QED
  BY <1>2, <1>3, <1>4, <1>5

\* A step that leaves every guard where it is keeps the guard accounting.
LEMMA SameGuards ==
    ASSUME IInv, NEW c \in Conns, NEW s \in Stages, Goto(c, s),
           s \in GuardStages <=> stage[c] \in GuardStages,
           UNCHANGED <<perIp, tracked>>
    PROVE  /\ GuardAccounting'
           /\ \A ip \in Sources : Cardinality(GuardHolders(ip))' <= MaxConnectionsPerIp
<1>1. \A ip : GuardHolders(ip)' = GuardHolders(ip)
  BY DEF IInv, TypeOK, GuardHolders, In, Goto
<1>2. GuardAccounting'
  BY <1>1 DEF IInv, GuardAccounting
<1> QED
  BY <1>1, <1>2 DEF IInv, LimitsHold

\* A step between stages that are both before the handler's end, or both
\* after the report, keeps the sets behind active and completed.
LEMMA SameSessions ==
    ASSUME IInv, NEW c \in Conns, NEW s \in Stages, Goto(c, s),
           s # "serving", stage[c] # "serving",
           s \in PastReport <=> stage[c] \in PastReport,
           UNCHANGED <<active, completed, cancelled>>
    PROVE  /\ active' = Cardinality(In({"serving"}) \cup cancelled)'
           /\ completed' = Cardinality(In(PastReport) \ cancelled)'
           /\ (cancelled \subseteq In(PastReport))'
<1>1. In({"serving"})' = In({"serving"})
  BY DEF IInv, TypeOK, In, Goto
<1>2. In(PastReport)' = In(PastReport)
  BY DEF IInv, TypeOK, In, Goto
<1>3. /\ active = Cardinality(In({"serving"}) \cup cancelled)
      /\ completed = Cardinality(In(PastReport) \ cancelled)
      /\ cancelled \subseteq In(PastReport)
  BY DEF IInv, MetricsBalance
<1> QED
  BY <1>1, <1>2, <1>3

\* A connection before its report is not cancelled, and the sets behind
\* active and completed are finite.
LEMMA Uncancelled ==
    ASSUME IInv
    PROVE  /\ \A c \in Conns : stage[c] \notin PastReport => c \notin cancelled
           /\ IsFiniteSet(In({"serving"}) \cup cancelled)
           /\ IsFiniteSet(In(PastReport) \ cancelled)
<1>1. In({"serving"}) \cup cancelled \subseteq Conns
  BY DEF IInv, TypeOK, In
<1>2. In(PastReport) \ cancelled \subseteq Conns
  BY DEF In
<1>3. \A c \in Conns : stage[c] \notin PastReport => c \notin cancelled
  BY DEF IInv, In
<1> QED
  BY <1>1, <1>2, <1>3, FS_Subset

\* Every step keeps the invariant: one case per action.
LEMMA NextIInv == IInv /\ [Next]_vars => IInv'
<1> SUFFICES ASSUME IInv, [Next]_vars PROVE IInv'
  OBVIOUS
<1> USE DEF Stages, LoopStages, TaskStages, PermitStages, GuardStages, PastReport
<1>1. TypeOK
  BY DEF IInv
<1>2. permits \in Nat /\ permits + Cardinality(PermitHolders) = MaxConnections
  BY DEF IInv, TypeOK, PermitAccounting
<1>3. /\ rejected \in Nat /\ rejected = Cardinality(In({"refusing", "rejected"}))
      /\ total \in Nat /\ total = Cardinality(In(Stages \ {"arriving"}))
  BY DEF IInv, TypeOK, MetricsBalance
<1>4. /\ active \in Nat /\ active = Cardinality(In({"serving"}) \cup cancelled)
      /\ completed \in Nat /\ completed = Cardinality(In(PastReport) \ cancelled)
  BY DEF IInv, TypeOK, MetricsBalance
<1>stutter. CASE UNCHANGED vars
  BY <1>stutter
  DEF IInv, TypeOK, PermitAccounting, GuardAccounting, MetricsBalance, LimitsHold,
      PermitHolders, GuardHolders, In, vars
<1>stop. CASE Stop
  BY ZenonT(60), <1>stop
  DEF IInv, TypeOK, PermitAccounting, GuardAccounting, MetricsBalance, LimitsHold,
      PermitHolders, GuardHolders, In, Stop, metrics
<1>conn. ASSUME NEW c \in Conns,
                \/ Accept(c) \/ LoopStep(c) \/ HandleReturns(c)
                \/ CancelHandler(c) \/ TaskTail(c)
         PROVE  IInv'
  <2>Accept. CASE Accept(c)
    <3>1. Goto(c, "accepted")
      BY <2>Accept DEF Accept
    <3>2. TypeOK'
      BY <2>Accept, <1>1 DEF Accept, TypeOK, Goto, metrics
    <3>3. PermitAccounting' /\ Cardinality(PermitHolders)' <= MaxConnections
      BY <2>Accept, <1>2, <3>1, MoveFacts DEF Accept, PermitAccounting, One, metrics
    <3>4. rejected' = Cardinality(In({"refusing", "rejected"}))'
      BY <2>Accept, <1>3, <3>1, MoveFacts DEF Accept, One, metrics
    <3>5. total' = Cardinality(In(Stages \ {"arriving"}))'
      BY <2>Accept, <1>3, <3>1, MoveFacts DEF Accept, One, metrics
    <3>6. /\ GuardAccounting'
          /\ \A ip \in Sources : Cardinality(GuardHolders(ip))' <= MaxConnectionsPerIp
      BY <2>Accept, <3>1, SameGuards DEF Accept
    <3>7. /\ active' = Cardinality(In({"serving"}) \cup cancelled)'
          /\ completed' = Cardinality(In(PastReport) \ cancelled)'
          /\ (cancelled \subseteq In(PastReport))'
      BY <2>Accept, <3>1, SameSessions DEF Accept, metrics
    <3> QED
      BY <3>2, <3>3, <3>4, <3>5, <3>6, <3>7 DEF IInv, MetricsBalance, LimitsHold
  <2>TryAcquirePermit. CASE TryAcquirePermit(c)
    <3>1. Goto(c, "permitted")
      BY <2>TryAcquirePermit DEF TryAcquirePermit
    <3>2. TypeOK'
      BY SMTT(60), <2>TryAcquirePermit, <1>1 DEF TryAcquirePermit, TypeOK, Goto, metrics
    <3>3. PermitAccounting' /\ Cardinality(PermitHolders)' <= MaxConnections
      BY SMTT(60), <2>TryAcquirePermit, <1>2, <3>1, MoveFacts DEF TryAcquirePermit, PermitAccounting, One, metrics
    <3>4. rejected' = Cardinality(In({"refusing", "rejected"}))'
      BY SMTT(60), <2>TryAcquirePermit, <1>3, <3>1, MoveFacts DEF TryAcquirePermit, One, metrics
    <3>5. total' = Cardinality(In(Stages \ {"arriving"}))'
      BY <2>TryAcquirePermit, <1>3, <3>1, MoveFacts DEF TryAcquirePermit, One, metrics
    <3>6. /\ GuardAccounting'
          /\ \A ip \in Sources : Cardinality(GuardHolders(ip))' <= MaxConnectionsPerIp
      BY <2>TryAcquirePermit, <3>1, SameGuards DEF TryAcquirePermit
    <3>7. /\ active' = Cardinality(In({"serving"}) \cup cancelled)'
          /\ completed' = Cardinality(In(PastReport) \ cancelled)'
          /\ (cancelled \subseteq In(PastReport))'
      BY <2>TryAcquirePermit, <3>1, SameSessions DEF TryAcquirePermit, metrics
    <3> QED
      BY <3>2, <3>3, <3>4, <3>5, <3>6, <3>7 DEF IInv, MetricsBalance, LimitsHold
  <2>RejectGlobal. CASE RejectGlobal(c)
    <3>1. Goto(c, "rejected")
      BY <2>RejectGlobal DEF RejectGlobal
    <3>2. TypeOK'
      BY <2>RejectGlobal, <1>1 DEF RejectGlobal, TypeOK, Goto, metrics
    <3>3. PermitAccounting' /\ Cardinality(PermitHolders)' <= MaxConnections
      BY SMTT(60), <2>RejectGlobal, <1>2, <3>1, MoveFacts DEF RejectGlobal, PermitAccounting, One, metrics
    <3>4. rejected' = Cardinality(In({"refusing", "rejected"}))'
      BY SMTT(60), <2>RejectGlobal, <1>3, <3>1, MoveFacts DEF RejectGlobal, One, metrics
    <3>5. total' = Cardinality(In(Stages \ {"arriving"}))'
      BY <2>RejectGlobal, <1>3, <3>1, MoveFacts DEF RejectGlobal, One, metrics
    <3>6. /\ GuardAccounting'
          /\ \A ip \in Sources : Cardinality(GuardHolders(ip))' <= MaxConnectionsPerIp
      BY <2>RejectGlobal, <3>1, SameGuards DEF RejectGlobal
    <3>7. /\ active' = Cardinality(In({"serving"}) \cup cancelled)'
          /\ completed' = Cardinality(In(PastReport) \ cancelled)'
          /\ (cancelled \subseteq In(PastReport))'
      BY ZenonT(60), <2>RejectGlobal, <3>1, SameSessions DEF RejectGlobal, metrics
    <3> QED
      BY <3>2, <3>3, <3>4, <3>5, <3>6, <3>7 DEF IInv, MetricsBalance, LimitsHold
  <2>AcquireGuard. CASE AcquireGuard(c)
    <3>1. Goto(c, "guarded")
      BY <2>AcquireGuard DEF AcquireGuard
    <3>2. TypeOK'
      BY <2>AcquireGuard, <1>1 DEF AcquireGuard, TypeOK, Goto, metrics
    <3>3. PermitAccounting' /\ Cardinality(PermitHolders)' <= MaxConnections
      BY <2>AcquireGuard, <1>2, <3>1, MoveFacts DEF AcquireGuard, PermitAccounting, One, metrics
    <3>4. rejected' = Cardinality(In({"refusing", "rejected"}))'
      BY <2>AcquireGuard, <1>3, <3>1, MoveFacts DEF AcquireGuard, One, metrics
    <3>5. total' = Cardinality(In(Stages \ {"arriving"}))'
      BY <2>AcquireGuard, <1>3, <3>1, MoveFacts DEF AcquireGuard, One, metrics
    <3>6. /\ GuardAccounting'
          /\ \A ip \in Sources : Cardinality(GuardHolders(ip))' <= MaxConnectionsPerIp
      <4>1. \A ip \in Sources :
               /\ Cardinality(GuardHolders(ip)) \in Nat
               /\ Cardinality(GuardHolders(ip)') = Cardinality(GuardHolders(ip)) + One(Peer[c] = ip)
        BY <2>AcquireGuard, <1>1, <3>1, CountGuards DEF AcquireGuard, TypeOK, One
      <4>2. \A ip \in Sources : perIp'[ip] = Cardinality(GuardHolders(ip)')
        BY <2>AcquireGuard, <1>1, <4>1 DEF AcquireGuard, TypeOK, IInv, GuardAccounting, One
      <4>3. tracked' = {ip \in Sources : GuardHolders(ip)' # {}}
        <5>1. \A ip \in Sources : GuardHolders(ip)' =
                 IF ip = Peer[c] THEN GuardHolders(ip) \cup {c} ELSE GuardHolders(ip)
          BY <2>AcquireGuard, <1>1, <3>1 DEF AcquireGuard, TypeOK, GuardHolders, In, Goto
        <5> QED
          BY <2>AcquireGuard, <5>1 DEF AcquireGuard, IInv, GuardAccounting
      <4>4. \A ip \in Sources : Cardinality(GuardHolders(ip)') <= MaxConnectionsPerIp
        BY <2>AcquireGuard, <4>1 DEF AcquireGuard, IInv, GuardAccounting, LimitsHold, One
      <4> QED
        BY <4>2, <4>3, <4>4 DEF GuardAccounting
    <3>7. /\ active' = Cardinality(In({"serving"}) \cup cancelled)'
          /\ completed' = Cardinality(In(PastReport) \ cancelled)'
          /\ (cancelled \subseteq In(PastReport))'
      BY SMTT(60), <2>AcquireGuard, <3>1, SameSessions DEF AcquireGuard, metrics
    <3> QED
      BY <3>2, <3>3, <3>4, <3>5, <3>6, <3>7 DEF IInv, MetricsBalance, LimitsHold
  <2>RejectPerIp. CASE RejectPerIp(c)
    <3>1. Goto(c, "refusing")
      BY <2>RejectPerIp DEF RejectPerIp
    <3>2. TypeOK'
      BY <2>RejectPerIp, <1>1 DEF RejectPerIp, TypeOK, Goto, metrics
    <3>3. PermitAccounting' /\ Cardinality(PermitHolders)' <= MaxConnections
      BY SMTT(60), <2>RejectPerIp, <1>2, <3>1, MoveFacts DEF RejectPerIp, PermitAccounting, One, metrics
    <3>4. rejected' = Cardinality(In({"refusing", "rejected"}))'
      BY SMTT(60), <2>RejectPerIp, <1>3, <3>1, MoveFacts DEF RejectPerIp, One, metrics
    <3>5. total' = Cardinality(In(Stages \ {"arriving"}))'
      BY SMTT(60), <2>RejectPerIp, <1>3, <3>1, MoveFacts DEF RejectPerIp, One, metrics
    <3>6. /\ GuardAccounting'
          /\ \A ip \in Sources : Cardinality(GuardHolders(ip))' <= MaxConnectionsPerIp
      <4>1. Peer[c] \in tracked
        <5>1. Cardinality(GuardHolders(Peer[c])) # 0
          BY <2>RejectPerIp DEF RejectPerIp, IInv, GuardAccounting
        <5> QED
          BY <5>1, FS_EmptySet DEF IInv, GuardAccounting
      <4> QED
        BY <4>1, <2>RejectPerIp, <3>1, SameGuards DEF RejectPerIp
    <3>7. /\ active' = Cardinality(In({"serving"}) \cup cancelled)'
          /\ completed' = Cardinality(In(PastReport) \ cancelled)'
          /\ (cancelled \subseteq In(PastReport))'
      BY ZenonT(60), <2>RejectPerIp, <3>1, SameSessions DEF RejectPerIp, metrics
    <3> QED
      BY <3>2, <3>3, <3>4, <3>5, <3>6, <3>7 DEF IInv, MetricsBalance, LimitsHold
  <2>DropRefusedPermit. CASE DropRefusedPermit(c)
    <3>1. Goto(c, "rejected")
      BY <2>DropRefusedPermit DEF DropRefusedPermit
    <3>2. TypeOK'
      BY <2>DropRefusedPermit, <1>1 DEF DropRefusedPermit, TypeOK, Goto, metrics
    <3>3. PermitAccounting' /\ Cardinality(PermitHolders)' <= MaxConnections
      BY <2>DropRefusedPermit, <1>2, <3>1, MoveFacts DEF DropRefusedPermit, PermitAccounting, One, metrics
    <3>4. rejected' = Cardinality(In({"refusing", "rejected"}))'
      BY <2>DropRefusedPermit, <1>3, <3>1, MoveFacts DEF DropRefusedPermit, One, metrics
    <3>5. total' = Cardinality(In(Stages \ {"arriving"}))'
      BY <2>DropRefusedPermit, <1>3, <3>1, MoveFacts DEF DropRefusedPermit, One, metrics
    <3>6. /\ GuardAccounting'
          /\ \A ip \in Sources : Cardinality(GuardHolders(ip))' <= MaxConnectionsPerIp
      BY <2>DropRefusedPermit, <3>1, SameGuards DEF DropRefusedPermit
    <3>7. /\ active' = Cardinality(In({"serving"}) \cup cancelled)'
          /\ completed' = Cardinality(In(PastReport) \ cancelled)'
          /\ (cancelled \subseteq In(PastReport))'
      BY ZenonT(60), <2>DropRefusedPermit, <3>1, SameSessions DEF DropRefusedPermit, metrics
    <3> QED
      BY <3>2, <3>3, <3>4, <3>5, <3>6, <3>7 DEF IInv, MetricsBalance, LimitsHold
  <2>Spawn. CASE Spawn(c)
    <3>1. Goto(c, "serving")
      BY <2>Spawn DEF Spawn
    <3>2. TypeOK'
      BY <2>Spawn, <1>1 DEF Spawn, TypeOK, Goto, metrics
    <3>3. PermitAccounting' /\ Cardinality(PermitHolders)' <= MaxConnections
      BY <2>Spawn, <1>2, <3>1, MoveFacts DEF Spawn, PermitAccounting, One, metrics
    <3>4. rejected' = Cardinality(In({"refusing", "rejected"}))'
      BY <2>Spawn, <1>3, <3>1, MoveFacts DEF Spawn, One, metrics
    <3>5. total' = Cardinality(In(Stages \ {"arriving"}))'
      BY <2>Spawn, <1>3, <3>1, MoveFacts DEF Spawn, One, metrics
    <3>6. /\ GuardAccounting'
          /\ \A ip \in Sources : Cardinality(GuardHolders(ip))' <= MaxConnectionsPerIp
      BY <2>Spawn, <3>1, SameGuards DEF Spawn
    <3>7. /\ active' = Cardinality(In({"serving"}) \cup cancelled)'
          /\ completed' = Cardinality(In(PastReport) \ cancelled)'
          /\ (cancelled \subseteq In(PastReport))'
      <4>1. c \notin In({"serving"}) \cup cancelled
        BY <2>Spawn, Uncancelled DEF Spawn, In
      <4>2. /\ (In({"serving"}) \cup cancelled)' = (In({"serving"}) \cup cancelled) \cup {c}
            /\ In(PastReport)' = In(PastReport)
        BY <2>Spawn, <1>1, <3>1 DEF Spawn, TypeOK, In, Goto
      <4>3. Cardinality((In({"serving"}) \cup cancelled) \cup {c}) = active + 1
        BY <1>4, <4>1, Uncancelled, CountStep DEF One
      <4> QED
        BY ZenonT(60), <2>Spawn, <1>4, <4>2, <4>3 DEF Spawn, IInv
    <3> QED
      BY <3>2, <3>3, <3>4, <3>5, <3>6, <3>7 DEF IInv, MetricsBalance, LimitsHold
  <2>HandleReturns. CASE HandleReturns(c)
    <3>a. c \in In({"serving"}) \cup cancelled
      BY <2>HandleReturns DEF HandleReturns, In
    <3>b. Cardinality((In({"serving"}) \cup cancelled) \ {c}) = active - 1 /\ active - 1 \in Nat
      BY SMTT(60), <1>4, <3>a, Uncancelled, CountStep DEF One
    <3>1. Goto(c, "ended")
      BY <2>HandleReturns DEF HandleReturns
    <3>2. TypeOK'
      BY SMTT(60), <2>HandleReturns, <1>1, <3>b DEF HandleReturns, TypeOK, Goto, metrics
    <3>3. PermitAccounting' /\ Cardinality(PermitHolders)' <= MaxConnections
      BY SMTT(60), <2>HandleReturns, <1>2, <3>1, MoveFacts DEF HandleReturns, PermitAccounting, One, metrics
    <3>4. rejected' = Cardinality(In({"refusing", "rejected"}))'
      BY SMTT(60), <2>HandleReturns, <1>3, <3>1, MoveFacts DEF HandleReturns, One, metrics
    <3>5. total' = Cardinality(In(Stages \ {"arriving"}))'
      BY <2>HandleReturns, <1>3, <3>1, MoveFacts DEF HandleReturns, One, metrics
    <3>6. /\ GuardAccounting'
          /\ \A ip \in Sources : Cardinality(GuardHolders(ip))' <= MaxConnectionsPerIp
      BY <2>HandleReturns, <3>1, SameGuards DEF HandleReturns
    <3>7. /\ active' = Cardinality(In({"serving"}) \cup cancelled)'
          /\ completed' = Cardinality(In(PastReport) \ cancelled)'
          /\ (cancelled \subseteq In(PastReport))'
      <4>2. /\ (In({"serving"}) \cup cancelled)' = (In({"serving"}) \cup cancelled) \ {c}
            /\ In(PastReport)' = In(PastReport)
        BY <2>HandleReturns, <1>1, <3>1, Uncancelled DEF HandleReturns, TypeOK, In, Goto
      <4> QED
        BY ZenonT(60), <2>HandleReturns, <1>4, <3>b, <4>2 DEF HandleReturns, IInv
    <3> QED
      BY <3>2, <3>3, <3>4, <3>5, <3>6, <3>7 DEF IInv, MetricsBalance, LimitsHold
  <2>CancelHandler. CASE CancelHandler(c)
    <3>1. Goto(c, "dropping")
      BY <2>CancelHandler DEF CancelHandler
    <3>2. TypeOK'
      BY <2>CancelHandler, <1>1 DEF CancelHandler, TypeOK, Goto, metrics
    <3>3. PermitAccounting' /\ Cardinality(PermitHolders)' <= MaxConnections
      BY <2>CancelHandler, <1>2, <3>1, MoveFacts DEF CancelHandler, PermitAccounting, One, metrics
    <3>4. rejected' = Cardinality(In({"refusing", "rejected"}))'
      BY <2>CancelHandler, <1>3, <3>1, MoveFacts DEF CancelHandler, One, metrics
    <3>5. total' = Cardinality(In(Stages \ {"arriving"}))'
      BY SMTT(60), <2>CancelHandler, <1>3, <3>1, MoveFacts DEF CancelHandler, One, metrics
    <3>6. /\ GuardAccounting'
          /\ \A ip \in Sources : Cardinality(GuardHolders(ip))' <= MaxConnectionsPerIp
      BY <2>CancelHandler, <3>1, SameGuards DEF CancelHandler
    <3>7. /\ active' = Cardinality(In({"serving"}) \cup cancelled)'
          /\ completed' = Cardinality(In(PastReport) \ cancelled)'
          /\ (cancelled \subseteq In(PastReport))'
      <4>1. /\ (In(PastReport) \ cancelled)' = In(PastReport) \ cancelled
            /\ (In({"serving"}) \cup cancelled)' = In({"serving"}) \cup cancelled
            /\ (cancelled \subseteq In(PastReport))'
        BY <2>CancelHandler, <1>1, <3>1 DEF CancelHandler, TypeOK, In, Goto, IInv
      <4> QED
        BY SMTT(60), <2>CancelHandler, <1>4, <4>1 DEF CancelHandler, metrics
    <3> QED
      BY <3>2, <3>3, <3>4, <3>5, <3>6, <3>7 DEF IInv, MetricsBalance, LimitsHold
  <2>Report. CASE Report(c)
    <3>1. Goto(c, "dropping")
      BY <2>Report DEF Report
    <3>2. TypeOK'
      BY SMTT(60), <2>Report, <1>1 DEF Report, TypeOK, Goto, metrics
    <3>3. PermitAccounting' /\ Cardinality(PermitHolders)' <= MaxConnections
      BY SMTT(60), <2>Report, <1>2, <3>1, MoveFacts DEF Report, PermitAccounting, One, metrics
    <3>4. rejected' = Cardinality(In({"refusing", "rejected"}))'
      BY SMTT(60), <2>Report, <1>3, <3>1, MoveFacts DEF Report, One, metrics
    <3>5. total' = Cardinality(In(Stages \ {"arriving"}))'
      BY SMTT(60), <2>Report, <1>3, <3>1, MoveFacts DEF Report, One, metrics
    <3>6. /\ GuardAccounting'
          /\ \A ip \in Sources : Cardinality(GuardHolders(ip))' <= MaxConnectionsPerIp
      BY SMTT(60), <2>Report, <3>1, SameGuards DEF Report
    <3>7. /\ active' = Cardinality(In({"serving"}) \cup cancelled)'
          /\ completed' = Cardinality(In(PastReport) \ cancelled)'
          /\ (cancelled \subseteq In(PastReport))'
      <4>1. c \notin In(PastReport) \ cancelled
        BY <2>Report DEF Report, In
      <4>2. /\ (In(PastReport) \ cancelled)' = (In(PastReport) \ cancelled) \cup {c}
            /\ In({"serving"})' = In({"serving"})
            /\ In(PastReport) \subseteq In(PastReport)'
        BY <2>Report, <1>1, <3>1, Uncancelled DEF Report, TypeOK, In, Goto
      <4>3. Cardinality((In(PastReport) \ cancelled) \cup {c}) = completed + 1
        BY <1>4, <4>1, Uncancelled, CountStep DEF One
      <4> QED
        BY ZenonT(60), <2>Report, <1>4, <4>2, <4>3 DEF Report, IInv
    <3> QED
      BY <3>2, <3>3, <3>4, <3>5, <3>6, <3>7 DEF IInv, MetricsBalance, LimitsHold
  <2>DropGuard. CASE DropGuard(c)
    <3>1. Goto(c, "unguarded")
      BY <2>DropGuard DEF DropGuard
    <3>2. TypeOK'
      BY <2>DropGuard, <1>1 DEF DropGuard, TypeOK, Goto, metrics
    <3>3. PermitAccounting' /\ Cardinality(PermitHolders)' <= MaxConnections
      BY SMTT(60), <2>DropGuard, <1>2, <3>1, MoveFacts DEF DropGuard, PermitAccounting, One, metrics
    <3>4. rejected' = Cardinality(In({"refusing", "rejected"}))'
      BY SMTT(60), <2>DropGuard, <1>3, <3>1, MoveFacts DEF DropGuard, One, metrics
    <3>5. total' = Cardinality(In(Stages \ {"arriving"}))'
      BY SMTT(60), <2>DropGuard, <1>3, <3>1, MoveFacts DEF DropGuard, One, metrics
    <3>6. /\ GuardAccounting'
          /\ \A ip \in Sources : Cardinality(GuardHolders(ip))' <= MaxConnectionsPerIp
      <4>1. \A ip \in Sources :
               /\ Cardinality(GuardHolders(ip)) \in Nat
               /\ Cardinality(GuardHolders(ip)') \in Nat
               /\ Cardinality(GuardHolders(ip)') = Cardinality(GuardHolders(ip)) - One(Peer[c] = ip)
        BY SMTT(60), <2>DropGuard, <1>1, <3>1, CountGuards DEF DropGuard, TypeOK, One
      <4>2. \A ip \in Sources : perIp'[ip] = Cardinality(GuardHolders(ip)')
        BY SMTT(60), <2>DropGuard, <1>1, <4>1 DEF DropGuard, TypeOK, IInv, GuardAccounting, One
      <4>3. tracked' = {ip \in Sources : GuardHolders(ip)' # {}}
        <5>1. \A ip \in Sources : GuardHolders(ip)' =
                 IF ip = Peer[c] THEN GuardHolders(ip) \ {c} ELSE GuardHolders(ip)
          BY SMTT(60), <2>DropGuard, <1>1, <3>1 DEF DropGuard, TypeOK, GuardHolders, In, Goto
        <5>2. IsFiniteSet(GuardHolders(Peer[c])')
          BY <5>1, FS_Subset DEF GuardHolders, In
        <5>3. perIp'[Peer[c]] = 0 <=> GuardHolders(Peer[c])' = {}
          BY SMTT(60), <4>2, <5>2, FS_EmptySet
        <5>4. c \in GuardHolders(Peer[c])
          BY <2>DropGuard DEF DropGuard, GuardHolders, In
        <5>5. Peer[c] \in tracked
          BY <5>4 DEF IInv, GuardAccounting
        <5>6. tracked' = IF perIp'[Peer[c]] = 0 THEN tracked \ {Peer[c]} ELSE tracked
          BY <2>DropGuard, <1>1 DEF DropGuard, TypeOK
        <5> QED
          BY SMTT(60), <5>1, <5>3, <5>5, <5>6 DEF IInv, GuardAccounting
      <4>4. \A ip \in Sources : Cardinality(GuardHolders(ip)') <= MaxConnectionsPerIp
        BY <4>1 DEF IInv, LimitsHold, One
      <4> QED
        BY <4>2, <4>3, <4>4 DEF GuardAccounting
    <3>7. /\ active' = Cardinality(In({"serving"}) \cup cancelled)'
          /\ completed' = Cardinality(In(PastReport) \ cancelled)'
          /\ (cancelled \subseteq In(PastReport))'
      BY ZenonT(60), <2>DropGuard, <3>1, SameSessions DEF DropGuard, metrics
    <3> QED
      BY <3>2, <3>3, <3>4, <3>5, <3>6, <3>7 DEF IInv, MetricsBalance, LimitsHold
  <2>DropPermit. CASE DropPermit(c)
    <3>1. Goto(c, "released")
      BY <2>DropPermit DEF DropPermit
    <3>2. TypeOK'
      BY <2>DropPermit, <1>1 DEF DropPermit, TypeOK, Goto, metrics
    <3>3. PermitAccounting' /\ Cardinality(PermitHolders)' <= MaxConnections
      BY <2>DropPermit, <1>2, <3>1, MoveFacts DEF DropPermit, PermitAccounting, One, metrics
    <3>4. rejected' = Cardinality(In({"refusing", "rejected"}))'
      BY <2>DropPermit, <1>3, <3>1, MoveFacts DEF DropPermit, One, metrics
    <3>5. total' = Cardinality(In(Stages \ {"arriving"}))'
      BY <2>DropPermit, <1>3, <3>1, MoveFacts DEF DropPermit, One, metrics
    <3>6. /\ GuardAccounting'
          /\ \A ip \in Sources : Cardinality(GuardHolders(ip))' <= MaxConnectionsPerIp
      BY SMTT(60), <2>DropPermit, <3>1, SameGuards DEF DropPermit
    <3>7. /\ active' = Cardinality(In({"serving"}) \cup cancelled)'
          /\ completed' = Cardinality(In(PastReport) \ cancelled)'
          /\ (cancelled \subseteq In(PastReport))'
      BY SMTT(60), <2>DropPermit, <3>1, SameSessions DEF DropPermit, metrics
    <3> QED
      BY <3>2, <3>3, <3>4, <3>5, <3>6, <3>7 DEF IInv, MetricsBalance, LimitsHold
  <2> QED
    BY <1>conn, <2>Accept, <2>TryAcquirePermit, <2>RejectGlobal, <2>AcquireGuard,
       <2>RejectPerIp, <2>DropRefusedPermit, <2>Spawn, <2>HandleReturns, <2>CancelHandler,
       <2>Report, <2>DropGuard, <2>DropPermit
    DEF LoopStep, TaskTail
<1> QED
  BY <1>stutter, <1>stop, <1>conn DEF Next

\* The inductive invariant holds in every state of the accept loop and its tasks.
THEOREM Invariance == Spec => []IInv
  BY InitIInv, NextIInv, PTL DEF Spec

\* Every reachable state of the accept loop and the tasks is well typed.
THEOREM TypeCorrect == Spec => []TypeOK
<1>1. IInv => TypeOK
  BY DEF IInv
<1> QED
  BY <1>1, Invariance, PTL

\* The semaphore of Server is short of exactly the permits that are owned.
THEOREM PermitsAccounted == Spec => []PermitAccounting
<1>1. IInv => PermitAccounting
  BY DEF IInv
<1> QED
  BY <1>1, Invariance, PTL

\* The per_ip map agrees with the guards alive.
THEOREM GuardsAccounted == Spec => []GuardAccounting
<1>1. IInv => GuardAccounting
  BY DEF IInv
<1> QED
  BY <1>1, Invariance, PTL

\* max_connections and max_connections_per_ip are never exceeded.
THEOREM LimitsRespected == Spec => []LimitsHold
<1>1. IInv => LimitsHold
  BY DEF IInv
<1> QED
  BY <1>1, Invariance, PTL

\* The connection metrics count every connection once and never wrap.
THEOREM MetricsBalanced == Spec => []MetricsBalance
<1>1. IInv => MetricsBalance
  BY DEF IInv
<1> QED
  BY <1>1, Invariance, PTL
----------------------------------------------------------------------------
\* The pool counts with the same operator.
LEMMA PoolCardinality == \A S : Pool!Cardinality(S) = Cardinality(S)
  BY DEF Pool!Cardinality, Cardinality

\* One step of the loop or of a task is a step of the pool or changes nothing
\* the pool can see.
LEMMA PoolStep ==
    ASSUME IInv, [Next]_vars
    PROVE  [Pool!Next]_(Pool!poolVars)
<1> USE DEF Stages, LoopStages, TaskStages, PermitStages, GuardStages, PastReport
<1>1. stage \in [Conns -> Stages]
  BY DEF IInv, TypeOK
<1>stutter. CASE UNCHANGED vars
  BY <1>stutter DEF vars, Pool!poolVars, PermitHolders, In
<1>stop. CASE Stop
  BY <1>stop DEF Stop, Pool!poolVars, PermitHolders, In
<1>conn. ASSUME NEW c \in Conns,
                \/ Accept(c) \/ LoopStep(c) \/ HandleReturns(c)
                \/ CancelHandler(c) \/ TaskTail(c)
         PROVE  [Pool!Next]_(Pool!poolVars)
  <2> DEFINE refusedSet == In({"refusing", "rejected"})
              goneSet == In({"unguarded", "released"})
  <2>1. CASE Accept(c) \/ Spawn(c) \/ HandleReturns(c) \/ CancelHandler(c) \/ Report(c)
    BY SMTT(60), <1>1, <2>1
    DEF Accept, Spawn, HandleReturns, CancelHandler, Report, Goto, In, PermitHolders, Pool!poolVars
  <2>2. CASE TryAcquirePermit(c)
    <3>1. Cardinality(PermitHolders) \in Nat /\ Cardinality(PermitHolders) < MaxConnections
      <4>1. Cardinality(PermitHolders) \in Nat
        BY <2>2, MoveFacts DEF TryAcquirePermit
      <4> QED
        BY SMTT(60), <2>2, <4>1 DEF TryAcquirePermit, IInv, TypeOK, PermitAccounting
    <3>2. /\ Pool!Fresh(c)
          /\ PermitHolders' = PermitHolders \cup {c}
          /\ UNCHANGED <<In(GuardStages), refusedSet, goneSet>>
      BY <1>1, <2>2 DEF TryAcquirePermit, Goto, Pool!Fresh, PermitHolders, In
    <3> QED
      BY SMTT(60), <3>1, <3>2, PoolCardinality DEF Pool!Next, Pool!Reserve
  <2>3. CASE RejectGlobal(c)
    <3>1. Cardinality(PermitHolders) >= MaxConnections
      <4>1. Cardinality(PermitHolders) \in Nat
        BY <2>3, MoveFacts DEF RejectGlobal
      <4> QED
        BY SMTT(60), <2>3, <4>1 DEF RejectGlobal, IInv, TypeOK, PermitAccounting
    <3>2. /\ Pool!Fresh(c)
          /\ refusedSet' = refusedSet \cup {c}
          /\ UNCHANGED <<PermitHolders, In(GuardStages), goneSet>>
      BY <1>1, <2>3 DEF RejectGlobal, Goto, Pool!Fresh, PermitHolders, In
    <3> QED
      BY <3>1, <3>2, PoolCardinality DEF Pool!Next, Pool!Refuse
  <2>4. Pool!SameSource(c) = GuardHolders(Peer[c])
    BY DEF Pool!SameSource, GuardHolders
  <2>5. perIp[Peer[c]] = Cardinality(GuardHolders(Peer[c]))
    BY DEF IInv, GuardAccounting
  <2>6. CASE AcquireGuard(c)
    <3>1. Cardinality(Pool!SameSource(c)) < MaxConnectionsPerIp
      BY <2>4, <2>5, <2>6 DEF AcquireGuard
    <3>2. /\ Pool!Undecided(c)
          /\ In(GuardStages)' = In(GuardStages) \cup {c}
          /\ UNCHANGED <<PermitHolders, refusedSet, goneSet>>
      BY <1>1, <2>6 DEF AcquireGuard, Goto, Pool!Undecided, PermitHolders, In
    <3> QED
      BY <3>1, <3>2, PoolCardinality DEF Pool!Next, Pool!Admit
  <2>7. CASE RejectPerIp(c)
    <3>1. Cardinality(Pool!SameSource(c)) >= MaxConnectionsPerIp
      BY <2>4, <2>5, <2>7 DEF RejectPerIp
    <3>2. /\ Pool!Undecided(c)
          /\ refusedSet' = refusedSet \cup {c}
          /\ UNCHANGED <<PermitHolders, In(GuardStages), goneSet>>
      BY <1>1, <2>7 DEF RejectPerIp, Goto, Pool!Undecided, PermitHolders, In
    <3> QED
      BY <3>1, <3>2, PoolCardinality DEF Pool!Next, Pool!Refuse, Pool!Undecided
  <2>8. CASE DropRefusedPermit(c)
    <3>1. /\ c \in PermitHolders \cap refusedSet
          /\ PermitHolders' = PermitHolders \ {c}
          /\ UNCHANGED <<In(GuardStages), refusedSet, goneSet>>
      BY <1>1, <2>8 DEF DropRefusedPermit, Goto, PermitHolders, In
    <3> QED
      BY <3>1 DEF Pool!Next, Pool!Forget
  <2>9. CASE DropGuard(c)
    <3>1. /\ c \in In(GuardStages)
          /\ In(GuardStages)' = In(GuardStages) \ {c}
          /\ goneSet' = goneSet \cup {c}
          /\ UNCHANGED <<PermitHolders, refusedSet>>
      BY <1>1, <2>9 DEF DropGuard, Goto, PermitHolders, In
    <3> QED
      BY <3>1 DEF Pool!Next, Pool!Leave
  <2>10. CASE DropPermit(c)
    <3>1. /\ c \in PermitHolders \cap goneSet
          /\ PermitHolders' = PermitHolders \ {c}
          /\ UNCHANGED <<In(GuardStages), refusedSet, goneSet>>
      BY <1>1, <2>10 DEF DropPermit, Goto, PermitHolders, In
    <3> QED
      BY <3>1 DEF Pool!Next, Pool!Free
  <2> QED
    BY SMTT(60), <1>conn, <2>1, <2>2, <2>3, <2>6, <2>7, <2>8, <2>9, <2>10 DEF LoopStep, TaskTail
<1> QED
  BY <1>stutter, <1>stop, <1>conn DEF Next

\* Semaphore, map and guards implement the bounded pool of ConnectionPool.
THEOREM Refinement == Spec => ImplementsPool
<1>1. Init => Pool!Init
  BY DEF Init, Pool!Init, PermitHolders, In, PermitStages, TaskStages, GuardStages
<1>2. IInv /\ [Next]_vars => [Pool!Next]_(Pool!poolVars)
  BY PoolStep
<1> QED
  BY <1>1, <1>2, Invariance, PTL DEF Spec, Pool!Spec, ImplementsPool

\* reject is called only when a limit is reached.
THEOREM TurnedAwayAtLimit == Spec => RejectedOnlyAtLimit
<1> DEFINE AtLimit(c) == \/ Cardinality(PermitHolders) = MaxConnections
                         \/ Cardinality(GuardHolders(Peer[c])) = MaxConnectionsPerIp
<1>1. ASSUME IInv, [Next]_vars, NEW c \in Conns, rejected' # rejected, stage'[c] # stage[c]
      PROVE  AtLimit(c)
  <2>1. PICK d \in Conns : RejectGlobal(d) \/ RejectPerIp(d)
    BY <1>1
    DEF Next, vars, metrics, Stop, Accept, LoopStep, TryAcquirePermit, AcquireGuard,
        DropRefusedPermit, Spawn, HandleReturns, CancelHandler, TaskTail, Report,
        DropGuard, DropPermit
  <2>2. d = c
    BY <1>1, <2>1 DEF RejectGlobal, RejectPerIp, Goto, IInv, TypeOK
  <2>3. CASE RejectGlobal(d)
    <3>1. Cardinality(PermitHolders) \in Nat
      BY <1>1, <2>3, MoveFacts DEF RejectGlobal, Stages
    <3> QED
      BY SMTT(60), <1>1, <2>3, <3>1 DEF RejectGlobal, IInv, TypeOK, PermitAccounting
  <2>4. CASE RejectPerIp(d)
    <3>1. /\ perIp[Peer[c]] \in Nat
          /\ perIp[Peer[c]] = Cardinality(GuardHolders(Peer[c]))
          /\ Cardinality(GuardHolders(Peer[c])) <= MaxConnectionsPerIp
      BY <1>1 DEF IInv, TypeOK, GuardAccounting, LimitsHold
    <3> QED
      BY <2>2, <2>4, <3>1 DEF RejectPerIp
  <2> QED
    BY SMTT(60), <2>1, <2>3, <2>4
<1>2. IInv /\ [Next]_vars =>
        [\A c \in Conns : rejected' # rejected /\ stage'[c] # stage[c] => AtLimit(c)]_vars
  BY <1>1
<1> QED
  BY <1>2, Invariance, PTL DEF Spec, RejectedOnlyAtLimit
============================================================================
