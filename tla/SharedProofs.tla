---------------------------- MODULE SharedProofs ----------------------------
(***************************************************************************)
(* What all connections share.                                             *)
(*                                                                         *)
(* login_attempts_by_ip, for any number of logins and sources, all kinds   *)
(* of login and every threshold: attempts are numbered without a gap, the  *)
(* bypass comes only after the threshold, and only an entitled login is    *)
(* served.                                                                 *)
(*                                                                         *)
(* request_rates, for any sources, limit, window and retention time not    *)
(* shorter than the window: pruning never changes an answer, the windows   *)
(* in the map are those of one retention time, and no stretch of time as   *)
(* long as a window sees more than two windows' worth of requests.         *)
(*                                                                         *)
(* The payload store, for any number of concurrent captures, contents and  *)
(* crashes: what is published is complete, and PayloadStore implements     *)
(* ContentStore.                                                           *)
(***************************************************************************)
EXTENDS SourceAuth, RateLimit, PayloadStore, TLAPS

USE SourceAuthAssumption, RateAssumption

----------------------------------------------------------------------------
(* The login decision.                                                     *)

(***************************************************************************)
(* The inductive invariant ties phase and number together: a login has a   *)
(* number only once it is recorded and counts, and a decision is the one   *)
(* its number and kind call for.                                           *)
(***************************************************************************)
AuthInv ==
    /\ AuthTypeOK
    /\ AttemptsNumbered
    /\ \A l \in Logins :
         /\ phase[l] \in {"unparsed", "parsed", "negotiated"} => number[l] = 0
         /\ ~Counted(l) => number[l] = 0
         /\ phase[l] \in {"decided", "served"} /\ decision[l] = "Accept" =>
              /\ ~Undecidable(l)
              /\ kind[l].credentials = "Accept" \/ SourceAuthBypass(l)
         /\ phase[l] = "served" => decision[l] = "Accept"
         /\ l \in bypassed => SourceAuthBypass(l) /\ ~Undecidable(l)
                              /\ phase[l] \notin {"unparsed", "parsed"}

\* Before the first login there is no count, and the invariant holds.
LEMMA InitAuthInv == AuthInit => AuthInv
  BY DEF AuthInit, AuthInv, AuthTypeOK, AttemptsNumbered, Phases, Decisions, Counted, Undecidable,
         SourceAuthBypass

\* Numbering one more attempt leaves no gap and repeats no number.
LEMMA RecordNumbers ==
    ASSUME AuthInv, NEW l \in Logins, Record(l)
    PROVE  AttemptsNumbered'
<1>1. CASE ~Counted(l)
  BY <1>1 DEF Record, AuthInv, AttemptsNumbered, login
<1>2. CASE Counted(l)
  <2> DEFINE s == source[l]
             n == attempts[s] + 1
  <2>1. /\ attempts \in [Peers -> Nat] /\ number \in [Logins -> Nat]
        /\ source \in [Logins -> Peers] /\ number[l] = 0 /\ s \in Peers
    BY DEF Record, AuthInv, AuthTypeOK
  <2>2. /\ attempts' = [attempts EXCEPT ![s] = n]
        /\ number' = [number EXCEPT ![l] = n]
        /\ source' = source
    BY <1>2, <2>1 DEF Record, login
  <2>3. \A m \in Logins : number'[m] <= attempts'[source'[m]]
    BY <2>1, <2>2 DEF AuthInv, AttemptsNumbered
  <2>4. ASSUME NEW t \in Peers, NEW k \in 1 .. attempts'[t]
        PROVE  \E m \in Logins : source'[m] = t /\ number'[m] = k
    <3>1. CASE t = s /\ k = n
      BY <2>1, <2>2, <3>1
    <3>2. CASE ~(t = s /\ k = n)
      <4>1. k \in 1 .. attempts[t]
        BY <2>1, <2>2, <3>2
      <4>2. PICK m \in Logins : source[m] = t /\ number[m] = k
        BY <4>1 DEF AuthInv, AttemptsNumbered
      <4>3. m # l
        BY <2>1, <4>1, <4>2
      <4> QED
        BY <2>1, <2>2, <4>2, <4>3
    <3> QED
      BY <3>1, <3>2
  <2>5. ASSUME NEW a \in Logins, NEW b \in Logins, source'[a] = source'[b],
               number'[a] = number'[b], number'[a] > 0
        PROVE  a = b
    <3>1. \A m \in Logins \ {l} : source[m] = s => number[m] < n
      BY <2>1 DEF AuthInv, AttemptsNumbered
    <3> QED
      BY <2>1, <2>2, <2>5, <3>1 DEF AuthInv, AttemptsNumbered
  <2> QED
    BY <2>3, <2>4, <2>5 DEF AttemptsNumbered
<1> QED
  BY <1>1, <1>2

\* Every step of a login keeps the invariant.
LEMMA NextAuthInv == AuthInv /\ [AuthNext]_auth_vars => AuthInv'
<1> SUFFICES ASSUME AuthInv, [AuthNext]_auth_vars PROVE AuthInv'
  OBVIOUS
<1> USE DEF Phases, Decisions, Go, login
<1>1. CASE UNCHANGED auth_vars
  BY <1>1
  DEF AuthInv, AuthTypeOK, AttemptsNumbered, Counted, Undecidable, SourceAuthBypass, auth_vars
<1>2. ASSUME NEW l \in Logins, Parse(l) PROVE AuthInv'
  BY <1>2 DEF Parse, AuthInv, AuthTypeOK, AttemptsNumbered, Counted, Undecidable, SourceAuthBypass
<1>3. ASSUME NEW l \in Logins, Negotiate(l) PROVE AuthInv'
  BY SMTT(60), <1>3
  DEF Negotiate, AuthInv, AuthTypeOK, AttemptsNumbered, Counted, Undecidable, SourceAuthBypass
<1>4. ASSUME NEW l \in Logins, Record(l) PROVE AuthInv'
  <2>1. AuthTypeOK'
    BY <1>4 DEF Record, AuthInv, AuthTypeOK
  <2>2. AttemptsNumbered'
    BY <1>4, RecordNumbers
  <2>3. l \notin bypassed /\ phase'[l] = "recorded"
    BY <1>4 DEF Record, AuthInv, AuthTypeOK, SourceAuthBypass
  <2>4. \A m \in Logins \ {l} : phase'[m] = phase[m] /\ number'[m] = number[m]
    BY SMTT(60), <1>4 DEF Record, AuthInv, AuthTypeOK
  <2> QED
    BY <1>4, <2>1, <2>2, <2>3, <2>4
    DEF Record, AuthInv, AuthTypeOK, Counted, Undecidable, SourceAuthBypass
<1>5. ASSUME NEW l \in Logins, Decide(l) PROVE AuthInv'
  <2>1. kind[l].credentials \in {"Accept", "Reject", "Locked"}
    BY DEF AuthInv, AuthTypeOK, LoginKinds
  <2>2. AuthTypeOK'
    BY SMTT(60), <1>5, <2>1 DEF Decide, AuthInv, AuthTypeOK
  <2> QED
    BY <1>5, <2>2
    DEF Decide, AuthInv, AuthTypeOK, AttemptsNumbered, Counted, Undecidable, SourceAuthBypass
<1>6. ASSUME NEW l \in Logins, Answer(l) PROVE AuthInv'
  BY SMTT(60), <1>6
  DEF Answer, AuthInv, AuthTypeOK, AttemptsNumbered, Counted, Undecidable, SourceAuthBypass
<1> QED
  BY <1>1, <1>2, <1>3, <1>4, <1>5, <1>6 DEF AuthNext

\* The inductive invariant holds for every interleaving of the logins of a source.
THEOREM AuthInvariance == AuthSpec => []AuthInv
  BY InitAuthInv, NextAuthInv, PTL DEF AuthSpec

\* The counters and the logins are well typed.
THEOREM AuthTypeCorrect == AuthSpec => []AuthTypeOK
<1>1. AuthInv => AuthTypeOK
  BY SMTT(60) DEF AuthInv
<1> QED
  BY <1>1, AuthInvariance, PTL

\* The attempts of a source are numbered without gap or repetition.
THEOREM Numbering == AuthSpec => []AttemptsNumbered
<1>1. AuthInv => AttemptsNumbered
  BY DEF AuthInv
<1> QED
  BY <1>1, AuthInvariance, PTL

\* The bypass of the credential policy comes only after X attempts.
THEOREM BypassEarned == AuthSpec => []BypassOnlyAfterThreshold
<1>1. ASSUME AuthInv, NEW l \in bypassed, NEW n \in 1 .. Threshold
      PROVE  \E m \in Logins \ {l} : source[m] = source[l] /\ number[m] = n
  <2>1. /\ l \in Logins /\ number[l] > Threshold /\ number[l] <= attempts[source[l]]
        /\ number[l] \in Nat /\ source[l] \in Peers /\ attempts[source[l]] \in Nat
    BY <1>1 DEF AuthInv, AuthTypeOK, SourceAuthBypass, AttemptsNumbered
  <2>2. n \in 1 .. attempts[source[l]]
    BY <2>1
  <2>3. PICK m \in Logins : source[m] = source[l] /\ number[m] = n
    BY <1>1, <2>1, <2>2 DEF AuthInv, AttemptsNumbered
  <2> QED
    BY <2>1, <2>3
<1>2. AuthInv => BypassOnlyAfterThreshold
  BY <1>1 DEF AuthInv, AuthTypeOK, SourceAuthBypass, BypassOnlyAfterThreshold
<1> QED
  BY <1>2, AuthInvariance, PTL

\* Only an entitled login is served.
THEOREM Entitlement == AuthSpec => []ServedOnlyIfEntitled
<1>1. AuthInv => ServedOnlyIfEntitled
  BY DEF AuthInv, ServedOnlyIfEntitled, Undecidable, SourceAuthBypass
<1> QED
  BY <1>1, AuthInvariance, PTL

\* Integrated and federated logins never count, bypass or get served.
THEOREM Delegation == AuthSpec => []DelegatedNeverCounts
<1>1. AuthInv => DelegatedNeverCounts
  BY DEF AuthInv, DelegatedNeverCounts, Counted, Undecidable
<1> QED
  BY <1>1, AuthInvariance, PTL
----------------------------------------------------------------------------
(* The request rate.                                                       *)

\* An entry in the map is the source's window; a source without an entry has a
\* window that has run out.
Agreement ==
    \A ip \in Addresses :
        /\ ip \in Entries(rates) => rates[ip] = ideal[ip]
        /\ ip \notin Entries(rates) => Expired(ideal[ip])

\* The metric and the history are numbers.
RateCounts == limited \in Nat /\ allowed \in [Addresses -> [Instants -> Nat]]

RateInv ==
    /\ now \in 0 .. MaxTime
    /\ Entries(rates) \subseteq Addresses
    /\ ideal \in [Addresses -> RateWindow]
    /\ RateCounts
    /\ Agreement

\* The answer is taken from the same window either way.
LEMMA SameWindow ==
    ASSUME RateInv, NEW ip \in Addresses
    PROVE  /\ WindowOf(ip) = IdealWindowOf(ip)
           /\ WindowOf(ip) \in RateWindow
<1>1. ideal[ip].since \in Int /\ now \in Int /\ ideal[ip] \in RateWindow
  BY DEF RateInv, RateWindow
<1>2. NewWindow \in RateWindow
  BY <1>1 DEF NewWindow, RateWindow
<1>3. WindowOf(ip) = IdealWindowOf(ip)
  BY <1>1 DEF RateInv, Agreement, WindowOf, IdealWindowOf, Retained, Expired
<1> QED
  BY <1>1, <1>2, <1>3 DEF IdealWindowOf

\* Before the first request there is no window, and the invariant holds.
LEMMA InitRateInv == RateInit => RateInv
<1> SUFFICES ASSUME RateInit PROVE RateInv
  OBVIOUS
<1>1. Entries(rates) = {}
  BY DEF RateInit, Entries
<1>2. \A ip \in Addresses : ideal[ip] \in RateWindow /\ Expired(ideal[ip])
  <2>1. \A ip \in Addresses : ideal[ip] = [since |-> 0 - Window, count |-> 0]
    BY DEF RateInit
  <2>2. now = 0
    BY DEF RateInit
  <2> DEFINE w == [since |-> 0 - Window, count |-> 0]
  <2>3. w \in RateWindow
    BY DEF RateWindow
  <2>4. w.since = 0 - Window
    OBVIOUS
  <2> HIDE DEF w
  <2>5. Expired(w)
    BY <2>2, <2>4 DEF Expired
  <2> QED
    BY <2>1, <2>3, <2>5 DEF w, Expired
<1>3. ideal \in [Addresses -> RateWindow]
  BY <1>2 DEF RateInit
<1> QED
  BY <1>1, <1>2, <1>3 DEF RateInit, RateInv, RateCounts, Agreement

\* A call stores window w for its source, in the map and in the ideal.
LEMMA UpdateAgrees ==
    ASSUME RateInv, NEW ip \in Addresses, NEW w \in RateWindow, Update(ip, w),
           ideal' = [ideal EXCEPT ![ip] = w], now' = now, RateCounts'
    PROVE  RateInv'
<1>1. Entries(rates)' = Retained \cup {ip}
  BY DEF Update, Entries
<1>2. ASSUME NEW i \in Addresses
      PROVE  /\ i \in Entries(rates)' => rates'[i] = ideal'[i]
             /\ i \notin Entries(rates)' => Expired(ideal[i])'
  <2>1. /\ ideal[i].since \in Int /\ now \in Int
        /\ ideal \in [Addresses -> RateWindow] /\ Agreement
    BY DEF RateInv, RateWindow
  <2>2. CASE i = ip
    BY <1>1, <2>2 DEF Update, RateInv
  <2>3. CASE i # ip
    BY <1>1, <2>1, <2>3 DEF Update, Agreement, Retained, Expired
  <2> QED
    BY <2>2, <2>3
<1>3. /\ now' \in 0 .. MaxTime
      /\ Entries(rates)' \subseteq Addresses
      /\ ideal' \in [Addresses -> RateWindow]
  BY <1>1 DEF RateInv, Retained
<1> QED
  BY <1>2, <1>3 DEF RateInv, Agreement

\* allow_request and the passing of time preserve the invariant.
LEMMA NextRateInv == RateInv /\ [RateNext]_rate_vars => RateInv'
<1> SUFFICES ASSUME RateInv, [RateNext]_rate_vars PROVE RateInv'
  OBVIOUS
<1>1. CASE UNCHANGED rate_vars
  BY <1>1 DEF rate_vars, RateInv, RateCounts, Agreement, Expired, Entries
<1>2. CASE Tick
  <2>1. \A ip \in Addresses : ideal[ip].since \in Int
    BY DEF RateInv, RateWindow
  <2>2. /\ now \in Int /\ now' = now + 1 /\ now' \in 0 .. MaxTime
        /\ UNCHANGED <<rates, ideal, limited, allowed>>
    BY <1>2 DEF Tick, RateInv
  <2>3. RateCounts'
    BY <2>2 DEF RateInv, RateCounts
  <2>4. Agreement'
    BY <2>1, <2>2 DEF RateInv, Agreement, Expired, Entries
  <2> QED
    BY <2>2, <2>3, <2>4 DEF RateInv, Entries
<1>3. ASSUME NEW ip \in Addresses, Allow(ip) PROVE RateInv'
  <2>1. Used(WindowOf(ip)) \in RateWindow
    BY SameWindow DEF Used, RateWindow
  <2>2. ideal' = [ideal EXCEPT ![ip] = Used(WindowOf(ip))]
    BY ZenonT(60), <1>3, SameWindow DEF Allow
  <2>3. RateCounts'
    BY <1>3 DEF Allow, RateInv, RateCounts
  <2> QED
    BY ZenonT(60), <1>3, <2>1, <2>2, <2>3, UpdateAgrees DEF Allow
<1>4. ASSUME NEW ip \in Addresses, Deny(ip) PROVE RateInv'
  <2>1. ideal' = [ideal EXCEPT ![ip] = WindowOf(ip)]
    BY ZenonT(60), <1>4, SameWindow DEF Deny
  <2>2. RateCounts'
    BY <1>4 DEF Deny, RateInv, RateCounts
  <2> QED
    BY ZenonT(60), <1>4, <2>1, <2>2, SameWindow, UpdateAgrees DEF Deny
<1> QED
  BY <1>1, <1>2, <1>3, <1>4 DEF RateNext

\* The inductive invariant holds after any sequence of calls of allow_request.
THEOREM RateInvariance == RateSpec => []RateInv
  BY InitRateInv, NextRateInv, PTL DEF RateSpec

\* The map holds well-formed windows of known sources, and the clock is in range.
THEOREM RateTypeCorrect == RateSpec => []RateTypeOK
<1>1. RateInv => RateTypeOK
  BY DEF RateInv, RateCounts, Agreement, RateTypeOK
<1> QED
  BY <1>1, RateInvariance, PTL

\* Pruning the shared map never changes the answer to a source.
THEOREM PruningNeverShows == RateSpec => []PruningInvisible
<1>1. RateInv => PruningInvisible
  BY SameWindow DEF PruningInvisible
<1> QED
  BY <1>1, RateInvariance, PTL

\* A call leaves windows in the map that have begun, less than the retention time ago.
LEMMA CallPrunes ==
    ASSUME RateInv, [RateNext]_rate_vars, rates' # rates,
           \A i \in Entries(rates) : rates[i].since <= now
    PROVE  \A i \in Entries(rates') : rates'[i].since <= now /\ now - rates'[i].since < Retain
<1> TAKE i \in Entries(rates')
<1>1. PICK ip \in Addresses : Update(ip, WindowOf(ip)) \/ Update(ip, Used(WindowOf(ip)))
  BY DEF RateNext, rate_vars, Tick, Allow, Deny
<1>2. WindowOf(ip) \in RateWindow /\ Used(WindowOf(ip)).since = WindowOf(ip).since
  BY SMTT(60), SameWindow DEF Used, RateWindow
<1>3. WindowOf(ip).since <= now /\ now - WindowOf(ip).since < Retain
  BY <1>2 DEF WindowOf, NewWindow, Retained, Expired, RateInv, RateWindow
<1> QED
  BY <1>1, <1>2, <1>3 DEF Update, Entries, Retained

\* A window in the map has begun, and none began a retention time before another.
Recent ==
    \A i \in Entries(rates) :
        /\ rates[i].since \in Int /\ rates[i].since <= now
        /\ \A j \in Entries(rates) : rates[i].since - rates[j].since < Retain

\* For any sources and any times of their requests, the map holds those of one retention time.
THEOREM MapStaysBounded == RateSpec => []MapIsBounded
<1>1. RateInit => Recent
  BY DEF RateInit, Recent, Entries
<1>2. ASSUME RateInv, RateInv', Recent, [RateNext]_rate_vars PROVE Recent'
  <2>1. now \in Int /\ now' \in Int /\ now <= now'
    BY <1>2 DEF RateInv, RateNext, rate_vars, Tick, Allow, Deny
  <2>2. CASE rates' = rates
    BY <1>2, <2>1, <2>2 DEF Recent, Entries
  <2>3. CASE rates' # rates
    <3>1. \A i \in Entries(rates') : rates'[i].since <= now /\ now - rates'[i].since < Retain
      BY <1>2, <2>3, CallPrunes DEF Recent
    <3>2. \A i \in Entries(rates') : rates'[i].since \in Int
      BY <1>2 DEF RateInv, Agreement, RateWindow, Entries
    <3> QED
      BY <2>1, <3>1, <3>2 DEF Recent, Entries
  <2> QED
    BY <2>2, <2>3
<1>3. Recent => MapIsBounded
  BY DEF Recent, MapIsBounded
<1> QED
  BY <1>1, <1>2, <1>3, RateInvariance, PTL DEF RateSpec

----------------------------------------------------------------------------
(* The bound on bursts.                                                    *)

\* What window w and history n of a source tell at instant t: n grows up to t
\* and not beyond; the requests of w are those since it began; a stretch that
\* reaches from before w into it met at most the one window before; no stretch
\* of a window's length met more than two.
Paced(w, n, t) ==
    /\ w.since <= t /\ w.count <= MaxRequests
    /\ \A i, j \in Instants : i <= j => n[i] <= n[j]
    /\ \A i \in Instants : i > t => n[i] = n[t + 1]
    /\ t - w.since >= Window => n[t + 1] = n[t]
    /\ w.since >= 0 => n[t + 1] - n[w.since] = w.count
    /\ w.since >= 0 =>
         \A i \in 0 .. w.since : i > w.since - Window => n[w.since] - n[i] <= MaxRequests
    /\ w.since < 0 => w.since = 0 - Window /\ n[t + 1] = 0 /\ w.count = 0
    /\ \A i \in 0 .. MaxTime - Window + 1 : n[i + Window] - n[i] <= 2 * MaxRequests

\* Time passes: nothing is allowed by that.
LEMMA PacedLater ==
    ASSUME NEW w \in RateWindow, NEW n \in [Instants -> Nat], NEW t \in 0 .. MaxTime - 1,
           Paced(w, n, t)
    PROVE  Paced(w, n, t + 1)
<1>1. w.since \in Int /\ w.count \in Nat
  BY DEF RateWindow
<1>2. t \in Instants /\ t + 1 \in Instants /\ t + 2 \in Instants /\ (t + 1) + 1 = t + 2
  BY DEF Instants
<1>3. n[t + 2] = n[t + 1]
  BY <1>2 DEF Paced
<1>4. \A i \in Instants : i > t + 1 => n[i] = n[t + 2]
  BY <1>2, <1>3 DEF Paced, Instants
<1> QED
  BY <1>1, <1>2, <1>3, <1>4 DEF Paced

\* A window that has run out gives way to a new one.
LEMMA PacedAnew ==
    ASSUME NEW w \in RateWindow, NEW n \in [Instants -> Nat], NEW t \in 0 .. MaxTime,
           Paced(w, n, t), t - w.since >= Window
    PROVE  Paced([since |-> t, count |-> 0], n, t)
<1>1. w.since \in Int /\ w.count \in Nat
  BY DEF RateWindow
<1>2. t \in Instants /\ t + 1 \in Instants /\ n[t + 1] = n[t] /\ n[t] \in Nat
  BY DEF Instants, Paced
<1>3. ASSUME NEW i \in 0 .. t, i > t - Window
      PROVE  n[t] - n[i] <= MaxRequests
  <2>1. i \in Instants /\ n[i] \in Nat /\ w.count <= MaxRequests
    BY DEF Instants, Paced
  <2>2. CASE w.since < 0
    BY <1>2, <2>1, <2>2 DEF Paced
  <2>3. CASE w.since >= 0
    <3>1. w.since \in Instants /\ w.since <= i
      BY SMTT(60), <1>1, <1>3, <2>1, <2>3 DEF Instants
    <3>2. n[w.since] \in Nat /\ n[w.since] <= n[i] /\ n[t] - n[w.since] = w.count
      BY <1>1, <1>2, <2>1, <2>3, <3>1 DEF Paced
    <3> QED
      BY <1>1, <1>2, <2>1, <3>2
  <2> QED
    BY <1>1, <2>2, <2>3
<1> DEFINE v == [since |-> t, count |-> 0]
<1>4. v.since = t /\ v.count = 0
  OBVIOUS
<1> HIDE DEF v
<1>5. Paced(v, n, t)
  BY <1>1, <1>2, <1>3, <1>4 DEF Paced
<1> QED
  BY <1>5 DEF v

\* A request is allowed in a window that is in force and not full.
LEMMA PacedUse ==
    ASSUME NEW w \in RateWindow, NEW n \in [Instants -> Nat], NEW t \in 0 .. MaxTime,
           Paced(w, n, t), t - w.since < Window, w.count < MaxRequests
    PROVE  Paced(Used(w), [i \in Instants |-> IF i > t THEN n[i] + 1 ELSE n[i]], t)
<1> DEFINE m == [i \in Instants |-> IF i > t THEN n[i] + 1 ELSE n[i]]
           v == Used(w)
<1>1. w.since \in Int /\ w.count \in Nat
  BY DEF RateWindow
<1>2. v.since = w.since /\ v.count = w.count + 1
  BY DEF Used, RateWindow
<1>3. /\ m \in [Instants -> Nat]
      /\ \A i \in Instants : /\ i > t => m[i] = n[i] + 1
                             /\ i <= t => m[i] = n[i]
  BY SMTT(60) DEF Instants
<1> HIDE DEF m, v
<1>4. t \in Instants /\ t + 1 \in Instants /\ w.since <= t
  BY DEF Instants, Paced
<1>5. \A i \in Instants : i \in Int /\ n[i] \in Nat
  BY DEF Instants
<1>6. \A i, j \in Instants : i <= j => m[i] <= m[j]
  BY <1>3, <1>4, <1>5 DEF Paced
<1>7. \A i \in Instants : i > t => m[i] = m[t + 1]
  BY <1>3, <1>4, <1>5 DEF Paced
<1>8. m[t + 1] = n[t + 1] + 1
  BY <1>3, <1>4
<1>9. w.since >= 0
  BY <1>1 DEF Paced
<1>10. w.since \in Instants /\ m[w.since] = n[w.since]
  BY SMTT(60), <1>1, <1>3, <1>4, <1>9 DEF Instants
<1>11. n[t + 1] - n[w.since] = w.count
  BY <1>9 DEF Paced
<1>12. m[t + 1] - m[v.since] = v.count
  BY <1>1, <1>2, <1>4, <1>5, <1>8, <1>10, <1>11
<1>13. \A i \in 0 .. w.since :
         i > w.since - Window => n[w.since] - n[i] <= MaxRequests
  BY <1>9 DEF Paced
<1>14. \A i \in 0 .. w.since : i \in Instants /\ m[i] = n[i]
  BY SMTT(60), <1>1, <1>3, <1>4 DEF Instants
<1>15. \A i \in 0 .. v.since :
         i > v.since - Window => m[v.since] - m[i] <= MaxRequests
  BY <1>2, <1>10, <1>13, <1>14
<1>16. ASSUME NEW i \in 0 .. MaxTime - Window + 1
       PROVE  m[i + Window] - m[i] <= 2 * MaxRequests
  <2>1. i \in Instants /\ i + Window \in Instants /\ i \in Int
    BY DEF Instants
  <2>2. n[i] \in Nat /\ n[i + Window] \in Nat /\ n[t + 1] \in Nat /\ n[w.since] \in Nat
    BY ZenonT(60), <1>4, <1>5, <1>10, <2>1
  <2>3. n[i + Window] - n[i] <= 2 * MaxRequests
    BY DEF Paced
  <2>4. CASE i > t
    BY <1>3, <2>1, <2>2, <2>3, <2>4
  <2>5. CASE i + Window <= t
    BY <1>3, <2>1, <2>2, <2>3, <2>5
  <2>6. CASE i <= t /\ i + Window > t
    <3>1. m[i] = n[i] /\ m[i + Window] = n[t + 1] + 1
      BY <1>3, <1>7, <1>8, <2>1, <2>6
    <3>2. n[t + 1] + 1 - n[w.since] <= MaxRequests
      BY <1>1, <1>11, <2>2
    <3>3. n[w.since] - n[i] <= MaxRequests
      <4>1. CASE i <= w.since
        <5>1. i \in 0 .. w.since /\ i > w.since - Window
          BY <1>1, <1>4, <2>1, <2>6, <4>1
        <5> QED
          BY <1>13, <5>1
      <4>2. CASE i > w.since
        <5>1. n[w.since] <= n[i]
          BY <1>1, <1>10, <2>1, <4>2 DEF Paced
        <5> QED
          BY SMTT(60), <2>2, <5>1
      <4> QED
        BY <1>1, <2>1, <4>1, <4>2
    <3> QED
      BY ONLY <2>2, <3>1, <3>2, <3>3, MaxRequests \in Nat
  <2> QED
    BY <2>1, <2>4, <2>5, <2>6
<1>17. t - v.since < Window /\ v.since <= t /\ v.count <= MaxRequests /\ v.since >= 0
  BY SMTT(60), <1>1, <1>2, <1>4, <1>9
<1>18. Paced(v, m, t)
  BY SMTT(60), <1>1, <1>2, <1>6, <1>7, <1>12, <1>15, <1>16, <1>17 DEF Paced
<1> QED
  BY <1>18 DEF m, v

PaceInv == RateInv /\ \A ip \in Addresses : Paced(ideal[ip], allowed[ip], now)

\* Nothing has been allowed at the start.
LEMMA InitPace == RateInit => PaceInv
<1> SUFFICES ASSUME RateInit, NEW ip \in Addresses PROVE Paced(ideal[ip], allowed[ip], now)
  BY SMTT(60), InitRateInv DEF PaceInv
<1> DEFINE w == ideal[ip]
           n == allowed[ip]
<1>1. now = 0 /\ w.since = 0 - Window /\ w.count = 0 /\ \A i \in Instants : n[i] = 0
  BY DEF RateInit
<1>2. 0 \in Instants /\ 1 \in Instants
  BY DEF Instants
<1>3. \A i \in 0 .. MaxTime - Window + 1 : i \in Instants /\ i + Window \in Instants
  BY DEF Instants
<1> HIDE DEF w, n
<1>4. Paced(w, n, 0)
  BY SMTT(60), <1>1, <1>2, <1>3 DEF Paced
<1> QED
  BY SMTT(60), <1>1, <1>4 DEF w, n

\* The window a call works with is paced whether it is the old or a new one.
LEMMA WindowPaced ==
    ASSUME PaceInv, NEW ip \in Addresses
    PROVE  /\ Paced(WindowOf(ip), allowed[ip], now)
           /\ now - WindowOf(ip).since < Window
<1>1. /\ ideal[ip] \in RateWindow /\ allowed[ip] \in [Instants -> Nat]
      /\ now \in 0 .. MaxTime /\ ideal[ip].since \in Int
  BY SMTT(60) DEF PaceInv, RateInv, RateCounts, RateWindow
<1>2. Paced(ideal[ip], allowed[ip], now) /\ WindowOf(ip) = IdealWindowOf(ip)
  BY SMTT(60), SameWindow DEF PaceInv
<1>3. CASE Expired(ideal[ip])
  <2>1. Paced(NewWindow, allowed[ip], now)
    BY SMTT(60), <1>1, <1>2, <1>3, PacedAnew DEF Expired, NewWindow
  <2> QED
    BY SMTT(60), <1>1, <1>2, <1>3, <2>1 DEF IdealWindowOf, NewWindow
<1>4. CASE ~Expired(ideal[ip])
  BY SMTT(60), <1>1, <1>2, <1>4 DEF IdealWindowOf, Expired
<1> QED
  BY <1>3, <1>4

\* allow_request keeps the pace of every source, and so does time.
LEMMA NextPace == PaceInv /\ [RateNext]_rate_vars => PaceInv'
<1> SUFFICES ASSUME PaceInv, [RateNext]_rate_vars PROVE PaceInv'
  OBVIOUS
<1>1. /\ RateInv' /\ RateInv
      /\ ideal \in [Addresses -> RateWindow] /\ allowed \in [Addresses -> [Instants -> Nat]]
      /\ now \in 0 .. MaxTime
  BY NextRateInv DEF PaceInv, RateInv, RateCounts
<1>2. CASE UNCHANGED rate_vars
  BY <1>1, <1>2 DEF PaceInv, rate_vars
<1>3. CASE Tick
  <2>1. now \in 0 .. MaxTime - 1 /\ now' = now + 1 /\ UNCHANGED <<ideal, allowed>>
    BY <1>1, <1>3 DEF Tick
  <2>2. \A ip \in Addresses : Paced(ideal[ip], allowed[ip], now + 1)
    BY <1>1, <2>1, PacedLater DEF PaceInv
  <2> QED
    BY <1>1, <2>1, <2>2 DEF PaceInv
<1>4. ASSUME NEW ip \in Addresses, Allow(ip) PROVE PaceInv'
  <2> DEFINE m == [i \in Instants |-> IF i > now THEN allowed[ip][i] + 1 ELSE allowed[ip][i]]
  <2>1. /\ ideal' = [ideal EXCEPT ![ip] = Used(WindowOf(ip))]
        /\ allowed' = [allowed EXCEPT ![ip] = m]
        /\ now' = now
    BY ZenonT(60), <1>1, <1>4, SameWindow DEF Allow
  <2>2. WindowOf(ip) \in RateWindow /\ WindowOf(ip).count < MaxRequests
    BY <1>1, <1>4, SameWindow DEF Allow, Full, RateWindow
  <2>3. allowed[ip] \in [Instants -> Nat]
    BY <1>1
  <2>4. Paced(Used(WindowOf(ip)), m, now)
    BY <1>1, <2>2, <2>3, WindowPaced, PacedUse
  <2> HIDE DEF m
  <2>5. \A i \in Addresses : Paced(ideal'[i], allowed'[i], now)
    BY <1>1, <2>1, <2>4 DEF PaceInv
  <2> QED
    BY <1>1, <2>1, <2>5 DEF PaceInv
<1>5. ASSUME NEW ip \in Addresses, Deny(ip) PROVE PaceInv'
  <2>1. /\ ideal' = [ideal EXCEPT ![ip] = WindowOf(ip)]
        /\ allowed' = allowed /\ now' = now
    BY ZenonT(60), <1>1, <1>5, SameWindow DEF Deny
  <2>2. \A i \in Addresses : Paced(ideal'[i], allowed'[i], now)
    BY <1>1, <2>1, WindowPaced DEF PaceInv
  <2> QED
    BY <1>1, <2>1, <2>2 DEF PaceInv
<1> QED
  BY <1>2, <1>3, <1>4, <1>5 DEF RateNext

\* In no stretch of time as long as a window does a source get more than two
\* windows' worth of requests through, however the stretch lies.
THEOREM BurstsBounded == RateSpec => []BurstBounded
<1>1. PaceInv => BurstBounded
  BY SMTT(60) DEF PaceInv, Paced, BurstBounded, Requests
<1> QED
  BY <1>1, InitPace, NextPace, PTL DEF RateSpec

----------------------------------------------------------------------------
(* The payload store.                                                      *)

(***************************************************************************)
(* The inductive invariant: only a synced staging file is linked, a call   *)
(* that says it stored its content is the one that created the name, and a *)
(* call that is still running has not been answered.                       *)
(***************************************************************************)
StoreInv ==
    /\ StoreTypeOK
    /\ PublishedIsComplete
    /\ StoredOnce
    /\ OkLeavesNoStaging
    /\ \A c \in Captures : pc[c] \in {"idle", "checking", "creating"} => staging[c] = "absent"
    /\ \A c \in Captures : pc[c] \in {"linking", "rechecking", "cleaning"} => staging[c] = "durable"
    /\ \A c \in winners : published[Content[c]] = "durable"
    /\ \A c \in winners : pc[c] \in {"cleaning", "finished"}
    /\ \A c \in Captures : pc[c] # "finished" => result[c] = "none"
    /\ \A c \in Captures : pc[c] = "cleaning" =>
         /\ outcome[c] \in {"stored", "duplicate", "error"}
         /\ outcome[c] = "stored" => c \in winners
         /\ outcome[c] = "duplicate" => published[Content[c]] = "durable" /\ c \notin winners

USE PayloadAssumption

\* A store whose directory is empty, before any capture, satisfies the invariant.
LEMMA InitStoreInv == StoreInit => StoreInv
  BY DEF StoreInit, StoreInv, StoreTypeOK, PublishedIsComplete, StoredOnce, OkLeavesNoStaging,
         CaptureStages, FileStates, Results

\* Every step of a call, and a crash, keep the invariant.
LEMMA NextStoreInv == StoreInv /\ [StoreNext]_store_vars => StoreInv'
<1> SUFFICES ASSUME StoreInv, [StoreNext]_store_vars PROVE StoreInv'
  BY SMTT(60)
<1> USE DEF CaptureStages, InProgress, FileStates, FullLength, Results, At, GoTo, NoReturn,
            disk, history, fixed
<1>stutter. CASE UNCHANGED store_vars
  BY SMTT(60), <1>stutter
  DEF StoreInv, StoreTypeOK, PublishedIsComplete, StoredOnce, OkLeavesNoStaging, store_vars
<1>crash. CASE Crash
  <2>1. \A d \in Contents : published'[d] \in {"absent", "durable"}
    BY SMTT(60), <1>crash
    DEF Crash, Remains, StoreInv, StoreTypeOK, PublishedIsComplete, StoredOnce, OkLeavesNoStaging
  <2>2. StoreTypeOK'
    BY SMTT(60), <1>crash DEF Crash, StoreInv, StoreTypeOK
  <2> QED
    BY <1>crash, <2>1, <2>2
    DEF Crash, StoreInv, StoreTypeOK, PublishedIsComplete, StoredOnce, OkLeavesNoStaging
<1>step. ASSUME NEW c \in Captures, Step(c) PROVE StoreInv'
  <2>Begin. CASE Begin(c)
    <3>1. StoreTypeOK'
      BY SMTT(60), <2>Begin DEF Begin, Return, StoreInv, StoreTypeOK
    <3> QED
      BY SMTT(60), <2>Begin, <3>1
      DEF Begin, Return, StoreInv, StoreTypeOK, PublishedIsComplete, StoredOnce, OkLeavesNoStaging
  <2>Check. CASE Check(c)
    <3>1. StoreTypeOK'
      BY SMTT(60), <2>Check DEF Check, Return, StoreInv, StoreTypeOK
    <3> QED
      BY SMTT(60), <2>Check, <3>1
      DEF Check, Return, StoreInv, StoreTypeOK, PublishedIsComplete, StoredOnce, OkLeavesNoStaging
  <2>Create. CASE Create(c)
    <3>1. StoreTypeOK'
      BY SMTT(60), <2>Create DEF Create, Return, StoreInv, StoreTypeOK
    <3> QED
      BY SMTT(60), <2>Create, <3>1
      DEF Create, Return, StoreInv, StoreTypeOK, PublishedIsComplete, StoredOnce, OkLeavesNoStaging
  <2>Write. CASE Write(c)
    <3>1. StoreTypeOK'
      BY SMTT(60), <2>Write DEF Write, StoreInv, StoreTypeOK
    <3> QED
      BY SMTT(60), <2>Write, <3>1
      DEF Write, StoreInv, StoreTypeOK, PublishedIsComplete, StoredOnce, OkLeavesNoStaging
  <2>Sync. CASE Sync(c)
    <3>1. StoreTypeOK'
      BY SMTT(60), <2>Sync DEF Sync, StoreInv, StoreTypeOK
    <3> QED
      BY SMTT(60), <2>Sync, <3>1
      DEF Sync, StoreInv, StoreTypeOK, PublishedIsComplete, StoredOnce, OkLeavesNoStaging
  <2>Discard. CASE Discard(c)
    <3>1. StoreTypeOK'
      BY SMTT(60), <2>Discard DEF Discard, Return, StoreInv, StoreTypeOK
    <3> QED
      BY SMTT(60), <2>Discard, <3>1
      DEF Discard, Return, StoreInv, StoreTypeOK, PublishedIsComplete, StoredOnce, OkLeavesNoStaging
  <2>Link. CASE Link(c)
    <3>1. StoreTypeOK'
      BY SMTT(60), <2>Link DEF Link, StoreInv, StoreTypeOK
    <3> QED
      BY SMTT(60), <2>Link, <3>1
      DEF Link, StoreInv, StoreTypeOK, PublishedIsComplete, StoredOnce, OkLeavesNoStaging
  <2>LinkExists. CASE LinkExists(c)
    <3>1. StoreTypeOK'
      BY SMTT(60), <2>LinkExists DEF LinkExists, StoreInv, StoreTypeOK
    <3> QED
      BY SMTT(60), <2>LinkExists, <3>1
      DEF LinkExists, StoreInv, StoreTypeOK, PublishedIsComplete, StoredOnce, OkLeavesNoStaging
  <2>LinkFails. CASE LinkFails(c)
    <3>1. StoreTypeOK'
      BY SMTT(60), <2>LinkFails DEF LinkFails, StoreInv, StoreTypeOK
    <3> QED
      BY SMTT(60), <2>LinkFails, <3>1
      DEF LinkFails, StoreInv, StoreTypeOK, PublishedIsComplete, StoredOnce, OkLeavesNoStaging
  <2>Recheck. CASE Recheck(c)
    <3>1. StoreTypeOK'
      BY SMTT(60), <2>Recheck DEF Recheck, StoreInv, StoreTypeOK
    <3> QED
      BY SMTT(60), <2>Recheck, <3>1
      DEF Recheck, StoreInv, StoreTypeOK, PublishedIsComplete, StoredOnce, OkLeavesNoStaging
  <2>Cleanup. CASE Cleanup(c)
    <3>1. StoreTypeOK'
      BY <2>Cleanup DEF Cleanup, Return, StoreInv, StoreTypeOK
    <3> QED
      BY SMTT(60), <2>Cleanup, <3>1
      DEF Cleanup, Return, StoreInv, StoreTypeOK, PublishedIsComplete, StoredOnce, OkLeavesNoStaging
  <2> QED
    BY SMTT(60), <1>step, <2>Begin, <2>Check, <2>Create, <2>Write, <2>Sync, <2>Discard,
       <2>Link, <2>LinkExists, <2>LinkFails, <2>Recheck, <2>Cleanup DEF Step
<1> QED
  BY <1>stutter, <1>crash, <1>step DEF StoreNext

\* The inductive invariant holds throughout the captures, with crashes between any
\* two of their steps.
THEOREM StoreInvariance == StoreSpec => []StoreInv
  BY InitStoreInv, NextStoreInv, PTL DEF StoreSpec

\* The calls and the directory are well typed.
THEOREM StoreTypeCorrect == StoreSpec => []StoreTypeOK
<1>1. StoreInv => StoreTypeOK
  BY SMTT(60) DEF StoreInv
<1> QED
  BY <1>1, StoreInvariance, PTL

\* A content-addressed name leads to the complete payload, after any crash.
THEOREM Completeness == StoreSpec => []PublishedIsComplete
<1>1. StoreInv => PublishedIsComplete
  BY SMTT(60) DEF StoreInv
<1> QED
  BY <1>1, StoreInvariance, PTL

\* One capture of a content at most reports it as newly stored.
THEOREM Deduplication == StoreSpec => []StoredOnce
<1>1. StoreInv => StoredOnce
  BY SMTT(60) DEF StoreInv
<1> QED
  BY <1>1, StoreInvariance, PTL

\* A capture that returns Ok leaves no staging file.
THEOREM NoStagingAfterOk == StoreSpec => []OkLeavesNoStaging
<1>1. StoreInv => OkLeavesNoStaging
  BY DEF StoreInv
<1> QED
  BY <1>1, StoreInvariance, PTL

\* Nothing but a crash removes or replaces a published payload.
THEOREM PublishedStays == StoreSpec => PublishedIsKept
<1>1. StoreInv /\ [StoreNext]_store_vars =>
        [\A d \in Contents :
           crashes' = crashes /\ published[d] # "absent" => published'[d] = published[d]]_store_vars
  BY
  DEF StoreInv, StoreTypeOK, StoreNext, store_vars, Crash, Step, Begin, Check, Create, Write, Sync,
      Discard, Link, LinkExists, LinkFails, Recheck, Cleanup, disk, history, fixed
<1> QED
  BY <1>1, StoreInvariance, PTL DEF StoreSpec, PublishedIsKept
----------------------------------------------------------------------------
\* One step of a call is a step of the store or changes nothing it shows.
LEMMA StoreStep ==
    ASSUME StoreInv, [StoreNext]_store_vars
    PROVE  [Store!Next]_(Store!storeVars)
<1> USE DEF CaptureStages, InProgress, FileStates, FullLength, Results, At, GoTo, NoReturn,
            disk, history, fixed
<1> DEFINE present == {d \in Contents : published[d] = "durable"}
<1>stutter. CASE UNCHANGED store_vars
  BY SMTT(60), <1>stutter DEF store_vars, Store!storeVars
<1>crash. CASE Crash
  <2>1. present' \subseteq present
    BY SMTT(60), <1>crash DEF Crash, Remains, StoreInv, StoreTypeOK, PublishedIsComplete
  <2> QED
    BY ZenonT(60), <1>crash, <2>1 DEF Crash, Store!Next, Store!Crash
<1>step. ASSUME NEW c \in Captures, Step(c) PROVE [Store!Next]_(Store!storeVars)
  <2>1. ASSUME NEW r \in {"not_enabled", "too_large", "stored", "duplicate", "error"},
               Return(c, r), result[c] = "none", UNCHANGED <<published, winners>>,
               r = "stored" => c \in winners,
               r = "duplicate" => published[Content[c]] = "durable" /\ c \notin winners,
               r \in {"not_enabled", "too_large"} => c \notin winners
        PROVE  [Store!Next]_(Store!storeVars)
    <3>1. Store!Answer(c)
      BY ZenonT(60), <2>1 DEF Return, Store!Answer
    <3> QED
      BY <3>1 DEF Store!Next
  <2>2. CASE UNCHANGED <<published, winners, result>>
    BY SMTT(60), <2>2 DEF Store!storeVars
  <2>3. CASE Begin(c)
    BY SMTT(60), <2>1, <2>2, <2>3 DEF Begin, StoreInv
  <2>4. CASE Check(c)
    BY SMTT(60), <2>1, <2>2, <2>4 DEF Check, StoreInv, PublishedIsComplete
  <2>5. CASE Create(c)
    BY SMTT(60), <2>1, <2>2, <2>5 DEF Create, StoreInv
  <2>6. CASE Discard(c)
    BY SMTT(60), <2>1, <2>6 DEF Discard, StoreInv
  <2>7. CASE Cleanup(c)
    BY SMTT(60), <2>1, <2>7 DEF Cleanup, StoreInv
  <2>8. CASE Link(c)
    <3>1. /\ result[c] = "none"
          /\ Content[c] \notin present
          /\ present' = present \cup {Content[c]}
          /\ winners' = winners \cup {c}
          /\ UNCHANGED result
      BY <2>8 DEF Link, StoreInv, StoreTypeOK
    <3> QED
      BY SMTT(60), <3>1 DEF Store!Next, Store!Add
  <2> QED
    BY SMTT(60), <1>step, <2>2, <2>3, <2>4, <2>5, <2>6, <2>7, <2>8
    DEF Step, Write, Sync, LinkExists, LinkFails, Recheck
<1> QED
  BY <1>stutter, <1>crash, <1>step DEF StoreNext

\* Staging and linking implement the store that adds a content in one step.
THEOREM StoreRefinement == StoreSpec => ImplementsContentStore
<1>1. StoreInit => Store!Init
  BY DEF StoreInit, Store!Init
<1>2. StoreInv /\ [StoreNext]_store_vars => [Store!Next]_(Store!storeVars)
  BY StoreStep
<1> QED
  BY <1>1, <1>2, StoreInvariance, PTL DEF StoreSpec, Store!Spec, ImplementsContentStore
=============================================================================
