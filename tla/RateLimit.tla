----------------------------- MODULE RateLimit -----------------------------
(***************************************************************************)
(* allow_request: a fixed window of requests per source, kept in one map   *)
(* that all connections share and that every call prunes.  A call runs     *)
(* under the map's lock, so it is one step; time passes between calls.     *)
(***************************************************************************)
EXTENDS Integers

CONSTANTS
    Addresses,      \* peer.ip() values
    MaxRequests,    \* limits.max_requests_per_minute_per_ip
    Window,         \* the 60 seconds of a window
    Retain,         \* the 120 seconds after which an entry is pruned
    MaxTime         \* bound on the clock

ASSUME RateAssumption ==
    /\ MaxRequests \in Nat
    /\ Window \in Nat \ {0}
    /\ Retain \in Nat
    /\ Retain >= Window
    /\ MaxTime \in Nat

VARIABLES
    now,        \* Instant::now()
    rates,      \* request_rates: a RateWindow for each source in the map
    limited,    \* metrics.rate_limit_events
    ideal,      \* history: each source's last window, never pruned (at first
                \* one that has run out)
    allowed     \* history: requests allowed to each source before each instant

rate_vars == <<now, rates, limited, ideal, allowed>>

RateWindow == [since: Int, count: Nat]
Instants == 0 .. MaxTime + 1
Entries(m) == DOMAIN m

----------------------------------------------------------------------------
(* Wrong variants of definitions below.                                    *)

\* The map is pruned of the entries that are still in force.
RetainedInverted == {ip \in Entries(rates) : now - rates[ip].since >= Retain}

\* Nothing is pruned.
RetainedAlways == Entries(rates)

\* > in place of >= against the limit.
FullOneLate(w) == w.count > MaxRequests

----------------------------------------------------------------------------
\* retain(|_, window| age < 120 s)
Retained == {ip \in Entries(rates) : now - rates[ip].since < Retain}

Expired(w) == now - w.since >= Window
Full(w) == w.count >= MaxRequests
Used(w) == [w EXCEPT !.count = @ + 1]
NewWindow == [since |-> now, count |-> 0]
----------------------------------------------------------------------------
RateInit ==
    /\ now = 0
    /\ rates = [ip \in {} |-> NewWindow]
    /\ limited = 0
    /\ ideal = [ip \in Addresses |-> [since |-> 0 - Window, count |-> 0]]
    /\ allowed = [ip \in Addresses |-> [t \in Instants |-> 0]]
----------------------------------------------------------------------------
\* or_insert, and a new window where the old one has run out.
WindowOf(ip) ==
    IF ip \in Retained /\ ~Expired(rates[ip]) THEN rates[ip] ELSE NewWindow

\* The same question asked of a map that is never pruned.
IdealWindowOf(ip) == IF Expired(ideal[ip]) THEN NewWindow ELSE ideal[ip]

Update(ip, w) ==
    rates' = [i \in Retained \cup {ip} |-> IF i = ip THEN w ELSE rates[i]]

Allow(ip) ==
    /\ ~Full(WindowOf(ip))
    /\ Update(ip, Used(WindowOf(ip)))
    /\ ideal' = [ideal EXCEPT ![ip] = Used(IdealWindowOf(ip))]
    /\ allowed' = [allowed EXCEPT ![ip] = [t \in Instants |-> IF t > now THEN @[t] + 1 ELSE @[t]]]
    /\ UNCHANGED <<now, limited>>

Deny(ip) ==
    /\ Full(WindowOf(ip))
    /\ Update(ip, WindowOf(ip))
    /\ ideal' = [ideal EXCEPT ![ip] = IdealWindowOf(ip)]
    /\ limited' = limited + 1
    /\ UNCHANGED <<now, allowed>>

Tick ==
    /\ now < MaxTime
    /\ now' = now + 1
    /\ UNCHANGED <<rates, limited, ideal, allowed>>

RateNext == Tick \/ \E ip \in Addresses : Allow(ip) \/ Deny(ip)

RateSpec == RateInit /\ [][RateNext]_rate_vars

\* The metric only grows; it is left out of the states that count as distinct.
View == <<now, rates, ideal, allowed>>
----------------------------------------------------------------------------
\* The values of the map and the clock.
RateTypeOK ==
    /\ now \in 0 .. MaxTime
    /\ Entries(rates) \subseteq Addresses
    /\ \A ip \in Entries(rates) : rates[ip] \in RateWindow
    /\ limited \in Nat
    /\ ideal \in [Addresses -> RateWindow]
    /\ allowed \in [Addresses -> [Instants -> Nat]]

\* Requests allowed at the instants s, s + 1, ..., t - 1.
Requests(ip, s, t) == allowed[ip][t] - allowed[ip][s]

\* A source never gets more than two windows' worth through in the length of
\* one window, wherever that stretch of time begins.
BurstBounded ==
    \A ip \in Addresses : \A t \in 0 .. MaxTime - Window + 1 :
        Requests(ip, t, t + Window) <= 2 * MaxRequests

\* Pruning is never visible: the answer to every source is the one that a map
\* without pruning, which other sources cannot touch, would give.
PruningInvisible ==
    \A ip \in Addresses : Full(WindowOf(ip)) <=> Full(IdealWindowOf(ip))

\* The map does not grow with the sources ever seen: the windows in it began within one retention
\* time of one another, whichever sources call and whichever fall silent.
MapIsBounded == \A i, j \in Entries(rates) : rates[i].since - rates[j].since < Retain
============================================================================
