---------------------------- MODULE EventProofs -----------------------------
(***************************************************************************)
(* Events: no event is unaccounted for, and the events tell the session.   *)
(*                                                                         *)
(* Telemetry, for any number of producers and events and any queue         *)
(* capacity: every event is accounted for, and the JSONL file has the      *)
(* events in order, all but those that an error of the file strikes.       *)
(*                                                                         *)
(* Semantic, for all statements, databases and logins, batches of any      *)
(* length and any number of requests: the events tell the session, and     *)
(* impersonation finds its way back.  What replaying a sequence of changes *)
(* gives is defined by recursion; that it can be taken one change at a     *)
(* time is shown by a least counterexample.                                *)
(***************************************************************************)
EXTENDS Telemetry, Semantic, FiniteSetTheorems, SequenceTheorems, WellFoundedInduction, TLAPS

(***************************************************************************)
(* The session                                                             *)
(***************************************************************************)

\* A set of numbers that is not empty has a least element.
LEMMA Least ==
    ASSUME NEW T, T \subseteq Nat, T # {}
    PROVE  \E m \in T : \A k \in T : m <= k
<1>1. PICK m \in T : \A k \in T : ~(<<k, m>> \in OpToRel(<, Nat))
  BY Zenon, WFMin, NatLessThanWellFounded
<1>2. ASSUME NEW k \in T, k < m PROVE FALSE
  <2>1. <<k, m>> \in Nat \X Nat
    BY Zenon
  <2>2. <<k, m>> \in OpToRel(<, Nat)
    BY Zenon, <1>2, <2>1 DEF OpToRel
  <2> QED
    BY Zenon, <1>1, <2>2
<1> QED
  BY <1>2

(***************************************************************************)
(* Replaying changes one after the other.                                  *)
(***************************************************************************)

\* What a reader knows after each of the first n changes.
IsTold(f, known, c, n) ==
    f = [i \in 0..n |-> IF i = 0 THEN known ELSE Replay(f[i - 1], c[i])]

Told(known, c, n) == CHOOSE f : IsTold(f, known, c, n)

\* One change more.
LEMMA ToldStep ==
    ASSUME NEW known, NEW c, NEW n \in Nat, NEW f, IsTold(f, known, c, n)
    PROVE  \E g : IsTold(g, known, c, n + 1)
<1> DEFINE r(x, e) == Replay(x, e)
<1> HIDE DEF r
<1>1. f = [i \in 0..n |-> IF i = 0 THEN known ELSE r(f[i - 1], c[i])]
  BY Zenon DEF r, IsTold
<1> DEFINE g == [i \in 0..(n + 1) |-> IF i = n + 1 THEN r(f[n], c[n + 1]) ELSE f[i]]
<1>2. ASSUME NEW i \in 0..(n + 1)
      PROVE  g[i] = IF i = 0 THEN known ELSE r(g[i - 1], c[i])
  <2>1. CASE i = n + 1
    BY SMTT(60), <1>2, <2>1
  <2>2. CASE i # n + 1
    BY SMTT(60), <1>1, <1>2, <2>2
  <2> QED
    BY Zenon, <2>1, <2>2
<1>3. g = [i \in 0..(n + 1) |-> IF i = 0 THEN known ELSE r(g[i - 1], c[i])]
  BY Zenon, <1>2
<1> HIDE DEF g
<1>4. IsTold(g, known, c, n + 1)
  BY Zenon, <1>3 DEF r, IsTold
<1> QED
  BY Zenon, <1>4

\* Replaying is defined for any number of changes.
LEMMA ToldIs ==
    ASSUME NEW known, NEW c, NEW n \in Nat
    PROVE  IsTold(Told(known, c, n), known, c, n)
<1> DEFINE Bad == {m \in Nat : ~\E f : IsTold(f, known, c, m)}
<1>1. ASSUME Bad # {} PROVE FALSE
  <2>1. PICK m \in Bad : \A k \in Bad : m <= k
    <3>1. Bad \subseteq Nat
      BY Zenon
    <3> HIDE DEF Bad
    <3> QED
      BY Zenon, <1>1, <3>1, Least
  <2>2. CASE m = 0
    <3> DEFINE g == [i \in 0..0 |-> known]
    <3>1. \A i \in 0..0 : i = 0
      OBVIOUS
    <3>2. g = [i \in 0..0 |-> IF i = 0 THEN known ELSE Replay(g[i - 1], c[i])]
      BY Zenon, <3>1
    <3> HIDE DEF g
    <3>3. IsTold(g, known, c, 0)
      BY Zenon, <3>2 DEF IsTold
    <3> QED
      BY Zenon, <2>2, <3>3
  <2>3. CASE m # 0
    <3>1. m - 1 \in Nat /\ (m - 1) + 1 = m /\ ~(m <= m - 1)
      BY SMTT(60), <2>1, <2>3
    <3>2. m - 1 \notin Bad
      BY Zenon, <2>1, <3>1
    <3>3. PICK f : IsTold(f, known, c, m - 1)
      BY Zenon, <3>1, <3>2
    <3>4. \E g : IsTold(g, known, c, (m - 1) + 1)
      BY Zenon, <3>1, <3>3, ToldStep
    <3> QED
      BY Zenon, <3>1, <3>4
  <2> QED
    BY Zenon, <2>2, <2>3
<1>2. \E f : IsTold(f, known, c, n)
  BY Zenon, <1>1
<1> QED
  BY Zenon, <1>2 DEF Told

\* The changes behind do not matter to what is known before them.
LEMMA ToldSame ==
    ASSUME NEW known, NEW c, NEW d, NEW n \in Nat, NEW m \in Nat, n <= m,
           \A i \in 1..n : c[i] = d[i]
    PROVE  \A i \in 0..n : Told(known, c, n)[i] = Told(known, d, m)[i]
<1> DEFINE f == Told(known, c, n)
           g == Told(known, d, m)
           r(x, e) == Replay(x, e)
<1>1. IsTold(f, known, c, n) /\ IsTold(g, known, d, m)
  BY Zenon, ToldIs
<1> HIDE DEF f, g, r
<1>2. /\ f = [i \in 0..n |-> IF i = 0 THEN known ELSE r(f[i - 1], c[i])]
      /\ g = [i \in 0..m |-> IF i = 0 THEN known ELSE r(g[i - 1], d[i])]
  BY Zenon, <1>1 DEF IsTold, r
<1>3. /\ \A i \in 0..n : f[i] = IF i = 0 THEN known ELSE r(f[i - 1], c[i])
      /\ \A i \in 0..m : g[i] = IF i = 0 THEN known ELSE r(g[i - 1], d[i])
  BY Zenon, <1>2
<1> DEFINE Bad == {i \in 0..n : f[i] # g[i]}
<1>4. ASSUME Bad # {} PROVE FALSE
  <2>1. Bad \subseteq Nat
    OBVIOUS
  <2>2. PICK i \in Bad : \A k \in Bad : i <= k
    <3> HIDE DEF Bad
    <3> QED
      BY Zenon, <1>4, <2>1, Least
  <2>3. i \in 0..n /\ i \in 0..m /\ f[i] # g[i]
    BY SMTT(60), <2>2
  <2>4. i # 0
    BY Zenon, <1>3, <2>3
  <2>5. i \in 1..n /\ i - 1 \in 0..n /\ ~(i <= i - 1)
    BY SMTT(60), <2>3, <2>4
  <2>6. f[i - 1] = g[i - 1]
    BY Zenon, <2>2, <2>5
  <2> QED
    BY Zenon, <1>3, <2>3, <2>4, <2>5, <2>6
<1> QED
  BY Zenon, <1>4 DEF f, g

\* No changes tell nothing new.
LEMMA ReplaysNone ==
    ASSUME NEW known
    PROVE  Replays(known, <<>>) = known
<1> DEFINE f == Told(known, <<>>, 0)
<1>1. Replays(known, <<>>) = Told(known, <<>>, Len(<<>>))[Len(<<>>)]
  BY Zenon DEF Replays, Told, IsTold
<1>2. Len(<<>>) = 0 /\ 0 \in Nat /\ 0 \in 0..0
  OBVIOUS
<1>3. IsTold(f, known, <<>>, 0)
  BY Zenon, <1>2, ToldIs
<1> HIDE DEF f
<1>4. f[0] = known
  BY Zenon, <1>2, <1>3 DEF IsTold
<1> QED
  BY Zenon, <1>1, <1>2, <1>4 DEF f

\* One change behind others is told last.
LEMMA ReplaysMore ==
    ASSUME NEW known, NEW S, NEW c \in Seq(S), NEW e
    PROVE  Replays(known, c \o <<e>>) = Replay(Replays(known, c), e)
<1> DEFINE d == c \o <<e>>
           n == Len(c)
           m == n + 1
           f == Told(known, c, n)
           g == Told(known, d, m)
<1>1. /\ n \in Nat /\ m \in Nat /\ n <= m
      /\ Len(d) = m /\ d[m] = e /\ \A i \in 1..n : c[i] = d[i]
  <2>1. c \in Seq(S \cup {e}) /\ <<e>> \in Seq(S \cup {e}) /\ Len(<<e>>) = 1 /\ <<e>>[1] = e
    BY SMTT(60), SeqMonotonic
  <2> QED
    BY SMTT(60), <2>1, ConcatProperties, LenProperties
<1>2. Replays(known, c) = f[n] /\ Replays(known, d) = Told(known, d, Len(d))[Len(d)]
  BY Zenon DEF Replays, Told, IsTold
<1>3. m \in 0..m /\ m # 0 /\ m - 1 = n /\ n \in 0..n
  BY SMTT(60), <1>1
<1> HIDE DEF d, n, m
<1>4. \A i \in 0..n : Told(known, c, n)[i] = Told(known, d, m)[i]
  BY ONLY SMTT(60), <1>1, ToldSame
<1>5. IsTold(g, known, d, m)
  BY Zenon, <1>1, ToldIs
<1> HIDE DEF f, g
<1>6. g[m] = Replay(g[m - 1], d[m])
  BY Zenon, <1>3, <1>5 DEF IsTold
<1>7. Replays(known, d) = g[m]
  BY Zenon, <1>1, <1>2 DEF g
<1>8. f[n] = g[n]
  BY Zenon, <1>3, <1>4 DEF f, g
<1>9. g[m] = Replay(f[n], e)
  BY Zenon, <1>1, <1>3, <1>6, <1>8
<1> QED
  BY Zenon, <1>2, <1>7, <1>9 DEF d

(***************************************************************************)
(* What is left of a sequence: the statements of the calls that are to be  *)
(* executed, the objects that events report.                               *)
(***************************************************************************)

\* What is left of the first n items, for each n.
IsFirst(f, items, skipped, n) ==
    f = [i \in 0..n |-> IF i = 0 THEN <<>>
                        ELSE IF i \in skipped THEN f[i - 1]
                        ELSE Append(f[i - 1], items[i])]

First(items, skipped, n) == CHOOSE f : IsFirst(f, items, skipped, n)

\* One item more.
LEMMA FirstStep ==
    ASSUME NEW items, NEW skipped, NEW n \in Nat, NEW f, IsFirst(f, items, skipped, n)
    PROVE  \E g : IsFirst(g, items, skipped, n + 1)
<1> DEFINE r(x, i) == IF i \in skipped THEN x ELSE Append(x, items[i])
<1> HIDE DEF r
<1>1. f = [i \in 0..n |-> IF i = 0 THEN <<>> ELSE r(f[i - 1], i)]
  BY Zenon DEF r, IsFirst
<1> DEFINE g == [i \in 0..(n + 1) |-> IF i = n + 1 THEN r(f[n], n + 1) ELSE f[i]]
<1>2. ASSUME NEW i \in 0..(n + 1)
      PROVE  g[i] = IF i = 0 THEN <<>> ELSE r(g[i - 1], i)
  <2>1. CASE i = n + 1
    BY <1>2, <2>1
  <2>2. CASE i # n + 1
    BY <1>1, <1>2, <2>2
  <2> QED
    BY Zenon, <2>1, <2>2
<1>3. g = [i \in 0..(n + 1) |-> IF i = 0 THEN <<>> ELSE r(g[i - 1], i)]
  BY Zenon, <1>2
<1> HIDE DEF g
<1>4. IsFirst(g, items, skipped, n + 1)
  BY Zenon, <1>3 DEF r, IsFirst
<1> QED
  BY Zenon, <1>4

\* It is defined for any number of items.
LEMMA FirstIs ==
    ASSUME NEW items, NEW skipped, NEW n \in Nat
    PROVE  IsFirst(First(items, skipped, n), items, skipped, n)
<1> DEFINE Bad == {m \in Nat : ~\E f : IsFirst(f, items, skipped, m)}
<1>1. ASSUME Bad # {} PROVE FALSE
  <2>1. PICK m \in Bad : \A k \in Bad : m <= k
    <3>1. Bad \subseteq Nat
      BY Zenon
    <3> HIDE DEF Bad
    <3> QED
      BY Zenon, <1>1, <3>1, Least
  <2>2. CASE m = 0
    <3> DEFINE g == [i \in 0..0 |-> <<>>]
    <3>1. \A i \in 0..0 : i = 0
      OBVIOUS
    <3>2. IsFirst(g, items, skipped, 0)
      BY Zenon, <3>1 DEF IsFirst
    <3> QED
      BY Zenon, <2>2, <3>2
  <2>3. CASE m # 0
    <3>1. m - 1 \in Nat /\ (m - 1) + 1 = m /\ ~(m <= m - 1)
      BY SMTT(60), <2>1, <2>3
    <3>2. m - 1 \notin Bad
      BY Zenon, <2>1, <3>1
    <3>3. PICK f : IsFirst(f, items, skipped, m - 1)
      BY Zenon, <3>1, <3>2
    <3>4. \E g : IsFirst(g, items, skipped, (m - 1) + 1)
      BY Zenon, <3>1, <3>3, FirstStep
    <3> QED
      BY Zenon, <3>1, <3>4
  <2> QED
    BY Zenon, <2>2, <2>3
<1>2. \E f : IsFirst(f, items, skipped, n)
  BY Zenon, <1>1
<1> QED
  BY Zenon, <1>2 DEF First

\* The items behind do not matter to what is left of those before them.
LEMMA FirstSame ==
    ASSUME NEW c, NEW d, NEW a, NEW b, NEW n \in Nat, NEW m \in Nat, n <= m,
           \A i \in 1..n : c[i] = d[i] /\ (i \in a <=> i \in b)
    PROVE  \A i \in 0..n : First(c, a, n)[i] = First(d, b, m)[i]
<1> DEFINE f == First(c, a, n)
           g == First(d, b, m)
           p(x, i) == IF i \in a THEN x ELSE Append(x, c[i])
           q(x, i) == IF i \in b THEN x ELSE Append(x, d[i])
<1>1. IsFirst(f, c, a, n) /\ IsFirst(g, d, b, m)
  BY Zenon, FirstIs
<1>2. \A x : \A i \in 1..n : p(x, i) = q(x, i)
  BY Zenon
<1> HIDE DEF f, g, p, q
<1>3. /\ f = [i \in 0..n |-> IF i = 0 THEN <<>> ELSE p(f[i - 1], i)]
      /\ g = [i \in 0..m |-> IF i = 0 THEN <<>> ELSE q(g[i - 1], i)]
  BY Zenon, <1>1 DEF IsFirst, p, q
<1>4. /\ \A i \in 0..n : f[i] = IF i = 0 THEN <<>> ELSE p(f[i - 1], i)
      /\ \A i \in 0..m : g[i] = IF i = 0 THEN <<>> ELSE q(g[i - 1], i)
  BY Zenon, <1>3
<1> DEFINE Bad == {i \in 0..n : f[i] # g[i]}
<1>5. ASSUME Bad # {} PROVE FALSE
  <2>1. Bad \subseteq Nat
    OBVIOUS
  <2>2. PICK i \in Bad : \A k \in Bad : i <= k
    <3> HIDE DEF Bad
    <3> QED
      BY Zenon, <1>5, <2>1, Least
  <2>3. i \in 0..n /\ i \in 0..m /\ f[i] # g[i]
    BY SMTT(60), <2>2
  <2>4. i # 0
    BY Zenon, <1>4, <2>3
  <2>5. i \in 1..n /\ i - 1 \in 0..n /\ ~(i <= i - 1)
    BY SMTT(60), <2>3, <2>4
  <2>6. f[i - 1] = g[i - 1]
    BY Zenon, <2>2, <2>5
  <2> QED
    BY Zenon, <1>2, <1>4, <2>3, <2>4, <2>5, <2>6
<1> QED
  BY Zenon, <1>5 DEF f, g

\* What is left of a sequence is a sequence of the same.
LEMMA WithoutTyped ==
    ASSUME NEW S, NEW items \in Seq(S), NEW skipped
    PROVE  Without(items, skipped) \in Seq(S)
<1> DEFINE n == Len(items)
           f == First(items, skipped, n)
           B == Seq(S)
<1>1. n \in Nat /\ \A i \in 1..n : items[i] \in S
  BY Zenon, LenProperties, ElementOfSeq
<1>2. Without(items, skipped) = f[n]
  BY Zenon DEF Without, First, IsFirst
<1>3. <<>> \in B /\ \A b \in B, s \in S : Append(b, s) \in B
  BY Zenon, EmptySeq, AppendProperties
<1>4. IsFirst(f, items, skipped, n)
  BY Zenon, <1>1, FirstIs
<1> HIDE DEF n, f, B
<1>5. \A i \in 0..n : f[i] = IF i = 0 THEN <<>>
                             ELSE IF i \in skipped THEN f[i - 1]
                             ELSE Append(f[i - 1], items[i])
  BY Zenon, <1>4 DEF IsFirst
<1> DEFINE Bad == {i \in 0..n : f[i] \notin B}
<1>6. ASSUME Bad # {} PROVE FALSE
  <2>1. Bad \subseteq Nat
    OBVIOUS
  <2>2. PICK i \in Bad : \A k \in Bad : i <= k
    <3> HIDE DEF Bad
    <3> QED
      BY Zenon, <1>6, <2>1, Least
  <2>3. i \in 0..n /\ f[i] \notin B
    BY Zenon, <2>2
  <2>4. i # 0
    BY Zenon, <1>3, <1>5, <2>3
  <2>5. i \in 1..n /\ i - 1 \in 0..n /\ ~(i <= i - 1)
    BY SMTT(60), <1>1, <2>3, <2>4
  <2>6. f[i - 1] \in B
    BY Zenon, <2>2, <2>5
  <2> QED
    BY ZenonT(60), <1>1, <1>3, <1>5, <2>3, <2>4, <2>5, <2>6
<1>7. n \in 0..n
  BY SMTT(60), <1>1
<1> QED
  BY Zenon, <1>2, <1>6, <1>7 DEF B

Calls == [statement : Statements, no_execute : BOOLEAN]

\* What handle_rpc executes is a batch of statements.
LEMMA ExecutedBatch ==
    ASSUME NEW rpcs \in Seq(Calls)
    PROVE  Executed(rpcs) \in Seq(Statements)
<1> DEFINE items == [i \in 1..Len(rpcs) |-> rpcs[i].statement]
<1>1. Len(rpcs) \in Nat /\ \A i \in 1..Len(rpcs) : rpcs[i].statement \in Statements
  <2>1. Len(rpcs) \in Nat /\ \A i \in 1..Len(rpcs) : rpcs[i] \in Calls
    BY Zenon, LenProperties, ElementOfSeq
  <2>2. \A x \in Calls : x.statement \in Statements
    BY Zenon DEF Calls
  <2> QED
    BY Zenon, <2>1, <2>2
<1>2. items \in [1..Len(rpcs) -> Statements]
  BY Zenon, <1>1
<1>3. items \in Seq(Statements)
  <2> HIDE DEF items
  <2> QED
    BY <1>1, <1>2, SeqDef
<1> QED
  BY Zenon, <1>3, WithoutTyped DEF Executed

\* One object more is reported, unless it has the name that change takes for none.
LEMMA ReportableMore ==
    ASSUME NEW S, NEW c \in Seq(S), NEW e \in S
    PROVE  Reportable(Append(c, e)) =
             IF e[2] = "absent" THEN Reportable(c) ELSE Append(Reportable(c), e)
<1> DEFINE d == Append(c, e)
           n == Len(c)
           m == n + 1
           a == {i \in 1..n : c[i][2] = "absent"}
           b == {i \in 1..m : d[i][2] = "absent"}
           f == First(c, a, n)
           g == First(d, b, m)
<1>1. n \in Nat /\ Len(d) = m /\ d[m] = e /\ \A i \in 1..n : c[i] = d[i]
  BY SMTT(60), AppendProperties, LenProperties
<1>2. /\ m \in Nat /\ n <= m /\ m \in 0..m /\ m \in 1..m /\ m # 0 /\ m - 1 = n /\ n \in 0..n
      /\ \A i \in 1..n : i \in 1..m
  BY SMTT(60), <1>1
<1>3. \A i \in 1..n : i \in a <=> i \in b
  BY Zenon, <1>1, <1>2
<1>4. m \in b <=> e[2] = "absent"
  BY Zenon, <1>1, <1>2
<1>5. Reportable(c) = f[n]
  BY Zenon DEF Reportable, Without, First, IsFirst
<1>6. Reportable(d) = First(d, {i \in 1..Len(d) : d[i][2] = "absent"}, Len(d))[Len(d)]
  BY Zenon DEF Reportable, Without, First, IsFirst
<1>7. Reportable(d) = g[m]
  BY Zenon, <1>1, <1>6
<1>8. f[n] = g[n]
  <2> HIDE DEF a, b, d, n, m
  <2>1. \A i \in 0..n : First(c, a, n)[i] = First(d, b, m)[i]
    BY ONLY SMTT(60), <1>1, <1>2, <1>3, FirstSame
  <2> QED
    BY Zenon, <1>2, <2>1
<1>9. IsFirst(g, d, b, m)
  BY Zenon, <1>2, FirstIs
<1> HIDE DEF a, b, f, g, d, n, m
<1>10. g[m] = IF m \in b THEN g[m - 1] ELSE Append(g[m - 1], d[m])
  BY Zenon, <1>2, <1>9 DEF IsFirst
<1>11. g[m] = IF e[2] = "absent" THEN f[n] ELSE Append(f[n], e)
  BY Zenon, <1>1, <1>2, <1>4, <1>8, <1>10
<1> QED
  BY Zenon, <1>5, <1>7, <1>11 DEF d

(***************************************************************************)
(* The session and what is told of it.                                     *)
(***************************************************************************)

\* The fields of SessionState and of Outcome.
IsSession(s) ==
    s = [current_database |-> s.current_database, effective_login |-> s.effective_login,
         transaction_depth |-> s.transaction_depth, enabled |-> s.enabled,
         synthetic |-> s.synthetic, impersonation_stack |-> s.impersonation_stack]
IsOutcome(o) ==
    o = [classification |-> o.classification, changes |-> o.changes, results |-> o.results,
         error |-> o.error, payload |-> o.payload]

SessionInv ==
    /\ IsSession(session) /\ IsOutcome(outcome)
    /\ batch \in Seq(Statements)
    /\ outcome.changes \in Seq(Range(outcome.changes))
    /\ session.enabled \in [Options -> BOOLEAN]
    /\ session.impersonation_stack \in Seq(Range(session.impersonation_stack))
    /\ session.synthetic \in Seq(Range(session.synthetic))
    /\ ~busy => outcome.changes = <<>>
    /\ EventsTellSession /\ IdentityUnwinds

\* A change of one field is told by its entry.
LEMMA ReplayDatabase ==
    ASSUME NEW s, NEW o, NEW v
    PROVE  Replay(Reported(s), [property |-> "current_database", old |-> o, new |-> v])
             = [Reported(s) EXCEPT !.current_database = v]
  BY Zenon DEF Replay, Reported, Options

\* The same, of the login.
LEMMA ReplayLogin ==
    ASSUME NEW s, NEW o, NEW v
    PROVE  Replay(Reported(s), [property |-> "effective_login", old |-> o, new |-> v])
             = [Reported(s) EXCEPT !.effective_login = v]
  BY Zenon DEF Replay, Reported, Options

\* The same, of the transaction depth.
LEMMA ReplayDepth ==
    ASSUME NEW s, NEW o, NEW v
    PROVE  Replay(Reported(s), [property |-> "transaction_depth", old |-> o, new |-> v])
             = [Reported(s) EXCEPT !.transaction_depth = v]
  BY Zenon DEF Replay, Reported, Options

\* The same, of an option.
LEMMA ReplayOption ==
    ASSUME NEW s, NEW p \in Options, NEW o, NEW v
    PROVE  Replay(Reported(s), [property |-> p, old |-> o, new |-> v])
             = [Reported(s) EXCEPT !.enabled = [s.enabled EXCEPT ![p] = v]]
<1> DEFINE e == [property |-> p, old |-> o, new |-> v]
           k == Reported(s)
<1>1. e.property = p /\ e.new = v /\ k.enabled = s.enabled
  BY Zenon DEF Reported
<1>2. Replay(k, e) = [k EXCEPT !.enabled[p] = v]
  <2> HIDE DEF k, e
  <2> DEFINE P == e.property
             n == e.new
             one == [k EXCEPT !.enabled[P] = n]
             two == [k EXCEPT !.synthetic = Append(@, <<P, n>>)]
             three == [k EXCEPT ![P] = n]
  <2>1. Replay(k, e) =
          CASE P \in Options -> one
            [] P \in {"synthetic_login", "synthetic_assembly", "synthetic_job"} -> two
            [] OTHER -> three
    BY Zenon DEF Replay
  <2>2. P \in Options /\ P \notin {"synthetic_login", "synthetic_assembly", "synthetic_job"}
    BY Zenon, <1>1 DEF Options
  <2> HIDE DEF one, two, three
  <2>3. Replay(k, e) = one
    BY Zenon, <2>1, <2>2
  <2> QED
    BY Zenon, <1>1, <2>3 DEF one
<1>3. [k EXCEPT !.enabled[p] = v] = [k EXCEPT !.enabled = [k.enabled EXCEPT ![p] = v]]
  BY Zenon
<1> HIDE DEF e, k
<1> QED
  BY Zenon, <1>1, <1>2, <1>3 DEF e, k

Kinds == {"synthetic_login", "synthetic_assembly", "synthetic_job"}

\* The same, of a login, an assembly or a job.
LEMMA ReplayObject ==
    ASSUME NEW s, NEW k \in Kinds, NEW o, NEW v
    PROVE  Replay(Reported(s), [property |-> k, old |-> o, new |-> v])
             = [Reported(s) EXCEPT !.synthetic = Append(Reportable(s.synthetic), <<k, v>>)]
  BY Zenon DEF Replay, Reported, Options, Kinds

\* What is not changed needs no entry.
LEMMA TellsNothing ==
    ASSUME SessionInv, outcome'.changes = outcome.changes, replayed' = replayed,
           Reported(session') = Reported(session)
    PROVE  /\ Replays(replayed', outcome'.changes) = Reported(session')
           /\ outcome'.changes \in Seq(Range(outcome'.changes))
  BY Zenon DEF SessionInv, EventsTellSession

\* An entry is appended for what is changed.
LEMMA TellsChange ==
    ASSUME SessionInv, NEW p, NEW old, NEW new,
           outcome'.changes = outcome.changes \o Change(p, old, new), replayed' = replayed,
           old = new => Reported(session') = Reported(session),
           old # new => Reported(session') =
                          Replay(Reported(session), [property |-> p, old |-> old, new |-> new])
    PROVE  /\ Replays(replayed', outcome'.changes) = Reported(session')
           /\ outcome'.changes \in Seq(Range(outcome'.changes))
<1> DEFINE c == outcome.changes
           d == outcome'.changes
           S == Range(c)
           e == [property |-> p, old |-> old, new |-> new]
<1>1. c \in Seq(S) /\ Replays(replayed, c) = Reported(session)
  BY Zenon DEF SessionInv, EventsTellSession
<1>2. CASE old = new
  <2>1. d = c \o <<>>
    BY Zenon, <1>2 DEF Change
  <2>2. d = c
    BY SMTT(60), <1>1, <2>1, ConcatEmptySeq
  <2> QED
    BY SMTT(60), <1>2, <2>2, TellsNothing
<1>3. CASE old # new
  <2>1. d = c \o <<e>>
    BY Zenon, <1>3 DEF Change
  <2> HIDE DEF c, d, S, e
  <2>2. Replays(replayed, d) = Replay(Replays(replayed, c), e)
    BY ONLY ZenonT(60), <1>1, <2>1, ReplaysMore
  <2>3. Reported(session') = Replay(Reported(session), e)
    BY Zenon, <1>3 DEF e
  <2>4. Replays(replayed, d) = Reported(session')
    BY Zenon, <1>1, <2>2, <2>3
  <2>5. d \in Seq(S \cup {e})
    <3>1. c \in Seq(S \cup {e}) /\ <<e>> \in Seq(S \cup {e})
      BY SMTT(60), <1>1, SeqMonotonic
    <3> QED
      BY Zenon, <2>1, <3>1, ConcatProperties
  <2>6. d \in Seq(Range(d))
    BY Zenon, <2>5, SeqOfRange
  <2> QED
    BY Zenon, <2>4, <2>6 DEF d
<1> QED
  BY Zenon, <1>2, <1>3

\* handle_sql goes on or breaks off.
LEMMA AdvanceBatch ==
    ASSUME SessionInv, batch # <<>>, NEW stops, Advance(stops)
    PROVE  batch' \in Seq(Statements)
  BY Zenon, HeadTailProperties, EmptySeq DEF SessionInv, Advance

\* A statement at the head of a batch is one of the statements.
LEMMA HeadStatement ==
    ASSUME SessionInv, NEW t, Is(t)
    PROVE  Head(batch) \in Statements /\ batch # <<>> /\ busy
  BY Zenon, HeadTailProperties DEF SessionInv, Is

\* A result or an error leaves the session alone.
LEMMA ResultsKeep ==
    ASSUME SessionInv, NEW t, Is(t), NEW r, Results(r) \/ Fails
    PROVE  SessionInv'
<1>1. /\ session' = session /\ UNCHANGED <<replayed, busy>> /\ busy
      /\ batch' \in Seq(Statements)
  BY Zenon, HeadStatement, AdvanceBatch DEF Results, Fails, reports, control
<1>2. outcome'.changes = outcome.changes /\ IsOutcome(outcome')
  BY Zenon DEF SessionInv, IsOutcome, Results, Fails
<1>3. /\ Replays(replayed', outcome'.changes) = Reported(session')
      /\ outcome'.changes \in Seq(Range(outcome'.changes))
  BY Zenon, <1>1, <1>2, TellsNothing
<1> QED
  BY Zenon, <1>1, <1>2, <1>3 DEF SessionInv, EventsTellSession, IdentityUnwinds

\* The outcome and the batch after a statement that sets a field.
LEMMA SetsOutcome ==
    ASSUME SessionInv, NEW t, Is(t), NEW f, NEW v, Sets(f, v)
    PROVE  /\ outcome'.changes = outcome.changes \o Change(f, session[f], v)
           /\ IsOutcome(outcome') /\ batch' \in Seq(Statements)
           /\ UNCHANGED <<replayed, busy>> /\ busy
<1>1. batch' \in Seq(Statements) /\ busy
  BY Zenon, HeadStatement, AdvanceBatch DEF Sets
<1> DEFINE c == Change(f, session[f], v)
<1> HIDE DEF c
<1>2. outcome' = [outcome EXCEPT !.changes = @ \o c]
  BY Zenon DEF Sets, c
<1>3. outcome'.changes = outcome.changes \o c /\ IsOutcome(outcome')
  BY Zenon, <1>2 DEF SessionInv, IsOutcome
<1> QED
  BY Zenon, <1>1, <1>3 DEF Sets, reports, control, c

\* USE
LEMMA UseKeeps ==
    ASSUME SessionInv, Use
    PROVE  SessionInv'
<1>1. Is("USE")
  BY Zenon DEF Use
<1>2. CASE Fails
  BY <1>1, <1>2, ResultsKeep
<1> DEFINE v == Head(batch).word
<1> HIDE DEF v
<1>3. CASE Sets("current_database", v) /\ session' = [session EXCEPT !.current_database = v]
  <2>1. IsSession(session)
    BY Zenon DEF SessionInv
  <2>2. /\ IsSession(session') /\ session'.current_database = v
        /\ session'.effective_login = session.effective_login
        /\ session'.transaction_depth = session.transaction_depth
        /\ session'.enabled = session.enabled /\ session'.synthetic = session.synthetic
        /\ session'.impersonation_stack = session.impersonation_stack
    BY Zenon, <1>3, <2>1 DEF IsSession
  <2>3. /\ outcome'.changes =
             outcome.changes \o Change("current_database", session.current_database, v)
        /\ IsOutcome(outcome') /\ batch' \in Seq(Statements)
        /\ UNCHANGED <<replayed, busy>> /\ busy
    BY ZenonT(60), <1>1, <1>3, SetsOutcome
  <2>4. session.current_database = v => Reported(session') = Reported(session)
    BY Zenon, <2>2 DEF Reported
  <2>5. Reported(session') = Replay(Reported(session),
          [property |-> "current_database", old |-> session.current_database, new |-> v])
    <3>1. Reported(session') = [Reported(session) EXCEPT !.current_database = v]
      BY ONLY SMTT(60), <2>2 DEF Reported
    <3> QED
      BY ONLY Zenon, <3>1, ReplayDatabase
  <2>6. /\ Replays(replayed', outcome'.changes) = Reported(session')
        /\ outcome'.changes \in Seq(Range(outcome'.changes))
    BY Zenon, <2>3, <2>4, <2>5, TellsChange
  <2> QED
    BY <2>2, <2>3, <2>6 DEF SessionInv, EventsTellSession, IdentityUnwinds
<1> QED
  BY Zenon, <1>2, <1>3 DEF Use, v

\* BEGIN TRAN, COMMIT and ROLLBACK
LEMMA DepthKeeps ==
    ASSUME SessionInv, NEW t, Is(t), NEW d \in 0..DepthMax, SetDepth(d)
    PROVE  SessionInv'
<1>1. Sets("transaction_depth", d) /\ session' = [session EXCEPT !.transaction_depth = d]
  BY Zenon DEF SetDepth
<1>2. IsSession(session)
  BY Zenon DEF SessionInv
<1>3. /\ IsSession(session') /\ session'.transaction_depth = d
      /\ session'.current_database = session.current_database
      /\ session'.effective_login = session.effective_login
      /\ session'.enabled = session.enabled /\ session'.synthetic = session.synthetic
      /\ session'.impersonation_stack = session.impersonation_stack
  BY Zenon, <1>1, <1>2 DEF IsSession
<1>4. /\ outcome'.changes =
           outcome.changes \o Change("transaction_depth", session.transaction_depth, d)
      /\ IsOutcome(outcome') /\ batch' \in Seq(Statements)
      /\ UNCHANGED <<replayed, busy>> /\ busy
  BY Zenon, <1>1, SetsOutcome
<1>5. session.transaction_depth = d => Reported(session') = Reported(session)
  BY Zenon, <1>3 DEF Reported
<1>6. Reported(session') = Replay(Reported(session),
        [property |-> "transaction_depth", old |-> session.transaction_depth, new |-> d])
  <2>1. Reported(session') = [Reported(session) EXCEPT !.transaction_depth = d]
    BY ONLY <1>3 DEF Reported
  <2> QED
    BY ONLY Zenon, <2>1, ReplayDepth
<1>7. /\ Replays(replayed', outcome'.changes) = Reported(session')
      /\ outcome'.changes \in Seq(Range(outcome'.changes))
  BY Zenon, <1>4, <1>5, <1>6, TellsChange
<1> QED
  BY Zenon, <1>3, <1>4, <1>7 DEF SessionInv, EventsTellSession, IdentityUnwinds

\* The depth saturates at both ends.
LEMMA TransactionsKeep ==
    ASSUME SessionInv, BeginTran \/ Commit \/ Rollback
    PROVE  SessionInv'
<1>1. DepthMax \in Nat /\ session.transaction_depth \in 0..DepthMax
  BY Zenon, SemanticAssumption DEF SessionInv, EventsTellSession
<1> DEFINE k == session.transaction_depth
           up == IF k = DepthMax THEN DepthMax ELSE k + 1
           down == IF k = 0 THEN 0 ELSE k - 1
<1>2. up \in 0..DepthMax /\ down \in 0..DepthMax /\ 0 \in 0..DepthMax
  BY <1>1
<1>3. CASE BeginTran
  <2>1. Is("BEGIN TRAN") /\ SetDepth(up)
    BY Zenon, <1>3 DEF BeginTran
  <2> HIDE DEF up
  <2> QED
    BY Zenon, <1>2, <2>1, DepthKeeps
<1>4. CASE Commit
  <2>1. Is("COMMIT") /\ SetDepth(down)
    BY Zenon, <1>4 DEF Commit
  <2> HIDE DEF down
  <2> QED
    BY Zenon, <1>2, <2>1, DepthKeeps
<1>5. CASE Rollback
  BY Zenon, <1>2, <1>5, DepthKeeps DEF Rollback
<1> QED
  BY Zenon, <1>3, <1>4, <1>5

\* An identity on top of the stack does not hide the lowest.
LEMMA Push ==
    ASSUME NEW S, NEW st \in Seq(S), NEW x
    PROVE  /\ Append(st, x) \in Seq(Range(Append(st, x))) /\ Append(st, x) # <<>>
           /\ st = <<>> => Head(Append(st, x)) = x
           /\ st # <<>> => Head(Append(st, x)) = Head(st)
<1> DEFINE T == S \cup {x}
           a == Append(st, x)
<1>1. st \in Seq(T) /\ x \in T
  BY Zenon, SeqMonotonic
<1> HIDE DEF T
<1>2. a \in Seq(T) /\ a # <<>> /\ Len(a) = Len(st) + 1 /\ Head(a) = a[1]
      /\ Len(st) \in Nat /\ a[Len(st) + 1] = x /\ \A i \in 1..Len(st) : a[i] = st[i]
  BY SMTT(60), <1>1, AppendProperties
<1>3. a \in Seq(Range(a))
  BY Zenon, <1>2, SeqOfRange
<1>4. st = <<>> => Head(a) = x
  BY SMTT(60), <1>2
<1>5. st # <<>> => Head(a) = Head(st)
  <2>1. st # <<>> => Len(st) # 0 /\ Head(st) = st[1]
    BY SMTT(60), <1>1, EmptySeq
  <2> QED
    BY SMTT(60), <1>2, <2>1
<1> QED
  BY SMTT(60), <1>2, <1>3, <1>4, <1>5

\* REVERT takes off the top of the stack only.
LEMMA Pop ==
    ASSUME NEW S, NEW st \in Seq(S), st # <<>>
    PROVE  /\ Front(st) \in Seq(Range(Front(st)))
           /\ Front(st) = <<>> => Last(st) = Head(st)
           /\ Front(st) # <<>> => Head(Front(st)) = Head(st)
<1> DEFINE n == Len(st)
           f == Front(st)
<1>1. n \in Nat \ {0} /\ Head(st) = st[1]
  BY SMTT(60), EmptySeq
<1>2. f \in Seq(S) /\ Len(f) = n - 1 /\ \A i \in 1..(n - 1) : f[i] = st[i]
  <2>1. /\ 1 \in 1..(n + 1) /\ n - 1 \in (1 - 1)..n /\ (n - 1) - 1 + 1 = n - 1
        /\ \A i \in 1..(n - 1) : 1 + i - 1 = i
    BY ONLY SMTT(60), <1>1
  <2> QED
    BY SMTT(60), <1>1, <2>1, SubSeqProperties DEF Front
<1>3. f \in Seq(Range(f))
  BY Zenon, <1>2, SeqOfRange
<1> HIDE DEF n, f
<1>4. f = <<>> => st[n] = st[1]
  BY SMTT(60), <1>1, <1>2
<1>5. f # <<>> => Head(f) = st[1]
  <2>1. f # <<>> => Len(f) # 0
    BY Zenon, <1>2, EmptySeq
  <2> QED
    BY SMTT(60), <1>1, <1>2, <2>1
<1>6. Last(st) = st[n]
  BY Zenon DEF Last, n
<1> QED
  BY Zenon, <1>1, <1>3, <1>4, <1>5, <1>6 DEF f

\* EXECUTE AS and REVERT, where there is an identity to go back to.
LEMMA LoginKeeps ==
    ASSUME SessionInv, NEW t, Is(t), NEW v, NEW st, Sets("effective_login", v),
           session' = [session EXCEPT !.impersonation_stack = st, !.effective_login = v],
           st \in Seq(Range(st)),
           IF st = <<>> THEN v = LoginName ELSE Head(st) = LoginName
    PROVE  SessionInv'
<1>1. IsSession(session)
  BY Zenon DEF SessionInv
<1>2. /\ IsSession(session') /\ session'.effective_login = v
      /\ session'.current_database = session.current_database
      /\ session'.transaction_depth = session.transaction_depth
      /\ session'.enabled = session.enabled /\ session'.synthetic = session.synthetic
      /\ session'.impersonation_stack = st
  BY ONLY Zenon, <1>1,
     session' = [session EXCEPT !.impersonation_stack = st, !.effective_login = v]
     DEF IsSession
<1>3. /\ outcome'.changes =
           outcome.changes \o Change("effective_login", session.effective_login, v)
      /\ IsOutcome(outcome') /\ batch' \in Seq(Statements)
      /\ UNCHANGED <<replayed, busy>> /\ busy
  BY Zenon, SetsOutcome
<1>4. session.effective_login = v => Reported(session') = Reported(session)
  BY Zenon, <1>2 DEF Reported
<1>5. Reported(session') = Replay(Reported(session),
        [property |-> "effective_login", old |-> session.effective_login, new |-> v])
  <2>1. Reported(session') = [Reported(session) EXCEPT !.effective_login = v]
    BY ONLY SMTT(60), <1>2 DEF Reported
  <2> QED
    BY ONLY Zenon, <2>1, ReplayLogin
<1>6. /\ Replays(replayed', outcome'.changes) = Reported(session')
      /\ outcome'.changes \in Seq(Range(outcome'.changes))
  BY Zenon, <1>3, <1>4, <1>5, TellsChange
<1>7. IF st = <<>> THEN v = LoginName ELSE Head(st) = LoginName
  BY Zenon
<1>8. IdentityUnwinds'
  BY ONLY Zenon, <1>2, <1>7 DEF IdentityUnwinds
<1> QED
  BY Zenon, <1>2, <1>3, <1>6, <1>8 DEF SessionInv, EventsTellSession

\* The identity left is kept, and found again.
LEMMA ExecuteAsKeeps ==
    ASSUME SessionInv, ExecuteAs
    PROVE  SessionInv'
<1> DEFINE v == Identity
           old == session.impersonation_stack
           st == Append(old, session.effective_login)
<1>1. /\ Is("EXECUTE AS") /\ Sets("effective_login", v)
      /\ session' = [session EXCEPT !.impersonation_stack = st, !.effective_login = v]
  BY Zenon DEF ExecuteAs
<1>2. old \in Seq(Range(old)) /\ IdentityUnwinds
  BY Zenon DEF SessionInv
<1>3. /\ st \in Seq(Range(st)) /\ st # <<>>
      /\ old = <<>> => Head(st) = session.effective_login
      /\ old # <<>> => Head(st) = Head(old)
  BY ONLY Zenon, <1>2, Push
<1>4. Head(st) = LoginName
  BY Zenon, <1>2, <1>3 DEF IdentityUnwinds
<1> HIDE DEF v, st
<1> QED
  BY Zenon, <1>1, <1>3, <1>4, LoginKeeps

\* REVERT with an empty stack does nothing.
LEMMA RevertKeeps ==
    ASSUME SessionInv, Revert
    PROVE  SessionInv'
<1>1. Is("REVERT")
  BY Zenon DEF Revert
<1> DEFINE old == session.impersonation_stack
           v == Last(old)
           st == Front(old)
<1>2. CASE Results(<<>>)
  BY Zenon, <1>1, <1>2, ResultsKeep
<1>3. CASE /\ old # <<>> /\ Sets("effective_login", v)
           /\ session' = [session EXCEPT !.impersonation_stack = st, !.effective_login = v]
  <2>1. old \in Seq(Range(old)) /\ old # <<>> /\ Head(old) = LoginName
    BY Zenon, <1>3 DEF SessionInv, IdentityUnwinds
  <2>2. /\ st \in Seq(Range(st))
        /\ st = <<>> => v = Head(old)
        /\ st # <<>> => Head(st) = Head(old)
    BY ONLY Zenon, <2>1, Pop
  <2> HIDE DEF v, st, old
  <2>3. IF st = <<>> THEN v = LoginName ELSE Head(st) = LoginName
    BY Zenon, <2>1, <2>2
  <2> QED
    BY ZenonT(60), <1>1, <1>3, <2>2, <2>3, LoginKeeps
<1> QED
  BY Zenon, <1>2, <1>3 DEF Revert

\* sp_configure
LEMMA ConfigureKeeps ==
    ASSUME SessionInv, Configure
    PROVE  SessionInv'
<1> DEFINE p == Head(batch).name
           on == Head(batch).value = "nonzero"
           c == Change(p, session.enabled[p], on)
<1>1. Is("SP_CONFIGURE")
  BY Zenon DEF Configure
<1>2. CASE Results(<<"option">>) \/ Results(<<>>)
  BY Zenon, <1>1, <1>2, ResultsKeep
<1>3. CASE /\ p \in Options /\ Advance(FALSE) /\ UNCHANGED <<reports, control>>
           /\ outcome' = [outcome EXCEPT !.changes = @ \o c, !.results = Append(@, "option")]
           /\ session' = [session EXCEPT !.enabled[p] = on]
  <2>1. /\ IsSession(session) /\ IsOutcome(outcome) /\ session.enabled \in [Options -> BOOLEAN]
        /\ on \in BOOLEAN
    BY Zenon DEF SessionInv
  <2>2. busy /\ batch' \in Seq(Statements) /\ UNCHANGED <<replayed, busy>>
    BY ZenonT(60), <1>1, <1>3, HeadStatement, AdvanceBatch DEF reports, control
  <2> DEFINE new == [session.enabled EXCEPT ![p] = on]
  <2> HIDE DEF p, on, c
  <2>3. session' = [session EXCEPT !.enabled = new]
    BY ONLY Zenon, <1>3
  <2>4. new \in [Options -> BOOLEAN] /\ (session.enabled[p] = on => new = session.enabled)
    BY ONLY Zenon, <1>3, <2>1
  <2> HIDE DEF new
  <2>5. /\ IsSession(session') /\ session'.enabled = new
        /\ session'.current_database = session.current_database
        /\ session'.effective_login = session.effective_login
        /\ session'.transaction_depth = session.transaction_depth
        /\ session'.synthetic = session.synthetic
        /\ session'.impersonation_stack = session.impersonation_stack
    BY ONLY Zenon, <2>1, <2>3 DEF IsSession
  <2>6. outcome'.changes = outcome.changes \o c /\ IsOutcome(outcome')
    BY ONLY Zenon, <1>3, <2>1 DEF IsOutcome
  <2>7. session.enabled[p] = on => Reported(session') = Reported(session)
    BY ONLY Zenon, <2>4, <2>5 DEF Reported
  <2>8. Reported(session') = Replay(Reported(session),
          [property |-> p, old |-> session.enabled[p], new |-> on])
    <3>1. Reported(session') = [Reported(session) EXCEPT !.enabled = new]
      BY ONLY SMTT(60), <2>5 DEF Reported
    <3>2. p \in Options
      BY Zenon, <1>3
    <3>3. Replay(Reported(session), [property |-> p, old |-> session.enabled[p], new |-> on])
            = [Reported(session) EXCEPT !.enabled = [session.enabled EXCEPT ![p] = on]]
      BY ONLY SMTT(60), <3>2, ReplayOption
    <3>4. [session.enabled EXCEPT ![p] = on] = new
      BY Zenon DEF new
    <3> QED
      BY ONLY Zenon, <3>1, <3>3, <3>4
  <2>9. /\ Replays(replayed', outcome'.changes) = Reported(session')
        /\ outcome'.changes \in Seq(Range(outcome'.changes))
    BY Zenon, <2>2, <2>6, <2>7, <2>8, TellsChange DEF c
  <2> QED
    BY ZenonT(60), <2>2, <2>4, <2>5, <2>6, <2>9
       DEF SessionInv, EventsTellSession, IdentityUnwinds
<1> QED
  BY Zenon, <1>2, <1>3 DEF Configure

\* CREATE LOGIN, CREATE ASSEMBLY and sp_add_job
LEMMA CreatesKeep ==
    ASSUME SessionInv, NEW t, Is(t), NEW k \in Kinds, NEW n, NEW payload, Creates(k, n, payload)
    PROVE  SessionInv'
<1> DEFINE c == Change(k, "absent", n)
           q == IF payload # NoWord THEN payload ELSE outcome.payload
           old == session.synthetic
<1>1. /\ session' = [session EXCEPT !.synthetic = IF n # NoWord THEN Append(@, <<k, n>>) ELSE @]
      /\ outcome' = [outcome EXCEPT !.changes = @ \o (IF n # NoWord THEN c ELSE <<>>),
                                    !.payload = q]
      /\ Advance(FALSE) /\ UNCHANGED <<replayed, busy>>
  BY Zenon DEF Creates, reports, control
<1>2. busy /\ batch' \in Seq(Statements)
  BY Zenon, <1>1, HeadStatement, AdvanceBatch
<1>3. /\ IsSession(session) /\ IsOutcome(outcome)
      /\ outcome.changes \in Seq(Range(outcome.changes))
      /\ old \in Seq(Range(old))
  BY Zenon DEF SessionInv
<1> DEFINE y == IF n # NoWord THEN Append(old, <<k, n>>) ELSE old
           x == IF n # NoWord THEN c ELSE <<>>
<1>4. session' = [session EXCEPT !.synthetic = y]
  BY Zenon, <1>1
<1>5. outcome' = [outcome EXCEPT !.changes = @ \o x, !.payload = q]
  BY Zenon, <1>1
<1> HIDE DEF c, q, x, y
<1>6. /\ IsSession(session') /\ session'.synthetic = y
      /\ session'.current_database = session.current_database
      /\ session'.effective_login = session.effective_login
      /\ session'.transaction_depth = session.transaction_depth
      /\ session'.enabled = session.enabled
      /\ session'.impersonation_stack = session.impersonation_stack
  BY ONLY Zenon, <1>3, <1>4 DEF IsSession
<1>7. outcome'.changes = outcome.changes \o x /\ IsOutcome(outcome')
  BY ONLY Zenon, <1>3, <1>5 DEF IsOutcome
<1>8. /\ Replays(replayed', outcome'.changes) = Reported(session')
      /\ outcome'.changes \in Seq(Range(outcome'.changes))
      /\ y \in Seq(Range(y))
  <2>1. CASE n = NoWord
    <3>1. x = <<>> /\ y = old
      BY Zenon, <2>1 DEF x, y
    <3>2. outcome'.changes = outcome.changes
      BY <1>3, <1>7, <3>1, ConcatEmptySeq
    <3>3. Reported(session') = Reported(session)
      BY Zenon, <1>6, <3>1 DEF Reported
    <3> QED
      BY Zenon, <1>1, <1>3, <3>1, <3>2, <3>3, TellsNothing
  <2>2. CASE n # NoWord
    <3> DEFINE e == [property |-> k, old |-> "absent", new |-> n]
               o == <<k, n>>
               S == Range(old) \cup {o}
    <3>1. x = Change(k, "absent", n) /\ y = Append(old, o)
      BY Zenon, <2>2 DEF x, y, c
    <3>2. o[2] = n /\ o \in S
      BY Zenon
    <3> HIDE DEF S
    <3>3. old \in Seq(S)
      <4>1. Range(old) \subseteq S
        BY Zenon DEF S
      <4> QED
        BY Zenon, <1>3, <4>1, SeqMonotonic
    <3> HIDE DEF o, old
    <3>4. y \in Seq(Range(y))
      <4>1. y \in Seq(S)
        BY ONLY SMTT(60), <3>1, <3>2, <3>3, AppendProperties
      <4> QED
        BY Zenon, <4>1, SeqOfRange
    <3>5. Reportable(y) = IF n = "absent" THEN Reportable(old) ELSE Append(Reportable(old), o)
      BY ONLY SMTT(60), <3>1, <3>2, <3>3, ReportableMore
    <3>6. Reported(session') = [Reported(session) EXCEPT !.synthetic = Reportable(y)]
      BY ONLY SMTT(60), <1>6 DEF Reported
    <3>7. Replay(Reported(session), e)
            = [Reported(session) EXCEPT !.synthetic = Append(Reportable(old), o)]
      <4>1. k \in Kinds
        BY Zenon
      <4>2. Replay(Reported(session), e)
              = [Reported(session) EXCEPT !.synthetic = Append(Reportable(session.synthetic), <<k, n>>)]
        BY ONLY SMTT(60), <4>1, ReplayObject
      <4> HIDE DEF e
      <4> QED
        BY ONLY Zenon, <4>2 DEF old, o
    <3>8. [Reported(session) EXCEPT !.synthetic = Reportable(old)] = Reported(session)
      BY ONLY SMTT(60) DEF Reported, old
    <3> DEFINE a == "absent"
    <3>9. /\ a = n => Reported(session') = Reported(session)
          /\ a # n => Reported(session') =
                        Replay(Reported(session), [property |-> k, old |-> a, new |-> n])
      <4> HIDE DEF e
      <4>1. a = n => Reported(session') = Reported(session)
        BY Zenon, <3>5, <3>6, <3>8
      <4>2. a # n => Reported(session') = Replay(Reported(session), e)
        BY Zenon, <3>5, <3>6, <3>7
      <4> QED
        BY Zenon, <4>1, <4>2 DEF e
    <3>10. outcome'.changes = outcome.changes \o Change(k, a, n)
      BY Zenon, <1>7, <3>1
    <3>11. SessionInv /\ replayed' = replayed
      BY Zenon, <1>1
    <3> HIDE DEF a, e
    <3>12. /\ Replays(replayed', outcome'.changes) = Reported(session')
           /\ outcome'.changes \in Seq(Range(outcome'.changes))
      BY ONLY ZenonT(60), <3>9, <3>10, <3>11, TellsChange
    <3> QED
      BY Zenon, <3>4, <3>12
  <2> QED
    BY Zenon, <2>1, <2>2
<1> QED
  BY Zenon, <1>1, <1>2, <1>6, <1>7, <1>8
     DEF SessionInv, EventsTellSession, IdentityUnwinds

\* A request begins with an empty outcome.
LEMMA BeginKeeps ==
    ASSUME SessionInv, NEW b \in Seq(Statements), Begin(b)
    PROVE  SessionInv'
<1>1. /\ ~busy /\ busy' = TRUE /\ batch' = b /\ UNCHANGED <<session, replayed>>
      /\ outcome' = NewOutcome(Classify(b))
  BY Zenon DEF Begin, reports
<1> DEFINE c == Classify(b)
<1> HIDE DEF c
<1>2. IsOutcome(outcome') /\ outcome'.changes = <<>>
  <2>1. outcome' = NewOutcome(c)
    BY Zenon, <1>1 DEF c
  <2> QED
    BY ONLY Zenon, <2>1 DEF NewOutcome, IsOutcome
<1>3. outcome.changes = <<>>
  BY Zenon, <1>1 DEF SessionInv
<1>4. /\ Replays(replayed', outcome'.changes) = Reported(session')
      /\ outcome'.changes \in Seq(Range(outcome'.changes))
  BY SMTT(60), <1>1, <1>2, <1>3, TellsNothing
<1> QED
  BY Zenon, <1>1, <1>2, <1>4 DEF SessionInv, EventsTellSession, IdentityUnwinds

\* A batch and the calls of an RPC request are sequences.
LEMMA Bounded ==
    ASSUME NEW S, NEW b \in BoundedSeq(S, MaxBatch)
    PROVE  b \in Seq(S)
<1>1. PICK m \in 0..MaxBatch : b \in [1..m -> S]
  BY Zenon DEF BoundedSeq, SeqOf
<1>2. MaxBatch \in Nat
  BY Zenon, SemanticAssumption
<1>3. m \in Nat
  BY ONLY SMTT(60), <1>1, <1>2
<1> QED
  BY SMTT(60), <1>1, <1>3, IsASeq

\* At the end of a request the reader knows what the session has become.
LEMMA FinishKeeps ==
    ASSUME SessionInv, Finish
    PROVE  SessionInv'
<1>1. /\ replayed' = Replays(replayed, outcome.changes) /\ busy' = FALSE
      /\ outcome' = NewOutcome("Unknown") /\ UNCHANGED <<session, batch>>
  BY Zenon DEF Finish
<1>2. IsOutcome(outcome') /\ outcome'.changes = <<>>
  BY ONLY Zenon, <1>1 DEF NewOutcome, IsOutcome
<1>3. replayed' = Reported(session')
  BY Zenon, <1>1 DEF SessionInv, EventsTellSession
<1>4. Replays(replayed', outcome'.changes) = Reported(session')
  BY ONLY Zenon, <1>2, <1>3, ReplaysNone
<1>5. outcome'.changes \in Seq(Range(outcome'.changes))
  BY Zenon, <1>2, EmptySeq
<1> QED
  BY Zenon, <1>1, <1>2, <1>4, <1>5 DEF SessionInv, EventsTellSession, IdentityUnwinds

\* A login begins as itself.
LEMMA InitSession == Init => SessionInv
<1> SUFFICES ASSUME Init PROVE SessionInv
  BY Zenon
<1>1. session = NewSession /\ outcome = NewOutcome("Unknown") /\ batch = <<>>
      /\ replayed = Reported(session)
  BY Zenon DEF Init
<1>2. /\ IsSession(session) /\ session.enabled = [o \in Options |-> FALSE]
      /\ session.transaction_depth = 0 /\ session.impersonation_stack = <<>>
      /\ session.effective_login = LoginName /\ session.synthetic = <<>>
  BY ONLY Zenon, <1>1 DEF NewSession, IsSession
<1>3. IsOutcome(outcome) /\ outcome.changes = <<>>
  BY ONLY Zenon, <1>1 DEF NewOutcome, IsOutcome
<1>4. Replays(replayed, outcome.changes) = Reported(session)
  BY ONLY Zenon, <1>1, <1>3, ReplaysNone
<1>5. 0 \in 0..DepthMax
  <2>1. DepthMax \in Nat
    BY Zenon, SemanticAssumption
  <2> QED
    BY ONLY SMTT(60), <2>1
<1>6. session.enabled \in [Options -> BOOLEAN]
  BY ONLY Zenon, <1>2
<1>7. <<>> \in Seq(Range(<<>>)) /\ <<>> \in Seq(Statements)
  BY Zenon, EmptySeq
<1> QED
  BY ZenonT(60), <1>1, <1>2, <1>3, <1>4, <1>5, <1>6, <1>7
     DEF SessionInv, EventsTellSession, IdentityUnwinds

\* Every statement, and the beginning and end of a request, keep it.
LEMMA NextSession == SessionInv /\ [Next]_vars => SessionInv'
<1> SUFFICES ASSUME SessionInv, [Next]_vars PROVE SessionInv'
  BY Zenon
<1>1. CASE HandleSql
  BY Zenon, <1>1, Bounded, BeginKeeps DEF HandleSql
<1>2. CASE HandleRpc
  <2>1. PICK rpcs \in BoundedSeq(Calls, MaxBatch) : Begin(Executed(rpcs))
    BY Zenon, <1>2 DEF HandleRpc, Calls
  <2>2. Executed(rpcs) \in Seq(Statements)
    BY Zenon, Bounded, ExecutedBatch
  <2> QED
    BY Zenon, <2>1, <2>2, BeginKeeps
<1>3. CASE Finish
  BY Zenon, <1>3, FinishKeeps
<1>4. CASE Blank \/ Reconfigure \/ XpCmdshell \/ Canned \/ Discovery \/ UnknownStatement
  <2>1. PICK t, r : Is(t) /\ (Results(r) \/ Fails)
    BY SMTT(60), <1>4 DEF Blank, Reconfigure, XpCmdshell, Canned, Discovery, UnknownStatement
  <2> QED
    BY Zenon, <2>1, ResultsKeep
<1>5. CASE Use
  BY Zenon, <1>5, UseKeeps
<1>6. CASE Configure
  BY Zenon, <1>6, ConfigureKeeps
<1>7. CASE ExecuteAs
  BY Zenon, <1>7, ExecuteAsKeeps
<1>8. CASE Revert
  BY Zenon, <1>8, RevertKeeps
<1>9. CASE BeginTran \/ Commit \/ Rollback
  BY Zenon, <1>9, TransactionsKeep
<1>10. CASE CreateLogin \/ CreateAssembly \/ AddJob
  <2>1. \A k \in {"synthetic_login", "synthetic_assembly", "synthetic_job"} : k \in Kinds
    BY Zenon DEF Kinds
  <2>2. \E t, k, n, p : k \in Kinds /\ Is(t) /\ Creates(k, n, p)
    BY Zenon, <1>10, <2>1 DEF CreateLogin, CreateAssembly, AddJob
  <2> QED
    BY ONLY Zenon, <2>2, SessionInv, CreatesKeep
<1>11. CASE UNCHANGED vars
  <2>1. UNCHANGED <<session, outcome, batch, replayed, busy>>
    BY Zenon, <1>11 DEF vars, reports, control
  <2> QED
    BY Zenon, <2>1 DEF SessionInv, EventsTellSession, IdentityUnwinds
<1> QED
  BY SMTT(60), <1>1, <1>2, <1>3, <1>4, <1>5, <1>6, <1>7, <1>8, <1>9, <1>10, <1>11 DEF Next

\* The events, those to come included, agree with the session at every moment.
THEOREM SessionInvariance == Spec => []SessionInv
  BY InitSession, NextSession, PTL DEF Spec

\* However many requests there are and wherever one breaks off, replaying the
\* synthetic_state_change events gives the session, but for objects called
\* "absent", and the depth stays in range.
THEOREM EventsTell == Spec => []EventsTellSession
<1>1. SessionInv => EventsTellSession
  BY Zenon DEF SessionInv
<1> QED
  BY <1>1, SessionInvariance, PTL

\* However deep EXECUTE AS is nested, REVERT leads back to the login.
THEOREM RevertLeadsBack == Spec => []IdentityUnwinds
<1>1. SessionInv => IdentityUnwinds
  BY Zenon DEF SessionInv
<1> QED
  BY <1>1, SessionInvariance, PTL

(***************************************************************************)
(* Telemetry                                                               *)
(***************************************************************************)

USE TelemetryAssumption

(***************************************************************************)
(* The inductive invariant says of every line that has been dealt with     *)
(* where it is, also between Recv and FileFlush, when the one in hand is   *)
(* neither in the file nor failed: whole in the file, unless an operation  *)
(* for it failed.                                                          *)
(***************************************************************************)
Entries == [line : Nat, whole : BOOLEAN]

Ascending(log) == \A i, j \in DOMAIN log : i < j => log[i].line < log[j].line

InHand == writer \in {"filing", "flushing_file"}

FileInv ==
    /\ Ascending(fileLog)
    /\ \A i \in DOMAIN fileLog :
          /\ fileLog[i].line \in 1 .. Len(received)
          /\ InHand => fileLog[i].line < Len(received)
          /\ \/ fileLog[i].whole
             \/ fileLog[i].line \in failed
             \/ writer = "cancelled" /\ i = Len(fileLog)
    /\ fileOpen => \A n \in 1 .. Len(received) :
          \/ InHand /\ n = Len(received)
          \/ n \in failed
          \/ \E i \in DOMAIN fileLog : fileLog[i].line = n /\ fileLog[i].whole
    /\ fileBuffer = IF writer = "flushing_file" THEN <<current>> ELSE <<>>
    /\ InHand => current = Len(received) /\ current > 0
    /\ writer = "opening" => received = <<>>

IInv == TypeOK /\ Accounted /\ FileInv

\* What a write puts into the file: a line, whole or broken off, or nothing.
LEMMA PutLines ==
    ASSUME NEW n \in Nat, NEW w \in BOOLEAN
    PROVE  /\ Put(<<n>>, w) = <<[line |-> n, whole |-> w]>>
           /\ Put(<<>>, w) = <<>>
  BY DEF Put

\* Putting nothing leaves the file, putting one line appends it.
LEMMA PutAfter ==
    ASSUME NEW log \in Seq(Entries), NEW n \in Nat, NEW w \in BOOLEAN
    PROVE  /\ log \o Put(<<n>>, w) = Append(log, [line |-> n, whole |-> w])
           /\ log \o Put(<<>>, w) = log
<1>1. [line |-> n, whole |-> w] \in Entries
  BY DEF Entries
<1>2. log \o <<[line |-> n, whole |-> w]>> = Append(log, [line |-> n, whole |-> w])
  BY Zenon, <1>1, AppendIsConcat
<1>3. log \o <<>> = log
  BY Zenon, ConcatEmptySeq
<1> QED
  BY Zenon, <1>2, <1>3, PutLines

\* A file with one more line, which is later than all the others.
LEMMA Appended ==
    ASSUME NEW log \in Seq(Entries), NEW e \in Entries, Ascending(log),
           \A i \in DOMAIN log : log[i].line < e.line
    PROVE  /\ Append(log, e) \in Seq(Entries)
           /\ Len(Append(log, e)) = Len(log) + 1
           /\ Ascending(Append(log, e))
           /\ DOMAIN Append(log, e) = DOMAIN log \cup {Len(log) + 1}
           /\ Len(log) + 1 \notin DOMAIN log
           /\ \A i \in DOMAIN log : Append(log, e)[i] = log[i]
           /\ Append(log, e)[Len(log) + 1] = e
<1>1. /\ Append(log, e) \in Seq(Entries)
      /\ Len(Append(log, e)) = Len(log) + 1
      /\ \A i \in 1 .. Len(log) : Append(log, e)[i] = log[i]
      /\ Append(log, e)[Len(log) + 1] = e
  BY AppendProperties
<1>2. /\ DOMAIN log = 1 .. Len(log) /\ Len(log) \in Nat
      /\ DOMAIN Append(log, e) = 1 .. Len(log) + 1
  BY <1>1, LenProperties
<1>3. Ascending(Append(log, e))
  <2> SUFFICES ASSUME NEW i \in 1 .. Len(log) + 1, NEW j \in 1 .. Len(log) + 1, i < j
               PROVE  Append(log, e)[i].line < Append(log, e)[j].line
    BY <1>2 DEF Ascending
  <2>1. i \in 1 .. Len(log)
    BY <1>2
  <2>2. CASE j \in 1 .. Len(log)
    BY <1>1, <1>2, <2>1, <2>2 DEF Ascending
  <2>3. CASE j = Len(log) + 1
    BY <1>1, <1>2, <2>1, <2>3
  <2> QED
    BY <1>2, <2>2, <2>3
<1> QED
  BY <1>1, <1>2, <1>3

\* A line behind one that is broken off is the next to be received after a failure: the invariant
\* gives the property.
LEMMA FileInvFollows == TypeOK /\ FileInv => FileFollows
<1> SUFFICES ASSUME TypeOK, FileInv PROVE FileFollows
  BY Zenon
<1>1. /\ DOMAIN received = 1 .. Len(received) /\ Len(received) \in Nat
      /\ DOMAIN fileLog = 1 .. Len(fileLog) /\ Len(fileLog) \in Nat
      /\ \A i \in DOMAIN fileLog : fileLog[i].line \in Nat
  <2>1. received \in Seq(Events) /\ fileLog \in Seq(Entries)
    BY Zenon DEF TypeOK, Entries
  <2>2. /\ DOMAIN received = 1 .. Len(received) /\ Len(received) \in Nat
        /\ DOMAIN fileLog = 1 .. Len(fileLog) /\ Len(fileLog) \in Nat
    BY Zenon, <2>1, LenProperties
  <2>3. \A i \in DOMAIN fileLog : fileLog[i] \in Entries
    BY Zenon, <2>1, <2>2, ElementOfSeq
  <2> QED
    BY <2>2, <2>3 DEF Entries
<1>2. ASSUME fileOpen, writer \notin {"filing", "flushing_file"},
             NEW n \in DOMAIN received, n \notin failed, n - 1 \notin failed
      PROVE  \E i \in DOMAIN fileLog : fileLog[i].line = n /\ Readable(i)
  <2>1. \A m \in 1 .. Len(received) : m \notin failed =>
            \E i \in DOMAIN fileLog : fileLog[i].line = m /\ fileLog[i].whole
    BY Zenon, <1>2 DEF FileInv, InHand
  <2>2. PICK i \in DOMAIN fileLog : fileLog[i].line = n /\ fileLog[i].whole
    BY Zenon, <1>1, <1>2, <2>1
  <2>3. ASSUME i > 1, ~fileLog[i - 1].whole PROVE FALSE
    <3>1. i - 1 \in DOMAIN fileLog /\ i - 1 < i /\ i - 1 # Len(fileLog)
      BY <1>1, <2>3
    <3>2. /\ fileLog[i - 1].line \in failed
          /\ fileLog[i - 1].line \in 1 .. Len(received)
      BY Zenon, <2>3, <3>1 DEF FileInv
    <3>3. fileLog[i - 1].line < n
      BY Zenon, <2>2, <3>1 DEF FileInv, Ascending
    <3>4. fileLog[i - 1].line < n - 1 /\ n - 1 \in 1 .. Len(received)
      <4>1. fileLog[i - 1].line # n - 1
        BY Zenon, <1>2, <3>2
      <4> QED
        BY <1>1, <3>2, <3>3, <4>1
    <3>5. PICK j \in DOMAIN fileLog : fileLog[j].line = n - 1
      BY Zenon, <1>2, <2>1, <3>4
    <3>6. ~(j < i - 1) /\ j # i - 1
      <4>1. j < i - 1 => n - 1 < fileLog[i - 1].line
        BY Zenon, <3>1, <3>5 DEF FileInv, Ascending
      <4>2. j = i - 1 => fileLog[i - 1].line = n - 1
        BY Zenon, <3>5
      <4> QED
        BY <1>1, <3>1, <3>4, <4>1, <4>2
    <3>7. ~(i < j) /\ i # j
      <4>1. i < j => n < n - 1
        BY Zenon, <2>2, <3>5 DEF FileInv, Ascending
      <4>2. i = j => n = n - 1
        BY Zenon, <2>2, <3>5
      <4> QED
        BY <1>1, <4>1, <4>2
    <3> QED
      BY <1>1, <3>6, <3>7
  <2> QED
    BY Zenon, <2>2, <2>3 DEF Readable
<1>3. \A i \in DOMAIN fileLog :
          /\ fileLog[i].line \in DOMAIN received
          /\ \/ fileLog[i].whole
             \/ fileLog[i].line \in failed
             \/ writer = "cancelled" /\ i = Len(fileLog)
  BY Zenon, <1>1 DEF FileInv
<1> QED
  BY Zenon, <1>2, <1>3 DEF FileFollows, FileInv, Ascending

\* A writer that has just been started (Telemetry::start) satisfies the invariant.
LEMMA InitIInv == TelemetryInit => IInv
<1> SUFFICES ASSUME TelemetryInit PROVE IInv
  BY Zenon
<1>1. TypeOK
  <2>1. \A S : <<>> \in Seq(S) /\ Len(<<>>) = 0
    BY Zenon, EmptySeq
  <2>2. emitted \in [Producers -> 0 .. MaxEvents] /\ failing \subseteq Producers
    BY DEF TelemetryInit
  <2>3. Len(queue) <= Capacity
    BY <2>1 DEF TelemetryInit
  <2> QED
    BY Zenon, <2>1, <2>2, <2>3 DEF TelemetryInit, TypeOK, WriterStages
<1>2. Accounted
  BY FS_EmptySet DEF TelemetryInit, Accounted
<1>3. FileInv
  BY DEF TelemetryInit, FileInv, Ascending, InHand
<1> QED
  BY Zenon, <1>1, <1>2, <1>3 DEF IInv

\* Lines put into the file are entries of it.
LEMMA PutTyped ==
    ASSUME NEW lines \in Seq(Nat), NEW w \in BOOLEAN
    PROVE  Put(lines, w) \in Seq(Entries)
<1>1. Len(lines) \in Nat /\ lines \in [1 .. Len(lines) -> Nat]
  BY Zenon, LenProperties
<1>2. Put(lines, w) \in [1 .. Len(lines) -> Entries]
  BY <1>1 DEF Put, Entries
<1> QED
  BY <1>1, <1>2, SeqDef

\* Every action keeps the types.
LEMMA NextTypeOK == TypeOK /\ [TelemetryNext]_telemetry_vars => TypeOK'
<1> SUFFICES ASSUME TypeOK, [TelemetryNext]_telemetry_vars PROVE TypeOK'
  BY Zenon
<1> USE DEF WriterStages, emitters, file, out, history
<1>0. /\ current \in Nat /\ fileLog \in Seq(Entries)
      /\ \A w \in BOOLEAN : /\ fileLog \o Put(<<current>>, w) \in Seq(Entries)
                            /\ fileLog \o Put(fileBuffer, w) \in Seq(Entries)
  <2>1. current \in Nat /\ fileLog \in Seq(Entries) /\ fileBuffer \in Seq(Nat)
    BY Zenon DEF TypeOK, Entries
  <2>2. <<current>> \in Seq(Nat)
    BY <2>1
  <2> QED
    BY Zenon, <2>1, <2>2, PutTyped, ConcatProperties
<1>1. \A p \in Producers : emitted[p] < MaxEvents => <<p, emitted[p] + 1>> \in Events
  BY DEF TypeOK, Events
<1>2. CASE UNCHANGED telemetry_vars
  BY Zenon, <1>2 DEF TypeOK, telemetry_vars
<1>3. CASE Cancel
  <2>1. queue' \in Seq(Events) /\ Len(queue') <= Capacity
    BY <1>3, EmptySeq DEF Cancel
  <2>2. lost' \in Nat
    BY <1>3, LenProperties DEF TypeOK, Cancel
  <2>3. fileBuffer' \in Seq(Nat) /\ outBuffer' \in Seq(Nat)
    BY Zenon, <1>3, EmptySeq DEF Cancel
  <2>4. current \in Nat /\ fileLog' \in Seq(Entries)
    BY Zenon, <1>0, <1>3, TRUE \in BOOLEAN, FALSE \in BOOLEAN DEF Cancel
  <2> QED
    BY ZenonT(60), <1>3, <2>1, <2>2, <2>3, <2>4 DEF TypeOK, Entries, Cancel
<1>4. ASSUME NEW p \in Producers, Emit(p) PROVE TypeOK'
  <2>1. CASE Send(p)
    <3>1. queue' \in Seq(Events) /\ Len(queue') = Len(queue) + 1
      BY Zenon, <1>1, <2>1, AppendProperties DEF TypeOK, Send
    <3>2. Len(queue) \in Nat /\ Len(queue') <= Capacity
      BY SMTT(60), <2>1, <3>1 DEF TypeOK, Send
    <3> QED
      BY SMTT(60), <2>1, <3>1, <3>2 DEF TypeOK, Send
  <2>2. CASE SendFails(p)
    BY <2>2 DEF TypeOK, SendFails
  <2>3. CASE CountDrop(p)
    BY <2>3 DEF TypeOK, CountDrop
  <2> QED
    BY Zenon, <1>4, <2>1, <2>2, <2>3 DEF Emit
<1>5. CASE Writer
  <2>1. CASE OpenLog
    BY Zenon, <2>1 DEF TypeOK, OpenLog
  <2>2. CASE Recv
    <3>1. /\ Head(queue) \in Events
          /\ Tail(queue) \in Seq(Events)
          /\ Len(queue') <= Capacity
      BY <2>2, HeadTailProperties DEF TypeOK, Recv
    <3>2. received' \in Seq(Events) /\ current' \in Nat
      BY <2>2, <3>1 DEF TypeOK, Recv
    <3> QED
      BY <2>2, <3>1, <3>2 DEF TypeOK, Recv
  <2>3. CASE NoFile \/ NoStdout \/ NoticeDrops
    BY Zenon, <2>3, 0 \in Nat DEF TypeOK, NoFile, NoStdout, NoticeDrops
  <2>4. CASE FileWrite
    <3>1. fileBuffer' \in Seq(Nat)
      BY Zenon, <2>4, AppendProperties DEF TypeOK, FileWrite
    <3> QED
      BY Zenon, <2>4, <3>1 DEF TypeOK, FileWrite
  <2>5. CASE FileWriteFails
    <3>1. fileBuffer' \in Seq(Nat) /\ fileLog' \in Seq(Entries)
      BY Zenon, <1>0, <2>5, EmptySeq, FALSE \in BOOLEAN DEF FileWriteFails
    <3>2. failed' \subseteq Nat
      BY Zenon, <2>5 DEF TypeOK, FileWriteFails
    <3> QED
      BY Zenon, <2>5, <3>1, <3>2 DEF TypeOK, Entries, FileWriteFails
  <2>6. CASE FileFlush
    <3>1. fileBuffer' \in Seq(Nat) /\ fileLog' \in Seq(Entries)
      BY Zenon, <1>0, <2>6, EmptySeq, TRUE \in BOOLEAN, FALSE \in BOOLEAN DEF FileFlush
    <3>2. failed' \subseteq Nat
      BY Zenon, <2>6 DEF TypeOK, FileFlush
    <3> QED
      BY Zenon, <2>6, <3>1, <3>2 DEF TypeOK, Entries, FileFlush
  <2>7. CASE WriteStdout
    <3>0. outBuffer \in Seq(Nat) /\ Append(outBuffer, current) \in Seq(Nat)
      BY Zenon, AppendProperties DEF TypeOK
    <3>1. outBuffer' \in Seq(Nat)
      BY Zenon, <2>7, <3>0 DEF WriteStdout
    <3> QED
      BY Zenon, <2>7, <3>1 DEF TypeOK, WriteStdout
  <2>8. CASE FlushOut
    <3>0. /\ outLog \in Seq(Nat) /\ outLog \o outBuffer \in Seq(Nat)
          /\ <<>> \in Seq(Nat)
      BY Zenon, EmptySeq, ConcatProperties DEF TypeOK
    <3>1. outLog' \in Seq(Nat) /\ outBuffer' \in Seq(Nat)
      BY Zenon, <2>8, <3>0 DEF FlushOut
    <3> QED
      BY Zenon, <2>8, <3>1 DEF TypeOK, FlushOut
  <2> QED
    BY Zenon, <1>5, <2>1, <2>2, <2>3, <2>4, <2>5, <2>6, <2>7, <2>8 DEF Writer
<1> QED
  BY Zenon, <1>2, <1>3, <1>4, <1>5 DEF TelemetryNext

\* Every action moves an event from one account to another.
LEMMA NextAccounted == IInv /\ [TelemetryNext]_telemetry_vars => Accounted'
<1> SUFFICES ASSUME IInv, [TelemetryNext]_telemetry_vars PROVE Accounted'
  BY Zenon
<1> USE DEF WriterStages, emitters, file, out, history
<1>1. /\ Len(received) \in Nat /\ Len(queue) \in Nat
      /\ dropped \in Nat /\ lost \in Nat
  BY Zenon, LenProperties DEF IInv, TypeOK
<1>2. IsFiniteSet(failing) /\ Cardinality(failing) \in Nat
  BY Zenon, FS_Subset, FS_CardinalityType DEF IInv, TypeOK
<1>3. CASE (Writer /\ ~Recv) \/ UNCHANGED telemetry_vars
  BY Zenon, <1>3
  DEF IInv, Accounted, telemetry_vars, Writer, OpenLog, NoFile, FileWrite, FileWriteFails, FileFlush,
      NoStdout, WriteStdout, FlushOut, NoticeDrops
<1>4. CASE Recv
  <2>1. Len(queue') = Len(queue) - 1 /\ Len(received') = Len(received) + 1
    BY <1>4, HeadTailProperties, AppendProperties DEF Recv, IInv, TypeOK
  <2> QED
    BY <1>1, <1>2, <1>4, <2>1 DEF Recv, IInv, Accounted
<1>5. CASE Cancel
  <2>1. Len(queue') = 0
    BY Zenon, <1>5, EmptySeq DEF Cancel
  <2>2. /\ lost' = lost + Len(queue) /\ writer' = "cancelled"
        /\ UNCHANGED <<calls, dropped, failing, received>>
    BY Zenon, <1>5 DEF Cancel
  <2>3. calls = Len(received) + Len(queue) + dropped + Cardinality(failing) + lost
    BY Zenon DEF IInv, Accounted
  <2> QED
    BY <1>1, <1>2, <2>1, <2>2, <2>3 DEF Accounted
<1>6. ASSUME NEW p \in Producers, Emit(p) PROVE Accounted'
  <2>1. CASE Send(p)
    <3>1. Len(queue') = Len(queue) + 1
      BY SMTT(60), <2>1 DEF Send, IInv, TypeOK
    <3> QED
      BY SMTT(60), <1>1, <1>2, <2>1, <3>1 DEF Send, IInv, Accounted
  <2>2. CASE SendFails(p)
    <3>1. Cardinality(failing') = Cardinality(failing) + 1
      BY ZenonT(60), <1>2, <2>2, FS_AddElement DEF SendFails
    <3> QED
      BY SMTT(60), <1>1, <1>2, <2>2, <3>1 DEF SendFails, IInv, Accounted
  <2>3. CASE CountDrop(p)
    <3>1. Cardinality(failing') = Cardinality(failing) - 1
      BY Zenon, <1>2, <2>3, FS_RemoveElement DEF CountDrop
    <3> QED
      BY <1>1, <1>2, <2>3, <3>1 DEF CountDrop, IInv, Accounted
  <2> QED
    BY Zenon, <1>6, <2>1, <2>2, <2>3 DEF Emit
<1> QED
  BY <1>3, <1>4, <1>5, <1>6 DEF TelemetryNext

\* Every action keeps the invariant of the file.
LEMMA NextFile == IInv /\ [TelemetryNext]_telemetry_vars => FileInv'
<1> SUFFICES ASSUME IInv, [TelemetryNext]_telemetry_vars PROVE FileInv'
  BY Zenon
<1> USE DEF WriterStages, emitters, file, out, history
<1>1. /\ fileLog \in Seq(Entries) /\ fileBuffer \in Seq(Nat)
      /\ received \in Seq(Events) /\ current \in Nat
      /\ Len(received) \in Nat /\ Len(fileLog) \in Nat
      /\ FileInv
  BY Zenon, LenProperties DEF IInv, TypeOK, Entries
<1>2. CASE UNCHANGED <<writer, current, file, received>>
  BY Zenon, <1>1, <1>2 DEF FileInv, InHand
<1>3. CASE OpenLog
  <2>1. Len(received) = 0
    BY Zenon, <1>1, <1>3, EmptySeq DEF OpenLog, FileInv
  <2>2. /\ writer = "opening" /\ writer' = "receiving"
        /\ UNCHANGED <<fileLog, fileBuffer, failed, received, current>>
    BY Zenon, <1>3 DEF OpenLog
  <2> QED
    BY <1>1, <2>1, <2>2 DEF FileInv, InHand
<1>4. CASE Recv
  <2>1. Len(received') = Len(received) + 1
    <3>1. Head(queue) \in Events
      BY Zenon, <1>4, HeadTailProperties DEF Recv, IInv, TypeOK
    <3> QED
      BY Zenon, <1>1, <1>4, <3>1, AppendProperties DEF Recv
  <2>2. /\ writer = "receiving" /\ writer' = "filing" /\ current' = Len(received')
        /\ UNCHANGED <<fileOpen, fileLog, fileBuffer, failed>>
    BY Zenon, <1>4, <2>1 DEF Recv
  <2>3. \A n \in 1 .. Len(received') : n # Len(received') => n \in 1 .. Len(received)
    BY <1>1, <2>1
  <2>4. \A n \in 1 .. Len(received) : n \in 1 .. Len(received') /\ n < Len(received')
    BY <1>1, <2>1
  <2>5. Len(received') > 0
    BY <1>1, <2>1
  <2>6. ~InHand /\ InHand'
    BY Zenon, <2>2 DEF InHand
  <2>7. fileOpen' => \A n \in 1 .. Len(received') :
          \/ n = Len(received')
          \/ n \in failed'
          \/ \E i \in DOMAIN fileLog' : fileLog'[i].line = n /\ fileLog'[i].whole
    BY Zenon, <1>1, <2>2, <2>3, <2>6 DEF FileInv
  <2> QED
    BY Zenon, <1>1, <2>2, <2>4, <2>5, <2>6, <2>7 DEF FileInv
<1>5. CASE NoFile \/ NoStdout \/ NoticeDrops \/ WriteStdout \/ FlushOut
  <2>1. /\ writer' \in WriterStages \ {"opening", "filing", "flushing_file", "cancelled"}
        /\ InHand => ~fileOpen
        /\ writer \notin {"flushing_file", "cancelled"}
        /\ UNCHANGED <<fileOpen, fileLog, fileBuffer, failed, received>>
    BY Zenon, <1>5 DEF NoFile, NoStdout, NoticeDrops, WriteStdout, FlushOut, InHand
  <2> QED
    BY Zenon, <1>1, <2>1 DEF FileInv, InHand
<1>6. CASE FileWrite
  <2>1. /\ writer = "filing" /\ writer' = "flushing_file"
        /\ fileBuffer' = Append(fileBuffer, current)
        /\ UNCHANGED <<fileOpen, fileLog, failed, received, current>>
    BY Zenon, <1>6 DEF FileWrite
  <2>2. fileBuffer' = <<current>>
    BY <1>1, <2>1 DEF FileInv
  <2> QED
    BY Zenon, <1>1, <2>1, <2>2 DEF FileInv, InHand
<1>7. ASSUME InHand,
             fileLog' = fileLog \/ \E w \in BOOLEAN : /\ fileLog' = Append(fileLog, [line |-> current, whole |-> w])
                                                      /\ w \/ current \in failed' \/ writer' = "cancelled",
             failed' = failed \/ failed' = failed \cup {current},
             fileOpen' => /\ fileOpen
                          /\ \/ current \in failed'
                             \/ fileLog' = Append(fileLog, [line |-> current, whole |-> TRUE]),
             fileBuffer' = <<>>,
             writer' \in {"printing", "cancelled"},
             received' = received
      PROVE  FileInv'
  <2>1. /\ current = Len(received) /\ current > 0
        /\ \A i \in DOMAIN fileLog : fileLog[i].line < current /\ fileLog[i].line \in 1 .. Len(received)
        /\ \A i \in DOMAIN fileLog : fileLog[i].whole \/ fileLog[i].line \in failed'
    <3>1. writer # "cancelled"
      BY Zenon, <1>7 DEF InHand
    <3> QED
      BY Zenon, <1>1, <1>7, <3>1 DEF FileInv
  <2>2. ~InHand' /\ writer' # "opening" /\ writer' # "flushing_file"
    BY Zenon, <1>7 DEF InHand
  <2>3. current \in 1 .. Len(received)
    BY <1>1, <2>1
  <2>4. CASE fileLog' = fileLog
    <3>1. fileOpen' => current \in failed'
      <4>1. [line |-> current, whole |-> TRUE] \in Entries
        BY <1>1 DEF Entries
      <4>2. fileLog # Append(fileLog, [line |-> current, whole |-> TRUE])
        BY <1>1, <4>1, AppendProperties
      <4> QED
        BY Zenon, <1>7, <2>4, <4>2
    <3>2. fileOpen' => \A n \in 1 .. Len(received) :
            \/ n \in failed'
            \/ \E i \in DOMAIN fileLog : fileLog[i].line = n /\ fileLog[i].whole
      BY Zenon, <1>1, <1>7, <2>1, <3>1 DEF FileInv
    <3> QED
      BY Zenon, <1>1, <1>7, <2>1, <2>2, <2>4, <3>2 DEF FileInv
  <2>5. ASSUME NEW w \in BOOLEAN, fileLog' = Append(fileLog, [line |-> current, whole |-> w]),
               w \/ current \in failed' \/ writer' = "cancelled"
        PROVE  FileInv'
    <3> DEFINE e == [line |-> current, whole |-> w]
    <3>1. e \in Entries /\ e.line = current /\ e.whole = w
      BY <1>1 DEF Entries
    <3>2. \A i \in DOMAIN fileLog : fileLog[i].line < e.line
      BY Zenon, <2>1, <3>1
    <3>3. Ascending(fileLog)
      BY Zenon, <1>1 DEF FileInv
    <3> HIDE DEF e
    <3>4. /\ fileLog' = Append(fileLog, e)
          /\ Len(fileLog') = Len(fileLog) + 1
          /\ Ascending(fileLog')
          /\ DOMAIN fileLog' = DOMAIN fileLog \cup {Len(fileLog) + 1}
          /\ \A i \in DOMAIN fileLog : fileLog'[i] = fileLog[i]
          /\ fileLog'[Len(fileLog) + 1] = e
      <4>1. fileLog' = Append(fileLog, e)
        BY Zenon, <2>5 DEF e
      <4> QED
        BY SMT, <1>1, <3>1, <3>2, <3>3, <4>1, Appended
    <3>5. \A i \in DOMAIN fileLog' :
            /\ fileLog'[i].line \in 1 .. Len(received)
            /\ \/ fileLog'[i].whole
               \/ fileLog'[i].line \in failed'
               \/ writer' = "cancelled" /\ i = Len(fileLog')
      BY Zenon, <2>1, <2>3, <2>5, <3>1, <3>4
    <3>6. fileOpen' => current \in failed' \/ w
      <4>1. fileLog' = Append(fileLog, [line |-> current, whole |-> TRUE]) => w
        <5>1. [line |-> current, whole |-> TRUE] \in Entries
          BY <1>1 DEF Entries
        <5>2. Append(fileLog, [line |-> current, whole |-> TRUE])[Len(fileLog) + 1]
                = [line |-> current, whole |-> TRUE]
          <6>1. \A e1 \in Entries : Append(fileLog, e1)[Len(fileLog) + 1] = e1
            BY <1>1, AppendProperties
          <6> QED
            BY Zenon, <5>1, <6>1
        <5> QED
          BY <3>1, <3>4, <5>2
      <4> QED
        BY Zenon, <1>7, <4>1
    <3>7. fileOpen' => \A n \in 1 .. Len(received) :
            \/ n \in failed'
            \/ \E i \in DOMAIN fileLog' : fileLog'[i].line = n /\ fileLog'[i].whole
      <4> SUFFICES ASSUME fileOpen', NEW n \in 1 .. Len(received), n \notin failed'
                   PROVE  \E i \in DOMAIN fileLog' : fileLog'[i].line = n /\ fileLog'[i].whole
        BY Zenon
      <4>1. CASE n = current
        BY Zenon, <3>1, <3>4, <3>6, <4>1
      <4>2. CASE n # current
        <5>1. fileOpen /\ n \notin failed /\ n # Len(received)
          BY Zenon, <1>7, <2>1, <4>2
        <5>2. \E i \in DOMAIN fileLog : fileLog[i].line = n /\ fileLog[i].whole
          BY Zenon, <1>1, <5>1 DEF FileInv
        <5> QED
          BY Zenon, <3>4, <5>2
      <4> QED
        BY Zenon, <4>1, <4>2
    <3> QED
      BY Zenon, <1>7, <2>2, <3>4, <3>5, <3>7 DEF FileInv
  <2> QED
    BY Zenon, <1>7, <2>4, <2>5
<1>8. CASE FileWriteFails
  <2>1. fileLog' = fileLog \/ fileLog' = Append(fileLog, [line |-> current, whole |-> FALSE])
    BY Zenon, <1>1, <1>8, PutAfter DEF FileWriteFails
  <2>2. /\ InHand /\ fileOpen' = FALSE /\ fileBuffer' = <<>> /\ writer' = "printing"
        /\ failed' = failed \cup {current} /\ received' = received
    BY Zenon, <1>8 DEF FileWriteFails, InHand
  <2>3. current \in failed'
    BY Zenon, <2>2
  <2> QED
    BY Zenon, <1>7, <2>1, <2>2, <2>3
<1>9. CASE FileFlush
  <2>1. writer = "flushing_file" /\ fileBuffer = <<current>>
    BY Zenon, <1>1, <1>9 DEF FileFlush, FileInv
  <2>2. \A w \in BOOLEAN : fileLog \o Put(fileBuffer, w) = Append(fileLog, [line |-> current, whole |-> w])
    BY Zenon, <1>1, <2>1, PutAfter
  <2>3. \/ /\ fileLog' = Append(fileLog, [line |-> current, whole |-> TRUE])
           /\ failed' = failed
        \/ /\ \/ fileLog' = fileLog
              \/ fileLog' = Append(fileLog, [line |-> current, whole |-> FALSE])
           /\ failed' = failed \cup {current}
    BY Zenon, <1>9, <2>2 DEF FileFlush
  <2>4. /\ InHand /\ fileOpen' = fileOpen /\ fileBuffer' = <<>> /\ writer' = "printing"
        /\ received' = received
    BY Zenon, <1>9 DEF FileFlush, InHand
  <2> QED
    BY Zenon, <1>7, <2>3, <2>4
<1>10. CASE Cancel
  <2>1. /\ writer' = "cancelled" /\ fileOpen' = FALSE /\ fileBuffer' = <<>>
        /\ failed' = failed /\ received' = received
    BY Zenon, <1>10 DEF Cancel
  <2>2. CASE fileLog' = fileLog
    <3>1. writer # "cancelled" /\ ~InHand'
      BY Zenon, <1>10 DEF Cancel, InHand
    <3> QED
      BY Zenon, <1>1, <2>1, <2>2, <3>1 DEF FileInv
  <2>3. CASE writer = "filing" /\ fileLog' = fileLog \o Put(<<current>>, FALSE)
    <3>1. fileLog' = Append(fileLog, [line |-> current, whole |-> FALSE]) /\ InHand
      BY Zenon, <1>1, <2>3, PutAfter DEF InHand
    <3> QED
      BY Zenon, <1>7, <2>1, <3>1
  <2>4. ASSUME NEW w \in BOOLEAN, fileLog' = fileLog \o Put(fileBuffer, w) PROVE FileInv'
    <3>1. CASE writer = "flushing_file"
      <4>1. fileLog' = Append(fileLog, [line |-> current, whole |-> w]) /\ InHand
        BY Zenon, <1>1, <2>4, <3>1, PutAfter DEF InHand, FileInv
      <4> QED
        BY Zenon, <1>7, <2>1, <4>1
    <3>2. CASE writer # "flushing_file"
      BY Zenon, <1>1, <2>2, <2>4, <3>2, PutAfter DEF FileInv
    <3> QED
      BY Zenon, <3>1, <3>2
  <2> QED
    BY Zenon, <1>10, <2>2, <2>3, <2>4 DEF Cancel
<1>11. ASSUME NEW p \in Producers, Emit(p) PROVE FileInv'
  BY Zenon, <1>2, <1>11 DEF Emit, Send, SendFails, CountDrop
<1> QED
  BY Zenon, <1>2, <1>3, <1>4, <1>5, <1>6, <1>8, <1>9, <1>10, <1>11
       DEF TelemetryNext, Writer, telemetry_vars

\* The inductive invariant holds for every interleaving of emit and run_writer.
THEOREM Invariance == TelemetrySpec => []IInv
<1>1. IInv /\ [TelemetryNext]_telemetry_vars => IInv'
  BY Zenon, NextTypeOK, NextAccounted, NextFile DEF IInv
<1> QED
  BY <1>1, InitIInv, PTL DEF TelemetrySpec

\* The channel, the counters and the sinks are well typed, and the queue never
\* outgrows its capacity.
THEOREM TypeCorrect == TelemetrySpec => []TypeOK
<1>1. IInv => TypeOK
  BY Zenon DEF IInv
<1> QED
  BY <1>1, Invariance, PTL

\* Every call of emit is accounted for.
THEOREM EventsAccounted == TelemetrySpec => []Accounted
<1>1. IInv => Accounted
  BY Zenon DEF IInv
<1> QED
  BY <1>1, Invariance, PTL

\* The JSONL file has the events received in order, and an error of the file costs no more than the
\* event that it strikes and the one behind it.
THEOREM FileHasTheEvents == TelemetrySpec => []FileFollows
<1>1. IInv => FileFollows
  BY Zenon, FileInvFollows DEF IInv
<1> QED
  BY <1>1, Invariance, PTL
=============================================================================
