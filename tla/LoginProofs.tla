---------------------------- MODULE LoginProofs ----------------------------
(***************************************************************************)
(* The messages before and at a login can be read in one way (OneReader:   *)
(* LoginsHaveOneReading), for every message, however many options or       *)
(* features it has, and every limit.                                       *)
(*                                                                         *)
(* The parsers are loops: each is a recursive function over the number of  *)
(* its turns. Run is the turn of a loop and Loop shows that the function   *)
(* exists, so that what holds before the first turn and is kept by each    *)
(* turn holds at the end (Upward). The two modes are compared step by      *)
(* step: Lockstep holds of two reports that are equal and without a fault  *)
(* so far, or of which the strict one has refused and the tolerant one has *)
(* noted something, and every step of the three parsers keeps it.          *)
(*                                                                         *)
(* That sspi_token finds the same token as the strict parse of a LOGIN7    *)
(* message is shown separately: from the point where the strict parse has  *)
(* written the token into its report nothing changes it (Carries).         *)
(***************************************************************************)
EXTENDS LoginReaders, WellFoundedInduction, TLAPS

\* A set of numbers that is not empty has a least element.
LEMMA Least ==
    ASSUME NEW T, T \subseteq Nat, T # {}
    PROVE  \E m \in T : \A k \in T : m <= k
<1>1. PICK m \in T : \A k \in T : ~(<<k, m>> \in OpToRel(<, Nat))
  BY ZenonT(60), WFMin, NatLessThanWellFounded
<1>2. ASSUME NEW k \in T, k < m PROVE FALSE
  <2>1. <<k, m>> \in Nat \X Nat
    OBVIOUS
  <2>2. <<k, m>> \in OpToRel(<, Nat)
    BY SMTT(60), <1>2, <2>1 DEF OpToRel
  <2> QED
    BY ZenonT(60), <1>1, <2>2
<1> QED
  BY <1>2

\* Induction along the turns of a loop.
LEMMA Upward ==
    ASSUME NEW n \in Nat, NEW T, 0 \in T, \A k \in 1..n : k - 1 \in T => k \in T
    PROVE  n \in T
<1> DEFINE Bad == {k \in 0..n : k \notin T}
<1>1. SUFFICES ASSUME Bad # {} PROVE FALSE
  OBVIOUS
<1>2. PICK m \in Bad : \A k \in Bad : m <= k
  <2> HIDE DEF Bad
  <2>1. Bad \subseteq Nat
    BY DEF Bad
  <2> QED
    BY Zenon, <1>1, <2>1, Least
<1>3. m # 0 /\ m \in 1..n /\ m - 1 \in 0..n /\ ~(m <= m - 1)
  BY <1>2
<1>4. m - 1 \in T
  BY <1>2, <1>3
<1> QED
  BY <1>2, <1>3, <1>4

(***************************************************************************)
(* Loops.                                                                  *)
(***************************************************************************)

\* The k-th turn of the loop x, whichever it is.
Run(x, k, s) ==
    CASE x.loop = "table" -> Prelogin!Option(x.p, x.lenient, s, k)
      [] x.loop = "options" -> Prelogin!Read(x.p, x.lenient, s, x.entries[k])
      [] x.loop = "features" -> Login7!Feature(x.p, s, x.declared, x.tolerant)
      [] OTHER -> s

IsLoop(f, x, first, n) == f = [k \in 0..n |-> IF k = 0 THEN first ELSE Run(x, k, f[k - 1])]

\* One turn more.
LEMMA LoopStep ==
    ASSUME NEW x, NEW first, NEW n \in Nat, NEW f, IsLoop(f, x, first, n)
    PROVE  \E g : IsLoop(g, x, first, n + 1)
<1> DEFINE g == [k \in 0..n + 1 |-> IF k = n + 1 THEN Run(x, k, f[n]) ELSE f[k]]
<1>1. \A k \in 0..n : f[k] = IF k = 0 THEN first ELSE Run(x, k, f[k - 1])
  BY DEF IsLoop
<1>2. \A k \in 0..n + 1 : g[k] = IF k = 0 THEN first ELSE Run(x, k, g[k - 1])
  <2> TAKE k \in 0..n + 1
  <2>1. CASE k = n + 1
    BY <2>1
  <2>2. CASE k # n + 1
    BY <2>2, <1>1
  <2> QED
    BY <2>1, <2>2
<1>3. g = [k \in 0..n + 1 |-> IF k = 0 THEN first ELSE Run(x, k, g[k - 1])]
  BY <1>2
<1>4. IsLoop(g, x, first, n + 1)
  BY <1>3 DEF IsLoop
<1> HIDE DEF g
<1> QED
  BY <1>4

\* A loop of so many turns exists: the recursive function that defines one is a function.
LEMMA Loop ==
    ASSUME NEW x, NEW first, NEW n \in Nat
    PROVE  \E f : IsLoop(f, x, first, n)
<1> DEFINE T == {k \in Nat : \E f : IsLoop(f, x, first, k)}
<1>1. 0 \in T
  <2> DEFINE g == [k \in 0..0 |-> first]
  <2>1. g = [k \in 0..0 |-> IF k = 0 THEN first ELSE Run(x, k, g[k - 1])]
    OBVIOUS
  <2>2. IsLoop(g, x, first, 0)
    BY <2>1 DEF IsLoop
  <2> HIDE DEF g
  <2> QED
    BY <2>2
<1>2. ASSUME NEW k \in 1..n, k - 1 \in T PROVE k \in T
  <2>1. PICK f : IsLoop(f, x, first, k - 1)
    BY <1>2
  <2>2. k - 1 \in Nat /\ (k - 1) + 1 = k /\ k \in Nat
    OBVIOUS
  <2>3. \E g : IsLoop(g, x, first, (k - 1) + 1)
    BY ONLY <2>1, <2>2, LoopStep, Zenon
  <2>4. \E g : IsLoop(g, x, first, k)
    BY <2>2, <2>3
  <2> QED
    BY <2>2, <2>4
<1>3. n \in T
  <2> HIDE DEF T
  <2> QED
    BY ONLY Zenon, n \in Nat, <1>1, <1>2, Upward
<1> QED
  BY <1>3

\* What the turns of a loop are.
LEMMA Turns ==
    ASSUME NEW x, NEW first, NEW n \in Nat, NEW f, IsLoop(f, x, first, n)
    PROVE  /\ f[0] = first
           /\ \A k \in 1..n : f[k] = Run(x, k, f[k - 1])
<1>1. \A k \in 0..n : f[k] = IF k = 0 THEN first ELSE Run(x, k, f[k - 1])
  BY DEF IsLoop
<1> QED
  BY <1>1

\* turn is what the loop of Table makes of the first descriptors.
IsTable(turn, p, lenient) ==
    /\ turn[0] = Prelogin!Nothing
    /\ \A i \in 1..Len(p.table) : turn[i] = Prelogin!Option(p, lenient, turn[i - 1], i)
    /\ Prelogin!Table(p, lenient) = Prelogin!Ending(p, turn[Len(p.table)], lenient)

\* The option table of a PRELOGIN is read by such a loop (the loop of parse_inner over the
\* descriptors).
LEMMA TableLoop ==
    ASSUME NEW p, Len(p.table) \in Nat, NEW lenient
    PROVE  \E turn : IsTable(turn, p, lenient)
<1> DEFINE x == [loop |-> "table", p |-> p, lenient |-> lenient]
           n == Len(p.table)
           Is(f) == f = [i \in 0..n |-> IF i = 0 THEN Prelogin!Nothing ELSE Prelogin!Option(p, lenient, f[i - 1], i)]
           t == CHOOSE f : Is(f)
<1>1. \A k, s : Run(x, k, s) = Prelogin!Option(p, lenient, s, k)
  BY Zenon DEF Run
<1>2. Prelogin!Table(p, lenient) = Prelogin!Ending(p, t[n], lenient)
  BY DEF Prelogin!Table
<1> HIDE DEF x
<1>3. \A f : Is(f) <=> IsLoop(f, x, Prelogin!Nothing, n)
  BY <1>1 DEF IsLoop
<1> HIDE DEF Is, n
<1>4. n \in Nat
  BY DEF n
<1>5. Is(t)
  BY Zenon, <1>3, <1>4, Loop
<1> HIDE DEF t
<1>6. /\ t[0] = Prelogin!Nothing
      /\ \A i \in 1..n : t[i] = Run(x, i, t[i - 1])
  <2>1. IsLoop(t, x, Prelogin!Nothing, n)
    BY Zenon, <1>3, <1>5
  <2> QED
    BY ONLY SMT, <2>1, <1>4, Turns
<1>7. \A i \in 1..n : t[i] = Prelogin!Option(p, lenient, t[i - 1], i)
  BY <1>1, <1>6
<1> QED
  BY Zenon, <1>2, <1>6, <1>7 DEF n, IsTable

IsOptions(turn, p, r, lenient) ==
    /\ turn[0] = r
    /\ \A k \in 1..Len(r.entries) :
          turn[k] = Prelogin!Read(p, lenient, turn[k - 1], r.entries[k])
    /\ Prelogin!ReadEach(p, r, lenient) = turn[Len(r.entries)]

\* So are the options that the table names.
LEMMA OptionsLoop ==
    ASSUME NEW p, NEW r, Len(r.entries) \in Nat, NEW lenient
    PROVE  \E turn : IsOptions(turn, p, r, lenient)
<1> DEFINE x == [loop |-> "options", p |-> p, lenient |-> lenient, entries |-> r.entries]
           n == Len(r.entries)
           Is(f) == f = [k \in 0..n |-> IF k = 0 THEN r
                                        ELSE Prelogin!Read(p, lenient, f[k - 1], r.entries[k])]
           t == CHOOSE f : Is(f)
<1>1. \A k, s : Run(x, k, s) = Prelogin!Read(p, lenient, s, r.entries[k])
  BY Zenon DEF Run
<1>2. Prelogin!ReadEach(p, r, lenient) = t[n]
  BY DEF Prelogin!ReadEach
<1> HIDE DEF x
<1>3. \A f : Is(f) <=> IsLoop(f, x, r, n)
  BY <1>1 DEF IsLoop
<1> HIDE DEF Is, n
<1>4. n \in Nat
  BY DEF n
<1>5. Is(t)
  BY Zenon, <1>3, <1>4, Loop
<1> HIDE DEF t
<1>6. /\ t[0] = r
      /\ \A k \in 1..n : t[k] = Run(x, k, t[k - 1])
  <2>1. IsLoop(t, x, r, n)
    BY Zenon, <1>3, <1>5
  <2> QED
    BY ONLY SMT, <2>1, <1>4, Turns
<1>7. \A k \in 1..n : t[k] = Prelogin!Read(p, lenient, t[k - 1], r.entries[k])
  BY <1>1, <1>6
<1> QED
  BY Zenon, <1>2, <1>6, <1>7 DEF n, IsOptions

(***************************************************************************)
(* Two modes.                                                              *)
(***************************************************************************)

\* What every one of these parsers returns says whether it was refused, and what was noted.
IsReport(r) ==
    /\ r = [f \in DOMAIN r |-> r[f]]
    /\ {"error", "warnings"} \subseteq DOMAIN r
    /\ r.error \in BOOLEAN

Noted(r) == r.error \/ r.warnings # {}
Agree(s, t) == (s.error <=> Noted(t)) /\ (~s.error => s = t)

FaultOf(r, tolerant, kind) ==
    IF tolerant THEN [r EXCEPT !.warnings = @ \cup {kind}] ELSE [r EXCEPT !.error = TRUE]

\* r goes on as m in both modes.
Kept(r, m) == IsReport(m) /\ m.error = r.error /\ m.warnings = r.warnings

\* A step takes r to q in the strict mode and to z in the tolerant one.  It finds nothing wrong, or
\* a fault, or something that even a tolerant parse does not take.
Reports(r, q, z) ==
    \E m : /\ Kept(r, m)
           /\ \/ q = m /\ z = m
              \/ \E kind : q = FaultOf(m, FALSE, kind) /\ z = FaultOf(m, TRUE, kind)
              \/ q = [m EXCEPT !.error = TRUE] /\ z = [m EXCEPT !.error = TRUE]

\* A fault ends a strict parse and is noted by a tolerant one.
LEMMA FaultIs ==
    ASSUME NEW m, IsReport(m), NEW kind
    PROVE  /\ IsReport(FaultOf(m, FALSE, kind)) /\ IsReport(FaultOf(m, TRUE, kind))
           /\ FaultOf(m, FALSE, kind).error
           /\ Noted(FaultOf(m, TRUE, kind))
<1>1. IsReport([m EXCEPT !.error = TRUE]) /\ [m EXCEPT !.error = TRUE].error
  BY Zenon DEF IsReport
<1>2. IsReport([m EXCEPT !.warnings = @ \cup {kind}])
  BY DEF IsReport
<1>3. [m EXCEPT !.warnings = @ \cup {kind}].warnings = m.warnings \cup {kind}
  BY DEF IsReport
<1>4. m.warnings \cup {kind} # {}
  OBVIOUS
<1> QED
  BY <1>1, <1>2, <1>3, <1>4 DEF FaultOf, Noted

\* A step as far as the two modes are concerned: what was noted stays noted, and where nothing was
\* the modes go on together or find the same fault.
Steps(r, q, z) ==
    /\ IsReport(q) /\ IsReport(z)
    /\ r.error => q.error
    /\ Noted(r) => Noted(z)
    /\ ~Noted(r) => Agree(q, z)

\* A report that is kept or has a fault added is a step of the two modes.
LEMMA Reported ==
    ASSUME NEW r, NEW q, NEW z, Reports(r, q, z)
    PROVE  Steps(r, q, z)
<1>1. PICK m : /\ Kept(r, m)
               /\ \/ q = m /\ z = m
                  \/ \E kind : q = FaultOf(m, FALSE, kind) /\ z = FaultOf(m, TRUE, kind)
                  \/ q = [m EXCEPT !.error = TRUE] /\ z = [m EXCEPT !.error = TRUE]
  BY Zenon DEF Reports
<1>2. CASE q = m /\ z = m
  BY <1>1, <1>2 DEF Kept, Noted, Agree, Steps
<1>3. CASE \E kind : q = FaultOf(m, FALSE, kind) /\ z = FaultOf(m, TRUE, kind)
  BY Zenon, <1>1, <1>3, FaultIs DEF Kept, Noted, Agree, Steps
<1>4. CASE q = [m EXCEPT !.error = TRUE] /\ z = [m EXCEPT !.error = TRUE]
  <2>1. IsReport(q) /\ q.error
    BY Zenon, <1>1, <1>4 DEF Kept, IsReport
  <2> QED
    BY <1>4, <2>1 DEF Noted, Agree, Steps
<1> QED
  BY Zenon, <1>1, <1>2, <1>3, <1>4

\* A strict run at s and a tolerant one at t take the same step, to q and z.
Follow(s, t, q, z) ==
    \E u, v : Steps(s, q, u) /\ Steps(t, v, z) /\ (s = t => q = v)

Lockstep(s, t) == IsReport(s) /\ IsReport(t) /\ Agree(s, t)

\* Two readings that go together and make such a step still go together.
LEMMA Together ==
    ASSUME NEW s, NEW t, NEW q, NEW z, Lockstep(s, t), Follow(s, t, q, z)
    PROVE  Lockstep(q, z)
<1>1. PICK u, v : Steps(s, q, u) /\ Steps(t, v, z) /\ (s = t => q = v)
  BY DEF Follow
<1>2. CASE s.error
  BY <1>1, <1>2 DEF Lockstep, Agree, Noted, Steps
<1>3. CASE ~s.error
  BY <1>1, <1>3 DEF Lockstep, Agree, Noted, Steps
<1> QED
  BY <1>2, <1>3

\* One descriptor of the table leaves the modes together.
LEMMA OptionReports ==
    ASSUME NEW p, NEW i, NEW r, IsReport(r)
    PROVE  Reports(r, Prelogin!Option(p, FALSE, r, i), Prelogin!Option(p, TRUE, r, i))
<1> DEFINE d == p.table[i]
           named == [r EXCEPT !.order = Append(@, d.token)]
           out == Prelogin!OutOfBounds(p, d, 5 * i)
           again == \E k \in DOMAIN r.entries : r.entries[k].token = d.token
           e == [token |-> d.token, start |-> d.offset, end |-> d.offset + d.length]
           full == [named EXCEPT !.entries = Append(@, e)]
           q == Prelogin!Option(p, FALSE, r, i)
           z == Prelogin!Option(p, TRUE, r, i)
<1>1. Kept(r, r) /\ Kept(r, named) /\ Kept(r, full)
  BY Zenon DEF Kept, IsReport
<1>2. \/ q = r /\ z = r
      \/ \E kind : q = FaultOf(named, FALSE, kind) /\ z = FaultOf(named, TRUE, kind)
      \/ q = full /\ z = full
  BY Zenon DEF Prelogin!Option, FaultOf, Prelogin!Fault, Prelogin!DESCRIPTOR_LEN
<1> QED
  BY Zenon, <1>1, <1>2 DEF Reports

\* So does the end of the table, wherever it comes.
LEMMA EndingReports ==
    ASSUME NEW p, NEW r, IsReport(r)
    PROVE  Reports(r, Prelogin!Ending(p, r, FALSE), Prelogin!Ending(p, r, TRUE))
<1> DEFINE named == [r EXCEPT !.order = Append(@, p.token)]
           q == Prelogin!Ending(p, r, FALSE)
           z == Prelogin!Ending(p, r, TRUE)
<1>1. Kept(r, r) /\ Kept(r, named)
  BY Zenon DEF Kept, IsReport
<1>2. \/ q = r /\ z = r
      \/ \E kind : q = FaultOf(r, FALSE, kind) /\ z = FaultOf(r, TRUE, kind)
      \/ \E kind : q = FaultOf(named, FALSE, kind) /\ z = FaultOf(named, TRUE, kind)
  BY Zenon DEF Prelogin!Ending, FaultOf, Prelogin!Fault
<1> QED
  BY ZenonT(60), <1>1, <1>2 DEF Reports

\* So does the rule that VERSION comes first.
LEMMA FirstReports ==
    ASSUME NEW r, IsReport(r)
    PROVE  Reports(r, Prelogin!First(r, FALSE), Prelogin!First(r, TRUE))
<1>1. Kept(r, r)
  BY DEF Kept
<1> QED
  BY Zenon, <1>1 DEF Reports, Prelogin!First, FaultOf, Prelogin!Fault

\* So does the search for values that overlap.
LEMMA OverlapsReports ==
    ASSUME NEW p, NEW r, IsReport(r)
    PROVE  Reports(r, Prelogin!Overlaps(p, r, FALSE), Prelogin!Overlaps(p, r, TRUE))
<1>1. Kept(r, r)
  BY DEF Kept
<1> QED
  BY ZenonT(60), <1>1 DEF Reports, Prelogin!Overlaps, FaultOf, Prelogin!Fault

\* So does the ENCRYPTION option.
LEMMA EncryptionReports ==
    ASSUME NEW raw, NEW r, IsReport(r)
    PROVE  Reports(r, Prelogin!EncryptionOption(r, raw, FALSE), Prelogin!EncryptionOption(r, raw, TRUE))
<1> DEFINE flagged == [r EXCEPT !.certificate = Prelogin!Certificate(raw),
                                !.extension = Prelogin!Extension(raw),
                                !.values = @ \cup {<<Prelogin!ENCRYPTION, raw>>}]
           known == [flagged EXCEPT !.encryption = Prelogin!Encryption[Prelogin!Base(raw) + 1]]
           q == Prelogin!EncryptionOption(r, raw, FALSE)
           z == Prelogin!EncryptionOption(r, raw, TRUE)
<1>1. Kept(r, flagged) /\ Kept(r, known)
  BY Zenon DEF Kept, IsReport
<1>2. \/ \E kind : q = FaultOf(flagged, FALSE, kind) /\ z = FaultOf(flagged, TRUE, kind)
      \/ \E kind : q = FaultOf(known, FALSE, kind) /\ z = FaultOf(known, TRUE, kind)
      \/ q = known /\ z = known
  <2> DEFINE large == Prelogin!Base(raw) > 3
             odd == Prelogin!Base(raw) = 2 /\ Prelogin!Certificate(raw)
  <2>1. large => q = FaultOf(flagged, FALSE, "encryption") /\ z = FaultOf(flagged, TRUE, "encryption")
    BY DEF Prelogin!EncryptionOption, FaultOf, Prelogin!Fault
  <2>2. (~large /\ odd) => /\ q = FaultOf(known, FALSE, "certificate")
                           /\ z = FaultOf(known, TRUE, "certificate")
    BY DEF Prelogin!EncryptionOption, FaultOf, Prelogin!Fault
  <2>3. (~large /\ ~odd) => q = known /\ z = known
    BY Zenon DEF Prelogin!EncryptionOption
  <2> HIDE DEF large, odd, q, z, flagged, known
  <2> QED
    BY Zenon, <2>1, <2>2, <2>3
<1> QED
  BY ZenonT(60), <1>1, <1>2 DEF Reports

\* So do MARS and FEDAUTHREQUIRED.
LEMMA FlagReports ==
    ASSUME NEW token, NEW raw, NEW r, IsReport(r)
    PROVE  Reports(r, Prelogin!FlagOption(r, token, raw, FALSE), Prelogin!FlagOption(r, token, raw, TRUE))
<1> DEFINE flag == [r EXCEPT !.values = @ \cup {<<token, raw, raw # 0>>}]
<1>1. Kept(r, flag)
  BY DEF Kept, IsReport
<1> QED
  BY Zenon, <1>1 DEF Reports, Prelogin!FlagOption, FaultOf, Prelogin!Fault

\* Which option is read, and how.
ReadsAs(p, e, r, q, z) ==
    LET v == Prelogin!Value(p, e)
        instance == [r EXCEPT !.values = @ \cup {<<Prelogin!INSTOPT, Prelogin!Trimmed(v)>>}]
        plain == [r EXCEPT !.values = @ \cup {<<e.token, v>>}]
        other == [r EXCEPT !.unknown = @ \cup {<<e.token, Len(v)>>}]
    IN
      \/ q = r /\ z = r
      \/ /\ q = Prelogin!EncryptionOption(r, v[1], FALSE)
         /\ z = Prelogin!EncryptionOption(r, v[1], TRUE)
      \/ /\ q = Prelogin!FlagOption(r, e.token, v[1], FALSE)
         /\ z = Prelogin!FlagOption(r, e.token, v[1], TRUE)
      \/ q = instance /\ z = instance
      \/ q = plain /\ z = plain
      \/ q = other /\ z = other
      \/ q = FaultOf(r, FALSE, "length") /\ z = FaultOf(r, TRUE, "length")

\* An option is read in one of these ways, the same in both modes.
LEMMA ReadIs ==
    ASSUME NEW p, NEW e, NEW r
    PROVE  ReadsAs(p, e, r, Prelogin!Read(p, FALSE, r, e), Prelogin!Read(p, TRUE, r, e))
<1> DEFINE v == Prelogin!Value(p, e)
           instance == [r EXCEPT !.values = @ \cup {<<Prelogin!INSTOPT, Prelogin!Trimmed(v)>>}]
           plain == [r EXCEPT !.values = @ \cup {<<e.token, v>>}]
           other == [r EXCEPT !.unknown = @ \cup {<<e.token, Len(v)>>}]
           q == Prelogin!Read(p, FALSE, r, e)
           z == Prelogin!Read(p, TRUE, r, e)
<1> DEFINE a == e.token = Prelogin!ENCRYPTION /\ Len(v) = 1
           b == e.token \in Prelogin!Flags /\ Len(v) = 1
           c == e.token = Prelogin!INSTOPT
           d == e.token \in DOMAIN Prelogin!PlainLength /\ Len(v) = Prelogin!PlainLength[e.token]
           o == e.token > Prelogin!NONCEOPT
<1>0. /\ a => ~b /\ ~c /\ ~d /\ ~o
      /\ b => ~c /\ ~d /\ ~o
      /\ c => ~d /\ ~o
      /\ d => ~o
  BY DEF Prelogin!ENCRYPTION, Prelogin!Flags, Prelogin!INSTOPT, Prelogin!PlainLength,
     Prelogin!NONCEOPT,
         Prelogin!MARS, Prelogin!FEDAUTHREQUIRED, Prelogin!VERSION, Prelogin!THREADID, Prelogin!TRACEID
<1>1. r.error => q = r /\ z = r
  BY DEF Prelogin!Read
<1>2. (~r.error /\ a) => /\ q = Prelogin!EncryptionOption(r, v[1], FALSE)
                         /\ z = Prelogin!EncryptionOption(r, v[1], TRUE)
  BY Zenon, <1>0 DEF Prelogin!Read
<1>3. (~r.error /\ ~a /\ b) => /\ q = Prelogin!FlagOption(r, e.token, v[1], FALSE)
                               /\ z = Prelogin!FlagOption(r, e.token, v[1], TRUE)
  BY Zenon, <1>0 DEF Prelogin!Read
<1>4. (~r.error /\ ~a /\ ~b /\ c) => q = instance /\ z = instance
  BY Zenon, <1>0 DEF Prelogin!Read
<1>5. (~r.error /\ ~a /\ ~b /\ ~c /\ d) => q = plain /\ z = plain
  BY Zenon, <1>0 DEF Prelogin!Read
<1>6. (~r.error /\ ~a /\ ~b /\ ~c /\ ~d /\ o) => q = other /\ z = other
  BY Zenon, <1>0 DEF Prelogin!Read
<1>7. (~r.error /\ ~a /\ ~b /\ ~c /\ ~d /\ ~o) =>
         q = FaultOf(r, FALSE, "length") /\ z = FaultOf(r, TRUE, "length")
  BY ZenonT(60) DEF Prelogin!Read, FaultOf, Prelogin!Fault
<1>8. ReadsAs(p, e, r, q, z)
  <2> HIDE DEF a, b, c, d, o, q, z
  <2> QED
    BY Zenon, <1>1, <1>2, <1>3, <1>4, <1>5, <1>6, <1>7 DEF ReadsAs
<1> QED
  BY Zenon, <1>8

\* So an option leaves the modes together.
LEMMA ReadReports ==
    ASSUME NEW p, NEW e, NEW r, IsReport(r)
    PROVE  Reports(r, Prelogin!Read(p, FALSE, r, e), Prelogin!Read(p, TRUE, r, e))
<1> DEFINE v == Prelogin!Value(p, e)
           instance == [r EXCEPT !.values = @ \cup {<<Prelogin!INSTOPT, Prelogin!Trimmed(v)>>}]
           plain == [r EXCEPT !.values = @ \cup {<<e.token, v>>}]
           other == [r EXCEPT !.unknown = @ \cup {<<e.token, Len(v)>>}]
           q == Prelogin!Read(p, FALSE, r, e)
           z == Prelogin!Read(p, TRUE, r, e)
<1>1. Kept(r, r) /\ Kept(r, instance) /\ Kept(r, plain) /\ Kept(r, other)
  BY Zenon DEF Kept, IsReport
<1>2. ReadsAs(p, e, r, q, z)
  BY Zenon, ReadIs
<1>3. /\ Reports(r, Prelogin!EncryptionOption(r, v[1], FALSE), Prelogin!EncryptionOption(r, v[1], TRUE))
      /\ Reports(r, Prelogin!FlagOption(r, e.token, v[1], FALSE),
                    Prelogin!FlagOption(r, e.token, v[1], TRUE))
  BY ZenonT(60), EncryptionReports, FlagReports
<1>4. \A m : Kept(r, m) => Reports(r, m, m)
  BY Zenon DEF Reports
<1>5. Reports(r, FaultOf(r, FALSE, "length"), FaultOf(r, TRUE, "length"))
  BY Zenon, <1>1 DEF Reports
<1> HIDE DEF q, z
<1>6. Reports(r, q, z)
  BY Zenon, <1>1, <1>2, <1>3, <1>4, <1>5 DEF ReadsAs
<1> QED
  BY Zenon, <1>6 DEF q, z

\* After the whole table the modes are together.
LEMMA TableAgrees ==
    ASSUME NEW p, Len(p.table) \in Nat
    PROVE  Lockstep(Prelogin!Table(p, FALSE), Prelogin!Table(p, TRUE))
<1> DEFINE n == Len(p.table)
<1>1. PICK s : IsTable(s, p, FALSE)
  BY Zenon, TableLoop
<1>2. PICK t : IsTable(t, p, TRUE)
  BY Zenon, TableLoop
<1> DEFINE T == {k \in 0..n : Lockstep(s[k], t[k])}
<1>3. 0 \in T
  <2>1. IsReport(Prelogin!Nothing) /\ ~Noted(Prelogin!Nothing)
    BY DEF Prelogin!Nothing, IsReport, Noted
  <2>2. s[0] = Prelogin!Nothing /\ t[0] = Prelogin!Nothing
    BY <1>1, <1>2 DEF IsTable
  <2>3. Lockstep(s[0], t[0])
    BY ZenonT(60), <2>1, <2>2 DEF Lockstep, Agree, Noted
  <2> QED
    BY <2>3
<1>4. ASSUME NEW k \in 1..n, k - 1 \in T PROVE k \in T
  <2>1. /\ s[k] = Prelogin!Option(p, FALSE, s[k - 1], k)
        /\ t[k] = Prelogin!Option(p, TRUE, t[k - 1], k)
    BY Zenon, <1>1, <1>2 DEF IsTable
  <2>2. Lockstep(s[k - 1], t[k - 1])
    BY <1>4
  <2>3. /\ Reports(s[k - 1], s[k], Prelogin!Option(p, TRUE, s[k - 1], k))
        /\ Reports(t[k - 1], Prelogin!Option(p, FALSE, t[k - 1], k), t[k])
    BY Zenon, <2>1, <2>2, OptionReports DEF Lockstep
  <2>4. Follow(s[k - 1], t[k - 1], s[k], t[k])
    BY Zenon, <2>1, <2>3, Reported DEF Follow
  <2>5. Lockstep(s[k], t[k])
    BY ONLY Zenon, <2>2, <2>4, Together
  <2> QED
    BY <2>5
<1>5. n \in T
  <2> HIDE DEF T
  <2> QED
    BY ONLY ZenonT(60), Len(p.table) \in Nat, <1>3, <1>4, Upward
<1>6. Lockstep(s[n], t[n])
  BY <1>5
<1>7. Follow(s[n], t[n], Prelogin!Ending(p, s[n], FALSE), Prelogin!Ending(p, t[n], TRUE))
  <2>1. /\ Steps(s[n], Prelogin!Ending(p, s[n], FALSE), Prelogin!Ending(p, s[n], TRUE))
        /\ Steps(t[n], Prelogin!Ending(p, t[n], FALSE), Prelogin!Ending(p, t[n], TRUE))
    BY ZenonT(60), <1>6, EndingReports, Reported DEF Lockstep
  <2> QED
    BY Zenon, <2>1 DEF Follow
<1>8. Lockstep(Prelogin!Ending(p, s[n], FALSE), Prelogin!Ending(p, t[n], TRUE))
  BY ONLY Zenon, <1>6, <1>7, Together
<1> QED
  BY ZenonT(60), <1>1, <1>2, <1>8 DEF IsTable

\* After all the options they are, if they were before.
LEMMA OptionsAgree ==
    ASSUME NEW p, NEW a, NEW b, Lockstep(a, b),
           Len(a.entries) \in Nat, Len(b.entries) \in Nat
    PROVE  Lockstep(Prelogin!ReadEach(p, a, FALSE), Prelogin!ReadEach(p, b, TRUE))
<1> DEFINE n == Len(a.entries)
           m == Len(b.entries)
<1>0. n \in Nat /\ m \in Nat
  OBVIOUS
<1>1. PICK s : IsOptions(s, p, a, FALSE)
  BY ONLY Zenon, <1>0, OptionsLoop
<1>2. PICK t : IsOptions(t, p, b, TRUE)
  BY ONLY Zenon, <1>0, OptionsLoop
<1>3. CASE a.error
  <2> DEFINE S == {k \in 0..n : IsReport(s[k]) /\ s[k].error}
             T == {k \in 0..m : IsReport(t[k]) /\ Noted(t[k])}
  <2>1. 0 \in S /\ 0 \in T
    BY <1>1, <1>2, <1>3 DEF IsOptions, Lockstep, Agree, Noted
  <2>2. ASSUME NEW k \in 1..n, k - 1 \in S PROVE k \in S
    <3>1. s[k] = Prelogin!Read(p, FALSE, s[k - 1], a.entries[k])
      BY Zenon, <1>1 DEF IsOptions
    <3>2. Reports(s[k - 1], s[k], Prelogin!Read(p, TRUE, s[k - 1], a.entries[k]))
      BY Zenon, <2>2, <3>1, ReadReports
    <3>3. IsReport(s[k]) /\ s[k].error
      <4>1. IsReport(s[k - 1]) /\ s[k - 1].error
        BY <2>2
      <4> QED
        BY ONLY Zenon, <3>2, <4>1, Reported DEF Steps
    <3> QED
      BY <3>3
  <2>3. ASSUME NEW k \in 1..m, k - 1 \in T PROVE k \in T
    <3>1. t[k] = Prelogin!Read(p, TRUE, t[k - 1], b.entries[k])
      BY Zenon, <1>2 DEF IsOptions
    <3>2. Reports(t[k - 1], Prelogin!Read(p, FALSE, t[k - 1], b.entries[k]), t[k])
      BY Zenon, <2>3, <3>1, ReadReports
    <3>3. IsReport(t[k]) /\ Noted(t[k])
      <4>1. IsReport(t[k - 1]) /\ Noted(t[k - 1])
        BY <2>3
      <4> QED
        BY ONLY Zenon, <3>2, <4>1, Reported DEF Steps
    <3> QED
      BY <3>3
  <2> HIDE DEF S, T
  <2>4. n \in S /\ m \in T
    BY ONLY Zenon, <1>0, <2>1, <2>2, <2>3, Upward
  <2> QED
    BY Zenon, <1>1, <1>2, <2>4 DEF S, T, IsOptions, Lockstep, Agree
<1>4. CASE ~a.error
  <2>1. a = b
    BY <1>4 DEF Lockstep, Agree
  <2> DEFINE T == {k \in 0..n : Lockstep(s[k], t[k])}
  <2>2. 0 \in T
    BY <1>1, <1>2, <2>1 DEF IsOptions, Lockstep
  <2>3. ASSUME NEW k \in 1..n, k - 1 \in T PROVE k \in T
    <3> DEFINE e == a.entries[k]
    <3>1. /\ s[k] = Prelogin!Read(p, FALSE, s[k - 1], e)
          /\ t[k] = Prelogin!Read(p, TRUE, t[k - 1], e)
      BY Zenon, <1>1, <1>2, <2>1 DEF IsOptions
    <3>2. Lockstep(s[k - 1], t[k - 1])
      BY <2>3
    <3>3. /\ Reports(s[k - 1], s[k], Prelogin!Read(p, TRUE, s[k - 1], e))
          /\ Reports(t[k - 1], Prelogin!Read(p, FALSE, t[k - 1], e), t[k])
      BY Zenon, <3>1, <3>2, ReadReports DEF Lockstep
    <3>4. Follow(s[k - 1], t[k - 1], s[k], t[k])
      BY ZenonT(60), <3>1, <3>3, Reported DEF Follow
    <3>5. Lockstep(s[k], t[k])
      BY ONLY Zenon, <3>2, <3>4, Together
    <3> QED
      BY <3>5
  <2> HIDE DEF T
  <2>4. n \in T
    BY ONLY Zenon, <1>0, <2>2, <2>3, Upward
  <2> QED
    BY ZenonT(60), <1>1, <1>2, <2>1, <2>4 DEF T, IsOptions
<1> QED
  BY Zenon, <1>3, <1>4

\* The entries of the table have tokens of their own.
Entry == [token : Nat, start : Nat, end : Nat]
HasEntries(r) ==
    /\ IsReport(r)
    /\ "entries" \in DOMAIN r
    /\ r.entries \in Seq(Entry)
    /\ \A j, k \in DOMAIN r.entries : r.entries[j].token = r.entries[k].token => j = k

\* Options found are so many.
LEMMA EntriesLength ==
    ASSUME NEW r, HasEntries(r)
    PROVE  Len(r.entries) \in Nat
BY DEF HasEntries

\* A fault changes none of the options found.
LEMMA FaultKeeps ==
    ASSUME NEW r, IsReport(r), NEW lenient, NEW kind
    PROVE  /\ IsReport(Prelogin!Fault(r, lenient, kind))
           /\ DOMAIN Prelogin!Fault(r, lenient, kind) = DOMAIN r
           /\ Prelogin!Fault(r, lenient, kind).entries = r.entries
<1> DEFINE w == r.warnings \cup {kind}
           a == [r EXCEPT !.warnings = w]
           b == [r EXCEPT !.error = TRUE]
<1>1. IsReport(a) /\ IsReport(b)
  BY Zenon DEF IsReport
<1>2. /\ DOMAIN a = DOMAIN r /\ a.entries = r.entries
      /\ DOMAIN b = DOMAIN r /\ b.entries = r.entries
  BY DEF IsReport
<1>3. Prelogin!Fault(r, lenient, kind) = IF lenient THEN a ELSE b
  BY DEF Prelogin!Fault
<1> HIDE DEF a, b
<1> QED
  BY Zenon, <1>1, <1>2, <1>3

\* So a report with a fault has options as it had before.
LEMMA FaultEntries ==
    ASSUME NEW r, HasEntries(r), NEW lenient, NEW kind
    PROVE  HasEntries(Prelogin!Fault(r, lenient, kind))
<1> DEFINE q == Prelogin!Fault(r, lenient, kind)
<1>1. IsReport(q) /\ DOMAIN q = DOMAIN r /\ q.entries = r.entries
  BY FaultKeeps DEF HasEntries
<1> HIDE DEF q
<1>2. HasEntries(q)
  BY Zenon, <1>1 DEF HasEntries
<1> QED
  BY <1>2 DEF q

\* Of the numbers in a table only this matters.
LEMMA Numbers ==
    /\ Prelogin!Word \subseteq Nat
    /\ Prelogin!Token \subseteq Nat
BY DEF Prelogin!Word, Prelogin!Token, Prelogin!Octet

\* The descriptors of a payload consist of numbers.
LEMMA PayloadTable ==
    ASSUME NEW p \in Prelogin!Payload
    PROVE  /\ Len(p.table) \in Nat
           /\ \A i \in 1..Len(p.table) :
                 /\ p.table[i].token \in Nat
                 /\ p.table[i].offset \in Nat
                 /\ p.table[i].offset + p.table[i].length \in Nat
<1> DEFINE D == [token : Prelogin!Token, offset : Prelogin!Word, length : Prelogin!Word]
<1>1. p.table \in Prelogin!Tables
  BY DEF Prelogin!Payload
<1>2. p.table \in Seq(D)
  BY <1>1 DEF Prelogin!Tables
<1>3. Len(p.table) \in Nat /\ \A i \in 1..Len(p.table) : p.table[i] \in D
  <2> HIDE DEF D
  <2> QED
    BY ONLY <1>2
<1>4. \A d \in D : d.token \in Nat /\ d.offset \in Nat /\ d.offset + d.length \in Nat
  <2> TAKE d \in D
  <2>1. d.token \in Nat /\ d.offset \in Nat /\ d.length \in Nat
    BY Zenon, Numbers
  <2> QED
    BY ONLY <2>1
<1> QED
  BY ONLY Zenon, <1>3, <1>4

\* A descriptor adds an option with another token and with bounds that are numbers, or none.
LEMMA OptionEntries ==
    ASSUME NEW p \in Prelogin!Payload, NEW lenient, NEW i \in 1..Len(p.table), NEW r, HasEntries(r)
    PROVE  HasEntries(Prelogin!Option(p, lenient, r, i))
<1> DEFINE d == p.table[i]
           named == [r EXCEPT !.order = Append(@, d.token)]
           out == Prelogin!OutOfBounds(p, d, 5 * i)
           again == \E k \in DOMAIN r.entries : r.entries[k].token = d.token
           e == [token |-> d.token, start |-> d.offset, end |-> d.offset + d.length]
           full == [named EXCEPT !.entries = Append(@, e)]
<1>1. HasEntries(named) /\ named.entries = r.entries
  BY Zenon DEF HasEntries, IsReport
<1>2. \A kind : HasEntries(Prelogin!Fault(named, lenient, kind))
  BY Zenon, <1>1, FaultEntries
<1>3. ~again => HasEntries(full)
  <2>1. d.token \in Nat /\ d.offset \in Nat /\ d.offset + d.length \in Nat
    BY SMTT(60), PayloadTable
  <2>2. e \in Entry
    BY SMTT(60), <2>1 DEF Entry
  <2>3. full.entries = Append(r.entries, e) /\ IsReport(full) /\ "entries" \in DOMAIN full
    BY ZenonT(60), <1>1 DEF HasEntries, IsReport
  <2> HIDE DEF full
  <2>4. Append(r.entries, e) \in Seq(Entry)
    BY <2>2 DEF HasEntries
  <2>5. ASSUME ~again, NEW j \in DOMAIN full.entries, NEW k \in DOMAIN full.entries,
               full.entries[j].token = full.entries[k].token
        PROVE  j = k
    <3>1. r.entries \in Seq(Entry) /\ DOMAIN r.entries = 1..Len(r.entries)
      BY DEF HasEntries
    <3>2. DOMAIN full.entries = 1..Len(r.entries) + 1
      BY <2>3, <2>2, <3>1
    <3>3. \A m \in 1..Len(r.entries) : full.entries[m] = r.entries[m]
      BY SMTT(60), <2>3, <2>2, <3>1
    <3>4. full.entries[Len(r.entries) + 1].token = d.token
      BY SMTT(60), <2>3, <2>2, <3>1
    <3> QED
      BY SMTT(60), <2>5, <3>1, <3>2, <3>3, <3>4 DEF HasEntries
  <2> QED
    BY SMTT(60), <2>3, <2>4, <2>5 DEF HasEntries
<1> DEFINE q == Prelogin!Option(p, lenient, r, i)
<1>4. /\ r.error => q = r
      /\ (~r.error /\ out) => q = Prelogin!Fault(named, lenient, "bounds")
      /\ (~r.error /\ ~out /\ again) => q = Prelogin!Fault(named, lenient, "duplicate")
      /\ (~r.error /\ ~out /\ ~again) => q = full
  BY DEF Prelogin!Option, Prelogin!DESCRIPTOR_LEN
<1> HIDE DEF q, named, out, again, full
<1> QED
  BY <1>2, <1>3, <1>4 DEF q

\* So the options that the table gives are like that.
LEMMA TableEntries ==
    ASSUME NEW p \in Prelogin!Payload, NEW lenient
    PROVE  HasEntries(Prelogin!Table(p, lenient))
<1> DEFINE n == Len(p.table)
<1>0. n \in Nat
  BY PayloadTable
<1>1. PICK t : IsTable(t, p, lenient)
  BY ONLY Zenon, <1>0, TableLoop
<1> DEFINE T == {k \in 0..n : HasEntries(t[k])}
<1>2. 0 \in T
  <2>1. HasEntries(Prelogin!Nothing)
    BY DEF Prelogin!Nothing, HasEntries, IsReport
  <2> QED
    BY SMTT(60), <1>0, <1>1, <2>1 DEF IsTable
<1>3. ASSUME NEW k \in 1..n, k - 1 \in T PROVE k \in T
  <2>1. t[k] = Prelogin!Option(p, lenient, t[k - 1], k)
    BY Zenon, <1>1 DEF IsTable
  <2>2. HasEntries(t[k - 1])
    BY <1>3
  <2>3. HasEntries(t[k])
    BY <2>1, <2>2, OptionEntries
  <2> QED
    BY <2>3
<1>4. n \in T
  <2> HIDE DEF T
  <2> QED
    BY ONLY ZenonT(60), <1>0, <1>2, <1>3, Upward
<1> DEFINE r == t[n]
           named == [r EXCEPT !.order = Append(@, p.token)]
<1>5. HasEntries(r) /\ HasEntries(named)
  BY Zenon, <1>4 DEF HasEntries, IsReport
<1>6. \A kind : /\ HasEntries(Prelogin!Fault(r, lenient, kind))
                /\ HasEntries(Prelogin!Fault(named, lenient, kind))
  BY Zenon, <1>5, FaultEntries
<1>7. HasEntries(Prelogin!Ending(p, r, lenient))
  <2> HIDE DEF r, named
  <2> QED
    BY Zenon, <1>5, <1>6 DEF Prelogin!Ending, named
<1> QED
  BY <1>1, <1>7 DEF IsTable

\* They stay so up to the point where they are read.
LEMMA OverlapsEntries ==
    ASSUME NEW p \in Prelogin!Payload, NEW lenient
    PROVE  HasEntries(Prelogin!Overlaps(p, Prelogin!First(Prelogin!Table(p, lenient), lenient), lenient))
<1> DEFINE a == Prelogin!Table(p, lenient)
           b == Prelogin!First(a, lenient)
<1>1. HasEntries(a)
  BY TableEntries
<1>2. HasEntries(b)
  <2> HIDE DEF a
  <2> QED
    BY Zenon, <1>1, FaultEntries DEF Prelogin!First
<1> HIDE DEF b
<1> QED
  BY Zenon, <1>2, FaultEntries DEF Prelogin!Overlaps, b

\* The two modes of a PRELOGIN parse agree.
THEOREM PreloginAgrees ==
    ASSUME NEW p \in Prelogin!Payload
    PROVE  Lockstep(Prelogin!parse_inner(p, FALSE), Prelogin!parse_inner(p, TRUE))
<1> DEFINE a(lenient) == Prelogin!Table(p, lenient)
           b(lenient) == Prelogin!First(a(lenient), lenient)
           c(lenient) == Prelogin!Overlaps(p, b(lenient), lenient)
<1>1. Lockstep(a(FALSE), a(TRUE))
  BY Zenon, PayloadTable, TableAgrees
<1>2. Lockstep(b(FALSE), b(TRUE))
  <2> HIDE DEF a
  <2>1. Follow(a(FALSE), a(TRUE), b(FALSE), b(TRUE))
    BY Zenon, <1>1, FirstReports, Reported DEF Follow, Lockstep
  <2> QED
    BY ONLY Zenon, <1>1, <2>1, Together
<1>3. Lockstep(c(FALSE), c(TRUE))
  <2> HIDE DEF b
  <2>1. Follow(b(FALSE), b(TRUE), c(FALSE), c(TRUE))
    BY Zenon, <1>2, OverlapsReports, Reported DEF Follow, Lockstep
  <2> QED
    BY ONLY Zenon, <1>2, <2>1, Together
<1>4. HasEntries(c(FALSE)) /\ HasEntries(c(TRUE))
  BY Zenon, OverlapsEntries
<1>5. Lockstep(Prelogin!ReadEach(p, c(FALSE), FALSE), Prelogin!ReadEach(p, c(TRUE), TRUE))
  <2> HIDE DEF c
  <2>1. Len(c(FALSE).entries) \in Nat /\ Len(c(TRUE).entries) \in Nat
    BY Zenon, <1>4, EntriesLength
  <2> QED
    BY ONLY Zenon, <1>3, <2>1, OptionsAgree
<1> QED
  BY Zenon, <1>5 DEF Prelogin!parse_inner

\* No option changes the entries.
SameEntries(r, q) == HasEntries(q) /\ q.entries = r.entries

\* Reading an option changes none of the options found, and takes no error back.
LEMMA ReadKeeps ==
    ASSUME NEW p, NEW e, NEW r, HasEntries(r)
    PROVE  SameEntries(r, Prelogin!Read(p, FALSE, r, e))
<1> DEFINE v == Prelogin!Value(p, e)
           Same(m) == IsReport(m) /\ DOMAIN m = DOMAIN r /\ m.entries = r.entries
           flagged(raw) == [r EXCEPT !.certificate = Prelogin!Certificate(raw),
                                     !.extension = Prelogin!Extension(raw),
                                     !.values = @ \cup {<<Prelogin!ENCRYPTION, raw>>}]
           known(raw) ==
               [flagged(raw) EXCEPT !.encryption = Prelogin!Encryption[Prelogin!Base(raw) + 1]]
           kept(x) == [r EXCEPT !.values = x]
           other(x) == [r EXCEPT !.unknown = x]
           q == Prelogin!Read(p, FALSE, r, e)
<1>1. /\ Same(r)
      /\ \A raw : Same(flagged(raw)) /\ Same(known(raw))
      /\ \A x : Same(kept(x)) /\ Same(other(x))
  BY ZenonT(60) DEF HasEntries, IsReport
<1>2. \A m, kind : Same(m) => Same(Prelogin!Fault(m, FALSE, kind))
  BY Zenon, FaultKeeps
<1>3. \A raw : Same(Prelogin!EncryptionOption(r, raw, FALSE))
  <2> HIDE DEF Same
  <2> QED
    BY Zenon, <1>1, <1>2 DEF Prelogin!EncryptionOption
<1>4. \A raw : Same(Prelogin!FlagOption(r, e.token, raw, FALSE))
  <2> HIDE DEF Same
  <2> QED
    BY ZenonT(60), <1>1, <1>2 DEF Prelogin!FlagOption
<1>5. Same(FaultOf(r, FALSE, "length"))
  BY Zenon, <1>1, <1>2 DEF FaultOf, Prelogin!Fault
<1>6. Same(q)
  <2> HIDE DEF Same
  <2>1. ReadsAs(p, e, r, q, Prelogin!Read(p, TRUE, r, e))
    BY Zenon, ReadIs
  <2> HIDE DEF q
  <2> QED
    BY ZenonT(60), <1>1, <1>3, <1>4, <1>5, <2>1 DEF ReadsAs
<1> HIDE DEF q
<1>7. SameEntries(r, q)
  BY Zenon, <1>6 DEF HasEntries, SameEntries
<1> QED
  BY Zenon, <1>7 DEF q

\* So does reading them all.
LEMMA OptionsKeep ==
    ASSUME NEW p, NEW r, HasEntries(r)
    PROVE  /\ Prelogin!ReadEach(p, r, FALSE).entries = r.entries
           /\ r.error => Prelogin!ReadEach(p, r, FALSE).error
<1> DEFINE n == Len(r.entries)
<1>0. n \in Nat
  BY EntriesLength
<1>1. PICK t : IsOptions(t, p, r, FALSE)
  BY ONLY Zenon, <1>0, OptionsLoop
<1> DEFINE Good(m) == HasEntries(m) /\ m.entries = r.entries /\ (r.error => m.error)
           T == {k \in 0..n : Good(t[k])}
<1>2. 0 \in T
  BY <1>0, <1>1 DEF IsOptions
<1>3. ASSUME NEW k \in 1..n, k - 1 \in T PROVE k \in T
  <2> DEFINE e == r.entries[k]
  <2>1. t[k] = Prelogin!Read(p, FALSE, t[k - 1], e)
    BY Zenon, <1>1 DEF IsOptions
  <2>2. Good(t[k - 1])
    BY <1>3
  <2> HIDE DEF e
  <2>3. HasEntries(t[k]) /\ t[k].entries = r.entries
    <3>1. HasEntries(t[k - 1])
      BY <2>2
    <3>2. SameEntries(t[k - 1], Prelogin!Read(p, FALSE, t[k - 1], e))
      BY ONLY Zenon, <3>1, ReadKeeps
    <3>3. t[k - 1].entries = r.entries
      BY <2>2
    <3> QED
      BY ONLY ZenonT(60), <2>1, <3>2, <3>3 DEF SameEntries
  <2>4. Reports(t[k - 1], t[k], Prelogin!Read(p, TRUE, t[k - 1], e))
    <3>1. IsReport(t[k - 1])
      BY <2>2 DEF HasEntries
    <3>2. Reports(t[k - 1], Prelogin!Read(p, FALSE, t[k - 1], e), Prelogin!Read(p, TRUE, t[k - 1], e))
      BY ONLY Zenon, <3>1, ReadReports
    <3> QED
      BY ONLY Zenon, <2>1, <3>2
  <2>5. t[k - 1].error => t[k].error
    BY ONLY Zenon, <2>4, Reported DEF Steps
  <2>6. Good(t[k])
    BY Zenon, <2>2, <2>3, <2>5
  <2> QED
    BY <2>6
<1>4. n \in T
  <2> HIDE DEF T
  <2> QED
    BY ONLY ZenonT(60), <1>0, <1>2, <1>3, Upward
<1>5. Good(t[n])
  BY <1>4
<1> QED
  BY Zenon, <1>1, <1>5 DEF IsOptions

\* The values of a PRELOGIN that a strict parse accepts, and the table before them, lie apart.
THEOREM PreloginApart ==
    ASSUME NEW p \in Prelogin!Payload, ~Prelogin!parse_inner(p, FALSE).error
    PROVE  LET entries == Prelogin!parse_inner(p, FALSE).entries
           IN  /\ entries \in Seq(Entry)
               /\ \A k \in DOMAIN entries : Prelogin!Cursor(p) <= entries[k].start
               /\ \A j, k \in DOMAIN entries :
                     \/ j = k
                     \/ entries[j].end <= entries[k].start
                     \/ entries[k].end <= entries[j].start
<1> DEFINE b == Prelogin!First(Prelogin!Table(p, FALSE), FALSE)
           c == Prelogin!Overlaps(p, b, FALSE)
           entries == c.entries
<1>1. HasEntries(c)
  BY Zenon, OverlapsEntries
<1>2. Prelogin!parse_inner(p, FALSE) = Prelogin!ReadEach(p, c, FALSE)
  BY DEF Prelogin!parse_inner
<1>3. Prelogin!parse_inner(p, FALSE).entries = entries /\ ~c.error
  <2> HIDE DEF c
  <2>1. /\ Prelogin!ReadEach(p, c, FALSE).entries = c.entries
        /\ c.error => Prelogin!ReadEach(p, c, FALSE).error
    BY ONLY Zenon, <1>1, OptionsKeep
  <2> QED
    BY Zenon, <1>2, <2>1
<1>4. IsReport(b)
  BY Zenon, TableEntries, FaultEntries DEF Prelogin!First, HasEntries
<1>5. /\ \A k \in DOMAIN entries : ~(entries[k].start < Prelogin!Cursor(p))
      /\ \A j, k \in DOMAIN entries :
            Prelogin!Before(entries[j], entries[k]) => ~(entries[k].start < entries[j].end)
  <2> HIDE DEF b
  <2>1. \A kind : Prelogin!Fault(b, FALSE, kind).error
    BY <1>4 DEF Prelogin!Fault, IsReport
  <2> QED
    BY Zenon, <1>3, <2>1 DEF Prelogin!Overlaps
<1> HIDE DEF c
<1>6. /\ entries \in Seq(Entry)
      /\ \A j, k \in DOMAIN entries : entries[j].token = entries[k].token => j = k
  BY <1>1 DEF HasEntries
<1> HIDE DEF entries
<1>7. \A k \in DOMAIN entries :
         entries[k].start \in Nat /\ entries[k].end \in Nat /\ entries[k].token \in Nat
  <2>1. \A k \in DOMAIN entries : entries[k] \in Entry
    BY <1>6
  <2> QED
    BY <2>1 DEF Entry
<1>8. Prelogin!Cursor(p) \in Nat
  <2>1. Len(p.table) \in Nat
    BY PayloadTable
  <2>2. Prelogin!TableBytes(p) \in Nat
    BY ONLY <2>1 DEF Prelogin!TableBytes, Prelogin!DESCRIPTOR_LEN
  <2>3. Prelogin!Cursor(p) \in {Prelogin!TableBytes(p), Prelogin!TableBytes(p) + 1}
    BY <2>2 DEF Prelogin!Cursor
  <2> QED
    BY <2>2, <2>3
<1>9. ASSUME NEW j \in DOMAIN entries, NEW k \in DOMAIN entries, j # k
      PROVE  entries[j].end <= entries[k].start \/ entries[k].end <= entries[j].start
  <2>1. /\ Prelogin!Before(entries[j], entries[k]) => ~(entries[k].start < entries[j].end)
        /\ Prelogin!Before(entries[k], entries[j]) => ~(entries[j].start < entries[k].end)
        /\ entries[j].token # entries[k].token
    BY <1>5, <1>6, <1>9
  <2> QED
    BY ONLY <1>7, <2>1 DEF Prelogin!Before
<1>10. /\ \A k \in DOMAIN entries : Prelogin!Cursor(p) <= entries[k].start
       /\ \A j, k \in DOMAIN entries :
             \/ j = k
             \/ entries[j].end <= entries[k].start
             \/ entries[k].end <= entries[j].start
  BY <1>5, <1>7, <1>8, <1>9
<1> QED
  BY ZenonT(60), <1>3, <1>6, <1>10

IsFeatures(turn, p, r, i, declared, tolerant) ==
    /\ turn[0] = [r |-> r, at |-> i]
    /\ \A n \in 1..MaxFeatures + 1 :
          turn[n] = Login7!Feature(p, turn[n - 1], declared, tolerant)
    /\ Login7!Features(p, r, i, declared, tolerant) = turn[MaxFeatures + 1].r

\* The feature extensions are read by such a loop (parse_features of login7.rs).
LEMMA FeaturesLoop ==
    ASSUME NEW p, NEW r, NEW i, NEW declared, NEW tolerant
    PROVE  \E turn : IsFeatures(turn, p, r, i, declared, tolerant)
<1> DEFINE x == [loop |-> "features", p |-> p, declared |-> declared, tolerant |-> tolerant]
           n == MaxFeatures + 1
           first == [r |-> r, at |-> i]
           Is(f) == f = [k \in 0..n |-> IF k = 0 THEN first
                                        ELSE Login7!Feature(p, f[k - 1], declared, tolerant)]
           t == CHOOSE f : Is(f)
<1>1. \A k, s : Run(x, k, s) = Login7!Feature(p, s, declared, tolerant)
  BY Zenon DEF Run
<1>2. Login7!Features(p, r, i, declared, tolerant) = t[n].r
  BY DEF Login7!Features
<1> HIDE DEF x, first
<1>3. \A f : Is(f) <=> IsLoop(f, x, first, n)
  BY <1>1 DEF IsLoop
<1> HIDE DEF Is, n
<1>4. n \in Nat
  BY LoginLimits DEF n
<1>5. Is(t)
  BY Zenon, <1>3, <1>4, Loop
<1> HIDE DEF t
<1>6. /\ t[0] = first
      /\ \A k \in 1..n : t[k] = Run(x, k, t[k - 1])
  <2>1. IsLoop(t, x, first, n)
    BY Zenon, <1>3, <1>5
  <2> QED
    BY ONLY SMT, <2>1, <1>4, Turns
<1>7. \A k \in 1..n : t[k] = Login7!Feature(p, t[k - 1], declared, tolerant)
  BY <1>1, <1>6
<1> QED
  BY Zenon, <1>2, <1>6, <1>7 DEF n, first, IsFeatures

\* Other parts of a report may change as they like.
LEMMA Updated ==
    ASSUME NEW r, NEW q, NEW z, NEW a, NEW b,
           Steps(r, q, z), Kept(q, a), Kept(z, b), q = z => a = b
    PROVE  Steps(r, a, b)
BY Zenon DEF Steps, Kept, Agree, Noted

\* A fault is a step of the two modes.
LEMMA Faulted ==
    ASSUME NEW r, IsReport(r), NEW kind
    PROVE  Steps(r, FaultOf(r, FALSE, kind), FaultOf(r, TRUE, kind))
<1>1. Reports(r, FaultOf(r, FALSE, kind), FaultOf(r, TRUE, kind))
  BY Zenon DEF Reports, Kept
<1> QED
  BY Zenon, <1>1, Reported

\* So is a change that both make.
LEMMA Same ==
    ASSUME NEW r, NEW m, Kept(r, m)
    PROVE  Steps(r, m, m)
BY Zenon DEF Steps, Kept, Agree, Noted

\* The fault of login7.rs is the fault of the other parsers.
LEMMA Login7Fault == \A r, tolerant, kind : Login7!Fault(r, tolerant, kind) = FaultOf(r, tolerant, kind)
BY DEF Login7!Fault, FaultOf

\* The two length checks at the front of LOGIN7 leave the modes together.
LEMMA LengthsFollow ==
    ASSUME NEW p, NEW s, NEW t, Lockstep(s, t)
    PROVE  Lockstep(Login7!Lengths(p, s, FALSE), Login7!Lengths(p, t, TRUE))
<1> DEFINE a(r, tolerant) == IF Login7!U32(p, 0) = Len(p) THEN r ELSE FaultOf(r, tolerant, "declared")
           b(r, tolerant) == IF Len(p) > MaxLogin7 THEN FaultOf(r, tolerant, "limit") ELSE r
<1>1. \A r : IsReport(r) => Steps(r, a(r, FALSE), a(r, TRUE)) /\ Steps(r, b(r, FALSE), b(r, TRUE))
  BY Zenon, Faulted, Same DEF Kept
<1>2. \A r, tolerant : Login7!Lengths(p, r, tolerant) = b(a(r, tolerant), tolerant)
  BY Zenon, Login7Fault DEF Login7!Lengths
<1> HIDE DEF a, b
<1>3. Lockstep(a(s, FALSE), a(t, TRUE))
  <2>1. Steps(s, a(s, FALSE), a(s, TRUE)) /\ Steps(t, a(t, FALSE), a(t, TRUE))
    BY Zenon, Lockstep(s, t), <1>1 DEF Lockstep
  <2>2. Follow(s, t, a(s, FALSE), a(t, TRUE))
    BY Zenon, <2>1 DEF Follow
  <2> QED
    BY ONLY Zenon, Lockstep(s, t), <2>2, Together
<1>4. Lockstep(b(a(s, FALSE), FALSE), b(a(t, TRUE), TRUE))
  <2>1. /\ Steps(a(s, FALSE), b(a(s, FALSE), FALSE), b(a(s, FALSE), TRUE))
        /\ Steps(a(t, TRUE), b(a(t, TRUE), FALSE), b(a(t, TRUE), TRUE))
    BY Zenon, <1>3, <1>1 DEF Lockstep
  <2>2. Follow(a(s, FALSE), a(t, TRUE), b(a(s, FALSE), FALSE), b(a(t, TRUE), TRUE))
    BY Zenon, <2>1 DEF Follow
  <2> QED
    BY ONLY Zenon, <1>3, <2>2, Together
<1> QED
  BY Zenon, <1>2, <1>4

\* So do the offsets and counts of the fields.
LEMMA CountsSteps ==
    ASSUME NEW p, NEW fixed, NEW r, IsReport(r)
    PROVE  Steps(r, Login7!Counts(p, r, fixed, FALSE), Login7!Counts(p, r, fixed, TRUE))
BY Zenon, Faulted, Same, Login7Fault DEF Login7!Counts, Kept

\* So does the password, read or not.
LEMMA OldPasswordSteps ==
    ASSUME NEW x, NEW r, IsReport(r)
    PROVE  Steps(r, Login7!OldPassword(r, x, FALSE), Login7!OldPassword(r, x, TRUE))
<1> DEFINE a(tolerant) == IF x.ok THEN r ELSE FaultOf(r, tolerant, "password")
           b(tolerant) == [a(tolerant) EXCEPT !.password = x.clear, !.password_present = x.present]
<1>1. Steps(r, a(FALSE), a(TRUE))
  BY Zenon, Faulted, Same DEF Kept
<1>2. \A m : IsReport(m) =>
         Kept(m, [m EXCEPT !.password = x.clear, !.password_present = x.present])
  BY Zenon DEF Kept, IsReport
<1>3. Kept(a(FALSE), b(FALSE)) /\ Kept(a(TRUE), b(TRUE))
  <2> HIDE DEF a
  <2> QED
    BY Zenon, <1>1, <1>2 DEF Steps
<1>4. Steps(r, b(FALSE), b(TRUE))
  <2>1. a(FALSE) = a(TRUE) => b(FALSE) = b(TRUE)
    BY Zenon
  <2> HIDE DEF a, b
  <2> QED
    BY Zenon, <1>1, <1>3, <2>1, Updated
<1> QED
  BY Zenon, <1>4, Login7Fault DEF Login7!OldPassword

\* So does the changed password.
LEMMA NewPasswordSteps ==
    ASSUME NEW x, NEW r, IsReport(r)
    PROVE  Steps(r, Login7!NewPassword(r, x, FALSE), Login7!NewPassword(r, x, TRUE))
<1> DEFINE a(tolerant) == IF x.ok THEN r ELSE FaultOf(r, tolerant, "new password")
           b(tolerant) ==
               [a(tolerant) EXCEPT !.new_password = x.clear, !.new_password_present = x.present]
<1>1. Steps(r, a(FALSE), a(TRUE))
  BY Zenon, Faulted, Same DEF Kept
<1>2. \A m : IsReport(m) =>
         Kept(m, [m EXCEPT !.new_password = x.clear, !.new_password_present = x.present])
  BY Zenon DEF Kept, IsReport
<1>3. Kept(a(FALSE), b(FALSE)) /\ Kept(a(TRUE), b(TRUE))
  <2> HIDE DEF a
  <2> QED
    BY Zenon, <1>1, <1>2 DEF Steps
<1>4. Steps(r, b(FALSE), b(TRUE))
  <2>1. a(FALSE) = a(TRUE) => b(FALSE) = b(TRUE)
    BY Zenon
  <2> HIDE DEF a, b
  <2> QED
    BY Zenon, <1>1, <1>3, <2>1, Updated
<1> QED
  BY Zenon, <1>4, Login7Fault DEF Login7!NewPassword

\* So does the SSPI field with its long length.
LEMMA SspiSteps ==
    ASSUME NEW p, NEW declared, NEW fixed, NEW r, IsReport(r)
    PROVE  Steps(r, Login7!Sspi(p, r, declared, fixed, FALSE), Login7!Sspi(p, r, declared, fixed, TRUE))
<1> DEFINE x == Login7!sspi_field(p, declared, fixed)
<1>1. Kept(r, [r EXCEPT !.sspi = x.bytes])
  BY Zenon DEF Kept, IsReport
<1>2. \A tolerant : Login7!Sspi(p, r, declared, fixed, tolerant) =
         IF x.ok THEN [r EXCEPT !.sspi = x.bytes] ELSE FaultOf(r, tolerant, "sspi")
  BY Zenon, Login7Fault DEF Login7!Sspi, Login7!Given
<1> HIDE DEF x
<1> QED
  BY Zenon, <1>1, <1>2, Faulted, Same

\* So do the texts.
LEMMA TextsSteps ==
    ASSUME NEW p, NEW declared, NEW fixed, NEW r, IsReport(r)
    PROVE  Steps(r, Login7!Texts(p, r, declared, fixed, FALSE), Login7!Texts(p, r, declared, fixed, TRUE))
<1> DEFINE text == [f \in DOMAIN Login7!TextFields |-> Login7!recover_field(p, f, declared, fixed)]
           sound == \A f \in DOMAIN text : text[f].ok
           x == [f \in DOMAIN text |-> IF text[f].ok THEN text[f].units ELSE <<>>]
           a(tolerant) == IF sound THEN r ELSE FaultOf(r, tolerant, "text")
           b(tolerant) == [a(tolerant) EXCEPT !.text = x]
<1>1. Steps(r, a(FALSE), a(TRUE))
  <2> HIDE DEF sound
  <2> QED
    BY Zenon, Faulted, Same DEF Kept
<1>2. \A m : IsReport(m) => Kept(m, [m EXCEPT !.text = x])
  <2> HIDE DEF x
  <2> QED
    BY Zenon DEF Kept, IsReport
<1>3. Kept(a(FALSE), b(FALSE)) /\ Kept(a(TRUE), b(TRUE))
  <2> HIDE DEF a, x
  <2> QED
    BY Zenon, <1>1, <1>2 DEF Steps
<1>4. Steps(r, b(FALSE), b(TRUE))
  <2>1. a(FALSE) = a(TRUE) => b(FALSE) = b(TRUE)
    <3> HIDE DEF a, x
    <3> QED
      BY Zenon
  <2> HIDE DEF a, b
  <2> QED
    BY Zenon, <1>1, <1>3, <2>1, Updated
<1> QED
  BY Zenon, <1>4, Login7Fault DEF Login7!Texts

\* A feature that is kept, whether it is sound or not.
LEMMA KeptSteps ==
    ASSUME NEW p, NEW i, NEW to, NEW r, IsReport(r)
    PROVE  Steps(r, Login7!Kept(p, r, i, to, FALSE), Login7!Kept(p, r, i, to, TRUE))
<1> DEFINE sound == Login7!populate_feature(Login7!At(p, i), Login7!Slice(p, i + 5, to))
           x == [id |-> Login7!At(p, i), from |-> i, to |-> to]
           a(tolerant) == IF sound THEN r ELSE FaultOf(r, tolerant, "feature")
           b(tolerant) == [a(tolerant) EXCEPT !.features = Append(@, x)]
<1>1. Steps(r, a(FALSE), a(TRUE))
  <2> HIDE DEF sound
  <2> QED
    BY Zenon, Faulted, Same DEF Kept
<1>2. \A m, y : IsReport(m) => Kept(m, [m EXCEPT !.features = y])
  BY Zenon DEF Kept, IsReport
<1>3. Kept(a(FALSE), b(FALSE)) /\ Kept(a(TRUE), b(TRUE))
  <2> HIDE DEF a, x
  <2> QED
    BY Zenon, <1>1, <1>2 DEF Steps
<1>4. Steps(r, b(FALSE), b(TRUE))
  <2>1. a(FALSE) = a(TRUE) => b(FALSE) = b(TRUE)
    <3> HIDE DEF a, x
    <3> QED
      BY Zenon
  <2> HIDE DEF a, b
  <2> QED
    BY Zenon, <1>1, <1>3, <2>1, Updated
<1> QED
  BY Zenon, <1>4, Login7Fault DEF Login7!Kept

\* One turn of the chain from s, in both modes; where it goes on is the same.
FeatureMoves(s, q, z) == Steps(s.r, q.r, z.r) /\ (q.r = z.r => q = z)

\* What a turn of the chain is.
FeatureAs(p, s, declared, q, z) ==
    LET broken == Login7!partial_features(s.r, s.at, declared)
        over == [s.r EXCEPT !.error = TRUE]
        to == Login7!Pass(p, s.at + 1, declared, Login7!Counted(4))
        ended(r) == [r |-> r, at |-> Login7!Failed]
        goes(tolerant) == [r |-> Login7!Kept(p, s.r, s.at, to, tolerant), at |-> to]
    IN  \/ q = s /\ z = s
        \/ \E kind : q = ended(FaultOf(broken, FALSE, kind)) /\ z = ended(FaultOf(broken, TRUE, kind))
        \/ q = ended(s.r) /\ z = ended(s.r)
        \/ q = ended(over) /\ z = ended(over)
        \/ q = goes(FALSE) /\ z = goes(TRUE)

\* A feature extension is read in one of these ways, the same in both modes.
LEMMA FeatureIs ==
    ASSUME NEW p, NEW declared, NEW s
    PROVE  FeatureAs(p, s, declared, Login7!Feature(p, s, declared, FALSE),
                     Login7!Feature(p, s, declared, TRUE))
<1> DEFINE broken == Login7!partial_features(s.r, s.at, declared)
           over == [s.r EXCEPT !.error = TRUE]
           to == Login7!Pass(p, s.at + 1, declared, Login7!Counted(4))
           q == Login7!Feature(p, s, declared, FALSE)
           z == Login7!Feature(p, s, declared, TRUE)
           ended(r) == [r |-> r, at |-> Login7!Failed]
           goes(tolerant) == [r |-> Login7!Kept(p, s.r, s.at, to, tolerant), at |-> to]
<1> DEFINE stop == s.r.error \/ s.at = Login7!Failed
           out == s.at >= declared
           last == Login7!At(p, s.at) = 255
           cut == to = Login7!Failed
           full == Len(s.r.features) = MaxFeatures
<1>1. \A tolerant : Login7!Feature(p, s, declared, tolerant) =
         IF stop THEN s
         ELSE IF out THEN ended(FaultOf(broken, tolerant, "terminator"))
         ELSE IF last THEN ended(s.r)
         ELSE IF cut THEN ended(FaultOf(broken, tolerant, "truncated"))
         ELSE IF full THEN ended(over)
         ELSE goes(tolerant)
  BY Zenon, Login7Fault DEF Login7!Feature, Login7!Ended, Login7!From
<1> HIDE DEF stop, out, last, cut, full, broken, over, goes, ended
<1>2. /\ stop => q = s /\ z = s
      /\ ~stop /\ out => /\ q = ended(FaultOf(broken, FALSE, "terminator"))
                         /\ z = ended(FaultOf(broken, TRUE, "terminator"))
      /\ ~stop /\ ~out /\ last => q = ended(s.r) /\ z = ended(s.r)
      /\ ~stop /\ ~out /\ ~last /\ cut => /\ q = ended(FaultOf(broken, FALSE, "truncated"))
                                         /\ z = ended(FaultOf(broken, TRUE, "truncated"))
      /\ ~stop /\ ~out /\ ~last /\ ~cut /\ full => q = ended(over) /\ z = ended(over)
      /\ ~stop /\ ~out /\ ~last /\ ~cut /\ ~full => q = goes(FALSE) /\ z = goes(TRUE)
  BY Zenon, <1>1
<1>3. FeatureAs(p, s, declared, q, z)
  <2> HIDE DEF q, z
  <2> QED
    BY Zenon, <1>2 DEF FeatureAs, broken, over, to, ended, goes
<1> QED
  BY Zenon, <1>3

\* So it leaves the modes together.
LEMMA FeatureSteps ==
    ASSUME NEW p, NEW declared, NEW s, IsReport(s.r)
    PROVE  FeatureMoves(s, Login7!Feature(p, s, declared, FALSE), Login7!Feature(p, s, declared, TRUE))
<1> DEFINE broken == Login7!partial_features(s.r, s.at, declared)
           over == [s.r EXCEPT !.error = TRUE]
           to == Login7!Pass(p, s.at + 1, declared, Login7!Counted(4))
           q == Login7!Feature(p, s, declared, FALSE)
           z == Login7!Feature(p, s, declared, TRUE)
           ended(r) == [r |-> r, at |-> Login7!Failed]
           goes(tolerant) == [r |-> Login7!Kept(p, s.r, s.at, to, tolerant), at |-> to]
<1>1. FeatureAs(p, s, declared, q, z)
  BY Zenon, FeatureIs
<1>2. Kept(s.r, s.r) /\ Kept(s.r, broken)
  BY Zenon DEF Kept, IsReport, Login7!partial_features
<1>3. Steps(s.r, over, over)
  <2>1. Reports(s.r, over, over)
    <3> HIDE DEF over
    <3> QED
      BY Zenon, <1>2 DEF Reports, over
  <2> QED
    BY Zenon, <2>1, Reported
<1>4. \A kind : Steps(s.r, FaultOf(broken, FALSE, kind), FaultOf(broken, TRUE, kind))
  <2> HIDE DEF broken
  <2>1. \A kind : Reports(s.r, FaultOf(broken, FALSE, kind), FaultOf(broken, TRUE, kind))
    BY Zenon, <1>2 DEF Reports
  <2> QED
    BY Zenon, <2>1, Reported
<1>5. Steps(s.r, s.r, s.r)
  BY Zenon, <1>2, Same
<1>6. Steps(s.r, goes(FALSE).r, goes(TRUE).r)
  BY Zenon, KeptSteps
<1>7. FeatureMoves(s, q, z)
  <2>1. \A a, b : Steps(s.r, a, b) => FeatureMoves(s, ended(a), ended(b))
    BY Zenon DEF FeatureMoves
  <2>2. FeatureMoves(s, s, s)
    BY Zenon, <1>5 DEF FeatureMoves
  <2>3. FeatureMoves(s, goes(FALSE), goes(TRUE))
    BY Zenon, <1>6 DEF FeatureMoves
  <2> HIDE DEF q, z
  <2>4. /\ \A kind : FeatureMoves(s, ended(FaultOf(broken, FALSE, kind)), ended(FaultOf(broken, TRUE, kind)))
        /\ FeatureMoves(s, ended(over), ended(over))
        /\ FeatureMoves(s, ended(s.r), ended(s.r))
    <3> HIDE DEF broken, over, ended
    <3> QED
      BY Zenon, <1>3, <1>4, <1>5, <2>1
  <2> QED
    BY Zenon, <1>1, <2>2, <2>3, <2>4 DEF FeatureAs
<1> QED
  BY Zenon, <1>7

\* After all of them the modes are together, and no error is taken back.
LEMMA FeaturesAgree ==
    ASSUME NEW p, NEW i, NEW declared, NEW a, NEW b, Lockstep(a, b)
    PROVE  /\ Lockstep(Login7!Features(p, a, i, declared, FALSE), Login7!Features(p, b, i, declared, TRUE))
           /\ a.error => Login7!Features(p, a, i, declared, FALSE).error
<1> DEFINE n == MaxFeatures + 1
<1>0. n \in Nat
  BY LoginLimits
<1>1. PICK s : IsFeatures(s, p, a, i, declared, FALSE)
  BY Zenon, FeaturesLoop
<1>2. PICK t : IsFeatures(t, p, b, i, declared, TRUE)
  BY Zenon, FeaturesLoop
<1> DEFINE Good(x, y) == Lockstep(x.r, y.r) /\ (~x.r.error => x = y) /\ (a.error => x.r.error)
           T == {k \in 0..n : Good(s[k], t[k])}
<1>3. 0 \in T
  <2>1. s[0] = [r |-> a, at |-> i] /\ t[0] = [r |-> b, at |-> i]
    BY Zenon, <1>1, <1>2 DEF IsFeatures
  <2>2. Good([r |-> a, at |-> i], [r |-> b, at |-> i])
    BY Zenon DEF Lockstep, Agree
  <2>3. Good(s[0], t[0])
    BY <2>1, <2>2
  <2> QED
    BY <1>0, <2>3
<1>4. ASSUME NEW k \in 1..n, k - 1 \in T PROVE k \in T
  <2> DEFINE x == s[k - 1]
             y == t[k - 1]
             q == Login7!Feature(p, x, declared, FALSE)
             u == Login7!Feature(p, x, declared, TRUE)
             v == Login7!Feature(p, y, declared, FALSE)
             z == Login7!Feature(p, y, declared, TRUE)
  <2>1. s[k] = q /\ t[k] = z
    BY Zenon, <1>1, <1>2 DEF IsFeatures
  <2>2. Good(x, y)
    BY <1>4
  <2>3. FeatureMoves(x, q, u) /\ FeatureMoves(y, v, z)
    <3> HIDE DEF x, y
    <3> QED
      BY Zenon, <2>2, FeatureSteps DEF Lockstep
  <2>4. x = y => q = v /\ u = z
    OBVIOUS
  <2> HIDE DEF x, y, q, u, v, z
  <2>5. CASE x.r.error
    <3>1. q.r.error /\ Noted(z.r) /\ IsReport(q.r) /\ IsReport(z.r)
      BY Zenon, <2>2, <2>3, <2>5 DEF FeatureMoves, Steps, Lockstep, Agree
    <3>2. Good(q, z)
      BY Zenon, <3>1 DEF Lockstep, Agree
    <3> QED
      BY <2>1, <3>2
  <2>6. CASE ~x.r.error
    <3>1. x = y /\ ~Noted(y.r)
      BY Zenon, <2>2, <2>6 DEF Lockstep, Agree
    <3>2. q = v /\ Agree(v.r, z.r) /\ IsReport(v.r) /\ IsReport(z.r) /\ (v.r = z.r => v = z)
      BY Zenon, <2>3, <2>4, <3>1 DEF FeatureMoves, Steps
    <3>3. Good(q, z)
      BY Zenon, <2>2, <2>6, <3>2 DEF Lockstep, Agree
    <3> QED
      BY <2>1, <3>3
  <2> QED
    BY <2>5, <2>6
<1>5. n \in T
  <2> HIDE DEF T
  <2> QED
    BY ONLY Zenon, <1>0, <1>3, <1>4, Upward
<1>6. Lockstep(s[n].r, t[n].r) /\ (a.error => s[n].r.error)
  BY <1>5
<1> QED
  BY Zenon, <1>1, <1>2, <1>6 DEF IsFeatures

\* So they are after parse_features, which looks for the block first.
LEMMA ParseFeaturesAgree ==
    ASSUME NEW p, NEW declared, NEW fixed, NEW s, NEW t, Lockstep(s, t)
    PROVE  Lockstep(Login7!parse_features(p, s, declared, fixed, FALSE),
                    Login7!parse_features(p, t, declared, fixed, TRUE))
<1> DEFINE none == ~Login7!Bit(Login7!At(p, 27), 16) \/ fixed < Login7!EXTENDED_FIXED_LENGTH
           ext == Login7!raw_byte_field(p, 56, declared, fixed)
           bad == ~ext.ok \/ Len(ext.bytes) # 4
           first == Login7!U32(ext.bytes, 0)
           out == first < fixed \/ first >= declared
           G(r, tolerant) ==
               IF bad THEN FaultOf(r, tolerant, "extension")
               ELSE IF out THEN FaultOf(r, tolerant, "outside")
               ELSE Login7!Features(p, r, first, declared, tolerant)
           F(r, tolerant) == IF r.error \/ none THEN r ELSE G(r, tolerant)
<1>1. \A r, tolerant : Login7!parse_features(p, r, declared, fixed, tolerant) = F(r, tolerant)
  BY ZenonT(60), Login7Fault DEF Login7!parse_features, Login7!Given
<1> HIDE DEF none, ext, bad, first, out
<1>2. \A kind : /\ Lockstep(FaultOf(s, FALSE, kind), FaultOf(t, TRUE, kind))
                /\ FaultOf(s, FALSE, kind).error
  <2> TAKE kind
  <2>1. /\ Steps(s, FaultOf(s, FALSE, kind), FaultOf(s, TRUE, kind))
        /\ Steps(t, FaultOf(t, FALSE, kind), FaultOf(t, TRUE, kind))
    BY Zenon, Faulted DEF Lockstep
  <2>2. Follow(s, t, FaultOf(s, FALSE, kind), FaultOf(t, TRUE, kind))
    BY Zenon, <2>1 DEF Follow
  <2> QED
    BY ZenonT(60), <2>2, Together, FaultIs DEF Lockstep
<1>3. Lockstep(G(s, FALSE), G(t, TRUE)) /\ (s.error => G(s, FALSE).error)
  <2>1. CASE bad
    BY Zenon, <1>2, <2>1
  <2>2. CASE ~bad /\ out
    BY Zenon, <1>2, <2>2
  <2>3. CASE ~bad /\ ~out
    BY Zenon, <2>3, FeaturesAgree
  <2> QED
    BY Zenon, <2>1, <2>2, <2>3
<1> HIDE DEF G
<1>4. Lockstep(F(s, FALSE), F(t, TRUE))
  <2>1. CASE none
    BY Zenon, <2>1
  <2>2. CASE ~none /\ ~s.error
    <3>1. ~t.error
      BY Zenon, <2>2 DEF Lockstep, Agree
    <3> QED
      BY Zenon, <1>3, <2>2, <3>1
  <2>3. CASE ~none /\ s.error
    <3>1. Noted(F(t, TRUE)) /\ IsReport(F(t, TRUE))
      BY Zenon, <1>3, <2>3 DEF Lockstep, Agree, Noted
    <3>2. F(s, FALSE) = s
      BY Zenon, <2>3
    <3> HIDE DEF F
    <3> QED
      BY Zenon, <2>3, <3>1, <3>2 DEF Lockstep, Agree
  <2> QED
    BY Zenon, <2>1, <2>2, <2>3
<1> QED
  BY Zenon, <1>1, <1>4

\* So they are after the passwords.
LEMMA PasswordsAgree ==
    ASSUME NEW p, NEW declared, NEW fixed, NEW s, NEW t, Lockstep(s, t)
    PROVE  Lockstep(Login7!Passwords(p, s, declared, fixed, FALSE),
                    Login7!Passwords(p, t, declared, fixed, TRUE))
<1> DEFINE x == Login7!recover_raw_field(p, 44, declared, fixed)
           y == Login7!recover_raw_field(p, 86, declared, fixed)
           a(r, tolerant) == Login7!OldPassword(r, x, tolerant)
           b(r, tolerant) == Login7!NewPassword(r, y, tolerant)
<1>1. \A r : IsReport(r) => Steps(r, a(r, FALSE), a(r, TRUE)) /\ Steps(r, b(r, FALSE), b(r, TRUE))
  BY Zenon, OldPasswordSteps, NewPasswordSteps
<1>2. \A r, tolerant : Login7!Passwords(p, r, declared, fixed, tolerant) =
         IF fixed < Login7!EXTENDED_FIXED_LENGTH THEN a(r, tolerant) ELSE b(a(r, tolerant), tolerant)
  BY ZenonT(60) DEF Login7!Passwords
<1> HIDE DEF a, b
<1>3. Lockstep(a(s, FALSE), a(t, TRUE))
  <2>1. Steps(s, a(s, FALSE), a(s, TRUE)) /\ Steps(t, a(t, FALSE), a(t, TRUE))
    BY Zenon, Lockstep(s, t), <1>1 DEF Lockstep
  <2>2. Follow(s, t, a(s, FALSE), a(t, TRUE))
    BY Zenon, <2>1 DEF Follow
  <2> QED
    BY ONLY Zenon, Lockstep(s, t), <2>2, Together
<1>4. Lockstep(b(a(s, FALSE), FALSE), b(a(t, TRUE), TRUE))
  <2>1. /\ Steps(a(s, FALSE), b(a(s, FALSE), FALSE), b(a(s, FALSE), TRUE))
        /\ Steps(a(t, TRUE), b(a(t, TRUE), FALSE), b(a(t, TRUE), TRUE))
    BY Zenon, <1>3, <1>1 DEF Lockstep
  <2>2. Follow(a(s, FALSE), a(t, TRUE), b(a(s, FALSE), FALSE), b(a(t, TRUE), TRUE))
    BY Zenon, <2>1 DEF Follow
  <2> QED
    BY ONLY Zenon, <1>3, <2>2, Together
<1> QED
  BY Zenon, <1>2, <1>3, <1>4

\* So they are after everything in front of the features.
LEMMA FieldsAgree ==
    ASSUME NEW p, NEW declared, NEW fixed
    PROVE  Lockstep(Login7!Fields(p, declared, fixed, FALSE), Login7!Fields(p, declared, fixed, TRUE))
<1> DEFINE counts(r, tolerant) == Login7!Counts(p, r, fixed, tolerant)
           sspi(r, tolerant) == Login7!Sspi(p, r, declared, fixed, tolerant)
           texts(r, tolerant) == Login7!Texts(p, r, declared, fixed, tolerant)
           r1(tolerant) == Login7!Lengths(p, Login7!Unread, tolerant)
           r2(tolerant) == counts(r1(tolerant), tolerant)
           r3(tolerant) == Login7!Passwords(p, r2(tolerant), declared, fixed, tolerant)
           r4(tolerant) == sspi(r3(tolerant), tolerant)
           r5(tolerant) == Login7!parse_features(p, r4(tolerant), declared, fixed, tolerant)
           r6(tolerant) == texts(r5(tolerant), tolerant)
<1>0. Lockstep(Login7!Unread, Login7!Unread)
  BY Zenon DEF Login7!Unread, Lockstep, Agree, Noted, IsReport
<1>1. Lockstep(r1(FALSE), r1(TRUE))
  BY Zenon, <1>0, LengthsFollow
<1> HIDE DEF r1
<1>2. \A r : IsReport(r) => /\ Steps(r, counts(r, FALSE), counts(r, TRUE))
                            /\ Steps(r, sspi(r, FALSE), sspi(r, TRUE))
                            /\ Steps(r, texts(r, FALSE), texts(r, TRUE))
  BY Zenon, CountsSteps, SspiSteps, TextsSteps
<1> HIDE DEF counts, sspi, texts
<1>3. Lockstep(r2(FALSE), r2(TRUE))
  <2>1. /\ Steps(r1(FALSE), counts(r1(FALSE), FALSE), counts(r1(FALSE), TRUE))
        /\ Steps(r1(TRUE), counts(r1(TRUE), FALSE), counts(r1(TRUE), TRUE))
    BY Zenon, <1>1, <1>2 DEF Lockstep
  <2>2. Follow(r1(FALSE), r1(TRUE), r2(FALSE), r2(TRUE))
    BY Zenon, <2>1 DEF Follow
  <2> HIDE DEF r1, r2
  <2> QED
    BY ONLY Zenon, <1>1, <2>2, Together
<1> HIDE DEF r2
<1>4. Lockstep(r3(FALSE), r3(TRUE))
  BY Zenon, <1>3, PasswordsAgree
<1> HIDE DEF r3
<1>5. Lockstep(r4(FALSE), r4(TRUE))
  <2>1. /\ Steps(r3(FALSE), sspi(r3(FALSE), FALSE), sspi(r3(FALSE), TRUE))
        /\ Steps(r3(TRUE), sspi(r3(TRUE), FALSE), sspi(r3(TRUE), TRUE))
    BY ZenonT(60), <1>4, <1>2 DEF Lockstep
  <2>2. Follow(r3(FALSE), r3(TRUE), r4(FALSE), r4(TRUE))
    BY Zenon, <2>1 DEF Follow
  <2> HIDE DEF r3, r4
  <2> QED
    BY ONLY Zenon, <1>4, <2>2, Together
<1> HIDE DEF r4
<1>6. Lockstep(r5(FALSE), r5(TRUE))
  BY Zenon, <1>5, ParseFeaturesAgree
<1> HIDE DEF r5
<1>7. Lockstep(r6(FALSE), r6(TRUE))
  <2>1. /\ Steps(r5(FALSE), texts(r5(FALSE), FALSE), texts(r5(FALSE), TRUE))
        /\ Steps(r5(TRUE), texts(r5(TRUE), FALSE), texts(r5(TRUE), TRUE))
    BY Zenon, <1>6, <1>2 DEF Lockstep
  <2>2. Follow(r5(FALSE), r5(TRUE), r6(FALSE), r6(TRUE))
    BY Zenon, <2>1 DEF Follow
  <2> HIDE DEF r5, r6
  <2> QED
    BY ONLY Zenon, <1>6, <2>2, Together
<1> HIDE DEF r6
<1>8. /\ Login7!Fields(p, declared, fixed, FALSE) = r6(FALSE)
      /\ Login7!Fields(p, declared, fixed, TRUE) = r6(TRUE)
  BY Zenon DEF Login7!Fields, r1, r2, r3, r4, r5, r6, counts, sspi, texts
<1> QED
  BY Zenon, <1>7, <1>8

\* The strict and the tolerant reading of a LOGIN7 request.
LEMMA Login7Agrees ==
    ASSUME NEW p
    PROVE  Lockstep(Login7!parse_inner(p, FALSE), Login7!parse_inner(p, TRUE))
<1> DEFINE fixed == Login7!fixed_length(p)
           short == Len(p) < 8 \/ Len(p) < fixed
           declared == Login7!Declared(p, fixed)
<1>1. /\ short => /\ Login7!parse_inner(p, FALSE) = Login7!Refused
                  /\ Login7!parse_inner(p, TRUE) = Login7!Refused
      /\ ~short => /\ Login7!parse_inner(p, FALSE) = Login7!Fields(p, declared, fixed, FALSE)
                   /\ Login7!parse_inner(p, TRUE) = Login7!Fields(p, declared, fixed, TRUE)
  BY Zenon DEF Login7!parse_inner
<1>2. Lockstep(Login7!Refused, Login7!Refused)
  BY Zenon DEF Login7!Refused, Login7!Unread, Lockstep, Agree, Noted, IsReport
<1>3. Lockstep(Login7!Fields(p, declared, fixed, FALSE), Login7!Fields(p, declared, fixed, TRUE))
  BY Zenon, FieldsAgree
<1> HIDE DEF short, fixed, declared
<1> QED
  BY Zenon, <1>1, <1>2, <1>3

\* What a strict reading of a LOGIN7 request carries along: unless it has failed, the condition
\* ok holds and the token is x.
Carries(r, ok, x) ==
    /\ IsReport(r)
    /\ "sspi" \in DOMAIN r
    /\ ~r.error => ok /\ r.sspi = x

\* What the strict report says of the SSPI token survives whatever is written into other fields.
LEMMA CarriesOn ==
    ASSUME NEW r, NEW ok, NEW x, Carries(r, ok, x)
    PROVE  /\ \A kind : Carries(FaultOf(r, FALSE, kind), ok, x)
           /\ Carries([r EXCEPT !.error = TRUE], ok, x)
           /\ \A y : Carries([r EXCEPT !.text = y], ok, x)
           /\ \A y : Carries([r EXCEPT !.features = y], ok, x)
           /\ \A y : Carries([r EXCEPT !.remainder = y], ok, x)
           /\ \A y, z : Carries([r EXCEPT !.password = y, !.password_present = z], ok, x)
           /\ \A y, z : Carries([r EXCEPT !.new_password = y, !.new_password_present = z], ok, x)
BY Zenon DEF Carries, IsReport, FaultOf

\* It survives a feature extension,
LEMMA FeatureCarries ==
    ASSUME NEW p, NEW s, NEW declared, NEW ok, NEW x, Carries(s.r, ok, x)
    PROVE  Carries(Login7!Feature(p, s, declared, FALSE).r, ok, x)
<1> DEFINE broken == Login7!partial_features(s.r, s.at, declared)
           over == [s.r EXCEPT !.error = TRUE]
           to == Login7!Pass(p, s.at + 1, declared, Login7!Counted(4))
           q == Login7!Feature(p, s, declared, FALSE)
           z == Login7!Feature(p, s, declared, TRUE)
           kept == Login7!Kept(p, s.r, s.at, to, FALSE)
<1>1. FeatureAs(p, s, declared, q, z)
  BY Zenon, FeatureIs
<1> HIDE DEF q, z
<1>2. \/ q.r = s.r \/ q.r = over \/ q.r = kept
      \/ \E kind : q.r = FaultOf(broken, FALSE, kind)
  <2>1. \A m, v : [r |-> m, at |-> v].r = m
    OBVIOUS
  <2> DEFINE ended(m) == [r |-> m, at |-> Login7!Failed]
             goes(tolerant) == [r |-> Login7!Kept(p, s.r, s.at, to, tolerant), at |-> to]
  <2>2. \/ q = s
        \/ \E kind : q = ended(FaultOf(broken, FALSE, kind))
        \/ q = ended(s.r)
        \/ q = ended(over)
        \/ q = goes(FALSE)
    BY Zenon, <1>1 DEF FeatureAs
  <2>3. (\A m : ended(m).r = m) /\ goes(FALSE).r = kept
    BY Zenon, <2>1
  <2> HIDE DEF ended, goes, kept, broken, over
  <2> QED
    BY Zenon, <2>2, <2>3
<1>3. Carries(broken, ok, x)
  BY Zenon, CarriesOn DEF Login7!partial_features
<1>4. Carries(kept, ok, x)
  <2> DEFINE sound == Login7!populate_feature(Login7!At(p, s.at), Login7!Slice(p, s.at + 5, to))
             item == [id |-> Login7!At(p, s.at), from |-> s.at, to |-> to]
             m == IF sound THEN s.r ELSE FaultOf(s.r, FALSE, "feature")
  <2>1. kept = [m EXCEPT !.features = Append(@, item)]
    BY Zenon, Login7Fault DEF Login7!Kept
  <2> HIDE DEF sound, item, kept
  <2>2. Carries(m, ok, x)
    BY Zenon, CarriesOn
  <2> HIDE DEF m
  <2> QED
    BY Zenon, <2>1, <2>2, CarriesOn
<1> HIDE DEF broken, kept, over
<1>5. Carries(over, ok, x)
  BY Zenon, CarriesOn DEF over
<1>6. \A kind : Carries(FaultOf(broken, FALSE, kind), ok, x)
  BY Zenon, <1>3, CarriesOn
<1> QED
  BY Zenon, <1>2, <1>4, <1>5, <1>6 DEF q

\* all of them,
LEMMA FeaturesCarry ==
    ASSUME NEW p, NEW r, NEW i, NEW declared, NEW ok, NEW x, Carries(r, ok, x)
    PROVE  Carries(Login7!Features(p, r, i, declared, FALSE), ok, x)
<1>1. PICK t : IsFeatures(t, p, r, i, declared, FALSE)
  BY Zenon, FeaturesLoop
<1> DEFINE n == MaxFeatures + 1
           T == {k \in 0..n : Carries(t[k].r, ok, x)}
<1>2. n \in Nat
  BY LoginLimits
<1>3. 0 \in T
  <2>0. t[0].r = r
    <3>1. t[0] = [r |-> r, at |-> i]
      BY Zenon, <1>1 DEF IsFeatures
    <3> QED
      BY <3>1
  <2>1. Carries(t[0].r, ok, x)
    BY Zenon, <2>0
  <2> QED
    BY <2>1, <1>2
<1>4. ASSUME NEW k \in 1..n, k - 1 \in T
      PROVE  k \in T
  <2>1. t[k] = Login7!Feature(p, t[k - 1], declared, FALSE)
    BY Zenon, <1>1 DEF IsFeatures
  <2>2. Carries(t[k].r, ok, x)
    BY Zenon, <1>4, <2>1, FeatureCarries
  <2>3. k \in 0..n
    BY <1>2
  <2> QED
    BY Zenon, <2>2, <2>3
<1>5. n \in T
  <2> HIDE DEF n, T
  <2> QED
    BY ONLY SMT, <1>2, <1>3, <1>4, Upward
<1> QED
  BY Zenon, <1>1, <1>5 DEF IsFeatures

\* and parse_features.
LEMMA ParseFeaturesCarries ==
    ASSUME NEW p, NEW r, NEW declared, NEW fixed, NEW ok, NEW x, Carries(r, ok, x)
    PROVE  Carries(Login7!parse_features(p, r, declared, fixed, FALSE), ok, x)
BY Zenon, Login7Fault, CarriesOn, FeaturesCarry DEF Login7!parse_features, Login7!Given

\* A strict reading that ends well has seen the right length and reports the token that is there.
LEMMA FieldsCarry ==
    ASSUME NEW p, NEW declared, NEW fixed
    PROVE  Carries(Login7!Fields(p, declared, fixed, FALSE),
                   Login7!U32(p, 0) = Len(p) /\ Login7!sspi_field(p, declared, fixed).ok,
                   Login7!sspi_field(p, declared, fixed).bytes)
<1> DEFINE right == Login7!U32(p, 0) = Len(p)
           f == Login7!sspi_field(p, declared, fixed)
           r1 == Login7!Lengths(p, Login7!Unread, FALSE)
           r2 == Login7!Counts(p, r1, fixed, FALSE)
           r3 == Login7!Passwords(p, r2, declared, fixed, FALSE)
           r4 == Login7!Sspi(p, r3, declared, fixed, FALSE)
           r5 == Login7!parse_features(p, r4, declared, fixed, FALSE)
           r6 == Login7!Texts(p, r5, declared, fixed, FALSE)
<1>1. Carries(r1, right, <<>>)
  <2> DEFINE m == IF right THEN Login7!Unread ELSE FaultOf(Login7!Unread, FALSE, "declared")
  <2>1. Carries(m, right, <<>>)
    <3>1. /\ IsReport(Login7!Unread) /\ "sspi" \in DOMAIN Login7!Unread
          /\ Login7!Unread.sspi = <<>>
      BY Zenon DEF Login7!Unread, IsReport
    <3> HIDE DEF right
    <3> QED
      BY Zenon, <3>1 DEF Carries, FaultOf, IsReport
  <2>2. r1 = IF Len(p) > MaxLogin7 THEN FaultOf(m, FALSE, "limit") ELSE m
    BY Zenon, Login7Fault DEF Login7!Lengths
  <2> HIDE DEF m, r1
  <2> QED
    BY Zenon, <2>1, <2>2, CarriesOn
<1> HIDE DEF right, f, r1
<1>2. Carries(r2, right, <<>>)
  BY Zenon, <1>1, Login7Fault, CarriesOn DEF Login7!Counts
<1> HIDE DEF r2
<1>3. Carries(r3, right, <<>>)
  <2>1. ASSUME NEW r, NEW y, Carries(r, right, <<>>)
        PROVE  Carries(Login7!OldPassword(r, y, FALSE), right, <<>>)
    <3> DEFINE m == IF y.ok THEN r ELSE FaultOf(r, FALSE, "password")
    <3>1. Carries(m, right, <<>>)
      BY Zenon, <2>1, CarriesOn
    <3> DEFINE e == [m EXCEPT !.password = y.clear, !.password_present = y.present]
    <3>2. Login7!OldPassword(r, y, FALSE) = e
      BY Zenon, Login7Fault DEF Login7!OldPassword
    <3> HIDE DEF m
    <3>3. Carries(e, right, <<>>)
      <4>1. IsReport(m) /\ "sspi" \in DOMAIN m /\ (~m.error => right /\ m.sspi = <<>>)
        BY Zenon, <3>1 DEF Carries
      <4>2. IsReport(e) /\ "sspi" \in DOMAIN e /\ e.sspi = m.sspi /\ e.error = m.error
        BY Zenon, <4>1 DEF IsReport
      <4> HIDE DEF e
      <4> QED
        BY Zenon, <4>1, <4>2 DEF Carries
    <3> HIDE DEF e
    <3> QED
      BY Zenon, <3>2, <3>3
  <2>2. ASSUME NEW r, NEW y, Carries(r, right, <<>>)
        PROVE  Carries(Login7!NewPassword(r, y, FALSE), right, <<>>)
    <3> DEFINE m == IF y.ok THEN r ELSE FaultOf(r, FALSE, "new password")
    <3>1. Carries(m, right, <<>>)
      BY Zenon, <2>2, CarriesOn
    <3> DEFINE e == [m EXCEPT !.new_password = y.clear, !.new_password_present = y.present]
    <3>2. Login7!NewPassword(r, y, FALSE) = e
      BY Zenon, Login7Fault DEF Login7!NewPassword
    <3> HIDE DEF m
    <3>3. Carries(e, right, <<>>)
      <4>1. IsReport(m) /\ "sspi" \in DOMAIN m /\ (~m.error => right /\ m.sspi = <<>>)
        BY Zenon, <3>1 DEF Carries
      <4>2. IsReport(e) /\ "sspi" \in DOMAIN e /\ e.sspi = m.sspi /\ e.error = m.error
        BY Zenon, <4>1 DEF IsReport
      <4> HIDE DEF e
      <4> QED
        BY Zenon, <4>1, <4>2 DEF Carries
    <3> HIDE DEF e
    <3> QED
      BY Zenon, <3>2, <3>3
  <2> QED
    BY Zenon, <1>2, <2>1, <2>2 DEF Login7!Passwords
<1> HIDE DEF r3
<1>4. Carries(r4, right /\ f.ok, f.bytes)
  <2>1. r4 = IF f.ok THEN [r3 EXCEPT !.sspi = f.bytes] ELSE FaultOf(r3, FALSE, "sspi")
    BY Zenon, Login7Fault DEF Login7!Sspi, Login7!Given, f
  <2> HIDE DEF r4
  <2> QED
    BY Zenon, <1>3, <2>1 DEF Carries, IsReport, FaultOf
<1> DEFINE ok == right /\ f.ok
           x == f.bytes
<1> HIDE DEF r4, ok, x
<1>5. Carries(r5, ok, x)
  BY Zenon, <1>4, ParseFeaturesCarries DEF ok, x
<1> HIDE DEF r5
<1>6. Carries(r6, ok, x)
  <2> DEFINE text == [g \in DOMAIN Login7!TextFields |-> Login7!recover_field(p, g, declared, fixed)]
             sound == \A g \in DOMAIN text : text[g].ok
             y == [g \in DOMAIN text |-> IF text[g].ok THEN text[g].units ELSE <<>>]
             m == IF sound THEN r5 ELSE FaultOf(r5, FALSE, "text")
  <2>1. r6 = [m EXCEPT !.text = y]
    BY Zenon, Login7Fault DEF Login7!Texts
  <2> HIDE DEF text, sound, y, r6
  <2>2. Carries(m, ok, x)
    BY Zenon, <1>5, CarriesOn
  <2> HIDE DEF m
  <2> QED
    BY Zenon, <2>1, <2>2, CarriesOn
<1>7. Login7!Fields(p, declared, fixed, FALSE) = r6
  BY Zenon DEF Login7!Fields, r1, r2, r3, r4, r5, r6
<1> HIDE DEF r6
<1> QED
  BY Zenon, <1>6, <1>7 DEF ok, x, right, f

\* sspi_token finds the token that a strict parse reports.
LEMMA TokenFound ==
    ASSUME NEW p \in Seq(Byte), ~Login7!parse_inner(p, FALSE).error
    PROVE  Login7!sspi_token(p) = [ok |-> TRUE, bytes |-> Login7!parse_inner(p, FALSE).sspi]
<1> DEFINE fixed == Login7!fixed_length(p)
           declared == Login7!Declared(p, fixed)
           r == Login7!Fields(p, declared, fixed, FALSE)
           u == Login7!U32(p, 0)
<1>1. Login7!Refused.error
  BY Zenon DEF Login7!Refused, Login7!Unread
<1>2. /\ ~(Len(p) < 8) /\ ~(Len(p) < fixed)
      /\ Login7!parse_inner(p, FALSE) = r
  BY Zenon, <1>1 DEF Login7!parse_inner
<1>3. u = Len(p) /\ Login7!sspi_field(p, declared, fixed).ok /\ r.sspi = Login7!sspi_field(p, declared, fixed).bytes
  BY Zenon, <1>2, FieldsCarry DEF Carries
<1> HIDE DEF r
<1>4. fixed \in Nat /\ Len(p) \in Nat
  BY DEF Login7!fixed_length, Login7!LEGACY_FIXED_LENGTH, Login7!EXTENDED_FIXED_LENGTH
<1> HIDE DEF fixed, u
<1>5. ~Login7!DeclaredBad(p, fixed) /\ declared = u
  BY <1>2, <1>3, <1>4 DEF Login7!DeclaredBad, Login7!Declared, u
<1> HIDE DEF declared
<1>6. Login7!sspi_token(p) = Login7!sspi_field(p, u, fixed)
  BY Zenon, <1>2, <1>5 DEF Login7!sspi_token, fixed, u
<1>7. ASSUME NEW from, NEW size, NEW x, x = Login7!Inside(p, from, size, u, fixed), x.ok
      PROVE  x = [ok |-> TRUE, bytes |-> x.bytes]
  BY Zenon, <1>7 DEF Login7!Inside, Login7!Outside
<1>8. ASSUME NEW x, x = Login7!sspi_field(p, u, fixed), x.ok
      PROVE  x = [ok |-> TRUE, bytes |-> x.bytes]
  <2>1. x # Login7!Outside
    <3>1. Login7!Outside.ok = FALSE
      BY DEF Login7!Outside
    <3> QED
      BY ONLY Zenon, <1>8, <3>1
  <2>2. \E from, size : x = Login7!Inside(p, from, size, u, fixed)
    <3> DEFINE a == Login7!U16(p, 78)
               b == Login7!U16(p, 78 + 2)
               c == Login7!U32(p, 90)
    <3>1. x = Login7!Inside(p, a, b, u, fixed) \/ x = Login7!Inside(p, a, c, u, fixed)
      BY ONLY SMT, <1>8, <2>1 DEF Login7!sspi_field, Login7!raw_byte_field
    <3> HIDE DEF a, b, c
    <3> QED
      BY ONLY Zenon, <3>1
  <2> QED
    BY Zenon, <1>7, <1>8, <2>2
<1> QED
  BY Zenon, <1>2, <1>3, <1>5, <1>6, <1>8

\* The fault of login.rs is the fault of the other parsers.
LEMMA LoginFault == \A r, tolerant, kind : Login!Fault(r, tolerant, kind) = FaultOf(r, tolerant, kind)
BY DEF Login!Fault, FaultOf

\* The texts of a LOGIN record leave the modes together.
LEMMA RecoverFieldsSteps ==
    ASSUME NEW p, NEW r, IsReport(r)
    PROVE  Steps(r, Login!recover_fields(p, r, FALSE), Login!recover_fields(p, r, TRUE))
<1> DEFINE text == [f \in DOMAIN Login!TextFields |-> Login!field(p, Login!TextFields[f])]
           bad == {f \in DOMAIN text : ~text[f].ok}
           read == [f \in DOMAIN text |-> text[f].bytes]
           m == [r EXCEPT !.text = read]
           u == [m EXCEPT !.warnings = @ \cup bad]
           v == [m EXCEPT !.error = TRUE]
<1>1. /\ bad = {} => Login!recover_fields(p, r, FALSE) = m /\ Login!recover_fields(p, r, TRUE) = m
      /\ bad # {} => Login!recover_fields(p, r, FALSE) = v /\ Login!recover_fields(p, r, TRUE) = u
  BY Zenon DEF Login!recover_fields
<1> HIDE DEF bad, read
<1>2. Kept(r, m)
  BY Zenon DEF Kept, IsReport
<1> HIDE DEF m
<1>3. IsReport(m)
  BY Zenon, <1>2 DEF Kept
<1>4. IsReport(v) /\ v.error
  BY Zenon, <1>3 DEF IsReport
<1>5. IsReport(u) /\ u.error = m.error /\ u.warnings = m.warnings \cup bad
  BY Zenon, <1>3 DEF IsReport
<1> HIDE DEF u, v
<1>6. bad # {} => Noted(u)
  BY <1>5 DEF Noted
<1>7. bad # {} => Steps(r, v, u)
  BY Zenon, <1>4, <1>5, <1>6 DEF Steps, Agree, Noted
<1>8. Steps(r, m, m)
  BY Zenon, <1>2, Same
<1> QED
  BY Zenon, <1>1, <1>7, <1>8

\* So does the packet size, which must be a decimal number.
LEMMA PacketSizeSteps ==
    ASSUME NEW r, IsReport(r)
    PROVE  Steps(r, Login!PacketSize(r, FALSE), Login!PacketSize(r, TRUE))
<1> DEFINE sound == r.text.packet_size = <<>> \/ Login!Decimal(r.text.packet_size)
<1>1. /\ sound => Login!PacketSize(r, FALSE) = r /\ Login!PacketSize(r, TRUE) = r
      /\ ~sound => /\ Login!PacketSize(r, FALSE) = FaultOf(r, FALSE, "not decimal")
                   /\ Login!PacketSize(r, TRUE) = FaultOf(r, TRUE, "not decimal")
  BY Zenon, LoginFault DEF Login!PacketSize
<1> HIDE DEF sound
<1> QED
  BY Zenon, <1>1, Faulted, Same DEF Kept

\* So does the length of the record.
LEMMA RecordLengthAgrees ==
    ASSUME NEW p, NEW s, NEW t, Lockstep(s, t)
    PROVE  Lockstep(Login!RecordLength(p, s, FALSE), Login!RecordLength(p, t, TRUE))
<1> DEFINE short == Len(p) < Login!fixed_record_expected_bytes(p)
           long == Login!Major(p) = 4 /\ Len(p) > 572
           a(r, tolerant) == IF short THEN FaultOf(r, tolerant, "short") ELSE r
           b(r, tolerant) == IF long THEN FaultOf(r, tolerant, "long") ELSE r
<1>2. /\ Login!RecordLength(p, s, FALSE) = b(a(s, FALSE), FALSE)
      /\ Login!RecordLength(p, t, TRUE) = b(a(t, TRUE), TRUE)
  <2> HIDE DEF short
  <2> QED
    BY ZenonT(60), LoginFault DEF Login!RecordLength, short
<1> HIDE DEF short, long
<1>1. \A r : IsReport(r) => Steps(r, a(r, FALSE), a(r, TRUE)) /\ Steps(r, b(r, FALSE), b(r, TRUE))
  BY Zenon, Faulted, Same DEF Kept
<1> HIDE DEF a, b
<1>3. Lockstep(a(s, FALSE), a(t, TRUE))
  <2>1. Steps(s, a(s, FALSE), a(s, TRUE)) /\ Steps(t, a(t, FALSE), a(t, TRUE))
    BY Zenon, <1>1 DEF Lockstep
  <2>2. Follow(s, t, a(s, FALSE), a(t, TRUE))
    BY Zenon, <2>1 DEF Follow
  <2> QED
    BY ONLY Zenon, Lockstep(s, t), <2>2, Together
<1> DEFINE q == a(s, FALSE)
           z == a(t, TRUE)
<1> HIDE DEF q, z
<1>4. Lockstep(b(q, FALSE), b(z, TRUE))
  <2>0. Lockstep(q, z)
    BY Zenon, <1>3 DEF q, z
  <2>1. Steps(q, b(q, FALSE), b(q, TRUE)) /\ Steps(z, b(z, FALSE), b(z, TRUE))
    BY Zenon, <2>0, <1>1 DEF Lockstep
  <2>2. Follow(q, z, b(q, FALSE), b(z, TRUE))
    BY Zenon, <2>1 DEF Follow
  <2> QED
    BY ONLY Zenon, <2>0, <2>2, Together
<1> QED
  BY Zenon, <1>2, <1>4 DEF q, z

\* So does the remote password.
LEMMA RemoteSteps ==
    ASSUME NEW p, NEW r, IsReport(r)
    PROVE  Steps(r, Login!recover_remote_password(p, r, FALSE), Login!recover_remote_password(p, r, TRUE))
<1> DEFINE x == Login!field(p, IF Login!Major(p) = 4 /\ Login!Minor(p) = 2 THEN <<202, 255, 457>>
                               ELSE <<204, 253, 203>>)
<1>1. /\ x.ok => /\ Login!recover_remote_password(p, r, FALSE) = [r EXCEPT !.remote = x.bytes]
                 /\ Login!recover_remote_password(p, r, TRUE) = [r EXCEPT !.remote = x.bytes]
      /\ ~x.ok => /\ Login!recover_remote_password(p, r, FALSE) = FaultOf(r, FALSE, "remote")
                  /\ Login!recover_remote_password(p, r, TRUE) = FaultOf(r, TRUE, "remote")
  BY ZenonT(60), LoginFault DEF Login!recover_remote_password, Login!Given
<1> HIDE DEF x
<1>2. Kept(r, [r EXCEPT !.remote = x.bytes])
  BY Zenon DEF Kept, IsReport
<1> QED
  BY Zenon, <1>1, <1>2, Faulted, Same

\* So does a suffix without readable capabilities, which is searched as a whole.
LEMMA SuffixSteps ==
    ASSUME NEW p, NEW n, NEW r, IsReport(r)
    PROVE  Steps(r, Login!recover_suffix_authentication(p, r, n, FALSE),
                    Login!recover_suffix_authentication(p, r, n, TRUE))
<1> DEFINE found == AuthenticationTelemetry(Login!Slice(p, 568, Len(p)), Len(p))
           rest == Len(p) - 568
           m == [r EXCEPT !.capability_bytes = n, !.authentication_bytes = rest,
                          !.authentication = <<found>>]
<1>1. /\ Login!recover_suffix_authentication(p, r, n, FALSE) = FaultOf(m, FALSE, "suffix")
      /\ Login!recover_suffix_authentication(p, r, n, TRUE) = FaultOf(m, TRUE, "suffix")
  BY Zenon, LoginFault DEF Login!recover_suffix_authentication
<1> HIDE DEF found, rest
<1>2. Kept(r, m)
  BY Zenon DEF Kept, IsReport
<1> HIDE DEF m
<1>3. Reports(r, FaultOf(m, FALSE, "suffix"), FaultOf(m, TRUE, "suffix"))
  BY Zenon, <1>2 DEF Reports
<1> QED
  BY Zenon, <1>1, <1>3, Reported

\* So do the capabilities.
LEMMA CapabilitiesSteps ==
    ASSUME NEW p, NEW c, NEW e, NEW r, IsReport(r)
    PROVE  Steps(r, Login!Capabilities(p, r, c, e, FALSE), Login!Capabilities(p, r, c, e, TRUE))
<1> DEFINE bytes == e - 571
           rest == Len(p) - e
           known == IF c.ok THEN <<c>> ELSE <<>>
           m == [r EXCEPT !.capability_bytes = bytes, !.authentication_bytes = rest,
                          !.capabilities = known]
<1>1. /\ c.ok => Login!Capabilities(p, r, c, e, FALSE) = m /\ Login!Capabilities(p, r, c, e, TRUE) = m
      /\ ~c.ok => /\ Login!Capabilities(p, r, c, e, FALSE) = FaultOf(m, FALSE, "capabilities")
                  /\ Login!Capabilities(p, r, c, e, TRUE) = FaultOf(m, TRUE, "capabilities")
  BY Zenon, LoginFault DEF Login!Capabilities
<1> HIDE DEF bytes, rest, known
<1>2. Kept(r, m)
  BY Zenon DEF Kept, IsReport
<1> HIDE DEF m
<1>3. /\ Reports(r, FaultOf(m, FALSE, "capabilities"), FaultOf(m, TRUE, "capabilities"))
      /\ Reports(r, m, m)
  BY Zenon, <1>2 DEF Reports
<1> QED
  BY Zenon, <1>1, <1>3, Reported

\* So does the token stream behind them.
LEMMA AuthenticationSteps ==
    ASSUME NEW p, NEW e, NEW r, IsReport(r)
    PROVE  Steps(r, Login!Authentication(p, r, e, FALSE), Login!Authentication(p, r, e, TRUE))
<1> DEFINE x == AuthenticationAt(p, e, Len(p))
           found == <<AuthenticationTelemetry(Login!Slice(p, e, Len(p)), Len(p))>>
           read == <<x.stream>>
           m == [r EXCEPT !.authentication = found]
           a == [r EXCEPT !.authentication = read]
           all == e = Len(p)
<1>1. /\ all => Login!Authentication(p, r, e, FALSE) = r /\ Login!Authentication(p, r, e, TRUE) = r
      /\ ~all /\ x.ok => /\ Login!Authentication(p, r, e, FALSE) = a
                         /\ Login!Authentication(p, r, e, TRUE) = a
      /\ ~all /\ ~x.ok => /\ Login!Authentication(p, r, e, FALSE) = FaultOf(m, FALSE, "authentication")
                          /\ Login!Authentication(p, r, e, TRUE) = FaultOf(m, TRUE, "authentication")
  BY Zenon, LoginFault DEF Login!Authentication, Login!Given
<1> HIDE DEF x, found, read, all
<1>2. Kept(r, m) /\ Kept(r, a) /\ Kept(r, r)
  BY Zenon DEF Kept, IsReport
<1> HIDE DEF m, a
<1>3. /\ Reports(r, FaultOf(m, FALSE, "authentication"), FaultOf(m, TRUE, "authentication"))
      /\ Reports(r, a, a)
      /\ Reports(r, r, r)
  BY Zenon, <1>2 DEF Reports
<1> QED
  BY Zenon, <1>1, <1>3, Reported

\* So does the whole suffix of TDS 5.0.
LEMMA ParseSuffixAgrees ==
    ASSUME NEW p, NEW s, NEW t, Lockstep(s, t)
    PROVE  Lockstep(Login!parse_suffix(p, s, FALSE), Login!parse_suffix(p, t, TRUE))
<1> DEFINE none == Login!Major(p) # 5 \/ Len(p) <= 568
           rest == IF Len(p) > 572 THEN Len(p) - 572 ELSE 0
           e == IF Login!Prefixed(p) THEN Login!Upto(571 + Login!U16(p, 569), Len(p)) ELSE Login!Failed
           n == IF Login!Prefixed(p) THEN Len(p) - 571 ELSE 0
           c == CapabilitiesAt(p, 571, e)
           a(r) == [r EXCEPT !.authentication_bytes = rest]
           b(r, tolerant) == Login!recover_suffix_authentication(p, r, n, tolerant)
           k(r, tolerant) == Login!Capabilities(p, r, c, e, tolerant)
           h(r, tolerant) == Login!Authentication(p, r, e, tolerant)
           G(r, tolerant) == IF none THEN a(r) ELSE IF e = Login!Failed THEN b(r, tolerant)
                             ELSE h(k(r, tolerant), tolerant)
<1>1. /\ Login!parse_suffix(p, s, FALSE) = IF s.error THEN s ELSE G(s, FALSE)
      /\ Login!parse_suffix(p, t, TRUE) = IF t.error THEN t ELSE G(t, TRUE)
  BY ZenonT(60) DEF Login!parse_suffix, Login!From
<1> HIDE DEF none, rest, e, n, c
<1>2. \A r : IsReport(r) => /\ Steps(r, a(r), a(r))
                            /\ Steps(r, b(r, FALSE), b(r, TRUE))
                            /\ Steps(r, k(r, FALSE), k(r, TRUE))
                            /\ Steps(r, h(r, FALSE), h(r, TRUE))
  <2> TAKE r
  <2> HAVE IsReport(r)
  <2>1. Kept(r, a(r))
    BY Zenon DEF Kept, IsReport
  <2> HIDE DEF a
  <2> QED
    BY Zenon, <2>1, Same, SuffixSteps, CapabilitiesSteps, AuthenticationSteps
<1> HIDE DEF a, b, k, h
<1>3. Lockstep(a(s), a(t)) /\ (s.error => a(s).error)
  <2>1. Steps(s, a(s), a(s)) /\ Steps(t, a(t), a(t))
    BY Zenon, <1>2 DEF Lockstep
  <2>2. Follow(s, t, a(s), a(t))
    BY Zenon, <2>1 DEF Follow
  <2>3. Lockstep(a(s), a(t))
    BY ONLY Zenon, Lockstep(s, t), <2>2, Together
  <2> QED
    BY Zenon, <2>1, <2>3 DEF Steps
<1>4. Lockstep(b(s, FALSE), b(t, TRUE)) /\ (s.error => b(s, FALSE).error)
  <2>1. Steps(s, b(s, FALSE), b(s, TRUE)) /\ Steps(t, b(t, FALSE), b(t, TRUE))
    BY ZenonT(60), <1>2 DEF Lockstep
  <2>2. Follow(s, t, b(s, FALSE), b(t, TRUE))
    BY Zenon, <2>1 DEF Follow
  <2>3. Lockstep(b(s, FALSE), b(t, TRUE))
    BY ONLY Zenon, Lockstep(s, t), <2>2, Together
  <2> QED
    BY Zenon, <2>1, <2>3 DEF Steps
<1> DEFINE q == k(s, FALSE)
           z == k(t, TRUE)
<1>5. Lockstep(q, z) /\ (s.error => q.error)
  <2>1. Steps(s, k(s, FALSE), k(s, TRUE)) /\ Steps(t, k(t, FALSE), k(t, TRUE))
    BY ZenonT(60), <1>2 DEF Lockstep
  <2>2. Follow(s, t, k(s, FALSE), k(t, TRUE))
    BY Zenon, <2>1 DEF Follow
  <2>3. Lockstep(k(s, FALSE), k(t, TRUE))
    BY ONLY Zenon, Lockstep(s, t), <2>2, Together
  <2> QED
    BY Zenon, <2>1, <2>3 DEF Steps
<1> HIDE DEF q, z
<1>6. Lockstep(h(q, FALSE), h(z, TRUE)) /\ (s.error => h(q, FALSE).error)
  <2>1. Steps(q, h(q, FALSE), h(q, TRUE)) /\ Steps(z, h(z, FALSE), h(z, TRUE))
    BY ZenonT(60), <1>2, <1>5 DEF Lockstep
  <2>2. Follow(q, z, h(q, FALSE), h(z, TRUE))
    BY Zenon, <2>1 DEF Follow
  <2>3. Lockstep(h(q, FALSE), h(z, TRUE))
    BY ONLY Zenon, <1>5, <2>2, Together
  <2> QED
    BY Zenon, <1>5, <2>1, <2>3 DEF Steps
<1>7. Lockstep(G(s, FALSE), G(t, TRUE)) /\ (s.error => G(s, FALSE).error)
  BY ZenonT(60), <1>3, <1>4, <1>6 DEF q, z
<1> DEFINE x == G(s, FALSE)
           y == G(t, TRUE)
<1> HIDE DEF G
<1>8. Lockstep(x, y) /\ (s.error => x.error)
  BY Zenon, <1>7
<1> HIDE DEF x, y
<1>9. Lockstep(IF s.error THEN s ELSE x, IF t.error THEN t ELSE y)
  BY Zenon, <1>8 DEF Lockstep, Agree, Noted
<1> QED
  BY Zenon, <1>1, <1>9 DEF x, y

\* The strict and the tolerant reading of a LOGIN record.
LEMMA LoginAgrees ==
    ASSUME NEW p
    PROVE  Lockstep(Login!parse_inner(p, FALSE), Login!parse_inner(p, TRUE))
<1> DEFINE short == Len(p) < Login!MIN_LENGTH
           no == [Login!Unread EXCEPT !.error = TRUE]
           f(r, tolerant) == Login!recover_fields(p, r, tolerant)
           g(r, tolerant) == Login!PacketSize(r, tolerant)
           h(r, tolerant) == Login!recover_remote_password(p, r, tolerant)
           r1(tolerant) == f(Login!Unread, tolerant)
           r2(tolerant) == g(r1(tolerant), tolerant)
           r3(tolerant) == Login!RecordLength(p, r2(tolerant), tolerant)
           r4(tolerant) == h(r3(tolerant), tolerant)
           r5(tolerant) == Login!parse_suffix(p, r4(tolerant), tolerant)
<1>1. /\ short => Login!parse_inner(p, FALSE) = no /\ Login!parse_inner(p, TRUE) = no
      /\ ~short => Login!parse_inner(p, FALSE) = r5(FALSE) /\ Login!parse_inner(p, TRUE) = r5(TRUE)
  BY Zenon DEF Login!parse_inner
<1>2. Lockstep(no, no) /\ Lockstep(Login!Unread, Login!Unread)
  BY Zenon DEF Login!Unread, Lockstep, Agree, Noted, IsReport
<1>3. \A r : IsReport(r) => /\ Steps(r, f(r, FALSE), f(r, TRUE))
                            /\ Steps(r, g(r, FALSE), g(r, TRUE))
                            /\ Steps(r, h(r, FALSE), h(r, TRUE))
  BY Zenon, RecoverFieldsSteps, PacketSizeSteps, RemoteSteps
<1> HIDE DEF f, g, h, no, short
<1>4. Lockstep(r1(FALSE), r1(TRUE))
  <2> DEFINE s == Login!Unread
  <2>0. Lockstep(s, s)
    BY Zenon, <1>2
  <2>1. Steps(s, f(s, FALSE), f(s, TRUE))
    BY Zenon, <1>2, <1>3 DEF Lockstep
  <2>2. Follow(s, s, f(s, FALSE), f(s, TRUE))
    BY Zenon, <2>1 DEF Follow
  <2> HIDE DEF s
  <2>3. Lockstep(f(s, FALSE), f(s, TRUE))
    BY ONLY Zenon, <2>0, <2>2, Together
  <2> QED
    BY Zenon, <2>3 DEF s
<1> HIDE DEF r1
<1>5. Lockstep(r2(FALSE), r2(TRUE))
  <2> DEFINE s == r1(FALSE)
             t == r1(TRUE)
  <2>1. Steps(s, g(s, FALSE), g(s, TRUE)) /\ Steps(t, g(t, FALSE), g(t, TRUE))
    BY Zenon, <1>4, <1>3 DEF Lockstep
  <2>2. Follow(s, t, g(s, FALSE), g(t, TRUE))
    BY Zenon, <2>1 DEF Follow
  <2> QED
    BY ONLY Zenon, <1>4, <2>2, Together
<1> HIDE DEF r2
<1>6. Lockstep(r3(FALSE), r3(TRUE))
  BY Zenon, <1>5, RecordLengthAgrees
<1> HIDE DEF r3
<1>7. Lockstep(r4(FALSE), r4(TRUE))
  <2> DEFINE s == r3(FALSE)
             t == r3(TRUE)
  <2>1. Steps(s, h(s, FALSE), h(s, TRUE)) /\ Steps(t, h(t, FALSE), h(t, TRUE))
    BY ZenonT(60), <1>6, <1>3 DEF Lockstep
  <2>2. Follow(s, t, h(s, FALSE), h(t, TRUE))
    BY Zenon, <2>1 DEF Follow
  <2> QED
    BY ONLY Zenon, <1>6, <2>2, Together
<1> HIDE DEF r4
<1>8. Lockstep(r5(FALSE), r5(TRUE))
  BY Zenon, <1>7, ParseSuffixAgrees
<1> HIDE DEF r5
<1> QED
  BY Zenon, <1>1, <1>2, <1>8

(***************************************************************************)
(* The message on its way                                                  *)
(***************************************************************************)

\* A message that is cut or has another byte in it (CutOff, Bend) is still a sequence of bytes.
LEMMA StillBytes ==
    ASSUME wire \in Seq(Byte), CutOff \/ Bend
    PROVE  wire' \in Seq(Byte)
<1>1. CASE CutOff
  <2> HIDE DEF Byte
  <2> QED
    BY <1>1 DEF CutOff
<1>2. CASE Bend
  <2>1. PICK i \in DOMAIN wire, byte \in BentBytes : wire' = [wire EXCEPT ![i] = byte]
    BY Zenon, <1>2 DEF Bend
  <2>2. byte \in Byte
    BY Zenon, BentAreBytes
  <2> HIDE DEF Byte
  <2> QED
    BY <2>1, <2>2
<1> QED
  BY <1>1, <1>2

(***************************************************************************)
(* The handlers                                                            *)
(***************************************************************************)

\* What the handlers have made of a login message is what its bytes, which do not change any more,
\* give.
LoginsComputed ==
    /\ wire \in Seq(Byte)
    /\ input.kind = "prelogin" => input.payload \in Prelogin!Payload
    /\ Handled("prelogin") =>
          /\ Result.strict = Prelogin!parse_inner(input.payload, FALSE)
          /\ Result.tolerant = Prelogin!parse_inner(input.payload, TRUE)
    /\ Handled("login7") =>
          /\ Result.strict = Login7!parse_inner(wire, FALSE)
          /\ Result.tolerant = Login7!parse_inner(wire, TRUE)
          /\ Result.token = Login7!sspi_token(wire)
    /\ Handled("login") =>
          /\ Result.strict = Login!parse_inner(wire, FALSE)
          /\ Result.tolerant = Login!parse_inner(wire, TRUE)

\* No step of a message or of a handler changes that.
LEMMA LoginStep == LoginsComputed /\ [LoginNext]_vars => LoginsComputed'
<1> SUFFICES ASSUME LoginsComputed, [LoginNext]_vars PROVE LoginsComputed'
  OBVIOUS
<1> USE DEF Handled, Result
<1>1. CASE CutOff
  <2>1. wire' \in Seq(Byte)
    BY Zenon, <1>1, StillBytes DEF LoginsComputed
  <2> QED
    BY Zenon, <1>1, <2>1 DEF CutOff, LoginsComputed
<1>2. CASE Bend
  <2>1. wire' \in Seq(Byte)
    BY Zenon, <1>2, StillBytes DEF LoginsComputed
  <2> QED
    BY Zenon, <1>2, <2>1 DEF Bend, LoginsComputed
<1>3. CASE ReadElsewhere({"prelogin", "login7", "login"})
  BY Zenon, <1>3 DEF ReadElsewhere, LoginsComputed
<1>4. CASE UNCHANGED vars
  BY Zenon, <1>4 DEF vars, LoginsComputed
<1>5. \A x : <<x>>[1] = x
  OBVIOUS
<1>6. CASE ReadPrelogin
  <2> DEFINE m == [strict |-> Prelogin!parse_inner(input.payload, FALSE),
                   tolerant |-> Prelogin!parse_inner(input.payload, TRUE)]
  <2>1. /\ input.kind = "prelogin" /\ input' = input /\ wire' = wire /\ output' = <<m>>
    BY Zenon, <1>6 DEF ReadPrelogin, Handles
  <2>2. /\ m.strict = Prelogin!parse_inner(input.payload, FALSE)
        /\ m.tolerant = Prelogin!parse_inner(input.payload, TRUE)
    OBVIOUS
  <2> HIDE DEF m
  <2>3. output'[1] = m
    BY Zenon, <2>1, <1>5
  <2> QED
    BY Zenon, <2>1, <2>2, <2>3 DEF LoginsComputed
<1>7. CASE ReadLogin
  <2> DEFINE m == [strict |-> Login!parse_inner(wire, FALSE),
                   tolerant |-> Login!parse_inner(wire, TRUE)]
  <2>1. /\ input.kind = "login" /\ input' = input /\ wire' = wire /\ output' = <<m>>
    BY Zenon, <1>7 DEF ReadLogin, Handles
  <2>2. /\ m.strict = Login!parse_inner(wire, FALSE)
        /\ m.tolerant = Login!parse_inner(wire, TRUE)
    OBVIOUS
  <2> HIDE DEF m
  <2>3. output'[1] = m
    BY Zenon, <2>1, <1>5
  <2> QED
    BY Zenon, <2>1, <2>2, <2>3 DEF LoginsComputed
<1>8. CASE ReadLogin7
  <2> DEFINE m == [strict |-> Login7!parse_inner(wire, FALSE),
                   tolerant |-> Login7!parse_inner(wire, TRUE),
                   token |-> Login7!sspi_token(wire)]
  <2>1. /\ input.kind = "login7" /\ input' = input /\ wire' = wire /\ output' = <<m>>
    BY Zenon, <1>8 DEF ReadLogin7, Handles
  <2>2. /\ m.strict = Login7!parse_inner(wire, FALSE)
        /\ m.tolerant = Login7!parse_inner(wire, TRUE)
        /\ m.token = Login7!sspi_token(wire)
    OBVIOUS
  <2> HIDE DEF m
  <2>3. output'[1] = m
    BY Zenon, <2>1, <1>5
  <2> QED
    BY Zenon, <2>1, <2>2, <2>3 DEF LoginsComputed
<1> QED
  BY ZenonT(60), <1>1, <1>2, <1>3, <1>4, <1>6, <1>7, <1>8 DEF LoginNext

\* Whatever arrives, what a handler has made of a PRELOGIN, LOGIN7 or LOGIN message is what the
\* parsers give for the bytes that arrived.
LEMMA LoginsAreComputed == LoginSpec => []LoginsComputed
<1>1. LoginInit => LoginsComputed
  BY DEF LoginInit, ReaderInit, LoginsComputed, Handled
<1> QED
  BY PTL, <1>1, LoginStep DEF LoginSpec

\* What the parsers give in their two modes agrees.
LEMMA ComputedAgree == LoginsComputed => ModesAgree
<1> SUFFICES ASSUME LoginsComputed PROVE ModesAgree
  OBVIOUS
<1>1. \A s, t : Lockstep(s, t) => /\ s.error <=> (t.error \/ t.warnings # {})
                                  /\ s.error \/ s = t
  BY Zenon DEF Lockstep, Agree, Noted
<1>2. ASSUME NEW kind \in {"prelogin", "login7", "login"}, Handled(kind)
      PROVE  Lockstep(Result.strict, Result.tolerant)
  <2>1. Handled("prelogin") => Lockstep(Result.strict, Result.tolerant)
    BY Zenon, PreloginAgrees DEF LoginsComputed, Handled
  <2>2. Handled("login7") => Lockstep(Result.strict, Result.tolerant)
    BY Zenon, Login7Agrees DEF LoginsComputed
  <2>3. Handled("login") => Lockstep(Result.strict, Result.tolerant)
    BY Zenon, LoginAgrees DEF LoginsComputed
  <2> HIDE DEF Handled
  <2> QED
    BY Zenon, <1>2, <2>1, <2>2, <2>3
<1>3. Handled("login7") /\ ~Result.strict.error =>
         Result.token = [ok |-> TRUE, bytes |-> Result.strict.sspi]
  BY Zenon, TokenFound DEF LoginsComputed
<1> QED
  BY Zenon, <1>1, <1>2, <1>3 DEF ModesAgree

\* What the strict parse of a PRELOGIN accepts has its values apart.
LEMMA ComputedApart == LoginsComputed => ValuesApart
<1> SUFFICES ASSUME LoginsComputed, Handled("prelogin"), ~Result.strict.error PROVE ValuesApart
  BY Zenon DEF ValuesApart
<1>1. /\ input.payload \in Prelogin!Payload
      /\ Result.strict = Prelogin!parse_inner(input.payload, FALSE)
  BY Zenon DEF LoginsComputed, Handled
<1> QED
  BY Zenon, <1>1, PreloginApart DEF ValuesApart

\* For every message, whatever arrives of it and however long it is, the strict and the tolerant
\* reading of a PRELOGIN, LOGIN7 or LOGIN message are one reader (the lenient and tolerant flags of
\* the three parse_inner), sspi_token finds the token that the strict one reports, and the values of
\* a PRELOGIN that is accepted lie apart.
THEOREM OneReader == LoginSpec => []LoginsHaveOneReading
<1>1. LoginsComputed => LoginsHaveOneReading
  BY Zenon, ComputedAgree, ComputedApart DEF LoginsHaveOneReading
<1> QED
  BY PTL, <1>1, LoginsAreComputed
=============================================================================
