--------------------------- MODULE StreamProofs ----------------------------
(***************************************************************************)
(* No byte of a message is reported twice and none is lost (EveryByteOnce: *)
(* BytesHaveOneMeaning), and the values kept of a TDS 5 stream stay within *)
(* the limit (WithinTheLimit: StreamBudget), for every message and every   *)
(* limit.                                                                  *)
(*                                                                         *)
(* Covers says that parts hold each of some positions once. The reading of *)
(* a TDS 5 stream is Sound: its tokens cover what lies between its start   *)
(* and its cursor, the formats it remembers are columns, and the bytes of  *)
(* its values are those it has counted, within the limit. Each token keeps *)
(* that (Follows), from the fields of a format up to ReadToken;            *)
(* NextTokenFollows shows in addition that a turn advances, so that the    *)
(* loop has enough turns. TelemetryWhole then joins two readings with the  *)
(* regions around them.                                                    *)
(*                                                                         *)
(* The three parts of a federated-authentication message lie side by side  *)
(* (FedauthOnce), and frames follow one another up to the end, because     *)
(* every turn of their loop passes a header (FramesOnce). What a handler   *)
(* reports is what these readers give for the bytes that arrived           *)
(* (PartsAreComputed).                                                     *)
(*                                                                         *)
(* The loops are recursive functions over the number of their turns: Run   *)
(* is the turn of a loop and Loop shows that the function exists, so that  *)
(* what holds before the first turn and is kept by each turn holds at the  *)
(* end (Upward).                                                           *)
(***************************************************************************)
EXTENDS PartReaders, WellFoundedInduction, TLAPS

\* A set of numbers that is not empty has a least element.
LEMMA Least ==
    ASSUME NEW T, T \subseteq Nat, T # {}
    PROVE  \E m \in T : \A k \in T : m <= k
<1>1. PICK m \in T : \A k \in T : ~(<<k, m>> \in OpToRel(<, Nat))
  BY Zenon, WFMin, NatLessThanWellFounded
<1>2. ASSUME NEW k \in T, k < m PROVE FALSE
  <2>1. <<k, m>> \in Nat \X Nat
    BY Zenon
  <2>2. <<k, m>> \in OpToRel(<, Nat)
    BY Zenon, <1>2, <2>1 DEF OpToRel
  <2> QED
    BY Zenon, <1>1, <2>2
<1> QED
  BY <1>2

\* Induction along the turns of a loop.
LEMMA Upward ==
    ASSUME NEW n \in Nat, NEW T, 0 \in T, \A k \in 1..n : k - 1 \in T => k \in T
    PROVE  n \in T
<1> DEFINE Bad == {k \in 0..n : k \notin T}
<1>1. SUFFICES ASSUME Bad # {} PROVE FALSE
  OBVIOUS
<1>2. PICK m \in Bad : \A k \in Bad : m <= k
  <2> HIDE DEF Bad
  <2>1. Bad \subseteq Nat
    BY DEF Bad
  <2> QED
    BY Zenon, <1>1, <2>1, Least
<1>3. m # 0 /\ m \in 1..n /\ m - 1 \in 0..n /\ ~(m <= m - 1)
  BY <1>2
<1>4. m - 1 \in T
  BY Zenon, <1>2, <1>3
<1> QED
  BY Zenon, <1>2, <1>3, <1>4

(***************************************************************************)
(* Loops.                                                                  *)
(***************************************************************************)

\* The k-th turn of the loop x, whichever it is.
Run(x, k, s) ==
    CASE x.loop = "fit" -> Tds5!Pass(x.b, s, x.end, x.layout[k])
      [] x.loop = "columns" -> Tds5!NextColumn(x.b, s, x.end, x.names, x.statusWidth)
      [] x.loop = "chunks" -> Tds5!Chunk(x.b, s, x.limit)
      [] x.loop = "values" -> Tds5!ColumnValue(x.b, s, x.columns[k], x.limit)
      [] x.loop = "tokens" -> Tds5!NextToken(x.b, s)
      [] x.loop = "sum" -> s + x.s[k]
      [] OTHER -> s

IsLoop(f, x, first, n) == f = [k \in 0..n |-> IF k = 0 THEN first ELSE Run(x, k, f[k - 1])]

\* One turn more.
LEMMA LoopStep ==
    ASSUME NEW x, NEW first, NEW n \in Nat, NEW f, IsLoop(f, x, first, n)
    PROVE  \E g : IsLoop(g, x, first, n + 1)
<1> DEFINE g == [k \in 0..n + 1 |-> IF k = n + 1 THEN Run(x, k, f[n]) ELSE f[k]]
<1>1. \A k \in 0..n : f[k] = IF k = 0 THEN first ELSE Run(x, k, f[k - 1])
  BY Zenon DEF IsLoop
<1>2. \A k \in 0..n + 1 : g[k] = IF k = 0 THEN first ELSE Run(x, k, g[k - 1])
  <2> TAKE k \in 0..n + 1
  <2>1. CASE k = n + 1
    BY <2>1
  <2>2. CASE k # n + 1
    BY <2>2, <1>1
  <2> QED
    BY Zenon, <2>1, <2>2
<1>3. g = [k \in 0..n + 1 |-> IF k = 0 THEN first ELSE Run(x, k, g[k - 1])]
  BY Zenon, <1>2
<1>4. IsLoop(g, x, first, n + 1)
  BY Zenon, <1>3 DEF IsLoop
<1> HIDE DEF g
<1> QED
  BY Zenon, <1>4

\* A loop of so many turns exists: the recursive function that defines one is a function.
LEMMA Loop ==
    ASSUME NEW x, NEW first, NEW n \in Nat
    PROVE  \E f : IsLoop(f, x, first, n)
<1> DEFINE T == {k \in Nat : \E f : IsLoop(f, x, first, k)}
<1>1. 0 \in T
  <2> DEFINE g == [k \in 0..0 |-> first]
  <2>1. g = [k \in 0..0 |-> IF k = 0 THEN first ELSE Run(x, k, g[k - 1])]
    OBVIOUS
  <2>2. IsLoop(g, x, first, 0)
    BY Zenon, <2>1 DEF IsLoop
  <2> HIDE DEF g
  <2> QED
    BY Zenon, <2>2
<1>2. ASSUME NEW k \in 1..n, k - 1 \in T PROVE k \in T
  <2>1. PICK f : IsLoop(f, x, first, k - 1)
    BY Zenon, <1>2
  <2>2. k - 1 \in Nat /\ (k - 1) + 1 = k /\ k \in Nat
    OBVIOUS
  <2>3. \E g : IsLoop(g, x, first, (k - 1) + 1)
    BY ONLY Zenon, <2>1, <2>2, LoopStep, Zenon
  <2>4. \E g : IsLoop(g, x, first, k)
    BY Zenon, <2>2, <2>3
  <2> QED
    BY Zenon, <2>2, <2>4
<1>3. n \in T
  <2> HIDE DEF T
  <2> QED
    BY ONLY Zenon, n \in Nat, <1>1, <1>2, Upward
<1> QED
  BY Zenon, <1>3

\* What the turns of a loop are.
LEMMA Turns ==
    ASSUME NEW x, NEW first, NEW n \in Nat, NEW f, IsLoop(f, x, first, n)
    PROVE  /\ f[0] = first
           /\ \A k \in 1..n : f[k] = Run(x, k, f[k - 1])
<1>1. \A k \in 0..n : f[k] = IF k = 0 THEN first ELSE Run(x, k, f[k - 1])
  BY Zenon DEF IsLoop
<1> QED
  BY <1>1

(***************************************************************************)
(* Parts of a payload.                                                     *)
(***************************************************************************)

\* A sequence of parts with their bounds
IsParts(parts) ==
    /\ Len(parts) \in Nat
    /\ parts = [k \in 1..Len(parts) |-> parts[k]]
    /\ \A k \in 1..Len(parts) : parts[k].from \in Nat /\ parts[k].to \in Nat

\* The parts hold every one of these positions once, and no other.
Covers(parts, X) ==
    /\ IsParts(parts)
    /\ \A x \in Nat : (\E k \in 1..Len(parts) : Holds(parts[k], x)) <=> x \in X
    /\ \A x \in Nat : \A j, k \in 1..Len(parts) : Holds(parts[j], x) /\ Holds(parts[k], x) => j = k

\* A position that the parts cover is held by one of them.
LEMMA CoversOnce ==
    ASSUME NEW parts, NEW X, Covers(parts, X), NEW x \in Nat, x \in X
    PROVE  Once(parts, x)
<1>1. DOMAIN parts = 1..Len(parts)
  BY Zenon DEF Covers, IsParts
<1> QED
  BY Zenon, <1>1 DEF Covers, Once, AtMostOnce

IsConcat(r, p, q, S) ==
    /\ r \in Seq(S) /\ Len(r) = Len(p) + Len(q) /\ Len(p) \in Nat /\ Len(q) \in Nat
    /\ \A k \in 1..Len(p) : r[k] = p[k]
    /\ \A k \in 1..Len(q) : r[Len(p) + k] = q[k]

\* What a sequence joined from two holds where.
LEMMA ConcatIs ==
    ASSUME NEW S, NEW p \in Seq(S), NEW q \in Seq(S)
    PROVE  IsConcat(p \o q, p, q, S)
BY DEF IsConcat

\* Parts that cover X and parts that cover Y cover both, if nothing is in both.
LEMMA CoversJoined ==
    ASSUME NEW S, NEW p \in Seq(S), NEW q \in Seq(S), NEW X, NEW Y,
           Covers(p, X), Covers(q, Y), X \cap Y = {}
    PROVE  Covers(p \o q, X \cup Y)
<1> DEFINE r == p \o q
           m == Len(p)
           n == Len(q)
<1>1. /\ m \in Nat /\ n \in Nat /\ r \in Seq(S) /\ Len(r) = m + n
      /\ \A k \in 1..m : r[k] = p[k]
      /\ \A k \in 1..n : r[m + k] = q[k]
  <2>1. IsConcat(r, p, q, S)
    BY Zenon, ConcatIs
  <2> HIDE DEF r
  <2> QED
    BY Zenon, <2>1 DEF IsConcat
<1> HIDE DEF r, m, n
<1>2. r = [k \in 1..Len(r) |-> r[k]]
  <2>1. r \in Seq(S)
    BY Zenon, <1>1
  <2> QED
    BY ONLY SMT, <2>1
<1>3. \A k \in 1..m + n : k \in 1..m \/ (k - m \in 1..n /\ r[k] = q[k - m])
  <2> TAKE k \in 1..m + n
  <2>1. CASE k > m
    <3>1. k - m \in 1..n /\ m + (k - m) = k
      BY <1>1, <2>1
    <3> QED
      BY Zenon, <1>1, <3>1
  <2> QED
    BY <1>1, <2>1
<1>4. IsParts(r)
  <2>1. ASSUME NEW k \in 1..m + n
        PROVE  r[k].from \in Nat /\ r[k].to \in Nat
    BY Zenon, <1>1, <1>3 DEF Covers, IsParts, m, n
  <2> QED
    BY <1>1, <1>2, <2>1 DEF IsParts
<1>5. \A x \in Nat, k \in 1..m : Holds(p[k], x) => x \in X
  BY Zenon DEF Covers, m
<1>6. \A x \in Nat, k \in 1..n : Holds(q[k], x) => x \in Y
  BY Zenon DEF Covers, n
<1>7. ASSUME NEW x \in Nat
      PROVE  (\E k \in 1..m + n : Holds(r[k], x)) <=> x \in X \cup Y
  <2>1. ASSUME NEW k \in 1..m + n, Holds(r[k], x)
        PROVE  x \in X \cup Y
    BY Zenon, <1>1, <1>3, <1>5, <1>6, <2>1
  <2>2. ASSUME x \in X
        PROVE  \E k \in 1..m + n : Holds(r[k], x)
    <3>1. PICK k \in 1..m : Holds(p[k], x)
      BY Zenon, <2>2 DEF Covers, m
    <3>2. k \in 1..m + n
      BY <1>1
    <3> QED
      BY Zenon, <1>1, <3>1, <3>2
  <2>3. ASSUME x \in Y
        PROVE  \E k \in 1..m + n : Holds(r[k], x)
    <3>1. PICK k \in 1..n : Holds(q[k], x)
      BY Zenon, <2>3 DEF Covers, n
    <3>2. m + k \in 1..m + n
      BY <1>1
    <3> QED
      BY Zenon, <1>1, <3>1, <3>2
  <2> QED
    BY Zenon, <2>1, <2>2, <2>3
<1>8. ASSUME NEW x \in Nat, NEW j \in 1..m + n, NEW k \in 1..m + n, Holds(r[j], x), Holds(r[k], x)
      PROVE  j = k
  <2>1. CASE j \in 1..m /\ k \in 1..m
    BY Zenon, <1>1, <1>8, <2>1 DEF Covers, m
  <2>2. CASE j \in 1..m /\ k \notin 1..m
    BY Zenon, <1>1, <1>3, <1>5, <1>6, <1>8, <2>2
  <2>3. CASE j \notin 1..m /\ k \in 1..m
    BY Zenon, <1>1, <1>3, <1>5, <1>6, <1>8, <2>3
  <2>4. CASE j \notin 1..m /\ k \notin 1..m
    <3>1. j - m = k - m
      BY Zenon, <1>3, <1>8, <2>4 DEF Covers, n
    <3> QED
      BY <1>1, <3>1
  <2> QED
    BY Zenon, <2>1, <2>2, <2>3, <2>4
<1>9. Covers(r, X \cup Y)
  BY Zenon, <1>1, <1>4, <1>7, <1>8 DEF Covers
<1> QED
  BY Zenon, <1>9 DEF r

\* One part covers itself.
LEMMA CoversOne ==
    ASSUME NEW part, part.from \in Nat, part.to \in Nat
    PROVE  Covers(<<part>>, part.from..part.to - 1)
BY DEF Covers, IsParts, Holds

\* No part covers nothing.
LEMMA CoversNone == Covers(<<>>, {})
BY DEF Covers, IsParts

\* An interval is its two halves.
LEMMA Halves ==
    ASSUME NEW i \in Nat, NEW j \in Nat, NEW k \in Nat, i <= j, j <= k
    PROVE  /\ (i..j - 1) \cup (j..k - 1) = i..k - 1
           /\ (i..j - 1) \cap (j..k - 1) = {}
OBVIOUS

\* One part more.
LEMMA CoversAppended ==
    ASSUME NEW S, NEW p \in Seq(S), NEW part \in S, NEW i \in Nat, NEW j \in Nat, NEW k \in Nat,
           i <= j, j <= k, Covers(p, i..j - 1), part.from = j, part.to = k
    PROVE  Covers(Append(p, part), i..k - 1)
<1>1. Append(p, part) = p \o <<part>> /\ <<part>> \in Seq(S)
  OBVIOUS
<1>2. Covers(<<part>>, j..k - 1)
  BY Zenon, CoversOne
<1>3. /\ (i..j - 1) \cup (j..k - 1) = i..k - 1
      /\ (i..j - 1) \cap (j..k - 1) = {}
  BY Zenon, Halves
<1> DEFINE X == i..j - 1
           Y == j..k - 1
           q == <<part>>
<1> HIDE DEF X, Y, q
<1>4. Covers(p \o q, X \cup Y)
  BY ONLY Zenon, <1>1, <1>2, <1>3, p \in Seq(S), Covers(p, i..j - 1), CoversJoined DEF X, Y, q
<1> QED
  BY Zenon, <1>1, <1>3, <1>4 DEF X, Y, q

(***************************************************************************)
(* Bytes and fields of a TDS 5 stream                                      *)
(***************************************************************************)

\* What is read within the bytes is a number.
LEMMA ByteRead ==
    ASSUME NEW b \in Seq(Byte), NEW i \in Nat, i + 1 <= Len(b)
    PROVE  Tds5!At(b, i) \in Byte /\ Tds5!At(b, i) \in Nat
<1>1. \A x \in Byte : x \in Nat
  BY DEF Byte
<1> HIDE DEF Byte
<1>2. b[i + 1] \in Byte
  OBVIOUS
<1> QED
  BY Zenon, <1>1, <1>2 DEF Tds5!At

\* A u16 within the bytes is a number.
LEMMA WordRead ==
    ASSUME NEW b \in Seq(Byte), NEW i \in Nat, i + 2 <= Len(b)
    PROVE  Tds5!U16(b, i) \in Nat
<1>1. i + 1 \in Nat /\ (i + 1) + 1 <= Len(b) /\ i + 1 <= Len(b)
  OBVIOUS
<1>2. Tds5!At(b, i) \in Nat /\ Tds5!At(b, i + 1) \in Nat
  BY Zenon, <1>1, ByteRead
<1> QED
  BY <1>2 DEF Tds5!U16

\* A u32 within the bytes is a number.
LEMMA LongRead ==
    ASSUME NEW b \in Seq(Byte), NEW i \in Nat, i + 4 <= Len(b)
    PROVE  Tds5!U32(b, i) \in Nat
<1>1. /\ i + 2 \in Nat /\ i + 3 \in Nat /\ (i + 2) + 1 <= Len(b) /\ (i + 3) + 1 <= Len(b)
      /\ i + 2 <= Len(b)
  OBVIOUS
<1>2. Tds5!At(b, i + 2) \in Nat /\ Tds5!At(b, i + 3) \in Nat
  BY Zenon, <1>1, ByteRead
<1>3. Tds5!U16(b, i) \in Nat
  BY Zenon, <1>1, WordRead
<1> QED
  BY <1>2, <1>3 DEF Tds5!U32, Tds5!Huge

\* Fields of a fixed width, and fields that begin with their length
Widths == {1, 2, 4}
IsField(f) == (\E n \in Nat : f = Tds5!Fixed(n)) \/ (\E w \in Widths : f = Tds5!Counted(w))

\* A field that can be read ends within the bytes, and behind its width.
LEMMA Passes ==
    ASSUME NEW b \in Seq(Byte), NEW end \in Nat, end <= Len(b), NEW i, i = Tds5!Failed \/ i \in Nat,
           NEW f, IsField(f)
    PROVE  \/ Tds5!Pass(b, i, end, f) = Tds5!Failed
           \/ /\ i \in Nat /\ f[1] \in Nat
              /\ Tds5!Pass(b, i, end, f) \in Nat
              /\ i + f[1] <= Tds5!Pass(b, i, end, f)
              /\ Tds5!Pass(b, i, end, f) <= end
<1> DEFINE q == Tds5!Pass(b, i, end, f)
           extra == IF f[2] = 0 THEN 0 ELSE f[2] * Tds5!LE(b, i, f[1])
<1>1. SUFFICES ASSUME q # Tds5!Failed
               PROVE  i \in Nat /\ f[1] \in Nat /\ q \in Nat /\ i + f[1] <= q /\ q <= end
  BY Zenon
<1>2. i # Tds5!Failed /\ ~(i + f[1] > end) /\ q = Tds5!Upto(i + f[1] + extra, end)
  BY Zenon, <1>1 DEF Tds5!Pass
<1> HIDE DEF q, extra
<1>3. q = i + f[1] + extra /\ ~(i + f[1] + extra > end)
  BY Zenon, <1>1, <1>2 DEF Tds5!Upto
<1>4. f[1] \in Nat /\ extra \in Nat
  <2>1. CASE \E n \in Nat : f = Tds5!Fixed(n)
    BY <2>1 DEF extra, Tds5!Fixed
  <2>2. CASE \E w \in Widths : f = Tds5!Counted(w)
    <3>1. PICK w \in Widths : f = Tds5!Counted(w)
      BY Zenon, <2>2
    <3>2. f[1] = w /\ f[2] = 1 /\ w \in Nat
      BY <3>1 DEF Tds5!Counted, Widths
    <3>3. i \in Nat /\ i + w <= Len(b)
      BY <1>2, <3>2
    <3>4. Tds5!LE(b, i, w) \in Nat
      <4>1. CASE w = 1
        BY Zenon, <3>3, <4>1, ByteRead DEF Tds5!LE
      <4>2. CASE w = 2
        BY <3>3, <4>2, WordRead DEF Tds5!LE
      <4>3. CASE w = 4
        BY <3>3, <4>3, LongRead DEF Tds5!LE
      <4> QED
        BY Zenon, <4>1, <4>2, <4>3 DEF Widths
    <3> QED
      BY <3>2, <3>4 DEF extra
  <2> QED
    BY Zenon, <2>1, <2>2 DEF IsField
<1> QED
  BY <1>2, <1>3, <1>4

IsFit(at, b, i, end, layout) ==
    /\ at[0] = i
    /\ \A k \in 1..Len(layout) : at[k] = Tds5!Pass(b, at[k - 1], end, layout[k])
    /\ Tds5!Fit(b, i, end, layout) = at[Len(layout)]

\* Fields are passed one after another by such a loop.
LEMMA FitLoop ==
    ASSUME NEW b, NEW i, NEW end, NEW layout, Len(layout) \in Nat
    PROVE  \E at : IsFit(at, b, i, end, layout)
<1> DEFINE x == [loop |-> "fit", b |-> b, end |-> end, layout |-> layout]
           n == Len(layout)
           Is(f) == f = [k \in 0..n |-> IF k = 0 THEN i ELSE Tds5!Pass(b, f[k - 1], end, layout[k])]
           t == CHOOSE f : Is(f)
<1>1. \A k, s : Run(x, k, s) = Tds5!Pass(b, s, end, layout[k])
  BY Zenon DEF Run
<1>2. Tds5!Fit(b, i, end, layout) = t[n]
  BY Zenon DEF Tds5!Fit
<1> HIDE DEF x
<1>3. \A f : Is(f) <=> IsLoop(f, x, i, n)
  BY Zenon, <1>1 DEF IsLoop
<1> HIDE DEF Is, n
<1>4. n \in Nat
  BY Zenon DEF n
<1>5. Is(t)
  BY Zenon, <1>3, <1>4, Loop
<1> HIDE DEF t
<1>6. /\ t[0] = i
      /\ \A k \in 1..n : t[k] = Run(x, k, t[k - 1])
  <2>1. IsLoop(t, x, i, n)
    BY Zenon, <1>3, <1>5
  <2> QED
    BY ONLY SMT, <2>1, <1>4, Turns
<1>7. \A k \in 1..n : t[k] = Tds5!Pass(b, t[k - 1], end, layout[k])
  BY Zenon, <1>1, <1>6
<1> QED
  BY Zenon, <1>2, <1>6, <1>7 DEF n, IsFit

IsLayout(layout) ==
    Len(layout) \in Nat /\ \A k \in 1..Len(layout) : IsField(layout[k])

\* The position r is reached from i.
Reached(i, r, end) == r = Tds5!Failed \/ (i \in Nat /\ r \in Nat /\ i <= r /\ r <= end)

\* A layout that can be read ends within the bytes, its last field behind its width.
LEMMA Fits ==
    ASSUME NEW b \in Seq(Byte), NEW end \in Nat, end <= Len(b), NEW i, Reached(i, i, end),
           NEW layout, IsLayout(layout)
    PROVE  /\ Reached(i, Tds5!Fit(b, i, end, layout), end)
           /\ (Tds5!Fit(b, i, end, layout) # Tds5!Failed /\ Len(layout) > 0) =>
                 i + layout[Len(layout)][1] <= Tds5!Fit(b, i, end, layout)
<1> DEFINE n == Len(layout)
           r == Tds5!Fit(b, i, end, layout)
<1>1. n \in Nat
  BY Zenon DEF IsLayout
<1>2. PICK at : IsFit(at, b, i, end, layout)
  BY Zenon, <1>1, FitLoop
<1> DEFINE Good(k) == /\ Reached(i, at[k], end)
                      /\ (at[k] # Tds5!Failed /\ k > 0) =>
                            layout[k][1] \in Nat /\ i + layout[k][1] <= at[k]
           T == {k \in 0..n : Good(k)}
<1>3. 0 \in T
  <2>1. at[0] = i
    BY Zenon, <1>2 DEF IsFit
  <2> QED
    BY <1>1, <2>1
<1>4. ASSUME NEW k \in 1..n, k - 1 \in T
      PROVE  k \in T
  <2> DEFINE s == at[k - 1]
             q == at[k]
             f == layout[k]
  <2>1. q = Tds5!Pass(b, s, end, f)
    BY Zenon, <1>2 DEF IsFit
  <2>2. IsField(f)
    BY Zenon DEF IsLayout
  <2>3. Reached(i, s, end)
    BY Zenon, <1>4
  <2> HIDE DEF s, q, f
  <2>4. s = Tds5!Failed \/ s \in Nat
    BY Zenon, <2>3 DEF Reached
  <2>5. \/ q = Tds5!Failed
        \/ s \in Nat /\ f[1] \in Nat /\ q \in Nat /\ s + f[1] <= q /\ q <= end
    BY Zenon, <2>1, <2>2, <2>4, Passes
  <2>6. s \in Nat => i \in Nat /\ i <= s
    BY <2>3 DEF Reached, Tds5!Failed
  <2>7. Reached(i, q, end) /\ (q # Tds5!Failed => f[1] \in Nat /\ i + f[1] <= q)
    BY SMTT(60), <2>5, <2>6 DEF Reached
  <2>8. k \in 0..n
    BY <1>1
  <2> QED
    BY Zenon, <2>7, <2>8 DEF q, f
<1>5. Good(n)
  <2> HIDE DEF Good
  <2>1. 0 \in T /\ \A k \in 1..n : k - 1 \in T => k \in T
    BY Zenon, <1>3, <1>4
  <2>2. n \in T
    <3> HIDE DEF T, n
    <3> QED
      BY ONLY Zenon, <1>1, <2>1, Upward
  <2> QED
    BY Zenon, <2>2
<1>6. r = at[n]
  BY Zenon, <1>2 DEF IsFit
<1> HIDE DEF r
<1> QED
  BY Zenon, <1>5, <1>6 DEF r

\* What is a layout: no field, up to three fields, or one field any number of times.
LEMMA Layouts ==
    /\ IsLayout(<<>>)
    /\ \A f : IsField(f) => IsLayout(<<f>>) /\ Len(<<f>>) = 1 /\ <<f>>[1] = f
    /\ \A f, g : IsField(f) /\ IsField(g) => IsLayout(<<f, g>>) /\ Len(<<f, g>>) = 2 /\ <<f, g>>[2] = g
    /\ \A f, g, h : IsField(f) /\ IsField(g) /\ IsField(h) =>
          IsLayout(<<f, g, h>>) /\ Len(<<f, g, h>>) = 3 /\ <<f, g, h>>[3] = h
    /\ \A f : \A n \in Nat : IsField(f) => IsLayout(Tds5!Repeat(f, n))
<1> HIDE DEF IsField
<1>1. IsLayout(<<>>)
  BY DEF IsLayout
<1>2. ASSUME NEW f, IsField(f)
      PROVE  IsLayout(<<f>>) /\ Len(<<f>>) = 1 /\ <<f>>[1] = f
  BY <1>2 DEF IsLayout
<1>3. ASSUME NEW f, NEW g, IsField(f), IsField(g)
      PROVE  IsLayout(<<f, g>>) /\ Len(<<f, g>>) = 2 /\ <<f, g>>[2] = g
  BY <1>3 DEF IsLayout
<1>4. ASSUME NEW f, NEW g, NEW h, IsField(f), IsField(g), IsField(h)
      PROVE  IsLayout(<<f, g, h>>) /\ Len(<<f, g, h>>) = 3 /\ <<f, g, h>>[3] = h
  BY <1>4 DEF IsLayout
<1>5. ASSUME NEW f, NEW n \in Nat, IsField(f)
      PROVE  IsLayout(Tds5!Repeat(f, n))
  <2>1. Len(Tds5!Repeat(f, n)) = n
    BY DEF Tds5!Repeat
  <2>2. \A k \in 1..n : Tds5!Repeat(f, n)[k] = f
    BY Zenon DEF Tds5!Repeat
  <2> QED
    BY Zenon, <1>5, <2>1, <2>2 DEF IsLayout
<1> QED
  BY Zenon, <1>1, <1>2, <1>3, <1>4, <1>5

\* What a field is: fixed, or counted by a length of one, two or four bytes.
LEMMA Fields ==
    /\ \A n \in Nat : IsField(Tds5!Fixed(n)) /\ Tds5!Fixed(n)[1] = n
    /\ \A w \in Widths : IsField(Tds5!Counted(w)) /\ Tds5!Counted(w)[1] = w /\ w \in Nat
    /\ 1 \in Widths /\ 2 \in Widths /\ 4 \in Widths
<1>1. /\ \A n \in Nat : IsField(Tds5!Fixed(n))
      /\ \A w \in Widths : IsField(Tds5!Counted(w))
  BY Zenon DEF IsField
<1>2. /\ \A n \in Nat : Tds5!Fixed(n)[1] = n
      /\ \A w \in Widths : Tds5!Counted(w)[1] = w /\ w \in Nat
  BY DEF Tds5!Fixed, Tds5!Counted, Widths
<1>3. 1 \in Widths /\ 2 \in Widths /\ 4 \in Widths
  BY Zenon DEF Widths
<1> QED
  BY Zenon, <1>1, <1>2, <1>3

(***************************************************************************)
(* Columns and their formats                                               *)
(***************************************************************************)

FixedKinds == {"fixed0", "fixed1", "fixed2", "fixed4", "fixed8"}
Kinds == FixedKinds \cup {"u8", "u32", "lob", "blob"}

IsColumn(c) == c.encoding \in Kinds /\ (c.encoding \in FixedKinds => c.max \in Nat)
IsColumns(cs) == \E S : cs \in Seq(S) /\ \A c \in S : IsColumn(c)

\* Every type of fixed size has one, and every encoding is known.
LEMMA FixedSizes ==
    /\ DOMAIN Tds5!FixedSize = FixedKinds
    /\ \A k \in FixedKinds : Tds5!FixedSize[k] \in Nat
    /\ DOMAIN Tds5!Encodings = Kinds \cup {"numeric", "time"}
<1>1. DOMAIN Tds5!FixedSize = FixedKinds
  BY Zenon DEF Tds5!FixedSize, FixedKinds
<1>2. \A k \in FixedKinds : Tds5!FixedSize[k] \in Nat
  BY DEF Tds5!FixedSize, FixedKinds
<1>3. DOMAIN Tds5!Encodings = Kinds \cup {"numeric", "time"}
  BY ZenonT(60) DEF Tds5!Encodings, Kinds, FixedKinds
<1> QED
  BY Zenon, <1>1, <1>2, <1>3

\* What follows the type byte of a column is a layout, for every type.
LEMMA TypeLayouts ==
    ASSUME NEW b, NEW i, NEW end, NEW kind \in DOMAIN Tds5!Encodings
    PROVE  IsLayout(Tds5!TypeLayout(b, i, end, kind))
<1> DEFINE odd == i + 2 < end /\ Tds5!At(b, i + 2) \in {1, 2}
           L == Tds5!TypeLayout(b, i, end, kind)
<1>1. /\ IsLayout(<<>>)
      /\ IsLayout(<<Tds5!Fixed(1)>>) /\ IsLayout(<<Tds5!Fixed(2)>>) /\ IsLayout(<<Tds5!Fixed(3)>>)
      /\ IsLayout(<<Tds5!Fixed(4)>>)
      /\ IsLayout(<<Tds5!Fixed(4), Tds5!Counted(2)>>) /\ IsLayout(<<Tds5!Fixed(2), Tds5!Counted(2)>>)
  <2>1. 1 \in Nat /\ 2 \in Nat /\ 3 \in Nat /\ 4 \in Nat
    BY Zenon
  <2> QED
    BY Zenon, <2>1, Layouts, Fields
<1>2. /\ kind \in FixedKinds => L = <<>>
      /\ kind = "numeric" => L = <<Tds5!Fixed(3)>>
      /\ kind = "time" => L = <<Tds5!Fixed(2)>>
      /\ kind = "u8" => L = <<Tds5!Fixed(1)>>
      /\ kind = "u32" => L = <<Tds5!Fixed(4)>>
      /\ kind = "lob" => L = <<Tds5!Fixed(4), Tds5!Counted(2)>>
      /\ kind = "blob" => L = IF odd THEN <<Tds5!Fixed(2), Tds5!Counted(2)>> ELSE <<Tds5!Fixed(2)>>
  <2> HIDE DEF odd
  <2> QED
    BY Zenon, FixedSizes DEF Tds5!TypeLayout, FixedKinds, odd
<1> HIDE DEF L, odd
<1>3. kind \in FixedKinds \/ kind \in {"numeric", "time", "u8", "u32", "lob", "blob"}
  BY Zenon, FixedSizes DEF Kinds
<1> QED
  BY Zenon, <1>1, <1>2, <1>3 DEF L

\* A type that can be read is one of a column and ends within the bytes.
LEMMA TypeRead ==
    ASSUME NEW b \in Seq(Byte), NEW end \in Nat, end <= Len(b), NEW i \in Nat, i + 1 <= end,
           NEW kind \in DOMAIN Tds5!Encodings
    PROVE  LET q == Tds5!FieldType(b, i, end, kind)
           IN  Reached(i, q.at, end) /\ (q.at # Tds5!Failed => IsColumn(q))
<1> DEFINE q == Tds5!FieldType(b, i, end, kind)
           to == Tds5!Fit(b, i + 1, end, Tds5!TypeLayout(b, i, end, kind))
           encoding == IF kind \in {"numeric", "time"} THEN "u8" ELSE kind
           max == Tds5!TypeMaximum(b, i, kind)
           blob == IF kind = "blob" THEN Tds5!At(b, i + 2) ELSE 0
           new == [at |-> to, encoding |-> encoding, max |-> max, blob |-> blob]
<1>1. q = Tds5!BadType \/ q = new
  BY Zenon DEF Tds5!FieldType, Tds5!From
<1>2. Reached(i + 1, to, end)
  <2>1. IsLayout(Tds5!TypeLayout(b, i, end, kind))
    BY Zenon, TypeLayouts
  <2>2. Reached(i + 1, i + 1, end)
    BY DEF Reached
  <2> QED
    BY Zenon, <2>1, <2>2, Fits
<1>3. Tds5!BadType.at = Tds5!Failed
  BY Zenon DEF Tds5!BadType
<1>4. encoding \in Kinds /\ (encoding \in FixedKinds => kind = encoding)
  BY Zenon, FixedSizes DEF Kinds, FixedKinds
<1>5. kind \in FixedKinds => max \in Nat
  <2>1. kind \in FixedKinds => max = Tds5!FixedSize[kind]
    BY Zenon, FixedSizes DEF Tds5!TypeMaximum, FixedKinds
  <2> QED
    BY Zenon, <2>1, FixedSizes
<1> HIDE DEF q, to, max, blob, encoding
<1>6. new.at = to /\ IsColumn(new)
  BY Zenon, <1>4, <1>5 DEF IsColumn
<1>7. Reached(i, to, end)
  BY <1>2 DEF Reached
<1> HIDE DEF new
<1>8. Reached(i, q.at, end) /\ (q.at # Tds5!Failed => IsColumn(q))
  BY Zenon, <1>1, <1>3, <1>6, <1>7 DEF Reached
<1> QED
  BY Zenon, <1>8 DEF q

\* The result c of reading a column, or nothing
ColumnAt(i, q, end) == Reached(i, q.at, end) /\ (q.at # Tds5!Failed => IsColumn(q.column))

\* A column that is read ends within the format.
LEMMA ColumnRead ==
    ASSUME NEW b \in Seq(Byte), NEW end \in Nat, end <= Len(b), NEW i \in Nat, i <= end,
           NEW names, IsLayout(names), NEW w \in Nat
    PROVE  ColumnAt(i, Tds5!Column(b, i, end, names, w), end)
<1> DEFINE q == Tds5!Column(b, i, end, names, w)
           status == Tds5!Fit(b, i, end, names)
           type == Tds5!Pass(b, status, end, Tds5!Fixed(w + 4))
           f == Tds5!parse_field_type(b, type, end)
           to == Tds5!Pass(b, f.at, end, Tds5!Counted(1))
           kept == [status |-> w > 0 /\ Tds5!Bit(Tds5!At(b, status), 8),
                    encoding |-> f.encoding, max |-> f.max, blob |-> f.blob]
           new == [at |-> to, column |-> kept]
<1>1. \/ q = Tds5!NoColumn
      \/ /\ status # Tds5!Failed /\ type # Tds5!Failed /\ f.at # Tds5!Failed /\ to # Tds5!Failed
         /\ q = new
  BY Zenon DEF Tds5!Column, Tds5!From, Tds5!Then
<1>2. Tds5!NoColumn.at = Tds5!Failed
  BY Zenon DEF Tds5!NoColumn
<1>3. kept.encoding = f.encoding /\ kept.max = f.max /\ new.at = to /\ new.column = kept
  BY Zenon
<1>4. Reached(i, status, end)
  <2>1. Reached(i, i, end)
    BY DEF Reached
  <2> QED
    BY Zenon, <2>1, Fits
<1>5. IsField(Tds5!Fixed(w + 4)) /\ IsField(Tds5!Counted(1))
  <2>1. w + 4 \in Nat
    OBVIOUS
  <2> QED
    BY Zenon, <2>1, Fields
<1> HIDE DEF q, status, new, kept
<1>6. ASSUME status # Tds5!Failed, type # Tds5!Failed, f.at # Tds5!Failed, to # Tds5!Failed
      PROVE  Reached(i, to, end) /\ IsColumn(f)
  <2>1. status \in Nat /\ i <= status
    BY Zenon, <1>4, <1>6 DEF Reached
  <2>2. type \in Nat /\ status <= type /\ type <= end
    <3> DEFINE g == Tds5!Fixed(w + 4)
    <3>1. status \in Nat /\ g[1] \in Nat /\ type \in Nat /\ status + g[1] <= type /\ type <= end
      BY Zenon, <1>5, <1>6, <2>1, Passes
    <3> HIDE DEF g, type
    <3> QED
      BY <3>1
  <2> HIDE DEF type
  <2>3. Reached(type, f.at, end) /\ IsColumn(f)
    <3>1. f.at # Tds5!BadType.at
      BY Zenon, <1>6 DEF Tds5!BadType
    <3> DEFINE kind == CHOOSE k \in DOMAIN Tds5!Encodings : Tds5!At(b, type) \in Tds5!Encodings[k]
    <3>2. type # end /\ kind \in DOMAIN Tds5!Encodings /\ f = Tds5!FieldType(b, type, end, kind)
      BY Zenon, <3>1 DEF Tds5!parse_field_type
    <3>3. type + 1 <= end
      BY <2>2, <3>2
    <3> HIDE DEF kind, f
    <3> QED
      BY Zenon, <1>6, <2>2, <3>2, <3>3, TypeRead
  <2> HIDE DEF f
  <2>4. f.at \in Nat /\ type <= f.at
    BY Zenon, <1>6, <2>3 DEF Reached
  <2>5. to \in Nat /\ f.at <= to /\ to <= end
    <3> DEFINE g == Tds5!Counted(1)
    <3>1. f.at \in Nat /\ g[1] \in Nat /\ to \in Nat /\ f.at + g[1] <= to /\ to <= end
      BY Zenon, <1>5, <1>6, <2>4, Passes
    <3> HIDE DEF g, to
    <3> QED
      BY <3>1
  <2> HIDE DEF to
  <2> QED
    BY <2>1, <2>2, <2>3, <2>4, <2>5 DEF Reached
<1> HIDE DEF to, f, type
<1>7. ColumnAt(i, q, end)
  BY Zenon, <1>1, <1>2, <1>3, <1>6 DEF ColumnAt, Reached, IsColumn
<1> QED
  BY Zenon, <1>7 DEF q

\* The columns read so far
ColumnsAt(i, c, end) == Reached(i, c.at, end) /\ (c.at # Tds5!Failed => IsColumns(c.columns))

\* Columns with one more are columns.
LEMMA OneColumnMore ==
    ASSUME NEW cs, IsColumns(cs), NEW c, IsColumn(c)
    PROVE  IsColumns(Append(cs, c))
<1>1. PICK S : cs \in Seq(S) /\ \A d \in S : IsColumn(d)
  BY Zenon DEF IsColumns
<1> DEFINE R == S \cup {c}
<1>2. \A d \in R : IsColumn(d)
  BY Zenon, <1>1
<1>3. Append(cs, c) \in Seq(R)
  <2>1. cs \in Seq(R) /\ c \in R
    BY <1>1
  <2> HIDE DEF R
  <2> QED
    BY ONLY SMT, <2>1
<1> QED
  BY Zenon, <1>2, <1>3 DEF IsColumns

\* The next column ends within the format.
LEMMA NextColumnRead ==
    ASSUME NEW b \in Seq(Byte), NEW end \in Nat, end <= Len(b), NEW i \in Nat,
           NEW names, IsLayout(names), NEW w \in Nat, NEW c, ColumnsAt(i, c, end)
    PROVE  ColumnsAt(i, Tds5!NextColumn(b, c, end, names, w), end)
<1> DEFINE q == Tds5!NextColumn(b, c, end, names, w)
           read == Tds5!Column(b, c.at, end, names, w)
           no == [at |-> Tds5!Failed, columns |-> <<>>]
           more == Append(c.columns, read.column)
           new == [at |-> read.at, columns |-> more]
<1>1. \/ c.at = Tds5!Failed /\ q = c
      \/ q = no
      \/ c.at # Tds5!Failed /\ read.at # Tds5!Failed /\ q = new
  BY Zenon DEF Tds5!NextColumn, Tds5!Then
<1>2. no.at = Tds5!Failed /\ new.at = read.at /\ new.columns = more
  BY Zenon
<1> HIDE DEF q, no, new
<1>3. ASSUME c.at # Tds5!Failed, read.at # Tds5!Failed
      PROVE  ColumnsAt(i, new, end)
  <2>1. IsColumns(c.columns) /\ c.at \in Nat /\ i <= c.at /\ c.at <= end
    BY Zenon, <1>3 DEF ColumnsAt, Reached
  <2>2. ColumnAt(c.at, read, end)
    BY Zenon, <2>1, ColumnRead
  <2> HIDE DEF read
  <2>3. read.at \in Nat /\ c.at <= read.at /\ read.at <= end /\ IsColumn(read.column)
    BY Zenon, <1>3, <2>2 DEF ColumnAt, Reached
  <2>4. Reached(i, read.at, end)
    BY <2>1, <2>3 DEF Reached
  <2>5. IsColumns(more)
    BY Zenon, <2>1, <2>3, OneColumnMore
  <2> HIDE DEF more
  <2> QED
    BY Zenon, <1>2, <2>4, <2>5 DEF ColumnsAt
<1> HIDE DEF read, more
<1>4. ColumnsAt(i, q, end)
  BY Zenon, <1>1, <1>2, <1>3 DEF ColumnsAt, Reached
<1> QED
  BY Zenon, <1>4 DEF q

IsColumnScan(turn, b, i, end, count, names, w) ==
    /\ turn[0] = [at |-> i, columns |-> <<>>]
    /\ \A n \in 1..count : turn[n] = Tds5!NextColumn(b, turn[n - 1], end, names, w)
    /\ Tds5!Columns(b, i, end, count, names, w) =
          IF 8 * count > end - i THEN [at |-> Tds5!Failed, columns |-> <<>>] ELSE turn[count]

\* Columns are read by such a loop.
LEMMA ColumnsLoop ==
    ASSUME NEW b, NEW i, NEW end, NEW count \in Nat, NEW names, NEW w
    PROVE  \E turn : IsColumnScan(turn, b, i, end, count, names, w)
<1> DEFINE x == [loop |-> "columns", b |-> b, end |-> end, names |-> names, statusWidth |-> w]
           n == count
           first == [at |-> i, columns |-> <<>>]
           Is(f) == f = [k \in 0..n |-> IF k = 0 THEN first ELSE Tds5!NextColumn(b, f[k - 1], end, names, w)]
           t == CHOOSE f : Is(f)
<1>1. \A k, s : Run(x, k, s) = Tds5!NextColumn(b, s, end, names, w)
  BY Zenon DEF Run
<1>2. Tds5!Columns(b, i, end, count, names, w) =
          IF 8 * count > end - i THEN [at |-> Tds5!Failed, columns |-> <<>>] ELSE t[n]
  BY Zenon DEF Tds5!Columns
<1> HIDE DEF x, first
<1>3. \A f : Is(f) <=> IsLoop(f, x, first, n)
  BY <1>1 DEF IsLoop
<1> HIDE DEF Is, n
<1>4. n \in Nat
  BY Zenon DEF n
<1>5. Is(t)
  BY Zenon, <1>3, <1>4, Loop
<1> HIDE DEF t
<1>6. /\ t[0] = first
      /\ \A k \in 1..n : t[k] = Run(x, k, t[k - 1])
  <2>1. IsLoop(t, x, first, n)
    BY Zenon, <1>3, <1>5
  <2> QED
    BY ONLY SMT, <2>1, <1>4, Turns
<1>7. \A k \in 1..n : t[k] = Tds5!NextColumn(b, t[k - 1], end, names, w)
  BY Zenon, <1>1, <1>6
<1> QED
  BY Zenon, <1>2, <1>6, <1>7 DEF n, first, IsColumnScan

\* So do all of them.
LEMMA ColumnsRead ==
    ASSUME NEW b \in Seq(Byte), NEW end \in Nat, end <= Len(b), NEW i \in Nat, i <= end,
           NEW count \in Nat, NEW names, IsLayout(names), NEW w \in Nat
    PROVE  ColumnsAt(i, Tds5!Columns(b, i, end, count, names, w), end)
<1> DEFINE q == Tds5!Columns(b, i, end, count, names, w)
           no == [at |-> Tds5!Failed, columns |-> <<>>]
<1>1. PICK t : IsColumnScan(t, b, i, end, count, names, w)
  BY Zenon, ColumnsLoop
<1> DEFINE T == {k \in 0..count : ColumnsAt(i, t[k], end)}
<1>2. 0 \in T
  <2>1. t[0] = [at |-> i, columns |-> <<>>]
    BY Zenon, <1>1 DEF IsColumnScan
  <2>2. t[0].at = i /\ t[0].columns = <<>>
    BY <2>1
  <2>3. IsColumns(<<>>)
    <3> DEFINE S == {}
    <3>1. <<>> \in Seq(S) /\ \A c \in S : IsColumn(c)
      OBVIOUS
    <3> HIDE DEF S
    <3> QED
      BY Zenon, <3>1 DEF IsColumns
  <2>4. Reached(i, i, end)
    BY DEF Reached
  <2>5. ColumnsAt(i, t[0], end)
    BY Zenon, <2>2, <2>3, <2>4 DEF ColumnsAt
  <2> QED
    BY <2>5
<1>3. ASSUME NEW k \in 1..count, k - 1 \in T
      PROVE  k \in T
  <2>1. k \in 0..count
    OBVIOUS
  <2>2. t[k] = Tds5!NextColumn(b, t[k - 1], end, names, w)
    BY Zenon, <1>1 DEF IsColumnScan
  <2>3. ColumnsAt(i, t[k - 1], end)
    BY Zenon, <1>3
  <2>4. ColumnsAt(i, t[k], end)
    BY Zenon, <2>2, <2>3, NextColumnRead
  <2> QED
    BY Zenon, <2>1, <2>4
<1>4. ColumnsAt(i, t[count], end)
  <2>1. 0 \in T /\ \A k \in 1..count : k - 1 \in T => k \in T
    BY Zenon, <1>2, <1>3
  <2>2. count \in T
    <3> HIDE DEF T
    <3> QED
      BY ONLY Zenon, count \in Nat, <2>1, Upward
  <2> QED
    BY Zenon, <2>2
<1>5. no.at = Tds5!Failed
  BY Zenon
<1>6. q = no \/ q = t[count]
  BY Zenon, <1>1 DEF IsColumnScan
<1> HIDE DEF q, no
<1>7. ColumnsAt(i, q, end)
  BY Zenon, <1>4, <1>5, <1>6 DEF ColumnsAt, Reached
<1> QED
  BY Zenon, <1>7 DEF q

\* The columns of a format, if it is one
LEMMA FormatColumns ==
    ASSUME NEW b \in Seq(Byte), NEW e \in Nat, e <= Len(b), NEW i \in Nat,
           NEW names, IsLayout(names), NEW w \in Nat
    PROVE  LET f == Tds5!ColumnFormat(b, i, e, names, w) IN f.ok => IsColumns(f.columns)
<1> DEFINE f == Tds5!ColumnFormat(b, i, e, names, w)
           c == Tds5!Columns(b, i + 2, e, Tds5!U16(b, i), names, w)
           yes == [ok |-> TRUE, columns |-> c.columns]
<1>1. SUFFICES ASSUME f.ok PROVE IsColumns(f.columns)
  BY Zenon
<1>2. ~Tds5!NoFormat.ok
  BY Zenon DEF Tds5!NoFormat
<1>3. ~(i + 2 > e) /\ c.at # Tds5!Failed /\ f = yes
  BY Zenon, <1>1, <1>2 DEF Tds5!ColumnFormat, Tds5!Then
<1> HIDE DEF f
<1>4. f.columns = c.columns
  <2> HIDE DEF c
  <2> QED
    BY Zenon, <1>3
<1>5. i + 2 \in Nat /\ i + 2 <= e /\ i + 2 <= Len(b)
  BY <1>3
<1>6. Tds5!U16(b, i) \in Nat
  BY Zenon, <1>5, WordRead
<1>7. ColumnsAt(i + 2, c, e)
  BY Zenon, <1>5, <1>6, ColumnsRead
<1> QED
  BY Zenon, <1>3, <1>4, <1>7 DEF ColumnsAt

\* The three kinds of formats give columns, if they can be read.
LEMMA FormatsRead ==
    ASSUME NEW b \in Seq(Byte), NEW e \in Nat, e <= Len(b), NEW i \in Nat, NEW wide \in BOOLEAN
    PROVE  /\ LET f == Tds5!parse_parameter_format(b, i, e, wide) IN f.ok => IsColumns(f.columns)
           /\ LET f == Tds5!parse_row_format(b, i, e, wide) IN f.ok => IsColumns(f.columns)
           /\ LET f == Tds5!parse_alternate_format(b, i, e) IN f.ok => IsColumns(f.columns)
<1> DEFINE w == IF wide THEN 4 ELSE 1
           n == IF wide THEN 5 ELSE 1
<1>1. /\ w \in Nat /\ n \in Nat /\ 0 \in Nat
      /\ IsLayout(<<Tds5!Counted(1)>>) /\ IsLayout(Tds5!Repeat(Tds5!Counted(1), n))
      /\ IsLayout(<<Tds5!Fixed(2)>>)
  <2>1. w \in Nat /\ n \in Nat /\ 2 \in Nat /\ 0 \in Nat
    BY Zenon
  <2> HIDE DEF w, n
  <2> QED
    BY Zenon, <2>1, Layouts, Fields
<1>2. /\ Tds5!parse_parameter_format(b, i, e, wide) = Tds5!ColumnFormat(b, i, e, <<Tds5!Counted(1)>>, w)
      /\ Tds5!parse_row_format(b, i, e, wide) =
            Tds5!ColumnFormat(b, i, e, Tds5!Repeat(Tds5!Counted(1), n), w)
  BY Zenon DEF Tds5!parse_parameter_format, Tds5!parse_row_format
<1> HIDE DEF w, n
<1> DEFINE f == Tds5!parse_alternate_format(b, i, e)
           c == Tds5!Columns(b, i + 3, e, Tds5!At(b, i + 2), <<Tds5!Fixed(2)>>, 0)
           yes == [ok |-> TRUE, columns |-> c.columns]
<1>3. ASSUME f.ok PROVE IsColumns(f.columns)
  <2>1. ~Tds5!NoFormat.ok
    BY Zenon DEF Tds5!NoFormat
  <2>2. ~(i + 3 > e) /\ c.at # Tds5!Failed /\ f = yes
    BY Zenon, <1>3, <2>1 DEF Tds5!parse_alternate_format, Tds5!Then
  <2> HIDE DEF f
  <2>3. f.columns = c.columns
    <3> HIDE DEF c
    <3> QED
      BY Zenon, <2>2
  <2>4. i + 3 \in Nat /\ i + 3 <= e /\ i + 2 \in Nat /\ (i + 2) + 1 <= Len(b)
    BY <2>2
  <2>5. Tds5!At(b, i + 2) \in Nat
    BY Zenon, <2>4, ByteRead
  <2>6. ColumnsAt(i + 3, c, e)
    BY Zenon, <1>1, <2>4, <2>5, ColumnsRead
  <2> QED
    BY Zenon, <2>2, <2>3, <2>6 DEF ColumnsAt
<1> QED
  BY Zenon, <1>1, <1>2, <1>3, FormatColumns

(***************************************************************************)
(* Values                                                                  *)
(***************************************************************************)

\* A slice within the bytes has the length of its bounds.
LEMMA Slices ==
    ASSUME NEW b \in Seq(Byte), NEW i \in Nat, NEW j \in Nat, i <= j, j <= Len(b)
    PROVE  Tds5!Slice(b, i, j) \in Seq(Byte) /\ Len(Tds5!Slice(b, i, j)) = j - i
<1> HIDE DEF Byte
<1>1. SubSeq(b, i + 1, j) \in Seq(Byte)
  <2>1. \A k \in (i + 1)..j : b[k] \in Byte
    OBVIOUS
  <2> QED
    BY <2>1
<1>2. Len(SubSeq(b, i + 1, j)) = j - i
  BY SMT
<1> QED
  BY Zenon, <1>1, <1>2 DEF Tds5!Slice

\* Bytes that were read from i on, no more than the limit
BytesAt(b, i, v, limit) ==
    /\ Reached(i, v.at, Len(b))
    /\ v.at # Tds5!Failed => v.bytes \in Seq(Byte) /\ Len(v.bytes) <= limit

\* A chunk of a blob lies within the bytes and the value within the limit.
LEMMA ChunkRead ==
    ASSUME NEW b \in Seq(Byte), NEW i, NEW limit \in Nat, NEW v, v = [at |-> v.at, bytes |-> v.bytes, last |-> v.last],
           BytesAt(b, i, v, limit)
    PROVE  LET q == Tds5!Chunk(b, v, limit)
           IN  q = [at |-> q.at, bytes |-> q.bytes, last |-> q.last] /\ BytesAt(b, i, q, limit)
<1> DEFINE q == Tds5!Chunk(b, v, limit)
           no == [v EXCEPT !.at = Tds5!Failed]
           at == v.at
           n == Tds5!ChunkLength(b, at)
           to == IF at + 4 > Len(b) THEN Tds5!Failed ELSE Tds5!Upto(at + 4 + n, Len(b))
           more == v.bytes \o Tds5!Slice(b, at + 4, to)
           last == Tds5!At(b, at + 3) >= 128
           new == [at |-> to, bytes |-> more, last |-> last]
<1>1. \/ q = v
      \/ q = no
      \/ /\ at # Tds5!Failed /\ to # Tds5!Failed /\ ~(Len(v.bytes) + (to - at - 4) > limit)
         /\ q = new
  BY Zenon DEF Tds5!Chunk, Tds5!From
<1>2. no.at = Tds5!Failed /\ no = [at |-> no.at, bytes |-> no.bytes, last |-> no.last]
  BY ONLY SMT, v = [at |-> v.at, bytes |-> v.bytes, last |-> v.last]
<1>3. new.at = to /\ new.bytes = more /\ new = [at |-> new.at, bytes |-> new.bytes, last |-> new.last]
  BY Zenon
<1> HIDE DEF q, no, new, last
<1>4. ASSUME at # Tds5!Failed, to # Tds5!Failed, ~(Len(v.bytes) + (to - at - 4) > limit)
      PROVE  BytesAt(b, i, new, limit)
  <2>1. at \in Nat /\ i \in Nat /\ i <= at /\ v.bytes \in Seq(Byte)
    BY Zenon, <1>4 DEF BytesAt, Reached
  <2>2. ~(at + 4 > Len(b)) /\ to = Tds5!Upto(at + 4 + n, Len(b))
    BY Zenon, <1>4
  <2> HIDE DEF n, to
  <2>3. to = at + 4 + n /\ ~(at + 4 + n > Len(b))
    BY Zenon, <1>4, <2>2 DEF Tds5!Upto
  <2>4. n \in Nat
    <3>1. /\ at + 2 \in Nat /\ at + 3 \in Nat /\ (at + 2) + 1 <= Len(b) /\ (at + 3) + 1 <= Len(b)
          /\ at + 2 <= Len(b)
      BY <2>1, <2>2
    <3>2. Tds5!At(b, at + 2) \in Nat /\ Tds5!At(b, at + 3) \in Nat
      BY Zenon, <3>1, ByteRead
    <3>3. Tds5!U16(b, at) \in Nat
      BY Zenon, <2>1, <3>1, WordRead
    <3> QED
      BY <3>2, <3>3 DEF n, Tds5!ChunkLength, Tds5!Huge
  <2>5. to \in Nat /\ at + 4 \in Nat /\ at + 4 <= to /\ to <= Len(b) /\ i <= to
    BY <2>1, <2>3, <2>4
  <2> DEFINE s == Tds5!Slice(b, at + 4, to)
  <2>6. s \in Seq(Byte) /\ Len(s) = to - (at + 4)
    BY Zenon, <2>5, Slices
  <2> HIDE DEF s
  <2>7. more \in Seq(Byte) /\ Len(more) = Len(v.bytes) + Len(s)
    <3> DEFINE p == v.bytes
    <3>1. p \in Seq(Byte) /\ s \in Seq(Byte) /\ more = p \o s
      BY Zenon, <2>1, <2>6 DEF s
    <3> HIDE DEF more, p, Byte
    <3>2. more \in Seq(Byte) /\ Len(more) = Len(p) + Len(s)
      BY ONLY SMT, <3>1
    <3> QED
      BY Zenon, <3>2 DEF p
  <2>8. Len(more) <= limit
    <3> HIDE DEF more
    <3> QED
      BY SMTT(60), <1>4, <2>1, <2>5, <2>6, <2>7
  <2> HIDE DEF more
  <2> QED
    BY Zenon, <1>3, <2>1, <2>5, <2>7, <2>8 DEF BytesAt, Reached
<1> HIDE DEF to, more
<1>5. /\ q = [at |-> q.at, bytes |-> q.bytes, last |-> q.last]
      /\ BytesAt(b, i, q, limit)
  BY Zenon, <1>1, <1>2, <1>3, <1>4 DEF BytesAt, Reached
<1> QED
  BY Zenon, <1>5 DEF q

IsChunks(turn, b, i, limit) ==
    /\ turn[0] = [at |-> i, bytes |-> <<>>, last |-> FALSE]
    /\ \A k \in 1..MaxTokens : turn[k] = Tds5!Chunk(b, turn[k - 1], limit)
    /\ Tds5!Chunks(b, i, limit) = IF turn[MaxTokens].last
                                  THEN [at |-> turn[MaxTokens].at, bytes |-> turn[MaxTokens].bytes]
                                  ELSE Tds5!NoBytes

\* Chunks are read by such a loop.
LEMMA ChunksLoop ==
    ASSUME NEW b, NEW i, NEW limit
    PROVE  \E turn : IsChunks(turn, b, i, limit)
<1> DEFINE x == [loop |-> "chunks", b |-> b, limit |-> limit]
           n == MaxTokens
           first == [at |-> i, bytes |-> <<>>, last |-> FALSE]
           Is(f) == f = [k \in 0..n |-> IF k = 0 THEN first ELSE Tds5!Chunk(b, f[k - 1], limit)]
           t == CHOOSE f : Is(f)
<1>1. \A k, s : Run(x, k, s) = Tds5!Chunk(b, s, limit)
  BY Zenon DEF Run
<1>2. Tds5!Chunks(b, i, limit) = IF t[n].last THEN [at |-> t[n].at, bytes |-> t[n].bytes] ELSE Tds5!NoBytes
  BY Zenon DEF Tds5!Chunks
<1> HIDE DEF x, first
<1>3. \A f : Is(f) <=> IsLoop(f, x, first, n)
  BY <1>1 DEF IsLoop
<1> HIDE DEF Is, n
<1>4. n \in Nat
  BY Zenon, StreamLimits DEF n
<1>5. Is(t)
  BY Zenon, <1>3, <1>4, Loop
<1> HIDE DEF t
<1>6. /\ t[0] = first
      /\ \A k \in 1..n : t[k] = Run(x, k, t[k - 1])
  <2>1. IsLoop(t, x, first, n)
    BY Zenon, <1>3, <1>5
  <2> QED
    BY ONLY SMT, <2>1, <1>4, Turns
<1>7. \A k \in 1..n : t[k] = Tds5!Chunk(b, t[k - 1], limit)
  BY Zenon, <1>1, <1>6
<1> QED
  BY Zenon, <1>2, <1>6, <1>7 DEF n, first, IsChunks

\* So does the whole of its chunks.
LEMMA ChunksRead ==
    ASSUME NEW b \in Seq(Byte), NEW i, Reached(i, i, Len(b)), NEW limit \in Nat
    PROVE  BytesAt(b, i, Tds5!Chunks(b, i, limit), limit)
<1> DEFINE q == Tds5!Chunks(b, i, limit)
           n == MaxTokens
<1>1. PICK t : IsChunks(t, b, i, limit)
  BY Zenon, ChunksLoop
<1>2. n \in Nat
  BY Zenon, StreamLimits
<1> DEFINE Good(v) == v = [at |-> v.at, bytes |-> v.bytes, last |-> v.last] /\ BytesAt(b, i, v, limit)
           T == {k \in 0..n : Good(t[k])}
<1>3. 0 \in T
  <2> DEFINE first == [at |-> i, bytes |-> <<>>, last |-> FALSE]
  <2>1. t[0] = first
    BY Zenon, <1>1 DEF IsChunks
  <2>2. first = [at |-> first.at, bytes |-> first.bytes, last |-> first.last]
    BY Zenon
  <2>3. first.at = i /\ first.bytes = <<>>
    BY Zenon
  <2>4. <<>> \in Seq(Byte) /\ Len(<<>>) <= limit
    BY SMT
  <2> HIDE DEF first
  <2>5. Good(first)
    BY Zenon, <2>2, <2>3, <2>4 DEF BytesAt
  <2>6. 0 \in 0..n
    BY <1>2
  <2> QED
    BY Zenon, <2>1, <2>5, <2>6
<1>4. ASSUME NEW k \in 1..n, k - 1 \in T
      PROVE  k \in T
  <2>1. k \in 0..n
    BY <1>2
  <2>2. t[k] = Tds5!Chunk(b, t[k - 1], limit)
    BY Zenon, <1>1 DEF IsChunks
  <2>3. Good(t[k - 1])
    BY Zenon, <1>4
  <2>4. Good(t[k])
    BY Zenon, <2>2, <2>3, ChunkRead
  <2> QED
    BY Zenon, <2>1, <2>4
<1>5. Good(t[n])
  <2> HIDE DEF Good
  <2>1. 0 \in T /\ \A k \in 1..n : k - 1 \in T => k \in T
    BY Zenon, <1>3, <1>4
  <2>2. n \in T
    <3> HIDE DEF T, n
    <3> QED
      BY ONLY Zenon, <1>2, <2>1, Upward
  <2> QED
    BY Zenon, <2>2
<1> DEFINE yes == [at |-> t[n].at, bytes |-> t[n].bytes]
<1>6. q = yes \/ q = Tds5!NoBytes
  BY Zenon, <1>1 DEF IsChunks
<1>7. yes.at = t[n].at /\ yes.bytes = t[n].bytes
  BY Zenon
<1>8. Tds5!NoBytes.at = Tds5!Failed
  BY Zenon DEF Tds5!NoBytes
<1> HIDE DEF q, yes
<1>9. BytesAt(b, i, q, limit)
  BY Zenon, <1>5, <1>6, <1>7, <1>8 DEF BytesAt, Reached
<1> QED
  BY Zenon, <1>9 DEF q

\* So does the blob with its locator (read_blob_value).
LEMMA BlobRead ==
    ASSUME NEW b \in Seq(Byte), NEW i \in Nat, i <= Len(b), NEW blobType, NEW limit \in Nat
    PROVE  BytesAt(b, i, Tds5!read_blob_value(b, i, blobType, limit), limit)
<1> DEFINE q == Tds5!read_blob_value(b, i, blobType, limit)
           named == Tds5!Pass(b, i + 1, Len(b), Tds5!Counted(2))
           from == IF blobType \in {1, 2, 6, 7, 8} THEN named ELSE i + 1
           read == Tds5!Chunks(b, from, limit)
<1>1. q = Tds5!NoBytes \/ (i # Len(b) /\ q = read)
  BY Zenon DEF Tds5!read_blob_value
<1>2. Tds5!NoBytes.at = Tds5!Failed
  BY Zenon DEF Tds5!NoBytes
<1> HIDE DEF q
<1>3. ASSUME i # Len(b)
      PROVE  BytesAt(b, i, read, limit)
  <2>1. i + 1 \in Nat /\ i + 1 <= Len(b) /\ Len(b) \in Nat /\ Len(b) <= Len(b)
    BY <1>3
  <2>2. IsField(Tds5!Counted(2))
    BY Zenon, Fields
  <2>3. \/ named = Tds5!Failed
        \/ named \in Nat /\ (i + 1) + Tds5!Counted(2)[1] <= named /\ named <= Len(b)
    BY Zenon, <2>1, <2>2, Passes
  <2>4. Tds5!Counted(2)[1] = 2
    BY Zenon DEF Tds5!Counted
  <2> HIDE DEF named
  <2>5. Reached(i, from, Len(b)) /\ Reached(from, from, Len(b))
    BY <2>1, <2>3, <2>4 DEF Reached
  <2> HIDE DEF from
  <2>6. BytesAt(b, from, read, limit)
    BY Zenon, <2>5, ChunksRead
  <2> HIDE DEF read
  <2>7. Reached(i, read.at, Len(b))
    BY <2>5, <2>6 DEF BytesAt, Reached, Tds5!Failed
  <2> QED
    BY Zenon, <2>6, <2>7 DEF BytesAt
<1> HIDE DEF read
<1>4. BytesAt(b, i, q, limit)
  BY Zenon, <1>1, <1>2, <1>3 DEF BytesAt, Reached
<1> QED
  BY Zenon, <1>4 DEF q

\* Where the bytes of a value lie, if its length can be read
LEMMA LengthRead ==
    ASSUME NEW b \in Seq(Byte), NEW i \in Nat, i <= Len(b), NEW c, IsColumn(c), c.encoding # "blob"
    PROVE  LET v == Tds5!value_length(b, i, c)
           IN  Reached(i, v.at, Len(b)) /\ (v.at # Tds5!Failed => v.length \in Nat)
<1> DEFINE v == Tds5!value_length(b, i, c)
           n == Len(b)
           none == [at |-> Tds5!Failed, length |-> 0]
           pointer == Tds5!Fit(b, i, n, <<Tds5!Counted(1), Tds5!Fixed(8), Tds5!Fixed(4)>>)
           fixed == [at |-> i, length |-> c.max]
           short == [at |-> i + 1, length |-> Tds5!At(b, i)]
           long == [at |-> i + 4, length |-> Tds5!U32(b, i)]
           null == [at |-> i + 1, length |-> 0]
           lob == [at |-> pointer, length |-> Tds5!U32(b, pointer - 4)]
           Good(r) == Reached(i, r.at, n) /\ (r.at # Tds5!Failed => r.length \in Nat)
<1>1. /\ c.encoding \in FixedKinds => v = fixed
      /\ c.encoding = "u8" => v = none \/ (~(i + 1 > n) /\ v = short)
      /\ c.encoding = "u32" => v = none \/ (~(i + 4 > n) /\ v = long)
      /\ c.encoding = "lob" => \/ v = none
                               \/ i # n /\ v = null
                               \/ pointer # Tds5!Failed /\ v = lob
  <2>1. DOMAIN Tds5!FixedSize = FixedKinds
    BY Zenon, FixedSizes
  <2> HIDE DEF none, pointer, short, long, null, lob, fixed, n
  <2>2. c.encoding \in FixedKinds => v = fixed
    BY Zenon, <2>1 DEF Tds5!value_length, FixedKinds, fixed, n
  <2>3. c.encoding = "u8" => v = none \/ (~(i + 1 > n) /\ v = short)
    BY Zenon, <2>1 DEF Tds5!value_length, FixedKinds, none, short, n
  <2>4. c.encoding = "u32" => v = none \/ (~(i + 4 > n) /\ v = long)
    BY Zenon, <2>1 DEF Tds5!value_length, FixedKinds, none, long, n
  <2>5. c.encoding = "lob" => \/ v = none
                              \/ i # n /\ v = null
                              \/ pointer # Tds5!Failed /\ v = lob
    BY Zenon, <2>1 DEF Tds5!value_length, Tds5!From, FixedKinds, none, null, lob, pointer, n
  <2> QED
    BY Zenon, <2>2, <2>3, <2>4, <2>5
<1>2. /\ none.at = Tds5!Failed /\ fixed.at = i /\ fixed.length = c.max
      /\ short.at = i + 1 /\ short.length = Tds5!At(b, i)
      /\ long.at = i + 4 /\ long.length = Tds5!U32(b, i)
      /\ null.at = i + 1 /\ null.length = 0
      /\ lob.at = pointer /\ lob.length = Tds5!U32(b, pointer - 4)
  BY Zenon
<1> HIDE DEF v, none, fixed, short, long, null, lob
<1>3. n \in Nat /\ n <= Len(b) /\ Reached(i, i, n)
  BY DEF Reached
<1>4. Good(none)
  BY Zenon, <1>2 DEF Reached
<1>5. c.encoding \in FixedKinds => Good(fixed)
  BY Zenon, <1>2, <1>3 DEF IsColumn
<1>6. ~(i + 1 > n) => Good(short)
  <2>1. ~(i + 1 > n) => Tds5!At(b, i) \in Nat
    BY ByteRead
  <2>2. ~(i + 1 > n) => Reached(i, i + 1, n)
    BY DEF Reached
  <2> QED
    BY Zenon, <1>2, <2>1, <2>2
<1>7. ~(i + 4 > n) => Good(long)
  <2>1. ~(i + 4 > n) => Tds5!U32(b, i) \in Nat
    BY LongRead
  <2>2. ~(i + 4 > n) => Reached(i, i + 4, n)
    BY DEF Reached
  <2> QED
    BY Zenon, <1>2, <2>1, <2>2
<1>8. i # n => Good(null)
  <2>1. i # n => Reached(i, i + 1, n)
    BY DEF Reached
  <2>2. 0 \in Nat
    BY Zenon
  <2> QED
    BY Zenon, <1>2, <2>1, <2>2
<1>9. pointer # Tds5!Failed => Good(lob)
  <2> DEFINE L == <<Tds5!Counted(1), Tds5!Fixed(8), Tds5!Fixed(4)>>
  <2>1. 8 \in Nat /\ 4 \in Nat
    BY Zenon
  <2>2. IsField(Tds5!Counted(1)) /\ IsField(Tds5!Fixed(8)) /\ IsField(Tds5!Fixed(4)) /\ Tds5!Fixed(4)[1] = 4
    BY Zenon, <2>1, Fields
  <2>3. IsLayout(L) /\ Len(L) = 3 /\ L[3] = Tds5!Fixed(4)
    BY Zenon, <2>2, Layouts
  <2>4. pointer = Tds5!Fit(b, i, n, L)
    BY Zenon
  <2> HIDE DEF pointer, L
  <2>5. /\ Reached(i, pointer, n)
        /\ (pointer # Tds5!Failed /\ Len(L) > 0) => i + L[Len(L)][1] <= pointer
    BY Zenon, <1>3, <2>3, <2>4, Fits
  <2>6. pointer # Tds5!Failed => pointer - 4 \in Nat /\ (pointer - 4) + 4 <= Len(b)
    BY <2>2, <2>3, <2>5 DEF Reached
  <2>7. pointer # Tds5!Failed => Tds5!U32(b, pointer - 4) \in Nat
    BY Zenon, <2>6, LongRead
  <2> QED
    BY Zenon, <1>2, <2>5, <2>7
<1> HIDE DEF Good, pointer
<1>10. c.encoding \in FixedKinds \/ c.encoding \in {"u8", "u32", "lob"}
  BY Zenon DEF IsColumn, Kinds
<1>11. Good(v)
  BY Zenon, <1>1, <1>4, <1>5, <1>6, <1>7, <1>8, <1>9, <1>10
<1> QED
  BY Zenon, <1>11 DEF Good, v

\* A value that can be read ends within the bytes and is no longer than the limit.
LEMMA ValueRead ==
    ASSUME NEW b \in Seq(Byte), NEW i \in Nat, i <= Len(b), NEW c, IsColumn(c), NEW limit \in Nat
    PROVE  BytesAt(b, i, Tds5!read_parameter_value(b, i, c, limit), limit)
<1> DEFINE q == Tds5!read_parameter_value(b, i, c, limit)
           v == Tds5!value_length(b, i, c)
           to == v.at + v.length
           s == Tds5!Slice(b, v.at, to)
           yes == [at |-> to, bytes |-> s]
<1>1. \/ c.encoding = "blob" /\ q = Tds5!read_blob_value(b, i, c.blob, limit)
      \/ q = Tds5!NoBytes
      \/ /\ c.encoding # "blob" /\ v.at # Tds5!Failed /\ ~(v.length > limit) /\ ~(to > Len(b))
         /\ q = yes
  BY Zenon DEF Tds5!read_parameter_value, Tds5!Then
<1>2. Tds5!NoBytes.at = Tds5!Failed
  BY Zenon DEF Tds5!NoBytes
<1>3. yes.at = to /\ yes.bytes = s
  BY Zenon
<1> HIDE DEF q, yes
<1>4. ASSUME c.encoding # "blob", v.at # Tds5!Failed, ~(v.length > limit), ~(to > Len(b))
      PROVE  BytesAt(b, i, yes, limit)
  <2>1. Reached(i, v.at, Len(b)) /\ v.length \in Nat
    BY Zenon, <1>4, LengthRead
  <2> HIDE DEF v
  <2>2. v.at \in Nat /\ to \in Nat /\ v.at <= to /\ to <= Len(b) /\ i <= to /\ to - v.at = v.length
    BY <1>4, <2>1 DEF Reached
  <2> HIDE DEF to
  <2>3. s \in Seq(Byte) /\ Len(s) = v.length
    BY Zenon, <2>2, Slices
  <2> HIDE DEF s
  <2>4. Len(s) <= limit
    BY <1>4, <2>1, <2>3
  <2> QED
    BY Zenon, <1>3, <2>2, <2>3, <2>4 DEF BytesAt, Reached
<1> HIDE DEF v, to
<1>5. BytesAt(b, i, q, limit)
  BY Zenon, <1>1, <1>2, <1>4, BlobRead DEF BytesAt, Reached
<1> QED
  BY Zenon, <1>5 DEF q

(***************************************************************************)
(* Sums                                                                    *)
(***************************************************************************)

IsSum(turn, s) ==
    /\ turn[0] = 0
    /\ \A k \in 1..Len(s) : turn[k] = turn[k - 1] + s[k]
    /\ Tds5!Sum0(s) = turn[Len(s)]

\* A sum is such a loop.
LEMMA SumLoop ==
    ASSUME NEW s, Len(s) \in Nat
    PROVE  \E turn : IsSum(turn, s)
<1> DEFINE x == [loop |-> "sum", s |-> s]
           n == Len(s)
           first == 0
           Is(f) == f = [k \in 0..n |-> IF k = 0 THEN first ELSE f[k - 1] + s[k]]
           t == CHOOSE f : Is(f)
<1>1. \A k, v : Run(x, k, v) = v + s[k]
  BY Zenon DEF Run
<1>2. Tds5!Sum0(s) = t[n]
  BY Zenon DEF Tds5!Sum0
<1> HIDE DEF x, first
<1>3. \A f : Is(f) <=> IsLoop(f, x, first, n)
  BY Zenon, <1>1 DEF IsLoop
<1> HIDE DEF Is, n
<1>4. n \in Nat
  BY Zenon DEF n
<1>5. Is(t)
  BY Zenon, <1>3, <1>4, Loop
<1> HIDE DEF t
<1>6. /\ t[0] = first
      /\ \A k \in 1..n : t[k] = Run(x, k, t[k - 1])
  <2>1. IsLoop(t, x, first, n)
    BY Zenon, <1>3, <1>5
  <2> QED
    BY ONLY SMT, <2>1, <1>4, Turns
<1>7. \A k \in 1..n : t[k] = t[k - 1] + s[k]
  BY Zenon, <1>1, <1>6
<1> QED
  BY Zenon, <1>2, <1>6, <1>7 DEF n, first, IsSum

\* The sums of numbers are numbers.
LEMMA SumsAreNumbers ==
    ASSUME NEW s \in Seq(Nat), NEW t, IsSum(t, s)
    PROVE  \A k \in 0..Len(s) : t[k] \in Nat
<1> SUFFICES ASSUME NEW n \in 0..Len(s) PROVE t[n] \in Nat
  BY Zenon
<1> DEFINE T == {k \in 0..n : t[k] \in Nat}
<1>1. t[0] = 0 /\ \A k \in 1..Len(s) : t[k] = t[k - 1] + s[k]
  BY Zenon DEF IsSum
<1>2. 0 \in T
  BY <1>1
<1>3. ASSUME NEW k \in 1..n, k - 1 \in T PROVE k \in T
  <2>1. k \in 1..Len(s) /\ k \in 0..n
    OBVIOUS
  <2>2. t[k] = t[k - 1] + s[k] /\ t[k - 1] \in Nat
    BY Zenon, <1>1, <1>3, <2>1
  <2>3. s[k] \in Nat
    BY <2>1
  <2>4. t[k] \in Nat
    BY <2>2, <2>3
  <2> QED
    BY Zenon, <2>1, <2>4
<1>4. n \in T
  <2> HIDE DEF T
  <2>1. n \in Nat
    OBVIOUS
  <2> QED
    BY ONLY Zenon, <2>1, <1>2, <1>3, Upward
<1> QED
  BY Zenon, <1>4

\* The sum over a joined sequence is the sum of the two sums.
LEMMA SumJoined ==
    ASSUME NEW p \in Seq(Nat), NEW q \in Seq(Nat)
    PROVE  /\ p \o q \in Seq(Nat)
           /\ Tds5!Sum0(p) \in Nat /\ Tds5!Sum0(q) \in Nat
           /\ Tds5!Sum0(p \o q) = Tds5!Sum0(p) + Tds5!Sum0(q)
<1> DEFINE r == p \o q
           m == Len(p)
           n == Len(q)
<1>1. /\ m \in Nat /\ n \in Nat /\ r \in Seq(Nat) /\ Len(r) = m + n
      /\ \A k \in 1..m : r[k] = p[k]
      /\ \A k \in 1..n : r[m + k] = q[k]
  <2>1. IsConcat(r, p, q, Nat)
    BY Zenon, ConcatIs
  <2> HIDE DEF r
  <2> QED
    BY Zenon, <2>1 DEF IsConcat
<1> HIDE DEF r
<1>2. Len(r) \in Nat
  BY <1>1
<1>3. PICK tp : IsSum(tp, p)
  BY Zenon, <1>1, SumLoop
<1>4. PICK tq : IsSum(tq, q)
  BY Zenon, <1>1, SumLoop
<1>5. PICK tr : IsSum(tr, r)
  BY Zenon, <1>2, SumLoop
<1>6. /\ \A k \in 0..m : tp[k] \in Nat
      /\ \A k \in 0..n : tq[k] \in Nat
  BY Zenon, <1>3, <1>4, SumsAreNumbers
<1>7. /\ tp[0] = 0 /\ \A k \in 1..m : tp[k] = tp[k - 1] + p[k]
      /\ tq[0] = 0 /\ \A k \in 1..n : tq[k] = tq[k - 1] + q[k]
      /\ tr[0] = 0 /\ \A k \in 1..m + n : tr[k] = tr[k - 1] + r[k]
      /\ Tds5!Sum0(p) = tp[m] /\ Tds5!Sum0(q) = tq[n] /\ Tds5!Sum0(r) = tr[m + n]
  BY Zenon, <1>1, <1>3, <1>4, <1>5 DEF IsSum
<1>8. p \in Seq(Nat) /\ q \in Seq(Nat)
  BY Zenon
<1> HIDE DEF m, n
<1>9. tr[m] = tp[m]
  <2> DEFINE T == {k \in 0..m : tr[k] = tp[k]}
  <2>1. 0 \in T
    BY <1>1, <1>7
  <2>2. ASSUME NEW k \in 1..m, k - 1 \in T PROVE k \in T
    <3>1. k \in 1..m + n /\ k \in 0..m
      BY <1>1
    <3>2. tr[k] = tr[k - 1] + r[k] /\ tp[k] = tp[k - 1] + p[k] /\ r[k] = p[k] /\ tr[k - 1] = tp[k - 1]
      BY Zenon, <1>1, <1>7, <2>2, <3>1
    <3> QED
      BY Zenon, <3>1, <3>2
  <2>3. m \in T
    <3> HIDE DEF T
    <3> QED
      BY ONLY Zenon, <1>1, <2>1, <2>2, Upward
  <2> QED
    BY Zenon, <2>3
<1>10. tr[m + n] = tp[m] + tq[n]
  <2> DEFINE T == {k \in 0..n : tr[m + k] = tp[m] + tq[k]}
  <2>0. tp[m] \in Nat /\ tq[n] \in Nat
    BY <1>1, <1>6
  <2>1. 0 \in T
    BY <1>1, <1>7, <1>9, <2>0
  <2>2. ASSUME NEW k \in 1..n, k - 1 \in T PROVE k \in T
    <3>1. m + k \in 1..m + n /\ k \in 0..n /\ (m + k) - 1 = m + (k - 1) /\ k - 1 \in 0..n
      BY <1>1
    <3>2. /\ tr[m + k] = tr[(m + k) - 1] + r[m + k] /\ tq[k] = tq[k - 1] + q[k] /\ r[m + k] = q[k]
          /\ tr[m + (k - 1)] = tp[m] + tq[k - 1]
      BY Zenon, <1>1, <1>7, <2>2, <3>1
    <3>3. q[k] \in Nat /\ tq[k - 1] \in Nat
      <4>1. q[k] \in Nat
        <5>1. k \in 1..Len(q)
          BY Zenon DEF n
        <5> QED
          BY <1>8, <5>1
      <4> QED
        BY Zenon, <1>6, <3>1, <4>1
    <3>4. tr[m + k] = tp[m] + tq[k]
      BY SMTT(60), <2>0, <3>1, <3>2, <3>3
    <3> QED
      BY Zenon, <3>1, <3>4
  <2>3. n \in T
    <3> HIDE DEF T
    <3> QED
      BY ONLY Zenon, <1>1, <2>1, <2>2, Upward
  <2> QED
    BY Zenon, <2>3
<1>11. tp[m] \in Nat /\ tq[n] \in Nat
  BY <1>1, <1>6
<1> QED
  BY Zenon, <1>1, <1>7, <1>10, <1>11 DEF r

\* The sum of one number
LEMMA SumOfOne ==
    ASSUME NEW x \in Nat
    PROVE  Tds5!Sum0(<<x>>) = x /\ <<x>> \in Seq(Nat)
<1> DEFINE s == <<x>>
<1>1. s \in Seq(Nat) /\ Len(s) = 1 /\ s[1] = x
  OBVIOUS
<1>2. PICK t : IsSum(t, s)
  <2> HIDE DEF s
  <2>1. Len(s) \in Nat
    BY <1>1
  <2> QED
    BY Zenon, <2>1, SumLoop
<1> HIDE DEF s
<1>3. t[0] = 0 /\ t[1] = t[1 - 1] + s[1] /\ Tds5!Sum0(s) = t[1]
  <2>1. t[0] = 0 /\ \A k \in 1..1 : t[k] = t[k - 1] + s[k] /\ Tds5!Sum0(s) = t[1]
    BY Zenon, <1>1, <1>2 DEF IsSum
  <2> QED
    BY <2>1
<1> QED
  BY <1>1, <1>3 DEF s

\* and of none.
LEMMA SumOfNone == Tds5!Sum0(<<>>) = 0 /\ <<>> \in Seq(Nat)
<1> DEFINE s == <<>>
<1>1. s \in Seq(Nat) /\ Len(s) = 0
  OBVIOUS
<1> HIDE DEF s
<1>2. PICK t : IsSum(t, s)
  <2>1. Len(s) \in Nat
    BY <1>1
  <2> QED
    BY Zenon, <2>1, SumLoop
<1>3. Tds5!Sum0(s) = 0
  BY Zenon, <1>1, <1>2 DEF IsSum
<1> QED
  BY Zenon, <1>1, <1>3 DEF s

Lengths(vs) == [k \in DOMAIN vs |-> Len(vs[k])]
Strings == Seq(Seq(Byte))

\* The lengths of byte strings are numbers.
LEMMA LengthsAre ==
    ASSUME NEW p \in Strings
    PROVE  Lengths(p) \in Seq(Nat) /\ Len(Lengths(p)) = Len(p) /\ \A k \in 1..Len(p) : Lengths(p)[k] = Len(p[k])
<1> DEFINE S == Seq(Byte)
<1>1. p \in Seq(S) /\ \A x \in S : Len(x) \in Nat
  BY DEF Strings
<1> HIDE DEF S, Byte
<1>2. \A k \in 1..Len(p) : p[k] \in S
  BY <1>1
<1>3. DOMAIN p = 1..Len(p) /\ Len(p) \in Nat
  BY <1>1
<1>4. Lengths(p) = [k \in 1..Len(p) |-> Len(p[k])]
  BY Zenon, <1>3 DEF Lengths
<1>5. \A k \in 1..Len(p) : Len(p[k]) \in Nat
  BY Zenon, <1>1, <1>2
<1> DEFINE l == Lengths(p)
           n == Len(p)
<1>6. l = [k \in 1..n |-> Len(p[k])] /\ n \in Nat
  BY Zenon, <1>3, <1>4
<1> HIDE DEF l, n
<1>7. l \in Seq(Nat) /\ Len(l) = n
  BY <1>5, <1>6 DEF n
<1> QED
  BY Zenon, <1>6, <1>7 DEF l, n

\* The lengths of joined sequences of strings are joined.
LEMMA LengthsJoined ==
    ASSUME NEW p \in Strings, NEW q \in Strings
    PROVE  p \o q \in Strings /\ Lengths(p \o q) = Lengths(p) \o Lengths(q)
<1> DEFINE S == Seq(Byte)
           r == p \o q
           m == Len(p)
           n == Len(q)
           lp == Lengths(p)
           lq == Lengths(q)
           lr == Lengths(r)
<1>1. /\ m \in Nat /\ n \in Nat /\ r \in Strings /\ Len(r) = m + n
      /\ \A k \in 1..m : r[k] = p[k]
      /\ \A k \in 1..n : r[m + k] = q[k]
  <2>1. p \in Seq(S) /\ q \in Seq(S) /\ (r \in Seq(S) => r \in Strings)
    BY Zenon DEF Strings
  <2>2. IsConcat(r, p, q, S)
    BY Zenon, <2>1, ConcatIs
  <2> HIDE DEF r, S
  <2> QED
    BY Zenon, <2>1, <2>2 DEF IsConcat
<1> HIDE DEF r
<1>2. lp \in Seq(Nat) /\ Len(lp) = m /\ \A k \in 1..m : lp[k] = Len(p[k])
  BY Zenon, LengthsAre
<1>3. lq \in Seq(Nat) /\ Len(lq) = n /\ \A k \in 1..n : lq[k] = Len(q[k])
  BY Zenon, LengthsAre
<1>4. lr \in Seq(Nat) /\ Len(lr) = m + n /\ \A k \in 1..m + n : lr[k] = Len(r[k])
  BY Zenon, <1>1, LengthsAre
<1> DEFINE lj == lp \o lq
<1>5. /\ lj \in Seq(Nat) /\ Len(lj) = m + n
      /\ \A k \in 1..m : lj[k] = lp[k]
      /\ \A k \in 1..n : lj[m + k] = lq[k]
  <2>1. IsConcat(lj, lp, lq, Nat)
    BY Zenon, <1>2, <1>3, ConcatIs
  <2> HIDE DEF lj, lp, lq
  <2> QED
    BY Zenon, <2>1, <1>2, <1>3 DEF IsConcat
<1> HIDE DEF lj, lp, lq, lr, m, n
<1>6. \A k \in 1..m + n : lr[k] = lj[k]
  <2> TAKE k \in 1..m + n
  <2>1. CASE k \in 1..m
    BY ZenonT(60), <1>1, <1>2, <1>4, <1>5, <2>1
  <2>2. CASE k \notin 1..m
    <3> DEFINE j == k - m
    <3>1. j \in 1..n /\ k = m + j
      BY <1>1, <2>2
    <3> HIDE DEF j
    <3> QED
      BY ZenonT(60), <1>1, <1>3, <1>4, <1>5, <3>1
  <2> QED
    BY Zenon, <2>1, <2>2
<1>7. lr = lj
  BY <1>1, <1>4, <1>5, <1>6
<1> QED
  BY Zenon, <1>1, <1>7 DEF r, lj, lp, lq, lr

\* One value more counts with its length.
LEMMA OneValueMore ==
    ASSUME NEW vs \in Strings, NEW x \in Seq(Byte)
    PROVE  /\ Append(vs, x) \in Strings
           /\ Tds5!Sum0(Lengths(vs)) \in Nat
           /\ Tds5!Sum0(Lengths(Append(vs, x))) = Tds5!Sum0(Lengths(vs)) + Len(x)
<1> DEFINE S == Seq(Byte)
           one == <<x>>
<1>1. vs \in Seq(S) /\ x \in S /\ Len(x) \in Nat
  <2>1. x \in Seq(Byte)
    BY Zenon
  <2>2. Len(x) \in Nat
    BY ONLY SMT, <2>1
  <2> QED
    BY Zenon, <2>2 DEF Strings
<1>2. Append(vs, x) = vs \o one /\ one \in Seq(S) /\ Len(one) = 1 /\ one[1] = x /\ DOMAIN one = 1..1
  <2> HIDE DEF S
  <2> QED
    BY ONLY SMT, <1>1
<1>3. one \in Strings
  BY Zenon, <1>2 DEF Strings
<1>4. Lengths(one) = <<Len(x)>>
  <2>1. Lengths(one) = [k \in 1..1 |-> Len(one[k])]
    BY Zenon, <1>2 DEF Lengths
  <2> HIDE DEF one
  <2> QED
    BY <1>2, <2>1
<1> HIDE DEF one
<1>5. vs \o one \in Strings /\ Lengths(vs \o one) = Lengths(vs) \o <<Len(x)>>
  BY ZenonT(60), <1>3, <1>4, LengthsJoined
<1>6. Lengths(vs) \in Seq(Nat) /\ <<Len(x)>> \in Seq(Nat) /\ Tds5!Sum0(<<Len(x)>>) = Len(x)
  BY Zenon, <1>1, LengthsAre, SumOfOne
<1>7. /\ Tds5!Sum0(Lengths(vs)) \in Nat
      /\ Tds5!Sum0(Lengths(vs) \o <<Len(x)>>) = Tds5!Sum0(Lengths(vs)) + Tds5!Sum0(<<Len(x)>>)
  BY Zenon, <1>6, SumJoined
<1> QED
  BY Zenon, <1>2, <1>5, <1>6, <1>7

\* The values read from i on, with the bytes of the limit that they take
ValuesAt(b, i, v, used, limit) ==
    /\ Reached(i, v.at, Len(b))
    /\ v.at # Tds5!Failed => /\ v.values \in Strings
                             /\ v.used = used + Tds5!Sum0(Lengths(v.values))
                             /\ v.used \in Nat /\ v.used <= limit

\* The value of a column lies within the bytes and, with those before it, within the limit.
LEMMA ColumnValueRead ==
    ASSUME NEW b \in Seq(Byte), NEW i \in Nat, NEW c, IsColumn(c), NEW used \in Nat, NEW limit \in Nat,
           NEW v, ValuesAt(b, i, v, used, limit)
    PROVE  ValuesAt(b, i, Tds5!ColumnValue(b, v, c, limit), used, limit)
<1> DEFINE q == Tds5!ColumnValue(b, v, c, limit)
           w == IF c.status THEN 1 ELSE 0
           start == Tds5!Pass(b, v.at, Len(b), Tds5!Fixed(w))
           left == limit - v.used
           read == Tds5!read_parameter_value(b, start, c, left)
           sum == v.used + Len(read.bytes)
           more == Append(v.values, read.bytes)
           new == [at |-> read.at, used |-> sum, values |-> more]
<1>1. \/ q = v
      \/ q = Tds5!NoValues
      \/ v.at # Tds5!Failed /\ start # Tds5!Failed /\ read.at # Tds5!Failed /\ q = new
  BY Zenon DEF Tds5!ColumnValue, Tds5!From, Tds5!Then
<1>2. Tds5!NoValues.at = Tds5!Failed
  BY Zenon DEF Tds5!NoValues
<1>3. new.at = read.at /\ new.used = sum /\ new.values = more
  BY Zenon
<1> HIDE DEF q, new
<1>4. ASSUME v.at # Tds5!Failed, start # Tds5!Failed, read.at # Tds5!Failed
      PROVE  ValuesAt(b, i, new, used, limit)
  <2>1. /\ v.at \in Nat /\ i <= v.at /\ v.values \in Strings
        /\ v.used = used + Tds5!Sum0(Lengths(v.values)) /\ v.used \in Nat /\ v.used <= limit
    BY Zenon, <1>4 DEF ValuesAt, Reached
  <2>2. start \in Nat /\ v.at <= start /\ start <= Len(b)
    <3>1. w \in Nat /\ Len(b) \in Nat /\ Len(b) <= Len(b)
      OBVIOUS
    <3> HIDE DEF w
    <3> DEFINE f == Tds5!Fixed(w)
    <3>2. IsField(f) /\ f[1] = w
      BY Zenon, <3>1, Fields
    <3> HIDE DEF f
    <3>3. f[1] \in Nat /\ start \in Nat /\ v.at + f[1] <= start /\ start <= Len(b)
      BY Zenon, <1>4, <2>1, <3>1, <3>2, Passes DEF f
    <3> HIDE DEF start
    <3> QED
      BY <2>1, <3>3
  <2> HIDE DEF start, w
  <2>3. left \in Nat /\ v.used + left = limit
    BY <2>1
  <2> HIDE DEF left
  <2>4. BytesAt(b, start, read, left)
    BY Zenon, <2>2, <2>3, ValueRead
  <2> HIDE DEF read
  <2>5. /\ read.at \in Nat /\ start <= read.at /\ read.at <= Len(b)
        /\ read.bytes \in Seq(Byte) /\ Len(read.bytes) <= left
    BY Zenon, <1>4, <2>4 DEF BytesAt, Reached
  <2>6. Reached(i, read.at, Len(b))
    BY <2>1, <2>2, <2>5 DEF Reached
  <2>7. /\ more \in Strings /\ Tds5!Sum0(Lengths(v.values)) \in Nat
        /\ Tds5!Sum0(Lengths(more)) = Tds5!Sum0(Lengths(v.values)) + Len(read.bytes)
    BY Zenon, <2>1, <2>5, OneValueMore
  <2>8. Len(read.bytes) \in Nat
    <3> DEFINE y == read.bytes
    <3>1. y \in Seq(Byte)
      BY Zenon, <2>5
    <3> HIDE DEF y, Byte
    <3>2. Len(y) \in Nat
      BY ONLY SMT, <3>1
    <3> QED
      BY Zenon, <3>2 DEF y
  <2> DEFINE a == Tds5!Sum0(Lengths(v.values))
             z == Tds5!Sum0(Lengths(more))
             y == Len(read.bytes)
             u == v.used
  <2>9. /\ a \in Nat /\ z = a + y /\ y \in Nat /\ u = used + a /\ u \in Nat /\ u <= limit
        /\ y <= left /\ u + left = limit /\ left \in Nat /\ sum = u + y
    BY Zenon, <2>1, <2>3, <2>5, <2>7, <2>8
  <2> HIDE DEF a, z, y, u, more, sum
  <2>10. sum = used + z /\ sum \in Nat /\ sum <= limit
    BY ONLY SMT, <2>9, used \in Nat, limit \in Nat
  <2> QED
    BY Zenon, <1>3, <2>6, <2>7, <2>10 DEF ValuesAt, z
<1> HIDE DEF start, read, more, sum
<1>5. ValuesAt(b, i, q, used, limit)
  BY Zenon, <1>1, <1>2, <1>4 DEF ValuesAt, Reached
<1> QED
  BY Zenon, <1>5 DEF q

IsValues(turn, b, i, columns, used, limit) ==
    /\ turn[0] = [at |-> i, used |-> used, values |-> <<>>]
    /\ \A k \in 1..Len(columns) : turn[k] = Tds5!ColumnValue(b, turn[k - 1], columns[k], limit)
    /\ Tds5!Values(b, i, columns, used, limit) = turn[Len(columns)]

\* Values are read by such a loop.
LEMMA ValuesLoop ==
    ASSUME NEW b, NEW i, NEW columns, Len(columns) \in Nat, NEW used, NEW limit
    PROVE  \E turn : IsValues(turn, b, i, columns, used, limit)
<1> DEFINE x == [loop |-> "values", b |-> b, columns |-> columns, limit |-> limit]
           n == Len(columns)
           first == [at |-> i, used |-> used, values |-> <<>>]
           Is(f) == f = [k \in 0..n |-> IF k = 0 THEN first ELSE Tds5!ColumnValue(b, f[k - 1], columns[k], limit)]
           t == CHOOSE f : Is(f)
<1>1. \A k, v : Run(x, k, v) = Tds5!ColumnValue(b, v, columns[k], limit)
  BY Zenon DEF Run
<1>2. Tds5!Values(b, i, columns, used, limit) = t[n]
  BY Zenon DEF Tds5!Values
<1> HIDE DEF x, first
<1>3. \A f : Is(f) <=> IsLoop(f, x, first, n)
  BY SMTT(60), <1>1 DEF IsLoop
<1> HIDE DEF Is, n
<1>4. n \in Nat
  BY Zenon DEF n
<1>5. Is(t)
  BY Zenon, <1>3, <1>4, Loop
<1> HIDE DEF t
<1>6. /\ t[0] = first
      /\ \A k \in 1..n : t[k] = Run(x, k, t[k - 1])
  <2>1. IsLoop(t, x, first, n)
    BY Zenon, <1>3, <1>5
  <2> QED
    BY ONLY SMT, <2>1, <1>4, Turns
<1>7. \A k \in 1..n : t[k] = Tds5!ColumnValue(b, t[k - 1], columns[k], limit)
  BY Zenon, <1>1, <1>6
<1> QED
  BY Zenon, <1>2, <1>6, <1>7 DEF n, first, IsValues

\* The values of a row or a parameter set stay within the limit and end within the bytes.
LEMMA ValuesRead ==
    ASSUME NEW b \in Seq(Byte), NEW i \in Nat, i <= Len(b), NEW columns, IsColumns(columns),
           NEW used \in Nat, NEW limit \in Nat, used <= limit
    PROVE  ValuesAt(b, i, Tds5!Values(b, i, columns, used, limit), used, limit)
<1>1. PICK S : columns \in Seq(S) /\ \A c \in S : IsColumn(c)
  BY Zenon DEF IsColumns
<1> DEFINE n == Len(columns)
<1>2. n \in Nat /\ \A k \in 1..n : columns[k] \in S
  BY <1>1
<1>3. PICK t : IsValues(t, b, i, columns, used, limit)
  BY Zenon, <1>2, ValuesLoop
<1> DEFINE T == {k \in 0..n : ValuesAt(b, i, t[k], used, limit)}
<1>4. 0 \in T
  <2> DEFINE first == [at |-> i, used |-> used, values |-> <<>>]
  <2>1. t[0] = first
    BY Zenon, <1>3 DEF IsValues
  <2>2. first.at = i /\ first.used = used /\ first.values = <<>>
    BY Zenon
  <2>3. <<>> \in Strings /\ Lengths(<<>>) = <<>>
    BY DEF Strings, Lengths
  <2>4. used = used + Tds5!Sum0(Lengths(<<>>))
    <3>1. Tds5!Sum0(Lengths(<<>>)) = 0
      BY Zenon, <2>3, SumOfNone
    <3> QED
      BY <3>1
  <2>5. Reached(i, i, Len(b)) /\ 0 \in 0..n
    BY <1>2 DEF Reached
  <2> HIDE DEF first
  <2>6. ValuesAt(b, i, first, used, limit)
    BY Zenon, <2>2, <2>3, <2>4, <2>5 DEF ValuesAt
  <2> QED
    BY Zenon, <2>1, <2>5, <2>6
<1>5. ASSUME NEW k \in 1..n, k - 1 \in T
      PROVE  k \in T
  <2>1. k \in 0..n
    BY <1>2
  <2>2. t[k] = Tds5!ColumnValue(b, t[k - 1], columns[k], limit)
    BY Zenon, <1>3 DEF IsValues
  <2>3. ValuesAt(b, i, t[k - 1], used, limit) /\ IsColumn(columns[k])
    BY Zenon, <1>1, <1>2, <1>5
  <2>4. ValuesAt(b, i, t[k], used, limit)
    BY Zenon, <2>2, <2>3, ColumnValueRead
  <2> QED
    BY Zenon, <2>1, <2>4
<1>6. ValuesAt(b, i, t[n], used, limit)
  <2>1. 0 \in T /\ \A k \in 1..n : k - 1 \in T => k \in T
    BY Zenon, <1>4, <1>5
  <2>2. n \in T
    <3> HIDE DEF T, n
    <3> QED
      BY ONLY Zenon, <1>2, <2>1, Upward
  <2> QED
    BY Zenon, <2>2
<1> QED
  BY Zenon, <1>3, <1>6 DEF IsValues

(***************************************************************************)
(* Steps of the stream reader                                              *)
(***************************************************************************)

StateFields == {"at", "state", "r", "parameters", "row", "alternates", "used", "message", "limit"}
StreamFields ==
    {"tokens", "items", "message_types", "parameter_sets", "raw_parameter_values", "row_value_bytes",
     "encrypted_login_password", "encrypted_remote_passwords", "encrypted_symmetric_key",
     "opaque_security", "unparsed_regions", "parse_warnings", "unknown_token", "trailing_bytes"}

Fielded(f, F) == f = [k \in F |-> f[k]]
Shaped(s) == Fielded(s, StateFields) /\ Fielded(s.r, StreamFields)

\* q is s but for the fields in X.
Same(q, s, F, X) == Fielded(q, F) /\ \A k \in F \ X : q[k] = s[k]

Put(f, k, v) == [f EXCEPT ![k] = v]
IsPut(q, f, F, k, v) == Same(q, f, F, {k}) /\ q[k] = v

\* What one assignment to a field changes.
LEMMA PutOne ==
    ASSUME NEW F, NEW f, Fielded(f, F), NEW k \in F, NEW v
    PROVE  IsPut(Put(f, k, v), f, F, k, v)
<1> DEFINE q == Put(f, k, v)
<1>1. f = [j \in F |-> f[j]] /\ DOMAIN f = F
  BY Zenon DEF Fielded
<1>2. q = [j \in F |-> IF j = k THEN v ELSE f[j]]
  BY Zenon, <1>1 DEF Put
<1> HIDE DEF q
<1>3. (\A j \in F : q[j] = IF j = k THEN v ELSE f[j]) /\ q = [j \in F |-> q[j]]
  BY Zenon, <1>2
<1>4. IsPut(q, f, F, k, v)
  BY Zenon, <1>3 DEF IsPut, Same, Fielded
<1> QED
  BY Zenon, <1>4 DEF q

\* Two changes one after the other change what either does.
LEMMA SameAgain ==
    ASSUME NEW F, NEW X, NEW Y, NEW f, NEW g, NEW h, Same(g, f, F, X), Same(h, g, F, Y)
    PROVE  Same(h, f, F, X \cup Y)
BY Zenon DEF Same

\* The fields of the state and of the report.
LEMMA FieldNames ==
    /\ "at" \in StateFields /\ "state" \in StateFields /\ "r" \in StateFields
    /\ "parameters" \in StateFields /\ "row" \in StateFields /\ "alternates" \in StateFields
    /\ "used" \in StateFields /\ "message" \in StateFields /\ "limit" \in StateFields
    /\ "tokens" \in StreamFields /\ "items" \in StreamFields /\ "message_types" \in StreamFields
    /\ "parameter_sets" \in StreamFields /\ "raw_parameter_values" \in StreamFields
    /\ "row_value_bytes" \in StreamFields /\ "encrypted_login_password" \in StreamFields
    /\ "encrypted_remote_passwords" \in StreamFields /\ "encrypted_symmetric_key" \in StreamFields
    /\ "opaque_security" \in StreamFields /\ "unparsed_regions" \in StreamFields
    /\ "parse_warnings" \in StreamFields /\ "unknown_token" \in StreamFields
    /\ "trailing_bytes" \in StreamFields
BY Zenon DEF StateFields, StreamFields

IsTook(q, s, token, to, items) ==
    /\ Shaped(q)
    /\ Same(q, s, StateFields, {"at", "r", "state"})
    /\ Same(q.r, s.r, StreamFields, {"items", "tokens"})
    /\ q.at = to
    /\ q.r.items = s.r.items + items
    /\ q.r.tokens = Append(s.r.tokens, [token |-> token, from |-> s.at, to |-> to])
    /\ q.state = IF s.r.items + items > MaxTokens THEN "error" ELSE s.state

\* What Took, which reports a token, changes.
LEMMA TookIs ==
    ASSUME NEW s, Shaped(s), NEW token, NEW to, NEW items
    PROVE  IsTook(Tds5!Took(s, token, to, items), s, token, to, items)
<1> DEFINE q == Tds5!Took(s, token, to, items)
           n == s.r.items + items
           l == Append(s.r.tokens, [token |-> token, from |-> s.at, to |-> to])
           z == IF s.r.items + items > MaxTokens THEN "error" ELSE s.state
           r1 == Put(s.r, "items", n)
           r2 == Put(r1, "tokens", l)
           q1 == Put(s, "at", to)
           q2 == Put(q1, "r", r2)
           q3 == Put(q2, "state", z)
<1>1. Fielded(s, StateFields) /\ Fielded(s.r, StreamFields)
  BY Zenon DEF Shaped
<1>2. DOMAIN s = StateFields /\ DOMAIN s.r = StreamFields
  BY Zenon, <1>1 DEF Fielded
<1>3. q = q3
  BY Zenon, <1>2, FieldNames DEF Tds5!Took, Put
<1> DEFINE r == s.r
<1>4. Same(r1, r, StreamFields, {"items"}) /\ r1.items = n
  <2>1. Fielded(r, StreamFields) /\ "items" \in StreamFields
    BY Zenon, <1>1, FieldNames DEF Same
  <2>2. IsPut(Put(r, "items", n), r, StreamFields, "items", n)
    BY ONLY Zenon, <2>1, PutOne
  <2> QED
    BY Zenon, <2>2 DEF IsPut
<1>5. Same(q1, s, StateFields, {"at"}) /\ q1.at = to
  <2>1. Fielded(s, StateFields) /\ "at" \in StateFields
    BY Zenon, <1>1, FieldNames DEF Same
  <2>2. IsPut(Put(s, "at", to), s, StateFields, "at", to)
    BY ONLY Zenon, <2>1, PutOne
  <2> QED
    BY Zenon, <2>2 DEF IsPut
<1> HIDE DEF q, r1, q1, n, l, z, r
<1>6. Same(r2, r1, StreamFields, {"tokens"}) /\ r2.tokens = l
  <2>1. Fielded(r1, StreamFields) /\ "tokens" \in StreamFields
    BY Zenon, <1>4, FieldNames DEF Same
  <2>2. IsPut(Put(r1, "tokens", l), r1, StreamFields, "tokens", l)
    BY ONLY Zenon, <2>1, PutOne
  <2> QED
    BY Zenon, <2>2 DEF IsPut
<1> HIDE DEF r2
<1>7. Same(r2, r, StreamFields, {"items", "tokens"}) /\ r2.items = n /\ r2.tokens = l
  <2>1. Same(r2, r, StreamFields, {"items"} \cup {"tokens"})
    BY Zenon, <1>4, <1>6, SameAgain
  <2>2. {"items"} \cup {"tokens"} = {"items", "tokens"} /\ "items" \in StreamFields \ {"tokens"}
    BY Zenon, FieldNames
  <2> QED
    BY Zenon, <1>4, <1>6, <2>1, <2>2 DEF Same
<1>8. Same(q2, q1, StateFields, {"r"}) /\ q2.r = r2
  <2>1. Fielded(q1, StateFields) /\ "r" \in StateFields
    BY Zenon, <1>5, FieldNames DEF Same
  <2>2. IsPut(Put(q1, "r", r2), q1, StateFields, "r", r2)
    BY ONLY Zenon, <2>1, PutOne
  <2> QED
    BY Zenon, <2>2 DEF IsPut
<1> HIDE DEF q2
<1>9. Same(q3, q2, StateFields, {"state"}) /\ q3.state = z
  <2>1. Fielded(q2, StateFields) /\ "state" \in StateFields
    BY Zenon, <1>8, FieldNames DEF Same
  <2>2. IsPut(Put(q2, "state", z), q2, StateFields, "state", z)
    BY ONLY Zenon, <2>1, PutOne
  <2> QED
    BY Zenon, <2>2 DEF IsPut
<1> HIDE DEF q3
<1>10. /\ Same(q3, s, StateFields, {"at", "r", "state"})
       /\ q3.at = to /\ q3.r = r2 /\ q3.state = z
  <2>1. Same(q3, s, StateFields, ({"at"} \cup {"r"}) \cup {"state"})
    BY Zenon, <1>5, <1>8, <1>9, SameAgain
  <2>2. /\ ({"at"} \cup {"r"}) \cup {"state"} = {"at", "r", "state"}
        /\ "at" \in StateFields \ {"r"} /\ "at" \in StateFields \ {"state"} /\ "r" \in StateFields \ {"state"}
    BY Zenon, FieldNames
  <2> QED
    BY Zenon, <1>5, <1>8, <1>9, <2>1, <2>2 DEF Same
<1>11. Shaped(q3)
  BY Zenon, <1>7, <1>10 DEF Shaped, Same
<1>12. IsTook(q, s, token, to, items)
  BY Zenon, <1>3, <1>7, <1>10, <1>11 DEF n, l, z, r, IsTook
<1> QED
  BY Zenon, <1>12 DEF q

\* What Fail changes.
LEMMA FailIs ==
    ASSUME NEW s, Shaped(s)
    PROVE  LET q == Tds5!Fail(s)
           IN  Same(q, s, StateFields, {"state"}) /\ q.state = "error"
<1>1. Fielded(s, StateFields)
  BY Zenon DEF Shaped
<1>2. Tds5!Fail(s) = Put(s, "state", "error")
  BY Zenon DEF Tds5!Fail, Put
<1>3. "state" \in StateFields
  BY Zenon, FieldNames
<1>4. IsPut(Put(s, "state", "error"), s, StateFields, "state", "error")
  BY ONLY Zenon, <1>1, <1>3, PutOne
<1> QED
  BY Zenon, <1>2, <1>4 DEF IsPut

\* What StopAt, which reports an unknown token, changes.
LEMMA StopIs ==
    ASSUME NEW b, NEW s, Shaped(s), NEW token
    PROVE  LET q == Tds5!StopAt(b, s, token)
           IN  /\ Shaped(q)
               /\ Same(q, s, StateFields, {"r", "state"})
               /\ Same(q.r, s.r, StreamFields, {"unknown_token", "trailing_bytes"})
               /\ q.state = "stopped"
               /\ q.r.unknown_token = <<token>>
               /\ q.r.trailing_bytes = Len(b) - s.at - 1
<1> DEFINE q == Tds5!StopAt(b, s, token)
           u == <<token>>
           z == Len(b) - s.at - 1
           r == s.r
           r1 == Put(s.r, "unknown_token", u)
           r2 == Put(r1, "trailing_bytes", z)
           q1 == Put(s, "state", "stopped")
           q2 == Put(q1, "r", r2)
<1>1. Fielded(s, StateFields) /\ Fielded(s.r, StreamFields)
  BY Zenon DEF Shaped
<1>2. DOMAIN s = StateFields /\ DOMAIN s.r = StreamFields
  BY Zenon, <1>1 DEF Fielded
<1>3. q = q2
  BY Zenon, <1>2, FieldNames DEF Tds5!StopAt, Tds5!Some, Put
<1>4. Same(r1, r, StreamFields, {"unknown_token"}) /\ r1.unknown_token = u
  <2>1. Fielded(r, StreamFields) /\ "unknown_token" \in StreamFields
    BY Zenon, <1>1, FieldNames DEF Same
  <2>2. IsPut(Put(r, "unknown_token", u), r, StreamFields, "unknown_token", u)
    BY ONLY Zenon, <2>1, PutOne
  <2> QED
    BY Zenon, <2>2 DEF IsPut
<1>5. Same(q1, s, StateFields, {"state"}) /\ q1.state = "stopped"
  <2>1. Fielded(s, StateFields) /\ "state" \in StateFields
    BY Zenon, <1>1, FieldNames DEF Same
  <2>2. IsPut(Put(s, "state", "stopped"), s, StateFields, "state", "stopped")
    BY ONLY Zenon, <2>1, PutOne
  <2> QED
    BY Zenon, <2>2 DEF IsPut
<1> HIDE DEF q, r1, q1, u, z, r
<1>6. Same(r2, r1, StreamFields, {"trailing_bytes"}) /\ r2.trailing_bytes = z
  <2>1. Fielded(r1, StreamFields) /\ "trailing_bytes" \in StreamFields
    BY Zenon, <1>4, FieldNames DEF Same
  <2>2. IsPut(Put(r1, "trailing_bytes", z), r1, StreamFields, "trailing_bytes", z)
    BY ONLY Zenon, <2>1, PutOne
  <2> QED
    BY Zenon, <2>2 DEF IsPut
<1> HIDE DEF r2
<1>7. /\ Same(r2, r, StreamFields, {"unknown_token", "trailing_bytes"})
      /\ r2.unknown_token = u /\ r2.trailing_bytes = z
  <2>1. Same(r2, r, StreamFields, {"unknown_token"} \cup {"trailing_bytes"})
    BY Zenon, <1>4, <1>6, SameAgain
  <2>2. /\ {"unknown_token"} \cup {"trailing_bytes"} = {"unknown_token", "trailing_bytes"}
        /\ "unknown_token" \in StreamFields \ {"trailing_bytes"}
    BY Zenon, FieldNames
  <2> QED
    BY Zenon, <1>4, <1>6, <2>1, <2>2 DEF Same
<1>8. Same(q2, q1, StateFields, {"r"}) /\ q2.r = r2
  <2>1. Fielded(q1, StateFields) /\ "r" \in StateFields
    BY Zenon, <1>5, FieldNames DEF Same
  <2>2. IsPut(Put(q1, "r", r2), q1, StateFields, "r", r2)
    BY ONLY Zenon, <2>1, PutOne
  <2> QED
    BY Zenon, <2>2 DEF IsPut
<1> HIDE DEF q2
<1>9. Same(q2, s, StateFields, {"r", "state"}) /\ q2.r = r2 /\ q2.state = "stopped"
  <2>1. Same(q2, s, StateFields, {"state"} \cup {"r"})
    BY Zenon, <1>5, <1>8, SameAgain
  <2>2. {"state"} \cup {"r"} = {"r", "state"} /\ "state" \in StateFields \ {"r"}
    BY Zenon, FieldNames
  <2> QED
    BY Zenon, <1>5, <1>8, <2>1, <2>2 DEF Same
<1>10. Shaped(q2)
  BY Zenon, <1>7, <1>9 DEF Shaped, Same
<1> QED
  BY Zenon, <1>3, <1>7, <1>9, <1>10 DEF q, u, z, r

TokenSpans == [token : Byte, from : Nat, to : Nat]

\* The tokens lie one behind the other, from the offset o to where the reader is.
Placed(b, o, s) ==
    /\ s.at \in Nat /\ o <= s.at /\ s.at <= Len(b)
    /\ s.r.tokens \in Seq(TokenSpans)
    /\ Covers(s.r.tokens, o..s.at - 1)

Formatted(s) ==
    /\ IsColumns(s.parameters) /\ IsColumns(s.row)
    /\ \A k \in DOMAIN s.alternates : IsColumns(s.alternates[k])

\* The bytes of values that were kept are those that were counted.
Metered(s, limit) ==
    /\ s.limit = limit /\ s.used \in Nat /\ s.used <= limit
    /\ s.r.raw_parameter_values \in Strings /\ s.r.row_value_bytes \in Seq(Nat)
    /\ s.used = Tds5!Sum0(Lengths(s.r.raw_parameter_values)) + Tds5!Sum0(s.r.row_value_bytes)

\* A reader that has stopped says at which token, and how much is behind it.
Ended(b, s) ==
    /\ s.state \in {"reading", "error", "stopped"}
    /\ s.r.items \in Nat /\ (s.state = "reading" => s.r.items <= MaxTokens)
    /\ s.r.unparsed_regions = <<>>
    /\ s.state # "stopped" => s.r.unknown_token = <<>>
    /\ s.state = "stopped" =>
          /\ s.r.unknown_token # <<>> /\ s.at < Len(b)
          /\ s.r.trailing_bytes = Len(b) - s.at - 1

Sound(b, o, s, limit) ==
    Shaped(s) /\ Placed(b, o, s) /\ Formatted(s) /\ Metered(s, limit) /\ Ended(b, s)

\* A turn counts an item, or takes five bytes, or is the last one.
Advances(s, q) ==
    q.state # "reading" \/ 5 * s.r.items + s.at + 5 <= 5 * q.r.items + q.at

Follows(b, o, s, q, limit) == Sound(b, o, q, limit) /\ Advances(s, q)

\* A failed reading is one that was sound.
LEMMA FailFollows ==
    ASSUME NEW b, NEW o, NEW s, NEW limit, Sound(b, o, s, limit), s.state = "reading"
    PROVE  Follows(b, o, s, Tds5!Fail(s), limit)
<1> DEFINE q == Tds5!Fail(s)
<1>1. Same(q, s, StateFields, {"state"}) /\ q.state = "error"
  BY Zenon, FailIs DEF Sound
<1> HIDE DEF q
<1>2. /\ q.at = s.at /\ q.r = s.r /\ q.parameters = s.parameters /\ q.row = s.row
      /\ q.alternates = s.alternates /\ q.used = s.used /\ q.limit = s.limit
  BY Zenon, <1>1, FieldNames DEF Same
<1>3. Shaped(q)
  BY Zenon, <1>1, <1>2 DEF Sound, Shaped, Same
<1>4. Placed(b, o, q) /\ Formatted(q) /\ Metered(q, limit)
  BY Zenon, <1>2 DEF Sound, Placed, Formatted, Metered
<1>5. Ended(b, q) /\ q.state # "reading"
  BY Zenon, <1>1, <1>2 DEF Sound, Ended
<1> QED
  BY Zenon, <1>3, <1>4, <1>5 DEF q, Sound, Follows, Advances

\* So is one that stops at an unknown token.
LEMMA StopFollows ==
    ASSUME NEW b, NEW o, NEW s, NEW limit, Sound(b, o, s, limit), s.state = "reading", s.at < Len(b),
           NEW token
    PROVE  Follows(b, o, s, Tds5!StopAt(b, s, token), limit)
<1> DEFINE q == Tds5!StopAt(b, s, token)
<1>1. /\ Shaped(q)
      /\ Same(q, s, StateFields, {"r", "state"})
      /\ Same(q.r, s.r, StreamFields, {"unknown_token", "trailing_bytes"})
      /\ q.state = "stopped"
      /\ q.r.unknown_token = <<token>>
      /\ q.r.trailing_bytes = Len(b) - s.at - 1
  BY Zenon, StopIs DEF Sound
<1> HIDE DEF q
<1>2. /\ q.at = s.at /\ q.parameters = s.parameters /\ q.row = s.row
      /\ q.alternates = s.alternates /\ q.used = s.used /\ q.limit = s.limit
  BY Zenon, <1>1, FieldNames DEF Same
<1>3. /\ q.r.tokens = s.r.tokens /\ q.r.items = s.r.items
      /\ q.r.unparsed_regions = s.r.unparsed_regions
      /\ q.r.raw_parameter_values = s.r.raw_parameter_values
      /\ q.r.row_value_bytes = s.r.row_value_bytes
  BY Zenon, <1>1, FieldNames DEF Same
<1>4. Placed(b, o, q) /\ Formatted(q) /\ Metered(q, limit)
  BY Zenon, <1>2, <1>3 DEF Sound, Placed, Formatted, Metered
<1>5. <<token>> # <<>>
  BY Zenon
<1>6. Ended(b, q) /\ q.state # "reading"
  BY Zenon, <1>1, <1>2, <1>3, <1>5 DEF Sound, Ended
<1> QED
  BY Zenon, <1>1, <1>4, <1>6 DEF q, Sound, Follows, Advances

\* m is s with other formats, values or messages.
Carries(m, s) ==
    /\ Shaped(m)
    /\ m.at = s.at /\ m.state = s.state
    /\ m.r.tokens = s.r.tokens /\ m.r.items = s.r.items
    /\ m.r.unparsed_regions = s.r.unparsed_regions /\ m.r.unknown_token = s.r.unknown_token

\* So is one that takes a token, if the token lies right behind the last one and what was read
\* meanwhile respects the limit.
LEMMA TookFollows ==
    ASSUME NEW b \in Seq(Byte), NEW o \in Nat, NEW s, NEW limit, Sound(b, o, s, limit), s.state = "reading",
           NEW m, Carries(m, s), Formatted(m), Metered(m, limit),
           NEW token \in Byte, NEW to \in Nat, to <= Len(b), NEW items \in {0, 1},
           s.at < to, items = 1 \/ s.at + 5 <= to
    PROVE  Follows(b, o, s, Tds5!Took(m, token, to, items), limit)
<1> DEFINE q == Tds5!Took(m, token, to, items)
           part == [token |-> token, from |-> m.at, to |-> to]
           n == m.r.items + items
<1>0. items \in Nat
  OBVIOUS
<1>1. /\ Shaped(q)
      /\ Same(q, m, StateFields, {"at", "r", "state"})
      /\ Same(q.r, m.r, StreamFields, {"items", "tokens"})
      /\ q.at = to
      /\ q.r.items = n
      /\ q.r.tokens = Append(m.r.tokens, part)
      /\ q.state = IF n > MaxTokens THEN "error" ELSE m.state
  <2>1. Shaped(m)
    BY Zenon DEF Carries
  <2>2. IsTook(q, m, token, to, items)
    BY Zenon, <2>1, TookIs
  <2> HIDE DEF q
  <2> QED
    BY Zenon, <2>2 DEF IsTook
<1> HIDE DEF q
<1>2. /\ q.parameters = m.parameters /\ q.row = m.row
      /\ q.alternates = m.alternates /\ q.used = m.used /\ q.limit = m.limit
  BY Zenon, <1>1, FieldNames DEF Same
<1>3. /\ q.r.unparsed_regions = s.r.unparsed_regions /\ q.r.unknown_token = s.r.unknown_token
      /\ q.r.raw_parameter_values = m.r.raw_parameter_values
      /\ q.r.row_value_bytes = m.r.row_value_bytes
  BY Zenon, <1>1, FieldNames DEF Same, Carries
<1>4. Formatted(q) /\ Metered(q, limit)
  BY Zenon, <1>2, <1>3 DEF Formatted, Metered
<1>5. part \in TokenSpans /\ part.from = s.at /\ part.to = to
  <2>1. m.at = s.at /\ s.at \in Nat
    BY Zenon DEF Carries, Sound, Placed
  <2>2. part.from = s.at /\ part.to = to
    BY Zenon, <2>1
  <2>3. part \in TokenSpans
    BY Zenon, <2>1 DEF TokenSpans
  <2> QED
    BY Zenon, <2>2, <2>3
<1> HIDE DEF part
<1>6. Placed(b, o, q)
  <2> DEFINE p == s.r.tokens
             j == s.at
  <2>1. /\ p \in Seq(TokenSpans) /\ Covers(p, o..j - 1) /\ j \in Nat /\ o <= j
        /\ q.r.tokens = Append(p, part) /\ part.from = j /\ part.to = to
    BY Zenon, <1>1, <1>5 DEF Sound, Placed, Carries
  <2> HIDE DEF p, j, TokenSpans
  <2>2. j <= to /\ o <= to
    BY <2>1 DEF j
  <2>3. Covers(Append(p, part), o..to - 1)
    BY ONLY ZenonT(60), <1>5, <2>1, <2>2, o \in Nat, to \in Nat, CoversAppended
  <2>4. Append(p, part) \in Seq(TokenSpans)
    BY ONLY SMT, <1>5, <2>1
  <2> QED
    BY Zenon, <1>1, <2>1, <2>2, <2>3, <2>4 DEF Placed
<1>7. m.state = "reading" /\ m.r.items = s.r.items /\ s.r.items \in Nat /\ MaxTokens \in Nat /\ s.at \in Nat
  <2>1. m.state = "reading" /\ m.r.items = s.r.items /\ s.r.items \in Nat /\ s.at \in Nat
    BY Zenon DEF Carries, Sound, Ended, Placed
  <2> QED
    BY Zenon, <2>1, StreamLimits
<1>8. n \in Nat /\ n = s.r.items + items
  BY <1>0, <1>7
<1> HIDE DEF n
<1>9. Ended(b, q)
  <2>1. q.state \in {"reading", "error"} /\ q.state # "stopped" /\ (q.state = "reading" => n <= MaxTokens)
    BY <1>1, <1>7, <1>8
  <2>2. s.r.unparsed_regions = <<>> /\ s.r.unknown_token = <<>>
    <3>1. "reading" # "stopped"
      BY Zenon
    <3> QED
      BY Zenon, <3>1 DEF Sound, Ended
  <2> QED
    BY Zenon, <1>1, <1>3, <1>8, <2>1, <2>2 DEF Ended
<1>10. 5 * s.r.items + s.at + 5 <= 5 * q.r.items + q.at
  <2> DEFINE c == s.r.items
             j == s.at
  <2>1. c \in Nat /\ j \in Nat /\ q.r.items = c + items /\ q.at = to /\ j < to /\ (items = 1 \/ j + 5 <= to)
    BY Zenon, <1>1, <1>7, <1>8
  <2> HIDE DEF c, j
  <2>2. 5 * c + j + 5 <= 5 * (c + items) + to
    BY ONLY SMT, <1>0, <2>1, to \in Nat
  <2> QED
    BY Zenon, <2>1, <2>2 DEF c, j
<1> QED
  BY ZenonT(60), <1>1, <1>4, <1>6, <1>9, <1>10 DEF q, Sound, Follows, Advances

\* What a set of values is assigned to.
AssignFields ==
    {"encrypted_login_password", "opaque_security", "encrypted_remote_passwords", "parse_warnings",
     "encrypted_symmetric_key"}

\* An assignment to a field that may change changes no other.
LEMMA PutSame ==
    ASSUME NEW F, NEW X, NEW f, NEW g, Same(g, f, F, X), NEW k \in F \cap X, NEW v
    PROVE  Same(Put(g, k, v), f, F, X)
<1>1. IsPut(Put(g, k, v), g, F, k, v)
  <2>1. Fielded(g, F) /\ k \in F
    BY Zenon DEF Same
  <2> QED
    BY ONLY Zenon, <2>1, PutOne
<1>2. Same(Put(g, k, v), f, F, X \cup {k})
  BY ONLY Zenon, <1>1, Same(g, f, F, X), SameAgain DEF IsPut
<1>3. X \cup {k} = X
  BY Zenon
<1> QED
  BY Zenon, <1>2, <1>3

\* Assign, which gives the values of parameters to the message they belong to, changes nothing
\* else.
LEMMA AssignSame ==
    ASSUME NEW r, Fielded(r, StreamFields), NEW message, NEW values
    PROVE  Same(Tds5!Assign(r, message, values), r, StreamFields, AssignFields)
<1> DEFINE q == Tds5!Assign(r, message, values)
           first == SelectSeq(values, LAMBDA v : v # <<>>)
           pairs == [k \in 1..(Len(values) \div 2) |-> <<values[2 * k - 1], values[2 * k]>>]
           w3 == IF Len(values) % 2 = 0 THEN r.parse_warnings ELSE Append(r.parse_warnings, "expected pairs")
           w4 == IF Len(values) = 1 THEN r.parse_warnings ELSE Append(r.parse_warnings, "expected one")
           a1 == Put(r, "encrypted_login_password", Tds5!Some(Head(first)))
           a2 == Put(r, "opaque_security", Append(r.opaque_security, Tds5!parse_opaque_security(values)))
           a3 == Put(r, "encrypted_remote_passwords", r.encrypted_remote_passwords \o pairs)
           a4 == Put(r, "encrypted_symmetric_key", Tds5!Some(Head(values)))
<1>1. q \in {r, a1, a2, Put(a3, "parse_warnings", w3), Put(a4, "parse_warnings", w4)}
  <2>1. DOMAIN r = StreamFields
    BY Zenon DEF Fielded
  <2> QED
    BY Zenon, <2>1, FieldNames DEF Tds5!Assign, Put
<1> HIDE DEF q, first, pairs, w3, w4
<1>2. /\ "encrypted_login_password" \in StreamFields \cap AssignFields
      /\ "opaque_security" \in StreamFields \cap AssignFields
      /\ "encrypted_remote_passwords" \in StreamFields \cap AssignFields
      /\ "parse_warnings" \in StreamFields \cap AssignFields
      /\ "encrypted_symmetric_key" \in StreamFields \cap AssignFields
  BY Zenon, FieldNames DEF AssignFields
<1>3. Same(r, r, StreamFields, AssignFields)
  BY Zenon DEF Same
<1> HIDE DEF a1, a2, a3, a4
<1>4. Same(a1, r, StreamFields, AssignFields)
  BY Zenon, <1>2, <1>3, PutSame DEF a1
<1>5. Same(a2, r, StreamFields, AssignFields)
  BY Zenon, <1>2, <1>3, PutSame DEF a2
<1>6. Same(a3, r, StreamFields, AssignFields)
  BY Zenon, <1>2, <1>3, PutSame DEF a3
<1>7. Same(a4, r, StreamFields, AssignFields)
  BY Zenon, <1>2, <1>3, PutSame DEF a4
<1>8. Same(Put(a3, "parse_warnings", w3), r, StreamFields, AssignFields)
  BY Zenon, <1>2, <1>6, PutSame
<1>9. Same(Put(a4, "parse_warnings", w4), r, StreamFields, AssignFields)
  BY Zenon, <1>2, <1>7, PutSame
<1> QED
  BY Zenon, <1>1, <1>3, <1>4, <1>5, <1>8, <1>9 DEF q

ParamFields == AssignFields \cup {"raw_parameter_values", "parameter_sets"}

\* PARAMS is read like that: its values count against what the limit leaves.
LEMMA ReadParamsFollows ==
    ASSUME NEW b \in Seq(Byte), NEW o \in Nat, NEW limit \in Nat, NEW s, Sound(b, o, s, limit),
           s.state = "reading", s.at < Len(b), \hd7 \in Byte
    PROVE  Follows(b, o, s, Tds5!ReadParams(b, s), limit)
<1> DEFINE q == Tds5!ReadParams(b, s)
           v == Tds5!Values(b, s.at + 1, s.parameters, s.used, s.limit)
           raw == s.r.raw_parameter_values \o v.values
           sets == s.r.parameter_sets + 1
           r == s.r
           r1 == Put(r, "raw_parameter_values", raw)
           r2 == Put(r1, "parameter_sets", sets)
           r3 == Tds5!Assign(r2, s.message, v.values)
           m1 == Put(s, "r", r3)
           m2 == Put(m1, "used", v.used)
           m == Put(m2, "message", <<>>)
<1>1. Shaped(s) /\ Fielded(s, StateFields) /\ Fielded(s.r, StreamFields)
  BY Zenon DEF Sound, Shaped
<1>2. q = Tds5!Fail(s) \/ (v.at # Tds5!Failed /\ q = Tds5!Took(m, \hd7, v.at, 1))
  <2>1. DOMAIN s = StateFields /\ DOMAIN s.r = StreamFields
    BY Zenon, <1>1 DEF Fielded
  <2> QED
    BY Zenon, <2>1, FieldNames DEF Tds5!ReadParams, Tds5!Then, Tds5!None, Put
<1> HIDE DEF q
<1>3. ASSUME v.at # Tds5!Failed
      PROVE  Follows(b, o, s, Tds5!Took(m, \hd7, v.at, 1), limit)
  <2>1. ValuesAt(b, s.at + 1, v, s.used, limit)
    <3>1. s.at \in Nat /\ IsColumns(s.parameters) /\ s.used \in Nat /\ s.used <= limit /\ s.limit = limit
      BY Zenon DEF Sound, Placed, Formatted, Metered
    <3>2. s.at + 1 \in Nat /\ s.at + 1 <= Len(b)
      BY <3>1
    <3> QED
      BY Zenon, <3>1, <3>2, ValuesRead
  <2> HIDE DEF v
  <2>2. /\ v.at \in Nat /\ s.at + 1 <= v.at /\ v.at <= Len(b) /\ v.values \in Strings
        /\ v.used = s.used + Tds5!Sum0(Lengths(v.values)) /\ v.used \in Nat /\ v.used <= limit
    BY Zenon, <1>3, <2>1 DEF ValuesAt, Reached
  <2>3. /\ Same(r3, s.r, StreamFields, ParamFields)
        /\ r3.raw_parameter_values = raw
    <3>1. Same(r, r, StreamFields, ParamFields)
      BY Zenon, <1>1 DEF Same
    <3>2. /\ "raw_parameter_values" \in StreamFields \cap ParamFields
          /\ "parameter_sets" \in StreamFields \cap ParamFields
          /\ "raw_parameter_values" \in StreamFields \ {"parameter_sets"}
          /\ "raw_parameter_values" \in StreamFields \ AssignFields
          /\ "raw_parameter_values" \in StreamFields /\ "parameter_sets" \in StreamFields
      BY Zenon, FieldNames DEF ParamFields, AssignFields
    <3>3. Fielded(r, StreamFields)
      BY Zenon, <1>1
    <3> HIDE DEF r, raw, sets
    <3>4. IsPut(r1, r, StreamFields, "raw_parameter_values", raw)
      BY ONLY Zenon, <3>2, <3>3, PutOne
    <3>5. Same(r1, r, StreamFields, ParamFields)
      BY Zenon, <3>1, <3>2, PutSame
    <3> HIDE DEF r1
    <3>6. Same(r2, r, StreamFields, ParamFields)
      BY Zenon, <3>2, <3>5, PutSame
    <3>7. IsPut(r2, r1, StreamFields, "parameter_sets", sets)
      <4>1. Fielded(r1, StreamFields)
        BY Zenon, <3>5 DEF Same
      <4> QED
        BY ONLY Zenon, <3>2, <4>1, PutOne
    <3> HIDE DEF r2
    <3>8. r2.raw_parameter_values = raw
      BY Zenon, <3>2, <3>4, <3>7 DEF IsPut, Same
    <3>9. Same(r3, r2, StreamFields, AssignFields)
      <4>1. Fielded(r2, StreamFields)
        BY Zenon, <3>6 DEF Same
      <4> QED
        BY Zenon, <4>1, AssignSame
    <3> HIDE DEF r3
    <3>10. r3.raw_parameter_values = raw
      BY Zenon, <3>2, <3>8, <3>9 DEF Same
    <3>11. Same(r3, r, StreamFields, ParamFields \cup AssignFields)
      BY Zenon, <3>6, <3>9, SameAgain
    <3>12. ParamFields \cup AssignFields = ParamFields
      BY Zenon DEF ParamFields
    <3> QED
      BY Zenon, <3>10, <3>11, <3>12 DEF r
  <2> HIDE DEF r3
  <2>4. Same(m, s, StateFields, {"r", "used", "message"}) /\ m.r = r3 /\ m.used = v.used
    <3> DEFINE X == {"r", "used", "message"}
               u == v.used
    <3>1. Same(s, s, StateFields, X)
      BY Zenon, <1>1 DEF Same
    <3>2. /\ "r" \in StateFields \cap X /\ "used" \in StateFields \cap X /\ "message" \in StateFields \cap X
          /\ "r" \in StateFields \ {"used"} /\ "r" \in StateFields \ {"message"}
          /\ "used" \in StateFields \ {"message"}
      BY Zenon, FieldNames
    <3>3. "r" \in StateFields /\ "used" \in StateFields /\ "message" \in StateFields
      BY Zenon, FieldNames
    <3>4. IsPut(m1, s, StateFields, "r", r3)
      BY Zenon, <1>1, <3>3, PutOne
    <3> HIDE DEF X, u
    <3>5. Same(m1, s, StateFields, X)
      BY Zenon, <3>1, <3>2, PutSame
    <3> HIDE DEF m1
    <3>6. IsPut(m2, m1, StateFields, "used", u)
      <4>1. Fielded(m1, StateFields)
        BY Zenon, <3>5 DEF Same
      <4>2. m2 = Put(m1, "used", u)
        BY Zenon DEF u
      <4> QED
        BY ONLY Zenon, <3>3, <4>1, <4>2, PutOne
    <3>7. Same(m2, s, StateFields, X)
      BY Zenon, <3>2, <3>5, PutSame
    <3> HIDE DEF m2
    <3>8. IsPut(m, m2, StateFields, "message", <<>>)
      <4>1. Fielded(m2, StateFields)
        BY Zenon, <3>7 DEF Same
      <4> QED
        BY ONLY Zenon, <3>3, <4>1, PutOne
    <3>9. Same(m, s, StateFields, X)
      BY Zenon, <3>2, <3>7, PutSame
    <3> HIDE DEF m
    <3>10. m.r = r3 /\ m.used = u
      BY Zenon, <3>2, <3>4, <3>6, <3>8 DEF IsPut, Same
    <3> QED
      BY Zenon, <3>9, <3>10 DEF X, u
  <2> HIDE DEF m
  <2>5. /\ m.at = s.at /\ m.state = s.state /\ m.parameters = s.parameters /\ m.row = s.row
        /\ m.alternates = s.alternates /\ m.limit = s.limit
    <3>1. \A k \in {"at", "state", "parameters", "row", "alternates", "limit"} :
             k \in StateFields \ {"r", "used", "message"}
      BY Zenon, FieldNames
    <3> QED
      BY Zenon, <2>4, <3>1 DEF Same
  <2>6. /\ r3.tokens = s.r.tokens /\ r3.items = s.r.items /\ r3.row_value_bytes = s.r.row_value_bytes
        /\ r3.unparsed_regions = s.r.unparsed_regions /\ r3.unknown_token = s.r.unknown_token
    <3>1. \A k \in {"tokens", "items", "row_value_bytes", "unparsed_regions", "unknown_token"} :
             k \in StreamFields \ ParamFields
      BY Zenon, FieldNames DEF ParamFields, AssignFields
    <3> QED
      BY Zenon, <2>3, <3>1 DEF Same
  <2>7. Carries(m, s)
    BY Zenon, <2>3, <2>4, <2>5, <2>6 DEF Carries, Shaped, Same
  <2>8. Formatted(m)
    BY Zenon, <2>5 DEF Sound, Formatted
  <2>9. Metered(m, limit)
    <3> DEFINE p == s.r.raw_parameter_values
               z == Tds5!Sum0(s.r.row_value_bytes)
    <3>1. /\ p \in Strings /\ s.used = Tds5!Sum0(Lengths(p)) + z /\ s.limit = limit
          /\ s.r.row_value_bytes \in Seq(Nat) /\ s.used \in Nat
      BY Zenon DEF Sound, Metered
    <3>2. z \in Nat
      BY Zenon, <3>1, SumJoined
    <3>3. raw \in Strings /\ Lengths(raw) = Lengths(p) \o Lengths(v.values)
      BY Zenon, <2>2, <3>1, LengthsJoined
    <3>4. Lengths(p) \in Seq(Nat) /\ Lengths(v.values) \in Seq(Nat)
      BY Zenon, <2>2, <3>1, LengthsAre
    <3> DEFINE x == Tds5!Sum0(Lengths(p))
               y == Tds5!Sum0(Lengths(v.values))
               w == Tds5!Sum0(Lengths(raw))
               u == s.used
    <3>5. w = x + y /\ x \in Nat /\ y \in Nat
      BY Zenon, <3>3, <3>4, SumJoined
    <3>6. u = x + z /\ v.used = u + y
      BY Zenon, <2>2, <3>1
    <3> HIDE DEF raw, w, x, y, z, u, p
    <3>7. v.used = w + z
      BY ONLY SMT, <3>2, <3>5, <3>6
    <3> QED
      BY ZenonT(60), <2>2, <2>3, <2>4, <2>5, <2>6, <3>1, <3>3, <3>7 DEF Metered, w, z
  <2>10. s.at < v.at /\ 1 \in {0, 1}
    <3>1. s.at \in Nat
      BY Zenon DEF Sound, Placed
    <3> QED
      BY <2>2, <3>1
  <2> DEFINE token == \hd7
  <2>11. token \in Byte
    BY Zenon
  <2> HIDE DEF token
  <2>12. Follows(b, o, s, Tds5!Took(m, token, v.at, 1), limit)
    BY Zenon, <2>2, <2>7, <2>8, <2>9, <2>10, <2>11, TookFollows
  <2> QED
    BY Zenon, <2>12 DEF token
<1> HIDE DEF v, m
<1> QED
  BY Zenon, <1>2, <1>3, FailFollows DEF q

\* So are ROW
LEMMA ReadRowFollows ==
    ASSUME NEW b \in Seq(Byte), NEW o \in Nat, NEW limit \in Nat, NEW s, Sound(b, o, s, limit),
           s.state = "reading", NEW token \in Byte, NEW i \in Nat, s.at < i, i <= Len(b),
           NEW columns, IsColumns(columns)
    PROVE  Follows(b, o, s, Tds5!ReadRow(b, s, token, i, columns), limit)
<1> DEFINE q == Tds5!ReadRow(b, s, token, i, columns)
           v == Tds5!Values(b, i, columns, s.used, s.limit)
           r == s.r
           row == s.r.row_value_bytes \o Lengths(v.values)
           r1 == Put(r, "row_value_bytes", row)
           m1 == Put(s, "r", r1)
           m == Put(m1, "used", v.used)
<1>1. Shaped(s) /\ Fielded(s, StateFields) /\ Fielded(r, StreamFields)
  BY Zenon DEF Sound, Shaped
<1>2. q = Tds5!Fail(s) \/ (v.at # Tds5!Failed /\ q = Tds5!Took(m, token, v.at, 1))
  <2>1. DOMAIN s = StateFields /\ DOMAIN s.r = StreamFields
    BY Zenon, <1>1 DEF Fielded
  <2> QED
    BY Zenon, <2>1, FieldNames DEF Tds5!ReadRow, Tds5!Then, Put, Lengths
<1> HIDE DEF q
<1>3. ASSUME v.at # Tds5!Failed
      PROVE  Follows(b, o, s, Tds5!Took(m, token, v.at, 1), limit)
  <2>1. ValuesAt(b, i, v, s.used, limit)
    <3>1. s.used \in Nat /\ s.used <= limit /\ s.limit = limit
      BY Zenon DEF Sound, Metered
    <3> QED
      BY Zenon, <3>1, ValuesRead
  <2> HIDE DEF v
  <2>2. /\ v.at \in Nat /\ i <= v.at /\ v.at <= Len(b) /\ v.values \in Strings
        /\ v.used = s.used + Tds5!Sum0(Lengths(v.values)) /\ v.used \in Nat /\ v.used <= limit
    BY Zenon, <1>3, <2>1 DEF ValuesAt, Reached
  <2>3. IsPut(r1, r, StreamFields, "row_value_bytes", row)
    <3>1. "row_value_bytes" \in StreamFields
      BY Zenon, FieldNames
    <3> HIDE DEF row, r
    <3> QED
      BY ONLY Zenon, <1>1, <3>1, PutOne
  <2> HIDE DEF r1
  <2>4. Same(m, s, StateFields, {"r", "used"}) /\ m.r = r1 /\ m.used = v.used
    <3> DEFINE u == v.used
    <3>1. "r" \in StateFields /\ "used" \in StateFields /\ "r" \in StateFields \ {"used"}
      BY Zenon, FieldNames
    <3> HIDE DEF u
    <3>2. IsPut(m1, s, StateFields, "r", r1)
      BY ONLY Zenon, <1>1, <3>1, PutOne
    <3> HIDE DEF m1
    <3>3. IsPut(m, m1, StateFields, "used", u)
      <4>1. Fielded(m1, StateFields)
        BY Zenon, <3>2 DEF IsPut, Same
      <4>2. m = Put(m1, "used", u)
        BY Zenon DEF u
      <4> QED
        BY ONLY Zenon, <3>1, <4>1, <4>2, PutOne
    <3> HIDE DEF m
    <3>4. Same(m, s, StateFields, {"r"} \cup {"used"})
      BY Zenon, <3>2, <3>3, SameAgain DEF IsPut
    <3>5. {"r"} \cup {"used"} = {"r", "used"}
      BY Zenon
    <3> QED
      BY Zenon, <3>1, <3>2, <3>3, <3>4, <3>5 DEF IsPut, Same, u
  <2> HIDE DEF m
  <2>5. /\ m.at = s.at /\ m.state = s.state /\ m.parameters = s.parameters /\ m.row = s.row
        /\ m.alternates = s.alternates /\ m.limit = s.limit
    <3>1. \A k \in {"at", "state", "parameters", "row", "alternates", "limit"} :
             k \in StateFields \ {"r", "used"}
      BY Zenon, FieldNames
    <3> QED
      BY Zenon, <2>4, <3>1 DEF Same
  <2>6. /\ r1.tokens = r.tokens /\ r1.items = r.items /\ r1.raw_parameter_values = r.raw_parameter_values
        /\ r1.unparsed_regions = r.unparsed_regions /\ r1.unknown_token = r.unknown_token
        /\ r1.row_value_bytes = row
    <3>1. \A k \in {"tokens", "items", "raw_parameter_values", "unparsed_regions", "unknown_token"} :
             k \in StreamFields \ {"row_value_bytes"}
      BY Zenon, FieldNames
    <3> HIDE DEF row
    <3> QED
      BY Zenon, <2>3, <3>1 DEF IsPut, Same
  <2>7. Carries(m, s)
    BY Zenon, <2>3, <2>4, <2>5, <2>6 DEF Carries, Shaped, Same, IsPut
  <2>8. Formatted(m)
    BY Zenon, <2>5 DEF Sound, Formatted
  <2>9. Metered(m, limit)
    <3> DEFINE p == s.r.row_value_bytes
               l == Lengths(v.values)
               x == Tds5!Sum0(Lengths(s.r.raw_parameter_values))
               z == Tds5!Sum0(p)
               y == Tds5!Sum0(l)
               w == Tds5!Sum0(row)
               u == s.used
    <3>1. /\ p \in Seq(Nat) /\ u = x + z /\ s.limit = limit
          /\ s.r.raw_parameter_values \in Strings /\ u \in Nat
      BY Zenon DEF Sound, Metered
    <3>2. l \in Seq(Nat) /\ Lengths(s.r.raw_parameter_values) \in Seq(Nat)
      BY Zenon, <2>2, <3>1, LengthsAre
    <3>3. x \in Nat
      BY Zenon, <3>2, SumJoined
    <3>4. row \in Seq(Nat) /\ w = z + y /\ z \in Nat /\ y \in Nat
      BY Zenon, <3>1, <3>2, SumJoined
    <3>5. v.used = u + y
      BY Zenon, <2>2
    <3> HIDE DEF row, w, x, y, z, u, p, l
    <3>6. v.used = x + w
      BY ONLY SMT, <3>1, <3>3, <3>4, <3>5
    <3> QED
      BY Zenon, <2>2, <2>4, <2>5, <2>6, <3>1, <3>4, <3>6 DEF Metered, w, x
  <2>10. s.at < v.at /\ 1 \in {0, 1}
    <3>1. s.at \in Nat
      BY Zenon DEF Sound, Placed
    <3> QED
      BY <2>2, <3>1
  <2> QED
    BY Zenon, <2>2, <2>7, <2>8, <2>9, <2>10, TookFollows
<1> HIDE DEF v, m
<1> QED
  BY Zenon, <1>2, <1>3, FailFollows DEF q

\* and ALTROW.
LEMMA ReadAltRowFollows ==
    ASSUME NEW b \in Seq(Byte), NEW o \in Nat, NEW limit \in Nat, NEW s, Sound(b, o, s, limit),
           s.state = "reading", s.at < Len(b), \hd3 \in Byte
    PROVE  Follows(b, o, s, Tds5!ReadAltRow(b, s), limit)
<1> DEFINE id == Tds5!U16(b, s.at + 1)
           token == \hd3
           i == s.at + 3
<1>1. \/ Tds5!ReadAltRow(b, s) = Tds5!Fail(s)
      \/ /\ ~(i > Len(b)) /\ id \in DOMAIN s.alternates
         /\ Tds5!ReadAltRow(b, s) = Tds5!ReadRow(b, s, token, i, s.alternates[id])
  BY Zenon DEF Tds5!ReadAltRow
<1>2. token \in Byte
  BY Zenon
<1> HIDE DEF token
<1>3. s.at \in Nat
  BY Zenon DEF Sound, Placed
<1>4. i \in Nat /\ s.at < i /\ (~(i > Len(b)) => i <= Len(b))
  BY <1>3
<1> HIDE DEF i, id
<1>5. id \in DOMAIN s.alternates => IsColumns(s.alternates[id])
  BY Zenon DEF Sound, Formatted
<1>6. Follows(b, o, s, Tds5!Fail(s), limit)
  BY Zenon, FailFollows
<1> DEFINE q == Tds5!ReadRow(b, s, token, i, s.alternates[id])
<1>7. ~(i > Len(b)) /\ id \in DOMAIN s.alternates => Follows(b, o, s, q, limit)
  BY ONLY ZenonT(60), <1>2, <1>4, <1>5, b \in Seq(Byte), o \in Nat, limit \in Nat, Sound(b, o, s,
     limit),
     s.state = "reading", ReadRowFollows
<1> HIDE DEF q
<1> QED
  BY ONLY Zenon, <1>1, <1>6, <1>7 DEF q

FormatFields == {"parameters", "row", "alternates"}

\* m is s with the format k.
Reformatted(m, s, k, v, limit) ==
    /\ Carries(m, s) /\ Metered(m, limit)
    /\ \A j \in FormatFields \ {k} : m[j] = s[j]
    /\ m[k] = v

\* A new format is no token and no value.
LEMMA PutCarries ==
    ASSUME NEW s, NEW b, NEW o, NEW limit, Sound(b, o, s, limit), NEW k \in FormatFields, NEW v
    PROVE  Reformatted(Put(s, k, v), s, k, v, limit)
<1> DEFINE m == Put(s, k, v)
<1>1. IsPut(m, s, StateFields, k, v)
  <2>1. Fielded(s, StateFields) /\ k \in StateFields
    BY Zenon, FieldNames DEF Sound, Shaped, FormatFields
  <2> QED
    BY ONLY Zenon, <2>1, PutOne
<1> HIDE DEF m
<1>2. /\ m.at = s.at /\ m.state = s.state /\ m.r = s.r /\ m.limit = s.limit /\ m.used = s.used
  <2>1. \A j \in {"at", "state", "r", "limit", "used"} : j \in StateFields \ {k}
    BY Zenon, FieldNames DEF FormatFields
  <2> QED
    BY Zenon, <1>1, <2>1 DEF IsPut, Same
<1>3. \A j \in FormatFields \ {k} : m[j] = s[j]
  <2>1. \A j \in FormatFields \ {k} : j \in StateFields \ {k}
    BY Zenon, FieldNames DEF FormatFields
  <2> QED
    BY Zenon, <1>1, <2>1 DEF IsPut, Same
<1>4. Carries(m, s)
  BY Zenon, <1>1, <1>2 DEF Carries, Shaped, Sound, IsPut, Same
<1>5. Metered(m, limit)
  BY Zenon, <1>2 DEF Metered, Sound
<1> QED
  BY Zenon, <1>1, <1>3, <1>4, <1>5 DEF m, IsPut, Reformatted

\* Every framed token is read in one of these ways.
LEMMA FramedKinds ==
    ASSUME NEW token \in Tds5!FramedTokens
    PROVE  /\ \/ token \in Tds5!CommandTokens
              \/ token = \h65
              \/ token \in {\h20, \hec}
              \/ token \in {\h61, \hee}
              \/ token = \ha8
              \/ token = \h22
           /\ token = \h22 => Tds5!LengthWidth(token) = 4
           /\ Tds5!LengthWidth(token) \in Widths
<1>1. \/ token \in Tds5!CommandTokens
      \/ token = \h65
      \/ token \in {\h20, \hec}
      \/ token \in {\h61, \hee}
      \/ token = \ha8
      \/ token = \h22
  BY SMT DEF Tds5!FramedTokens, Tds5!U8Tokens, Tds5!U16Tokens, Tds5!U32Tokens, Tds5!CommandTokens
<1>2. /\ token \in Tds5!U8Tokens => Tds5!LengthWidth(token) \in Widths
      /\ token \notin Tds5!U8Tokens => Tds5!LengthWidth(token) \in Widths
  BY Zenon DEF Tds5!FramedTokens, Tds5!LengthWidth, Widths
<1>3. token = \h22 => token \notin Tds5!U8Tokens /\ token \notin Tds5!U16Tokens /\ token \in Tds5!U32Tokens
  BY SMT DEF Tds5!U8Tokens, Tds5!U16Tokens, Tds5!U32Tokens, Tds5!generic_u16
<1>4. token = \h22 => Tds5!LengthWidth(token) = 4
  <2> HIDE DEF Tds5!U8Tokens, Tds5!U16Tokens, Tds5!U32Tokens
  <2> QED
    BY Zenon, <1>3 DEF Tds5!LengthWidth
<1> QED
  BY ONLY Zenon, <1>1, <1>2, <1>4

\* What a framed token with the body from i to e may come to
IsFramed(q, b, s, token, i, e) ==
    LET type == Tds5!U16(b, i + 1)
        pf == Tds5!parse_parameter_format(b, i, e, token = \h20)
        rf == Tds5!parse_row_format(b, i, e, token = \h61)
        af == Tds5!parse_alternate_format(b, i, e)
    IN  \/ q = Tds5!Fail(s)
        \/ q = Tds5!Took(s, token, e, 1)
        \/ q = Tds5!Took([s EXCEPT !.message = Tds5!Some(type), !.r.message_types = Append(@, type)],
                         token, e, 1)
        \/ pf.ok /\ q = Tds5!Took([s EXCEPT !.parameters = pf.columns], token, e, 1)
        \/ rf.ok /\ q = Tds5!Took([s EXCEPT !.row = rf.columns], token, e, 1)
        \/ af.ok /\ q = Tds5!Took([s EXCEPT !.alternates = Tds5!With(@, Tds5!U16(b, i), af.columns)],
                                  token, e, 1)
        \/ token = \h22 /\ q = Tds5!Took(s, token, e, 0)

\* A token with a length is read in one of these ways.
LEMMA FramedIs ==
    ASSUME NEW b, NEW s, NEW token \in Tds5!FramedTokens, NEW i, NEW e
    PROVE  IsFramed(Tds5!ReadFramed(b, s, token, i, e), b, s, token, i, e)
<1> DEFINE q == Tds5!ReadFramed(b, s, token, i, e)
           type == Tds5!U16(b, i + 1)
           pf == Tds5!parse_parameter_format(b, i, e, token = \h20)
           rf == Tds5!parse_row_format(b, i, e, token = \h61)
           af == Tds5!parse_alternate_format(b, i, e)
           t1 == Tds5!Took(s, token, e, 1)
           t2 == Tds5!Took([s EXCEPT !.message = Tds5!Some(type), !.r.message_types = Append(@, type)],
                                token, e, 1)
           t3 == Tds5!Took([s EXCEPT !.parameters = pf.columns], token, e, 1)
           t4 == Tds5!Took([s EXCEPT !.row = rf.columns], token, e, 1)
           t5 == Tds5!Took([s EXCEPT !.alternates = Tds5!With(@, Tds5!U16(b, i), af.columns)],
                                         token, e, 1)
           t6 == Tds5!Took(s, token, e, 0)
           body == Tds5!CommandBody(b, i, e, token)
           g1 == token \in Tds5!CommandTokens
           g2 == token = \h65
           g3 == token \in {\h20, \hec}
           g4 == token \in {\h61, \hee}
           g5 == token = \ha8
           g6 == token = \h22
           short == e - i < 3
           full == Tds5!U16(b, i) \notin DOMAIN s.alternates /\ Tds5!Cardinality(DOMAIN s.alternates) >= MaxColumns
<1>1. g1 \/ g2 \/ g3 \/ g4 \/ g5 \/ g6
  BY ONLY Zenon, FramedKinds, token \in Tds5!FramedTokens
<1>2. q = CASE g1 -> IF body THEN t1 ELSE Tds5!Fail(s)
            [] g2 -> IF short THEN Tds5!Fail(s) ELSE t2
            [] g3 -> IF ~pf.ok THEN Tds5!Fail(s) ELSE t3
            [] g4 -> IF ~rf.ok THEN Tds5!Fail(s) ELSE t4
            [] g5 -> IF ~af.ok THEN Tds5!Fail(s) ELSE IF full THEN Tds5!Fail(s) ELSE t5
            [] g6 -> t6
  BY Zenon DEF Tds5!ReadFramed, Tds5!Given
<1> HIDE DEF q, t1, t2, t3, t4, t5, t6, pf, rf, af, body, full, short, g1, g2, g3, g4, g5, g6
<1>3. \/ q = Tds5!Fail(s)
      \/ q = t1
      \/ q = t2
      \/ pf.ok /\ q = t3
      \/ rf.ok /\ q = t4
      \/ af.ok /\ q = t5
      \/ g6 /\ q = t6
  BY ONLY SMT, <1>1, <1>2
<1>4. IsFramed(q, b, s, token, i, e)
  BY Zenon, <1>3 DEF IsFramed, t1, t2, t3, t4, t5, t6, pf, rf, af, g6
<1> QED
  BY Zenon, <1>4 DEF q

\* A sound state carries itself.
LEMMA CarriesSelf ==
    ASSUME NEW b, NEW o, NEW s, NEW limit, Sound(b, o, s, limit)
    PROVE  Carries(s, s) /\ Formatted(s) /\ Metered(s, limit)
BY Zenon DEF Sound, Carries

\* The message whose parameters come next is carried.
LEMMA MessageCarries ==
    ASSUME NEW b, NEW o, NEW s, NEW limit, Sound(b, o, s, limit), NEW x, NEW type
    PROVE  LET m == [s EXCEPT !.message = x, !.r.message_types = Append(@, type)]
           IN  Carries(m, s) /\ Formatted(m) /\ Metered(m, limit)
<1> DEFINE m0 == [s EXCEPT !.message = x, !.r.message_types = Append(@, type)]
           r == s.r
           l == Append(s.r.message_types, type)
           r1 == Put(r, "message_types", l)
           m1 == Put(s, "message", x)
           m == Put(m1, "r", r1)
<1>1. Fielded(s, StateFields) /\ Fielded(r, StreamFields)
  BY Zenon DEF Sound, Shaped
<1>2. m0 = m
  <2>1. DOMAIN s = StateFields /\ DOMAIN s.r = StreamFields
    BY Zenon, <1>1 DEF Fielded
  <2> QED
    BY Zenon, <2>1, FieldNames DEF Put
<1>3. /\ "message_types" \in StreamFields /\ "message" \in StateFields /\ "r" \in StateFields
      /\ \A k \in {"tokens", "items", "row_value_bytes", "raw_parameter_values", "unparsed_regions",
                   "unknown_token"} : k \in StreamFields \ {"message_types"}
      /\ \A k \in {"at", "state", "parameters", "row", "alternates", "limit", "used"} :
            k \in StateFields \ {"message"} /\ k \in StateFields \ {"r"}
  BY Zenon, FieldNames
<1> HIDE DEF m0, r, l
<1>4. IsPut(r1, r, StreamFields, "message_types", l)
  BY ONLY Zenon, <1>1, <1>3, PutOne
<1>5. IsPut(m1, s, StateFields, "message", x)
  BY ONLY Zenon, <1>1, <1>3, PutOne
<1> HIDE DEF r1, m1
<1>6. IsPut(m, m1, StateFields, "r", r1)
  <2>1. Fielded(m1, StateFields)
    BY Zenon, <1>5 DEF IsPut, Same
  <2> QED
    BY ONLY Zenon, <1>3, <2>1, PutOne
<1> HIDE DEF m
<1>7. /\ m.r = r1 /\ m.at = s.at /\ m.state = s.state /\ m.parameters = s.parameters /\ m.row = s.row
      /\ m.alternates = s.alternates /\ m.limit = s.limit /\ m.used = s.used
  BY Zenon, <1>3, <1>5, <1>6 DEF IsPut, Same
<1>8. /\ r1.tokens = r.tokens /\ r1.items = r.items /\ r1.row_value_bytes = r.row_value_bytes
      /\ r1.raw_parameter_values = r.raw_parameter_values
      /\ r1.unparsed_regions = r.unparsed_regions /\ r1.unknown_token = r.unknown_token
  BY Zenon, <1>3, <1>4 DEF IsPut, Same
<1>9. Carries(m, s)
  BY Zenon, <1>4, <1>6, <1>7, <1>8 DEF Carries, Shaped, IsPut, Same, r
<1>10. Formatted(m)
  BY Zenon, <1>7 DEF Formatted, Sound
<1>11. Metered(m, limit)
  BY Zenon, <1>7, <1>8 DEF Metered, Sound, r
<1> QED
  BY Zenon, <1>2, <1>9, <1>10, <1>11 DEF m0

\* A new format is carried.
LEMMA FormatCarries ==
    ASSUME NEW b, NEW o, NEW s, NEW limit, Sound(b, o, s, limit), NEW cs, IsColumns(cs), NEW id
    PROVE  /\ LET m == [s EXCEPT !.parameters = cs]
              IN  Carries(m, s) /\ Formatted(m) /\ Metered(m, limit)
           /\ LET m == [s EXCEPT !.row = cs]
              IN  Carries(m, s) /\ Formatted(m) /\ Metered(m, limit)
           /\ LET m == [s EXCEPT !.alternates = Tds5!With(@, id, cs)]
              IN  Carries(m, s) /\ Formatted(m) /\ Metered(m, limit)
<1> DEFINE F == FormatFields
           w == Tds5!With(s.alternates, id, cs)
           m1 == Put(s, "parameters", cs)
           m2 == Put(s, "row", cs)
           m3 == Put(s, "alternates", w)
<1>1. /\ m1 = [s EXCEPT !.parameters = cs] /\ m2 = [s EXCEPT !.row = cs]
      /\ m3 = [s EXCEPT !.alternates = Tds5!With(@, id, cs)]
  BY Zenon DEF Put
<1>2. "parameters" \in F /\ "row" \in F /\ "alternates" \in F
  BY Zenon DEF FormatFields
<1>3. Formatted(s)
  BY Zenon DEF Sound
<1>4. \A k \in DOMAIN w : IsColumns(w[k])
  <2>1. w = [k \in DOMAIN s.alternates \cup {id} |-> IF k = id THEN cs ELSE s.alternates[k]]
    BY Zenon DEF Tds5!With
  <2> HIDE DEF w
  <2> QED
    BY Zenon, <1>3, <2>1 DEF Formatted
<1> HIDE DEF w
<1>5. Reformatted(m1, s, "parameters", cs, limit)
  BY Zenon, <1>2, PutCarries
<1>6. Reformatted(m2, s, "row", cs, limit)
  BY Zenon, <1>2, PutCarries
<1>7. Reformatted(m3, s, "alternates", w, limit)
  BY Zenon, <1>2, PutCarries
<1>8. /\ "row" \in F \ {"parameters"} /\ "alternates" \in F \ {"parameters"}
      /\ "parameters" \in F \ {"row"} /\ "alternates" \in F \ {"row"}
      /\ "parameters" \in F \ {"alternates"} /\ "row" \in F \ {"alternates"}
  BY Zenon DEF FormatFields
<1> HIDE DEF m1, m2, m3
<1>9. Formatted(m1) /\ Formatted(m2) /\ Formatted(m3)
  BY ZenonT(60), <1>3, <1>4, <1>5, <1>6, <1>7, <1>8 DEF Formatted, Reformatted
<1> QED
  BY Zenon, <1>1, <1>5, <1>6, <1>7, <1>9 DEF Reformatted

\* Each of them follows: the token lies behind the last one and ends where its length says.
LEMMA ReadFramedFollows ==
    ASSUME NEW b \in Seq(Byte), NEW o \in Nat, NEW limit \in Nat, NEW s, Sound(b, o, s, limit),
           s.state = "reading", NEW token \in Tds5!FramedTokens, token \in Byte, NEW i \in Nat,
           NEW e \in Nat, e <= Len(b), s.at < e, token = \h22 => s.at + 5 <= e
    PROVE  Follows(b, o, s, Tds5!ReadFramed(b, s, token, i, e), limit)
<1> DEFINE q == Tds5!ReadFramed(b, s, token, i, e)
           type == Tds5!U16(b, i + 1)
           pf == Tds5!parse_parameter_format(b, i, e, token = \h20)
           rf == Tds5!parse_row_format(b, i, e, token = \h61)
           af == Tds5!parse_alternate_format(b, i, e)
           id == Tds5!U16(b, i)
           m2 == [s EXCEPT !.message = Tds5!Some(type), !.r.message_types = Append(@, type)]
           m3 == [s EXCEPT !.parameters = pf.columns]
           m4 == [s EXCEPT !.row = rf.columns]
           m5 == [s EXCEPT !.alternates = Tds5!With(@, id, af.columns)]
           empty == token = \h22
           Kept(m) == Carries(m, s) /\ Formatted(m) /\ Metered(m, limit)
<1>1. \/ q = Tds5!Fail(s)
      \/ q = Tds5!Took(s, token, e, 1)
      \/ q = Tds5!Took(m2, token, e, 1)
      \/ pf.ok /\ q = Tds5!Took(m3, token, e, 1)
      \/ rf.ok /\ q = Tds5!Took(m4, token, e, 1)
      \/ af.ok /\ q = Tds5!Took(m5, token, e, 1)
      \/ empty /\ q = Tds5!Took(s, token, e, 0)
  <2>1. IsFramed(q, b, s, token, i, e)
    BY Zenon, FramedIs
  <2> HIDE DEF q
  <2> QED
    BY Zenon, <2>1 DEF IsFramed
<1>2. empty => s.at + 5 <= e
  BY Zenon
<1>3. (pf.ok => IsColumns(pf.columns)) /\ (rf.ok => IsColumns(rf.columns)) /\ (af.ok => IsColumns(af.columns))
  <2> DEFINE wide1 == token = \h20
             wide2 == token = \h61
  <2>1. wide1 \in BOOLEAN /\ wide2 \in BOOLEAN
    BY Zenon
  <2>2. /\ pf = Tds5!parse_parameter_format(b, i, e, wide1)
        /\ rf = Tds5!parse_row_format(b, i, e, wide2)
    BY Zenon
  <2> HIDE DEF wide1, wide2, pf, rf, af
  <2> QED
    BY ONLY ZenonT(60), <2>1, <2>2, b \in Seq(Byte), e \in Nat, e <= Len(b), i \in Nat,
       FormatsRead DEF af
<1> HIDE DEF q, pf, rf, af, empty, type, id
<1>4. Kept(s)
  BY Zenon, CarriesSelf
<1>5. Kept(m2)
  BY Zenon, MessageCarries
<1>6. pf.ok => Kept(m3)
  BY Zenon, <1>3, FormatCarries
<1>7. rf.ok => Kept(m4)
  BY Zenon, <1>3, FormatCarries
<1>8. af.ok => Kept(m5)
  BY Zenon, <1>3, FormatCarries
<1>9. 0 \in {0, 1} /\ 1 \in {0, 1}
  BY Zenon
<1> HIDE DEF m2, m3, m4, m5
<1>10. \A m : Kept(m) => Follows(b, o, s, Tds5!Took(m, token, e, 1), limit)
  BY ONLY ZenonT(60), <1>9, b \in Seq(Byte), o \in Nat, Sound(b, o, s, limit), s.state = "reading",
     token \in Byte, e \in Nat, e <= Len(b), s.at < e, TookFollows
<1>11. empty => Follows(b, o, s, Tds5!Took(s, token, e, 0), limit)
  BY ONLY ZenonT(60), <1>2, <1>4, <1>9, b \in Seq(Byte), o \in Nat, Sound(b, o, s, limit),
     s.state = "reading",
     token \in Byte, e \in Nat, e <= Len(b), s.at < e, TookFollows
<1>12. Follows(b, o, s, Tds5!Fail(s), limit)
  BY ONLY Zenon, Sound(b, o, s, limit), s.state = "reading", FailFollows
<1> HIDE DEF Kept
<1> QED
  BY ONLY ZenonT(60), <1>1, <1>4, <1>5, <1>6, <1>7, <1>8, <1>10, <1>11, <1>12 DEF q

\* Whichever token comes next, reading it follows.
LEMMA ReadTokenFollows ==
    ASSUME NEW b \in Seq(Byte), NEW o \in Nat, NEW limit \in Nat, NEW s, Sound(b, o, s, limit),
           s.state = "reading", s.at < Len(b)
    PROVE  Follows(b, o, s, Tds5!ReadToken(b, s), limit)
<1> DEFINE q == Tds5!ReadToken(b, s)
           token == Tds5!At(b, s.at)
           i == s.at + 1
           w == Tds5!LengthWidth(token)
           e == Tds5!Pass(b, i, Len(b), Tds5!Counted(w))
           f == Tds5!Pass(b, i, Len(b), Tds5!Fixed(Tds5!FixedBody(token)))
           framed == Tds5!ReadFramed(b, s, token, i + w, e)
           fixed == Tds5!Took(s, token, f, 0)
           row == Tds5!ReadRow(b, s, token, i, s.row)
           g1 == token \notin Tds5!PublishedTokens
           g2 == token \in Tds5!FramedTokens
           g3 == token \in Tds5!FixedTokens
           g4 == token = \hd7
           g5 == token = \hd1
           g6 == token = \hd3
<1>1. q = CASE g1 -> Tds5!StopAt(b, s, token)
            [] g2 -> IF e = Tds5!Failed THEN Tds5!Fail(s) ELSE framed
            [] g3 -> IF f = Tds5!Failed THEN Tds5!Fail(s) ELSE fixed
            [] g4 -> Tds5!ReadParams(b, s)
            [] g5 -> IF s.row = <<>> THEN Tds5!Fail(s) ELSE row
            [] g6 -> Tds5!ReadAltRow(b, s)
  BY Zenon DEF Tds5!ReadToken, Tds5!From
<1>2. g1 \/ g2 \/ g3 \/ g4 \/ g5 \/ g6
  BY Zenon DEF Tds5!PublishedTokens, Tds5!MetadataTokens
<1>3. s.at \in Nat /\ IsColumns(s.row)
  BY Zenon DEF Sound, Placed, Formatted
<1>4. token \in Byte
  <2>1. s.at + 1 <= Len(b)
    BY <1>3
  <2> QED
    BY Zenon, <1>3, <2>1, ByteRead
<1>5. (g4 => \hd7 \in Byte) /\ (g6 => \hd3 \in Byte)
  BY Zenon, <1>4
<1>6. i \in Nat /\ s.at < i /\ i <= Len(b) /\ Len(b) \in Nat /\ Len(b) <= Len(b) /\ i = s.at + 1
  BY <1>3
<1>7. Follows(b, o, s, Tds5!Fail(s), limit)
  BY Zenon, FailFollows
<1>8. Follows(b, o, s, Tds5!StopAt(b, s, token), limit)
  BY Zenon, StopFollows
<1>9. g2 /\ e # Tds5!Failed => Follows(b, o, s, framed, limit)
  <2> SUFFICES ASSUME g2, e # Tds5!Failed PROVE Follows(b, o, s, framed, limit)
    BY Zenon
  <2> DEFINE width == Tds5!Counted(w)
             empty == token = \h22
  <2>1. w \in Widths /\ (empty => w = 4)
    BY ONLY Zenon, g2, FramedKinds
  <2>2. IsField(width) /\ width[1] = w /\ w \in Nat
    BY Zenon, <2>1, Fields
  <2>3. e \in Nat /\ i + width[1] <= e /\ e <= Len(b)
    BY Zenon, <1>6, <2>2, Passes
  <2> HIDE DEF token, i, w, e, width, empty
  <2>4. i + w \in Nat /\ s.at < e /\ (empty => s.at + 5 <= e)
    BY SMTT(60), <1>3, <1>6, <2>1, <2>2, <2>3
  <2> QED
    BY Zenon, <1>4, <2>3, <2>4, ReadFramedFollows DEF empty
<1>10. g3 /\ f # Tds5!Failed => Follows(b, o, s, fixed, limit)
  <2> SUFFICES ASSUME g3, f # Tds5!Failed PROVE Follows(b, o, s, fixed, limit)
    BY Zenon
  <2> DEFINE n == Tds5!FixedBody(token)
             width == Tds5!Fixed(n)
  <2>1. n \in Nat /\ 4 <= n
    BY DEF Tds5!FixedBody
  <2>2. IsField(width) /\ width[1] = n
    <3> HIDE DEF n
    <3> QED
      BY Zenon, <2>1, Fields
  <2>3. f \in Nat /\ i + width[1] <= f /\ f <= Len(b)
    BY Zenon, <1>6, <2>2, Passes
  <2> HIDE DEF i, n, width, f
  <2>4. s.at < f /\ s.at + 5 <= f /\ 0 \in {0, 1}
    BY SMTT(60), <1>3, <1>6, <2>1, <2>2, <2>3
  <2>5. Carries(s, s) /\ Formatted(s) /\ Metered(s, limit)
    BY Zenon, CarriesSelf
  <2> HIDE DEF token
  <2> QED
    BY Zenon, <1>4, <2>3, <2>4, <2>5, TookFollows
<1>11. g4 => Follows(b, o, s, Tds5!ReadParams(b, s), limit)
  BY ONLY SMTT(60), <1>5, b \in Seq(Byte), o \in Nat, limit \in Nat, Sound(b, o, s, limit),
     s.state = "reading",
     s.at < Len(b), ReadParamsFollows
<1>12. g6 => Follows(b, o, s, Tds5!ReadAltRow(b, s), limit)
  BY ONLY SMTT(60), <1>5, b \in Seq(Byte), o \in Nat, limit \in Nat, Sound(b, o, s, limit),
     s.state = "reading",
     s.at < Len(b), ReadAltRowFollows
<1>13. Follows(b, o, s, row, limit)
  <2> HIDE DEF token, i
  <2> QED
    BY Zenon, <1>3, <1>4, <1>6, ReadRowFollows
<1> HIDE DEF q, e, f, framed, fixed, row, g1, g2, g3, g4, g5, g6, token
<1>14. Follows(b, o, s, q, limit)
  BY ONLY SMTT(60), <1>1, <1>2, <1>7, <1>8, <1>9, <1>10, <1>11, <1>12, <1>13
<1> QED
  BY Zenon, <1>14 DEF q

StreamDone(b, s) == s.state # "reading" \/ s.at = Len(b)

\* One turn of the loop: nothing happens at the end, and otherwise the reading is longer or has an
\* item more.
LEMMA NextTokenFollows ==
    ASSUME NEW b \in Seq(Byte), NEW o \in Nat, NEW limit \in Nat, NEW s, Sound(b, o, s, limit)
    PROVE  LET q == Tds5!NextToken(b, s)
           IN  /\ Sound(b, o, q, limit)
               /\ StreamDone(b, s) => q = s
               /\ StreamDone(b, s) \/ Advances(s, q)
<1> DEFINE q == Tds5!NextToken(b, s)
<1>1. (StreamDone(b, s) => q = s) /\ (~StreamDone(b, s) => q = Tds5!ReadToken(b, s))
  BY Zenon DEF Tds5!NextToken, StreamDone
<1>2. ~StreamDone(b, s) => s.state = "reading" /\ s.at < Len(b)
  <2>1. s.at \in Nat /\ s.at <= Len(b) /\ Len(b) \in Nat
    <3>1. s.at \in Nat /\ s.at <= Len(b)
      BY Zenon DEF Sound, Placed
    <3> QED
      BY <3>1
  <2> QED
    BY <2>1 DEF StreamDone
<1>3. ~StreamDone(b, s) => Follows(b, o, s, Tds5!ReadToken(b, s), limit)
  BY Zenon, <1>2, ReadTokenFollows
<1> HIDE DEF q
<1> QED
  BY Zenon, <1>1, <1>3 DEF q, Follows

IsTokens(turn, b, s, n) ==
    /\ turn[0] = s
    /\ \A k \in 1..n : turn[k] = Tds5!NextToken(b, turn[k - 1])
    /\ Tds5!ReadTokens(b, s) = turn[n]

\* Tokens are read by such a loop.
LEMMA TokensLoop ==
    ASSUME NEW b, NEW s, NEW n, n = MaxTokens + (Len(b) - s.at) \div 5 + 1, n \in Nat
    PROVE  \E turn : IsTokens(turn, b, s, n)
<1> DEFINE x == [loop |-> "tokens", b |-> b]
           Is(f) == f = [k \in 0..n |-> IF k = 0 THEN s ELSE Tds5!NextToken(b, f[k - 1])]
           t == CHOOSE f : Is(f)
<1>1. \A k, v : Run(x, k, v) = Tds5!NextToken(b, v)
  BY Zenon DEF Run
<1>2. Tds5!ReadTokens(b, s) = t[n]
  BY Zenon DEF Tds5!ReadTokens
<1> HIDE DEF x
<1>3. \A f : Is(f) <=> IsLoop(f, x, s, n)
  BY <1>1 DEF IsLoop
<1> HIDE DEF Is
<1>4. n \in Nat
  BY Zenon
<1>5. Is(t)
  BY Zenon, <1>3, <1>4, Loop
<1> HIDE DEF t
<1>6. /\ t[0] = s
      /\ \A k \in 1..n : t[k] = Run(x, k, t[k - 1])
  <2>1. IsLoop(t, x, s, n)
    BY Zenon, <1>3, <1>5
  <2> QED
    BY ONLY SMT, <2>1, <1>4, Turns
<1>7. \A k \in 1..n : t[k] = Tds5!NextToken(b, t[k - 1])
  BY Zenon, <1>1, <1>6
<1> QED
  BY Zenon, <1>2, <1>6, <1>7 DEF IsTokens

\* A reading starts sound.
LEMMA StartIsSound ==
    ASSUME NEW b \in Seq(Byte), NEW o \in Nat, o <= Len(b), NEW limit \in Nat
    PROVE  /\ Sound(b, o, Tds5!Start(o, limit), limit)
           /\ Tds5!Start(o, limit).at = o /\ Tds5!Start(o, limit).r.items = 0
<1> DEFINE e == Tds5!EmptyStream
           s == Tds5!Start(o, limit)
<1>1. /\ e.tokens = <<>> /\ e.items = 0 /\ e.raw_parameter_values = <<>> /\ e.row_value_bytes = <<>>
      /\ e.unparsed_regions = <<>> /\ e.unknown_token = <<>>
  BY Zenon DEF Tds5!EmptyStream, Tds5!None
<1>2. Fielded(e, StreamFields)
  BY Zenon DEF Tds5!EmptyStream, Fielded, StreamFields
<1> HIDE DEF e
<1>3. /\ s.at = o /\ s.state = "reading" /\ s.r = e /\ s.parameters = <<>> /\ s.row = <<>>
      /\ s.alternates = <<>> /\ s.used = 0 /\ s.limit = limit
  BY Zenon DEF Tds5!Start, e
<1>4. Fielded(s, StateFields)
  BY Zenon DEF Tds5!Start, Fielded, StateFields
<1> HIDE DEF s
<1>5. Shaped(s)
  BY Zenon, <1>2, <1>3, <1>4 DEF Shaped
<1>6. Placed(b, o, s)
  <2>1. o..o - 1 = {} /\ o <= o
    OBVIOUS
  <2>2. <<>> \in Seq(TokenSpans)
    OBVIOUS
  <2> QED
    BY ZenonT(60), <1>1, <1>3, <2>1, <2>2, CoversNone DEF Placed
<1>7. Formatted(s)
  <2>1. IsColumns(<<>>)
    <3> DEFINE S == {}
    <3>1. <<>> \in Seq(S) /\ \A c \in S : IsColumn(c)
      OBVIOUS
    <3> HIDE DEF S
    <3> QED
      BY Zenon, <3>1 DEF IsColumns
  <2>2. DOMAIN <<>> = {}
    OBVIOUS
  <2> QED
    BY Zenon, <1>3, <2>1, <2>2 DEF Formatted
<1>8. Metered(s, limit)
  <2>1. 0 \in Nat /\ 0 <= limit /\ 0 = 0 + 0
    OBVIOUS
  <2>2. <<>> \in Strings
    BY DEF Strings
  <2>3. Lengths(<<>>) = <<>>
    BY DEF Lengths
  <2> QED
    BY ZenonT(60), <1>1, <1>3, <2>1, <2>2, <2>3, SumOfNone DEF Metered
<1>9. Ended(b, s)
  <2>1. 0 \in Nat /\ 0 <= MaxTokens /\ "reading" # "stopped"
    BY StreamLimits
  <2> QED
    BY Zenon, <1>1, <1>3, <2>1 DEF Ended
<1> QED
  BY ZenonT(60), <1>1, <1>3, <1>5, <1>6, <1>7, <1>8, <1>9 DEF Sound, s

\* It ends sound, and at its end: so many turns are enough.
LEMMA TokensRead ==
    ASSUME NEW b \in Seq(Byte), NEW o \in Nat, o <= Len(b), NEW limit \in Nat
    PROVE  LET q == Tds5!ReadTokens(b, Tds5!Start(o, limit))
           IN  Sound(b, o, q, limit) /\ StreamDone(b, q)
<1> DEFINE s == Tds5!Start(o, limit)
           d == (Len(b) - o) \div 5
           n == MaxTokens + (Len(b) - s.at) \div 5 + 1
<1>1. Sound(b, o, s, limit) /\ s.at = o /\ s.r.items = 0
  BY Zenon, StartIsSound
<1> HIDE DEF s
<1>2. /\ Len(b) \in Nat /\ MaxTokens \in Nat /\ d \in Nat /\ n \in Nat
      /\ n = MaxTokens + d + 1 /\ Len(b) - o < 5 * d + 5
  BY SMTT(60), <1>1, StreamLimits
<1> HIDE DEF d
<1>3. PICK t : IsTokens(t, b, s, n)
  <2>1. n = MaxTokens + (Len(b) - s.at) \div 5 + 1
    BY Zenon
  <2> HIDE DEF n
  <2> QED
    BY Zenon, <1>2, <2>1, TokensLoop
<1> HIDE DEF n
<1> DEFINE Good(k) == /\ Sound(b, o, t[k], limit)
                      /\ StreamDone(b, t[k]) \/ 5 * k + o <= 5 * t[k].r.items + t[k].at
           T == {k \in 0..n : Good(k)}
<1>4. 0 \in T
  <2>1. t[0] = s
    BY Zenon, <1>3 DEF IsTokens
  <2>2. 5 * 0 + o <= 5 * 0 + o /\ 0 \in 0..n
    BY <1>2
  <2> QED
    BY Zenon, <1>1, <2>1, <2>2
<1>5. ASSUME NEW k \in 1..n, k - 1 \in T
      PROVE  k \in T
  <2> DEFINE p == t[k - 1]
             q == t[k]
  <2>1. q = Tds5!NextToken(b, p)
    BY Zenon, <1>3 DEF IsTokens
  <2>2. Sound(b, o, p, limit) /\ (StreamDone(b, p) \/ 5 * (k - 1) + o <= 5 * p.r.items + p.at)
    BY Zenon, <1>5
  <2>3. k \in 0..n /\ k \in Nat
    BY <1>2
  <2> HIDE DEF p, q
  <2>4. /\ Sound(b, o, q, limit)
        /\ StreamDone(b, p) => q = p
        /\ StreamDone(b, p) \/ Advances(p, q)
    BY Zenon, <2>1, <2>2, NextTokenFollows
  <2>5. StreamDone(b, q) \/ 5 * k + o <= 5 * q.r.items + q.at
    <3>1. CASE StreamDone(b, p)
      BY Zenon, <2>4, <3>1
    <3>2. CASE ~StreamDone(b, p)
      <4> DEFINE pi == p.r.items
                 pa == p.at
                 qi == q.r.items
                 qa == q.at
      <4>1. /\ q.state # "reading" \/ 5 * pi + pa + 5 <= 5 * qi + qa
            /\ 5 * (k - 1) + o <= 5 * pi + pa
        BY Zenon, <2>2, <2>4, <3>2 DEF Advances
      <4>2. pi \in Nat /\ pa \in Nat /\ qi \in Nat /\ qa \in Nat
        BY Zenon, <2>2, <2>4 DEF Sound, Placed, Ended
      <4>3. q.state # "reading" => StreamDone(b, q)
        BY Zenon DEF StreamDone
      <4> HIDE DEF pi, pa, qi, qa
      <4>4. 5 * pi + pa + 5 <= 5 * qi + qa => 5 * k + o <= 5 * qi + qa
        BY ONLY SMT, <2>3, <4>1, <4>2, o \in Nat
      <4> QED
        BY Zenon, <4>1, <4>3, <4>4 DEF qi, qa
    <3> QED
      BY Zenon, <3>1, <3>2
  <2> QED
    BY Zenon, <2>3, <2>4, <2>5 DEF q
<1>6. Good(n)
  <2> HIDE DEF Good
  <2>1. 0 \in T /\ \A k \in 1..n : k - 1 \in T => k \in T
    BY Zenon, <1>4, <1>5
  <2>2. n \in T
    <3> HIDE DEF T
    <3> QED
      BY ONLY Zenon, <1>2, <2>1, Upward
  <2> QED
    BY Zenon, <2>2
<1> DEFINE r == Tds5!ReadTokens(b, s)
<1>7. r = t[n]
  BY Zenon, <1>3 DEF IsTokens
<1>8. Sound(b, o, r, limit) /\ (StreamDone(b, r) \/ 5 * n + o <= 5 * r.r.items + r.at)
  BY Zenon, <1>6, <1>7
<1> HIDE DEF r
<1>9. StreamDone(b, r)
  <2> DEFINE i == r.r.items
             a == r.at
  <2>1. i \in Nat /\ a \in Nat /\ a <= Len(b) /\ (r.state = "reading" => i <= MaxTokens)
    BY Zenon, <1>8 DEF Sound, Placed, Ended
  <2> HIDE DEF i, a
  <2>2. ~(i <= MaxTokens /\ 5 * n + o <= 5 * i + a)
    BY ONLY SMT, <1>2, <2>1, o \in Nat
  <2> QED
    BY Zenon, <1>8, <2>1, <2>2 DEF StreamDone, i, a
<1> QED
  BY Zenon, <1>8, <1>9 DEF r, s

\* What was kept of the values is within the limit.
Budgeted(r, limit) ==
    /\ r.raw_parameter_values \in Strings /\ r.row_value_bytes \in Seq(Nat)
    /\ Tds5!ValueBytes(r) \in Nat /\ Tds5!ValueBytes(r) <= limit

\* A reading of b from o on: its tokens lie one behind the other up to e, where an unknown one may be.
IsReading(b, o, e, r, limit) ==
    /\ Fielded(r, StreamFields)
    /\ e \in Nat /\ o <= e /\ e <= Len(b)
    /\ r.tokens \in Seq(TokenSpans) /\ Covers(r.tokens, o..e - 1)
    /\ r.unparsed_regions = <<>>
    /\ IF r.unknown_token = <<>> THEN e = Len(b) ELSE e = Tds5!UnknownAt(b, r)
    /\ Budgeted(r, limit)

\* What parse_authentication gives is a reading.
LEMMA AuthenticationRead ==
    ASSUME NEW b \in Seq(Byte), NEW o \in Nat, o <= Len(b), NEW limit \in Nat,
           Tds5!parse_authentication(b, o, limit).ok
    PROVE  \E e : IsReading(b, o, e, Tds5!parse_authentication(b, o, limit).stream, limit)
<1> DEFINE s == Tds5!ReadTokens(b, Tds5!Start(o, limit))
           p == Tds5!parse_authentication(b, o, limit)
           r == p.stream
           e == s.at
<1>1. p = [ok |-> s.state # "error", stream |-> s.r]
  BY Zenon DEF Tds5!parse_authentication, Tds5!Outcome
<1>2. Sound(b, o, s, limit) /\ StreamDone(b, s)
  BY Zenon, TokensRead
<1>3. r = s.r /\ s.state # "error"
  <2>1. p.ok = (s.state # "error") /\ p.stream = s.r
    <3> DEFINE z == s.state # "error"
               y == s.r
    <3>1. p = [ok |-> z, stream |-> y]
      BY Zenon, <1>1
    <3> HIDE DEF z, y, p
    <3>2. p.ok = z /\ p.stream = y
      BY ONLY Zenon, <3>1
    <3> QED
      BY Zenon, <3>2 DEF z, y
  <2>2. p.ok
    BY Zenon
  <2> QED
    BY Zenon, <2>1, <2>2
<1> HIDE DEF s, p
<1>4. s.state \in {"reading", "stopped"}
  BY Zenon, <1>2, <1>3 DEF Sound, Ended
<1>5. /\ s.at \in Nat /\ o <= s.at /\ s.at <= Len(b)
      /\ s.r.tokens \in Seq(TokenSpans) /\ Covers(s.r.tokens, o..s.at - 1)
      /\ s.r.unparsed_regions = <<>> /\ Fielded(s.r, StreamFields)
  BY Zenon, <1>2 DEF Sound, Placed, Ended, Shaped
<1>6. Budgeted(s.r, limit)
  <2>1. Tds5!ValueBytes(s.r) = Tds5!Sum0(Lengths(s.r.raw_parameter_values)) + Tds5!Sum0(s.r.row_value_bytes)
    BY Zenon DEF Tds5!ValueBytes, Lengths
  <2> QED
    BY Zenon, <1>2, <2>1 DEF Sound, Metered, Budgeted
<1>7. CASE s.state = "reading"
  <2>1. s.at = Len(b) /\ "reading" # "stopped"
    BY Zenon, <1>2, <1>7 DEF StreamDone
  <2>2. s.r.unknown_token = <<>>
    BY Zenon, <1>2, <1>7, <2>1 DEF Sound, Ended
  <2>3. IsReading(b, o, e, r, limit)
    BY ZenonT(60), <1>3, <1>5, <1>6, <2>1, <2>2 DEF IsReading
  <2> QED
    BY Zenon, <2>3 DEF p, r
<1>8. CASE s.state = "stopped"
  <2>1. s.r.unknown_token # <<>> /\ s.r.trailing_bytes = Len(b) - s.at - 1
    BY Zenon, <1>2, <1>8 DEF Sound, Ended
  <2> DEFINE x == s.r.trailing_bytes
             a == s.at
             l == Len(b)
  <2>2. a \in Nat /\ l \in Nat /\ x = l - a - 1 /\ Tds5!UnknownAt(b, s.r) = l - (x + 1)
    BY <1>5, <2>1 DEF Tds5!UnknownAt
  <2> HIDE DEF x, a, l
  <2>3. Tds5!UnknownAt(b, s.r) = a
    BY ONLY SMT, <2>2
  <2>4. IsReading(b, o, e, r, limit)
    BY Zenon, <1>3, <1>5, <1>6, <2>1, <2>3 DEF IsReading, a
  <2> QED
    BY Zenon, <2>4 DEF p, r
<1> QED
  BY Zenon, <1>4, <1>7, <1>8

\* The kinds of parts a stream is reported in.
Pieces == TokenSpans \cup [from : Nat, to : Nat]
RegionParts(regions) == [k \in DOMAIN regions |-> Region(regions[k])]

IsPiece(part, x, y) == part \in Pieces /\ part.from = x /\ part.to = y

\* A region as a part of the payload
LEMMA RegionIs ==
    ASSUME NEW x \in Nat, NEW y \in Nat, x <= y
    PROVE  IsPiece(Region(Tds5!Region(x, y)), x, y)
<1> DEFINE g == Tds5!Region(x, y)
<1>1. g.offset = x /\ g.bytes = y - x
  BY Zenon DEF Tds5!Region
<1>2. g.offset + g.bytes = y
  BY <1>1
<1> HIDE DEF g
<1>3. Region(g) = [from |-> x, to |-> y]
  BY Zenon, <1>1, <1>2 DEF Region
<1> QED
  BY <1>3 DEF g, IsPiece, Pieces

\* Tokens are parts with a from and a to.
LEMMA TokensArePieces ==
    ASSUME NEW p \in Seq(TokenSpans)
    PROVE  p \in Seq(Pieces)
<1>1. TokenSpans \subseteq Pieces
  BY Zenon DEF Pieces
<1> HIDE DEF TokenSpans, Pieces
<1> QED
  BY <1>1

\* A pair is one thing joined to another.
LEMMA PairIs ==
    ASSUME NEW S, NEW p \in S, NEW q \in S
    PROVE  <<p, q>> = <<p>> \o <<q>>
<1> DEFINE l == <<p>>
           m == <<q>>
           r == l \o m
<1>1. l \in Seq(S) /\ m \in Seq(S) /\ Len(l) = 1 /\ Len(m) = 1 /\ l[1] = p /\ m[1] = q
  OBVIOUS
<1> HIDE DEF l, m
<1>2. IsConcat(r, l, m, S)
  BY Zenon, <1>1, ConcatIs
<1> HIDE DEF r
<1>3. r = [k \in 1..2 |-> IF k = 1 THEN p ELSE q]
  BY <1>1, <1>2 DEF IsConcat
<1>4. <<p, q>> = [k \in 1..2 |-> IF k = 1 THEN p ELSE q]
  OBVIOUS
<1> QED
  BY Zenon, <1>3, <1>4 DEF r, l, m

\* The unread regions r1, and r2 if there is one, from x to y and from z on.
LEMMA RegionsCover ==
    ASSUME NEW x \in Nat, NEW y \in Nat, NEW z \in Nat, NEW n \in Nat, x <= y, y <= z, z <= n
    PROVE  LET one == RegionParts(<<Tds5!Region(x, y)>>)
               two == RegionParts(<<Tds5!Region(x, y), Tds5!Region(z, n)>>)
           IN  /\ one \in Seq(Pieces) /\ Covers(one, x..y - 1)
               /\ two \in Seq(Pieces) /\ Covers(two, (x..y - 1) \cup (z..n - 1))
<1> DEFINE a == Tds5!Region(x, y)
           c == Tds5!Region(z, n)
           p == Region(a)
           q == Region(c)
<1>1. IsPiece(p, x, y) /\ IsPiece(q, z, n)
  BY Zenon, RegionIs
<1> HIDE DEF a, c
<1>2. RegionParts(<<a>>) = <<Region(a)>> /\ RegionParts(<<a, c>>) = <<Region(a), Region(c)>>
  BY DEF RegionParts
<1> HIDE DEF p, q
<1>3. <<p>> \in Seq(Pieces) /\ <<q>> \in Seq(Pieces) /\ <<p, q>> = <<p>> \o <<q>>
  <2>1. p \in Pieces /\ q \in Pieces
    BY Zenon, <1>1 DEF IsPiece
  <2> HIDE DEF Pieces
  <2>2. <<p>> \in Seq(Pieces) /\ <<q>> \in Seq(Pieces)
    BY <2>1
  <2>3. <<p, q>> = <<p>> \o <<q>>
    BY Zenon, <2>1, PairIs
  <2> QED
    BY Zenon, <2>2, <2>3
<1>4. Covers(<<p>>, x..y - 1) /\ Covers(<<q>>, z..n - 1)
  BY Zenon, <1>1, CoversOne DEF IsPiece
<1>5. (x..y - 1) \cap (z..n - 1) = {}
  OBVIOUS
<1>6. <<p>> \o <<q>> \in Seq(Pieces)
  <2> HIDE DEF Pieces
  <2> QED
    BY <1>3
<1>7. Covers(<<p>> \o <<q>>, (x..y - 1) \cup (z..n - 1))
  BY Zenon, <1>3, <1>4, <1>5, CoversJoined
<1> QED
  BY Zenon, <1>2, <1>3, <1>4, <1>6, <1>7 DEF p, q, a, c

IsWhole(b, r, limit) ==
    /\ Covers(r.tokens \o RegionParts(r.unparsed_regions), 0..Len(b) - 1)
    /\ Budgeted(r, limit)

\* Nothing joined changes nothing.
LEMMA EmptyJoins ==
    ASSUME NEW S, NEW p \in Seq(S)
    PROVE  <<>> \o p = p /\ p \o <<>> = p
<1> DEFINE l == <<>>
           q == l \o p
           r == p \o l
<1>1. l \in Seq(S) /\ Len(l) = 0
  OBVIOUS
<1> HIDE DEF l
<1>2. IsConcat(q, l, p, S) /\ IsConcat(r, p, l, S)
  BY Zenon, <1>1, ConcatIs
<1> HIDE DEF q, r
<1>3. /\ q \in Seq(S) /\ Len(q) = Len(p) /\ \A k \in 1..Len(p) : q[k] = p[k]
      /\ r \in Seq(S) /\ Len(r) = Len(p) /\ \A k \in 1..Len(p) : r[k] = p[k]
  BY <1>1, <1>2 DEF IsConcat
<1>4. q = p
  BY <1>3
<1>5. r = p
  BY <1>3
<1> QED
  BY Zenon, <1>4, <1>5 DEF q, r, l

\* Two readings whose values fit into the limit together fit joined.
LEMMA BudgetJoined ==
    ASSUME NEW f, NEW s, NEW q, NEW limit \in Nat, Budgeted(f, limit), Budgeted(s, limit),
           q.raw_parameter_values = f.raw_parameter_values \o s.raw_parameter_values,
           q.row_value_bytes = f.row_value_bytes \o s.row_value_bytes,
           Tds5!ValueBytes(f) + Tds5!ValueBytes(s) <= limit
    PROVE  Budgeted(q, limit)
<1> DEFINE fv == f.raw_parameter_values
           sv == s.raw_parameter_values
           fr == f.row_value_bytes
           sr == s.row_value_bytes
           lf == Lengths(fv)
           ls == Lengths(sv)
<1>1. fv \in Strings /\ sv \in Strings /\ fr \in Seq(Nat) /\ sr \in Seq(Nat)
  BY Zenon DEF Budgeted
<1>2. lf \in Seq(Nat) /\ ls \in Seq(Nat)
  BY Zenon, <1>1, LengthsAre
<1>3. fv \o sv \in Strings /\ Lengths(fv \o sv) = lf \o ls
  BY Zenon, <1>1, LengthsJoined
<1>4. \A r : Tds5!ValueBytes(r) = Tds5!Sum0(Lengths(r.raw_parameter_values)) + Tds5!Sum0(r.row_value_bytes)
  BY Zenon DEF Tds5!ValueBytes, Lengths
<1> DEFINE a == Tds5!Sum0(lf)
           c == Tds5!Sum0(ls)
           d == Tds5!Sum0(fr)
           e == Tds5!Sum0(sr)
<1>5. Tds5!ValueBytes(f) = a + d /\ Tds5!ValueBytes(s) = c + e
  BY Zenon, <1>4
<1> HIDE DEF lf, ls
<1>6. a \in Nat /\ c \in Nat /\ Tds5!Sum0(lf \o ls) = a + c
  BY ONLY Zenon, <1>2, SumJoined DEF a, c
<1>7. d \in Nat /\ e \in Nat /\ Tds5!Sum0(fr \o sr) = d + e /\ fr \o sr \in Seq(Nat)
  BY Zenon, <1>1, SumJoined
<1>8. Tds5!ValueBytes(q) = (a + c) + (d + e)
  BY Zenon, <1>3, <1>4, <1>6, <1>7
<1> HIDE DEF a, c, d, e
<1>9. (a + c) + (d + e) \in Nat /\ (a + c) + (d + e) <= limit
  BY <1>5, <1>6, <1>7
<1> QED
  BY Zenon, <1>1, <1>3, <1>7, <1>8, <1>9 DEF Budgeted

Rest(m, regions, warnings) == [m EXCEPT !.unparsed_regions = regions, !.parse_warnings = warnings]

IsRest(q, m, regions) ==
    /\ q.unparsed_regions = regions /\ q.tokens = m.tokens
    /\ q.raw_parameter_values = m.raw_parameter_values /\ q.row_value_bytes = m.row_value_bytes

\* A record of a stream with other regions and warnings
LEMMA RestIs ==
    ASSUME NEW m, DOMAIN m = StreamFields, NEW regions, NEW warnings
    PROVE  IsRest(Rest(m, regions, warnings), m, regions)
<1> DEFINE q == Rest(m, regions, warnings)
<1>1. q = [k \in StreamFields |-> IF k = "parse_warnings" THEN warnings
                                  ELSE IF k = "unparsed_regions" THEN regions ELSE m[k]]
  <2> HIDE DEF StreamFields
  <2> QED
    BY Zenon, FieldNames DEF Rest
<1> HIDE DEF q
<1>2. \A k \in StreamFields : q[k] = IF k = "parse_warnings" THEN warnings
                                  ELSE IF k = "unparsed_regions" THEN regions ELSE m[k]
  BY Zenon, <1>1
<1>3. IsRest(q, m, regions)
  BY Zenon, <1>2, FieldNames DEF IsRest
<1> QED
  BY Zenon, <1>3 DEF q

\* What prepend_authentication_prefix joins.
LEMMA PrefixIs ==
    ASSUME NEW s, DOMAIN s = StreamFields, NEW f, NEW m, m = Tds5!prepend_authentication_prefix(s, f)
    PROVE  /\ DOMAIN m = StreamFields
           /\ m.tokens = f.tokens \o s.tokens
           /\ m.unparsed_regions = s.unparsed_regions
           /\ m.raw_parameter_values = f.raw_parameter_values \o s.raw_parameter_values
           /\ m.row_value_bytes = f.row_value_bytes \o s.row_value_bytes
BY Zenon, FieldNames DEF Tds5!prepend_authentication_prefix

\* Two stretches of tokens and the two regions between and behind them are the payload.
LEMMA WholeCovered ==
    ASSUME NEW n \in Nat, NEW x \in Nat, NEW o \in Nat, NEW e \in Nat, x <= o, o <= e, e <= n,
           NEW tokens \in Seq(Pieces), NEW regions \in Seq(Pieces),
           Covers(tokens, (0..x - 1) \cup (o..e - 1)), Covers(regions, (x..o - 1) \cup (e..n - 1))
    PROVE  Covers(tokens \o regions, 0..n - 1)
<1> DEFINE X == (0..x - 1) \cup (o..e - 1)
           Y == (x..o - 1) \cup (e..n - 1)
<1>1. X \cap Y = {} /\ X \cup Y = 0..n - 1
  OBVIOUS
<1> HIDE DEF X, Y, Pieces
<1>2. Covers(tokens, X) /\ Covers(regions, Y)
  BY Zenon DEF X, Y
<1>3. Covers(tokens \o regions, X \cup Y)
  BY ONLY Zenon, <1>1, <1>2, tokens \in Seq(Pieces), regions \in Seq(Pieces), CoversJoined
<1> QED
  BY Zenon, <1>1, <1>3

\* The lists of regions that Joined makes.
LEMMA RegionLists ==
    ASSUME NEW a, NEW c
    PROVE  /\ <<>> \o <<a>> \o <<>> = <<a>>
           /\ <<>> \o <<a>> \o <<c>> = <<a, c>>
<1> DEFINE S == {a, c}
<1>1. a \in S /\ c \in S
  BY Zenon
<1> HIDE DEF S
<1>2. <<a>> \in Seq(S)
  BY <1>1
<1>3. <<>> \o <<a>> = <<a>> /\ <<a>> \o <<>> = <<a>>
  BY Zenon, <1>2, EmptyJoins
<1>4. <<a, c>> = <<a>> \o <<c>>
  BY Zenon, <1>1, PairIs
<1> QED
  BY Zenon, <1>3, <1>4

\* The two readings that are joined, and the regions around the second, are the whole payload
\* within the limit.
LEMMA JoinedWhole ==
    ASSUME NEW b \in Seq(Byte), NEW limit \in Nat, NEW o \in Nat, NEW s, NEW f, NEW i, NEW e,
           IsReading(b, 0, i, f, limit), f.unknown_token # <<>>, IsReading(b, o, e, s, limit)
    PROVE  IsWhole(b, Tds5!Joined(b, o, s, f, limit), limit)
<1> DEFINE n == Len(b)
           merged == /\ f.tokens # <<>>
                     /\ i <= o
                     /\ Tds5!ValueBytes(f) + Tds5!ValueBytes(s) <= limit
           x == IF merged THEN i ELSE 0
           m == IF merged THEN Tds5!prepend_authentication_prefix(s, f) ELSE s
           a == Tds5!Region(x, o)
           c == Tds5!Region(e, n)
           tail == IF s.unknown_token = <<>> THEN <<>> ELSE <<c>>
           regions == m.unparsed_regions \o <<a>> \o tail
           warnings == m.parse_warnings \o <<"first error", "recovered">>
           q == Tds5!Joined(b, o, s, f, limit)
<1>1. n \in Nat /\ i \in Nat /\ 0 <= i /\ i <= n /\ e \in Nat /\ o <= e /\ e <= n
  <2>1. n \in Nat
    OBVIOUS
  <2> QED
    BY Zenon, <2>1 DEF IsReading
<1>2. i = Tds5!UnknownAt(b, f) /\ (s.unknown_token # <<>> => e = Tds5!UnknownAt(b, s))
      /\ (s.unknown_token = <<>> => e = n)
  BY Zenon DEF IsReading
<1>3. q = [m EXCEPT !.unparsed_regions = regions, !.parse_warnings = warnings]
  BY Zenon, <1>2 DEF Tds5!Joined, Tds5!None
<1>4. DOMAIN s = StreamFields /\ s.unparsed_regions = <<>>
  BY Zenon DEF IsReading, Fielded
<1> HIDE DEF merged
<1>5. merged => /\ DOMAIN m = StreamFields
                /\ m.tokens = f.tokens \o s.tokens
                /\ m.unparsed_regions = s.unparsed_regions
                /\ m.raw_parameter_values = f.raw_parameter_values \o s.raw_parameter_values
                /\ m.row_value_bytes = f.row_value_bytes \o s.row_value_bytes
  BY Zenon, <1>4, PrefixIs
<1>6. ~merged => m = s
  BY Zenon
<1>7. x \in Nat /\ x <= o
  BY <1>1 DEF merged
<1> HIDE DEF m
<1>8. DOMAIN m = StreamFields /\ m.unparsed_regions = <<>>
  BY Zenon, <1>4, <1>5, <1>6
<1>9. regions = IF s.unknown_token = <<>> THEN <<a>> ELSE <<a, c>>
  <2> HIDE DEF a, c
  <2>1. <<>> \o <<a>> \o <<>> = <<a>> /\ <<>> \o <<a>> \o <<c>> = <<a, c>>
    BY Zenon, RegionLists
  <2>2. regions = <<>> \o <<a>> \o tail
    BY Zenon, <1>8
  <2> HIDE DEF regions
  <2>3. CASE s.unknown_token = <<>>
    BY Zenon, <2>1, <2>2, <2>3
  <2>4. CASE s.unknown_token # <<>>
    BY Zenon, <2>1, <2>2, <2>4
  <2> QED
    BY Zenon, <2>3, <2>4
<1> HIDE DEF x, a, c, tail, regions, warnings, q
<1>10. /\ q.unparsed_regions = regions /\ q.tokens = m.tokens
       /\ q.raw_parameter_values = m.raw_parameter_values /\ q.row_value_bytes = m.row_value_bytes
  <2>1. IsRest(Rest(m, regions, warnings), m, regions)
    BY Zenon, <1>8, RestIs
  <2>2. q = Rest(m, regions, warnings)
    BY Zenon, <1>3 DEF Rest
  <2> QED
    BY Zenon, <2>1, <2>2 DEF IsRest
<1>11. Budgeted(q, limit)
  <2>1. Budgeted(f, limit) /\ Budgeted(s, limit)
    BY Zenon DEF IsReading
  <2>2. CASE merged
    <3>1. /\ q.raw_parameter_values = f.raw_parameter_values \o s.raw_parameter_values
          /\ q.row_value_bytes = f.row_value_bytes \o s.row_value_bytes
      BY Zenon, <1>5, <1>10, <2>2
    <3>2. Tds5!ValueBytes(f) + Tds5!ValueBytes(s) <= limit
      BY Zenon, <2>2 DEF merged
    <3> QED
      BY ONLY ZenonT(60), limit \in Nat, <2>1, <3>1, <3>2, BudgetJoined
  <2>3. CASE ~merged
    BY Zenon, <1>6, <1>10, <2>1, <2>3 DEF Budgeted, Tds5!ValueBytes
  <2> QED
    BY Zenon, <2>2, <2>3
<1>12. /\ f.tokens \in Seq(TokenSpans) /\ s.tokens \in Seq(TokenSpans)
       /\ Covers(f.tokens, 0..i - 1) /\ Covers(s.tokens, o..e - 1)
  BY Zenon DEF IsReading
<1>13. m.tokens \in Seq(Pieces) /\ Covers(m.tokens, (0..x - 1) \cup (o..e - 1))
  <2> DEFINE ft == f.tokens
             st == s.tokens
  <2>1. ft \in Seq(Pieces) /\ st \in Seq(Pieces)
    BY Zenon, <1>12, TokensArePieces
  <2>2. CASE merged
    <3>1. x = i /\ i <= o
      BY Zenon, <2>2 DEF x, merged
    <3>2. (0..i - 1) \cap (o..e - 1) = {}
      BY <1>1, <3>1
    <3>3. Covers(ft \o st, (0..i - 1) \cup (o..e - 1))
      BY Zenon, <1>12, <2>1, <3>2, CoversJoined
    <3>4. IsConcat(ft \o st, ft, st, Pieces)
      BY Zenon, <2>1, ConcatIs
    <3> QED
      BY ZenonT(60), <1>5, <2>2, <3>1, <3>3, <3>4 DEF IsConcat
  <2>3. CASE ~merged
    <3>1. x = 0
      BY Zenon, <2>3 DEF x
    <3>2. (0..x - 1) \cup (o..e - 1) = o..e - 1
      BY <1>1, <3>1
    <3> QED
      BY ZenonT(60), <1>6, <1>12, <2>1, <2>3, <3>2
  <2> QED
    BY Zenon, <2>2, <2>3
<1>14. RegionParts(regions) \in Seq(Pieces) /\ Covers(RegionParts(regions), (x..o - 1) \cup (e..n - 1))
  <2> HIDE DEF n
  <2>1. /\ RegionParts(<<a>>) \in Seq(Pieces) /\ Covers(RegionParts(<<a>>), x..o - 1)
        /\ RegionParts(<<a, c>>) \in Seq(Pieces)
        /\ Covers(RegionParts(<<a, c>>), (x..o - 1) \cup (e..n - 1))
    BY Zenon, <1>1, <1>7, RegionsCover DEF a, c
  <2>2. s.unknown_token = <<>> => (x..o - 1) \cup (e..n - 1) = x..o - 1
    <3>1. n..n - 1 = {}
      BY <1>1
    <3> QED
      BY Zenon, <1>2, <3>1 DEF n
  <2> QED
    BY Zenon, <1>9, <2>1, <2>2
<1> HIDE DEF n
<1>15. Covers(m.tokens \o RegionParts(regions), 0..n - 1)
  BY Zenon, <1>1, <1>7, <1>13, <1>14, WholeCovered
<1> QED
  BY Zenon, <1>10, <1>11, <1>15 DEF IsWhole, q, n

\* The first of some offsets is one of them.
LEMMA FirstIs ==
    ASSUME NEW O, O \subseteq Nat, O # {}
    PROVE  Tds5!First(O) \in O
<1>1. \E m \in O : \A k \in O : m <= k
  BY Zenon, Least
<1> QED
  BY Zenon, <1>1 DEF Tds5!First

\* The reading that stands for a first pass that failed
LEMMA NothingRead ==
    ASSUME NEW b \in Seq(Byte), NEW limit \in Nat, NEW token
    PROVE  LET f == [Tds5!EmptyStream EXCEPT !.unknown_token = <<token>>, !.trailing_bytes = Len(b) - 1]
           IN  IsReading(b, 0, 0, f, limit) /\ f.unknown_token # <<>>
<1> DEFINE f == [Tds5!EmptyStream EXCEPT !.unknown_token = <<token>>, !.trailing_bytes = Len(b) - 1]
<1>1. /\ f.tokens = <<>> /\ f.raw_parameter_values = <<>> /\ f.row_value_bytes = <<>>
      /\ f.unparsed_regions = <<>> /\ f.unknown_token = <<token>> /\ f.trailing_bytes = Len(b) - 1
  BY Zenon DEF Tds5!EmptyStream, Tds5!None
<1>2. Fielded(f, StreamFields)
  BY Zenon DEF Tds5!EmptyStream, Fielded, StreamFields
<1> HIDE DEF f
<1>3. <<token>> # <<>> /\ <<>> \in Seq(TokenSpans) /\ 0..0 - 1 = {} /\ Len(b) \in Nat /\ 0 \in Nat /\ 0 <= 0
      /\ 0 <= Len(b) /\ 0 <= limit
  OBVIOUS
<1>4. Tds5!UnknownAt(b, f) = 0
  BY <1>1, <1>3 DEF Tds5!UnknownAt
<1>5. Budgeted(f, limit)
  <2>1. <<>> \in Strings /\ Lengths(<<>>) = <<>>
    BY DEF Strings, Lengths
  <2>2. Tds5!ValueBytes(f) = Tds5!Sum0(Lengths(f.raw_parameter_values)) + Tds5!Sum0(f.row_value_bytes)
    BY Zenon DEF Tds5!ValueBytes, Lengths
  <2>3. 0 + 0 = 0
    OBVIOUS
  <2> QED
    BY Zenon, <1>1, <1>3, <2>1, <2>2, <2>3, SumOfNone DEF Budgeted
<1>6. IsReading(b, 0, 0, f, limit)
  BY ZenonT(60), <1>1, <1>2, <1>3, <1>4, <1>5, CoversNone DEF IsReading
<1> QED
  BY Zenon, <1>1, <1>3, <1>6 DEF f

\* So whatever recovery finds, the report is the whole payload within the limit.
LEMMA RecoveredWhole ==
    ASSUME NEW b \in Seq(Byte), NEW limit \in Nat, NEW f, NEW i, IsReading(b, 0, i, f, limit),
           f.unknown_token # <<>>,
           NEW O, O = {o \in 1..Len(b) - 1 : Tds5!Recoverable(b, o, limit)}
    PROVE  IsWhole(b, Tds5!Recovered(b, f, O, limit), limit)
<1>1. CASE O # {}
  <2> DEFINE o == Tds5!First(O)
             p == Tds5!parse_authentication(b, o, limit)
  <2>1. o \in O
    <3>1. O \subseteq Nat
      OBVIOUS
    <3> QED
      BY Zenon, <1>1, <3>1, FirstIs
  <2>2. o \in 1..Len(b) - 1 /\ Tds5!Recoverable(b, o, limit)
    BY Zenon, <2>1
  <2> HIDE DEF o
  <2>3. o \in Nat /\ o <= Len(b)
    BY <2>2
  <2>4. p.ok
    BY Zenon, <2>2 DEF Tds5!Recoverable, Tds5!Given
  <2>5. PICK e : IsReading(b, o, e, p.stream, limit)
    BY Zenon, <2>3, <2>4, AuthenticationRead
  <2>6. IsWhole(b, Tds5!Joined(b, o, p.stream, f, limit), limit)
    <3> HIDE DEF p
    <3> QED
      BY Zenon, <2>3, <2>5, JoinedWhole
  <2> QED
    BY Zenon, <1>1, <2>6 DEF Tds5!Recovered, o
<1>2. CASE O = {}
  <2> DEFINE q == Tds5!Recovered(b, f, O, limit)
             n == Len(b)
             a == Tds5!Region(i, n)
             regions == <<a>>
             warnings == Append(f.parse_warnings, "first error")
  <2>1. /\ DOMAIN f = StreamFields /\ i \in Nat /\ i <= n /\ n \in Nat /\ i = Tds5!UnknownAt(b, f)
        /\ f.tokens \in Seq(TokenSpans) /\ Covers(f.tokens, 0..i - 1) /\ Budgeted(f, limit)
    <3>1. n \in Nat
      OBVIOUS
    <3> QED
      BY Zenon, <3>1 DEF IsReading, Fielded
  <2>2. q = Rest(f, regions, warnings)
    BY Zenon, <1>2, <2>1 DEF Tds5!Recovered, Rest
  <2> HIDE DEF q, n, a, regions, warnings
  <2>3. IsRest(Rest(f, regions, warnings), f, regions)
    BY Zenon, <2>1, RestIs
  <2>4. /\ q.unparsed_regions = regions /\ q.tokens = f.tokens
        /\ q.raw_parameter_values = f.raw_parameter_values /\ q.row_value_bytes = f.row_value_bytes
    BY Zenon, <2>2, <2>3 DEF IsRest
  <2>5. Budgeted(q, limit)
    BY Zenon, <2>1, <2>4 DEF Budgeted, Tds5!ValueBytes
  <2>6. RegionParts(regions) \in Seq(Pieces) /\ Covers(RegionParts(regions), i..n - 1)
    <3>1. n <= n
      BY <2>1
    <3> QED
      BY ZenonT(60), <2>1, <3>1, RegionsCover DEF a, regions
  <2>7. (0..i - 1) \cup (i..n - 1) = 0..n - 1 /\ (0..i - 1) \cap (i..n - 1) = {}
    BY ONLY SMT, <2>1
  <2>8. f.tokens \in Seq(Pieces)
    BY Zenon, <2>1, TokensArePieces
  <2>9. Covers(f.tokens \o RegionParts(regions), (0..i - 1) \cup (i..n - 1))
    BY ZenonT(60), <2>1, <2>6, <2>7, <2>8, CoversJoined
  <2>10. Covers(f.tokens \o RegionParts(regions), 0..n - 1)
    BY Zenon, <2>7, <2>9
  <2> QED
    BY Zenon, <2>4, <2>5, <2>10 DEF IsWhole, q, n
<1> QED
  BY Zenon, <1>1, <1>2

\* The tokens and the unparsed regions that parse_for_telemetry reports cover the stream, each byte
\* once, and the values it keeps stay within the limit: for every stream and every limit.
THEOREM TelemetryWhole ==
    ASSUME NEW b \in Seq(Byte), NEW limit \in Nat
    PROVE  IsWhole(b, Tds5!parse_for_telemetry(b, limit), limit)
<1> DEFINE p == Tds5!parse_authentication(b, 0, limit)
           r == p.stream
           O == {o \in 1..Len(b) - 1 : Tds5!Recoverable(b, o, limit)}
           none == [Tds5!EmptyStream EXCEPT !.unknown_token = <<Tds5!At(b, 0)>>, !.trailing_bytes = Len(b) - 1]
           f == IF p.ok THEN r ELSE none
           q == Tds5!parse_for_telemetry(b, limit)
<1>1. q = IF p.ok /\ r.unknown_token = <<>> THEN r ELSE Tds5!Recovered(b, f, O, limit)
  BY Zenon DEF Tds5!parse_for_telemetry, Tds5!Salvaged, Tds5!None, Tds5!Some
<1>2. p.ok => \E e : IsReading(b, 0, e, r, limit)
  <2>1. 0 \in Nat /\ 0 <= Len(b)
    OBVIOUS
  <2> QED
    BY Zenon, <2>1, AuthenticationRead
<1>3. IsReading(b, 0, 0, none, limit) /\ none.unknown_token # <<>>
  BY Zenon, NothingRead
<1> HIDE DEF p, q, none
<1>4. CASE p.ok /\ r.unknown_token = <<>>
  <2>1. PICK e : IsReading(b, 0, e, r, limit)
    BY Zenon, <1>2, <1>4
  <2>2. /\ Covers(r.tokens, 0..Len(b) - 1) /\ Budgeted(r, limit) /\ r.tokens \in Seq(TokenSpans)
        /\ r.unparsed_regions = <<>>
    BY Zenon, <1>4, <2>1 DEF IsReading
  <2>3. RegionParts(<<>>) = <<>>
    BY DEF RegionParts
  <2>4. r.tokens \o <<>> = r.tokens
    BY Zenon, <2>2, EmptyJoins
  <2> QED
    BY ZenonT(60), <1>1, <1>4, <2>2, <2>3, <2>4 DEF IsWhole, q
<1>5. CASE ~(p.ok /\ r.unknown_token = <<>>)
  <2>1. f.unknown_token # <<>> /\ \E e : IsReading(b, 0, e, f, limit)
    BY Zenon, <1>2, <1>3, <1>5
  <2>2. PICK e : IsReading(b, 0, e, f, limit)
    BY Zenon, <2>1
  <2> HIDE DEF f
  <2>3. IsWhole(b, Tds5!Recovered(b, f, O, limit), limit)
    BY Zenon, <2>1, <2>2, RecoveredWhole
  <2> QED
    BY Zenon, <1>1, <1>5, <2>3 DEF q
<1> QED
  BY Zenon, <1>4, <1>5

(***************************************************************************)
(* The loop of frames.                                                     *)
(***************************************************************************)

\* The k-th turn of the loop x, whichever it is.
MuxRun(x, k, s) ==
    CASE x.loop = "frames" -> Fedauth!Frame(x.b, s, x.max)
      [] OTHER -> s

IsMuxLoop(f, x, first, n) == f = [k \in 0..n |-> IF k = 0 THEN first ELSE MuxRun(x, k, f[k - 1])]

\* One turn more.
LEMMA MuxLoopStep ==
    ASSUME NEW x, NEW first, NEW n \in Nat, NEW f, IsMuxLoop(f, x, first, n)
    PROVE  \E g : IsMuxLoop(g, x, first, n + 1)
<1> DEFINE g == [k \in 0..n + 1 |-> IF k = n + 1 THEN MuxRun(x, k, f[n]) ELSE f[k]]
<1>1. \A k \in 0..n : f[k] = IF k = 0 THEN first ELSE MuxRun(x, k, f[k - 1])
  BY Zenon DEF IsMuxLoop
<1>2. \A k \in 0..n + 1 : g[k] = IF k = 0 THEN first ELSE MuxRun(x, k, g[k - 1])
  <2> TAKE k \in 0..n + 1
  <2>1. CASE k = n + 1
    BY <2>1
  <2>2. CASE k # n + 1
    BY <2>2, <1>1
  <2> QED
    BY Zenon, <2>1, <2>2
<1>3. g = [k \in 0..n + 1 |-> IF k = 0 THEN first ELSE MuxRun(x, k, g[k - 1])]
  BY Zenon, <1>2
<1>4. IsMuxLoop(g, x, first, n + 1)
  BY Zenon, <1>3 DEF IsMuxLoop
<1> HIDE DEF g
<1> QED
  BY Zenon, <1>4

\* However many turns.
LEMMA MuxLoop ==
    ASSUME NEW x, NEW first, NEW n \in Nat
    PROVE  \E f : IsMuxLoop(f, x, first, n)
<1> DEFINE T == {k \in Nat : \E f : IsMuxLoop(f, x, first, k)}
<1>1. 0 \in T
  <2> DEFINE g == [k \in 0..0 |-> first]
  <2>1. g = [k \in 0..0 |-> IF k = 0 THEN first ELSE MuxRun(x, k, g[k - 1])]
    OBVIOUS
  <2>2. IsMuxLoop(g, x, first, 0)
    BY Zenon, <2>1 DEF IsMuxLoop
  <2> HIDE DEF g
  <2> QED
    BY Zenon, <2>2
<1>2. ASSUME NEW k \in 1..n, k - 1 \in T PROVE k \in T
  <2>1. PICK f : IsMuxLoop(f, x, first, k - 1)
    BY Zenon, <1>2
  <2>2. k - 1 \in Nat /\ (k - 1) + 1 = k /\ k \in Nat
    OBVIOUS
  <2>3. \E g : IsMuxLoop(g, x, first, (k - 1) + 1)
    BY ONLY Zenon, <2>1, <2>2, MuxLoopStep, Zenon
  <2>4. \E g : IsMuxLoop(g, x, first, k)
    BY Zenon, <2>2, <2>3
  <2> QED
    BY Zenon, <2>2, <2>4
<1>3. n \in T
  <2> HIDE DEF T
  <2> QED
    BY ONLY Zenon, n \in Nat, <1>1, <1>2, Upward
<1> QED
  BY Zenon, <1>3

\* What the turns of a loop are.
LEMMA MuxTurns ==
    ASSUME NEW x, NEW first, NEW n \in Nat, NEW f, IsMuxLoop(f, x, first, n)
    PROVE  /\ f[0] = first
           /\ \A k \in 1..n : f[k] = MuxRun(x, k, f[k - 1])
<1>1. \A k \in 0..n : f[k] = IF k = 0 THEN first ELSE MuxRun(x, k, f[k - 1])
  BY Zenon DEF IsMuxLoop
<1> QED
  BY <1>1

\* The bounds of a part.
LEMMA FedauthPart == \A x, y : Fedauth!Part(x, y).from = x /\ Fedauth!Part(x, y).to = y
BY DEF Fedauth!Part

(***************************************************************************)
(* Federated authentication                                                *)
(***************************************************************************)

\* A length that lies within the bytes is a number.
LEMMA FedauthLength ==
    ASSUME NEW b \in Seq(Byte), NEW i \in Nat, i + 4 <= Len(b)
    PROVE  Fedauth!U32(b, i) \in Nat
<1>1. \A x \in Byte : x \in Nat
  BY DEF Byte
<1> HIDE DEF Byte
<1> DEFINE w == b[i + 1]
           x == b[i + 2]
           y == b[i + 3]
           z == b[i + 4]
<1>2. w \in Byte /\ x \in Byte /\ y \in Byte /\ z \in Byte
  OBVIOUS
<1>3. /\ Fedauth!At(b, i) = w /\ Fedauth!At(b, i + 1) = x
      /\ Fedauth!At(b, i + 2) = y /\ Fedauth!At(b, i + 3) = z
  BY DEF Fedauth!At
<1> HIDE DEF w, x, y, z
<1>4. w \in Nat /\ x \in Nat /\ y \in Nat /\ z \in Nat
  BY Zenon, <1>1, <1>2
<1>5. Fedauth!U32(b, i) = IF z > 0 THEN 256 * 256 * 256 ELSE (w + 256 * x) + 65536 * y
  BY <1>3 DEF Fedauth!U32, Fedauth!U16, Fedauth!Huge
<1> QED
  BY ONLY SMTT(60), <1>4, <1>5

\* Where the token of a federated-authentication message ends, if its length is right.
LEMMA FedauthPass ==
    ASSUME NEW b \in Seq(Byte), Len(b) >= 8
    PROVE  LET to == Fedauth!Pass(b, 4, Len(b), Fedauth!Counted(4))
           IN  to = Fedauth!Failed \/ to \in 8..Len(b)
<1> DEFINE n == Fedauth!U32(b, 4)
           f == Fedauth!Counted(4)
<1>1. n \in Nat
  BY FedauthLength
<1>2. Fedauth!LE(b, 4, f[1]) = n /\ f[1] = 4 /\ f[2] = 1 /\ f[2] * n = n
  BY <1>1 DEF Fedauth!LE, Fedauth!Counted
<1> HIDE DEF n, f
<1>3. Fedauth!Pass(b, 4, Len(b), f) = IF 4 + 4 > Len(b) THEN Fedauth!Failed ELSE Fedauth!Upto(4 + 4 + n, Len(b))
  BY <1>2 DEF Fedauth!Pass, Fedauth!Failed
<1> QED
  BY <1>1, <1>3 DEF f, Fedauth!Upto

\* Three parts that follow on one another, with empty ones among them.
LEMMA ThreeOnce ==
    ASSUME NEW a, NEW c, NEW d, NEW from \in Nat, NEW to \in Nat, NEW n \in Nat,
           a = Fedauth!Part(from, to), from <= to, to <= n,
           \/ c = Fedauth!Part(to, n) /\ d = Fedauth!NoPart
           \/ d = Fedauth!Part(to, n) /\ c = Fedauth!NoPart
           \/ to = n /\ c = Fedauth!NoPart /\ d = Fedauth!NoPart,
           NEW i \in from..n - 1
    PROVE  Once(<<a, c, d>>, i)
<1> DEFINE parts == <<a, c, d>>
<1>1. DOMAIN parts = 1..3 /\ parts[1] = a /\ parts[2] = c /\ parts[3] = d
  OBVIOUS
<1> HIDE DEF parts
<1>2. /\ a.from = from /\ a.to = to
      /\ Fedauth!Part(to, n).from = to /\ Fedauth!Part(to, n).to = n
      /\ Fedauth!NoPart.from = 0 /\ Fedauth!NoPart.to = 0
  BY Zenon, FedauthPart DEF Fedauth!NoPart
<1>3. AtMostOnce(parts, i) /\ \E k \in DOMAIN parts : Holds(parts[k], i)
  BY <1>1, <1>2 DEF AtMostOnce, Holds
<1> QED
  BY Zenon, <1>3 DEF Once, parts

\* The token, the nonce and the unclassified bytes of a federated-authentication message are all
\* that follows its two lengths (parse_for_telemetry of fedauth.rs).
LEMMA FedauthOnce ==
    ASSUME NEW b \in Seq(Byte), NEW expected,
           NEW i \in (IF Len(b) < 8 THEN 0 ELSE 8)..(Len(b) - 1)
    PROVE  LET r == Fedauth!parse_for_telemetry(b, expected)
           IN  Once(<<r.token, r.nonce, r.unclassified>>, i)
<1> DEFINE r == Fedauth!parse_for_telemetry(b, expected)
           s == Fedauth!parse(b, expected)
           n == Len(b)
           from == IF n < 8 THEN 0 ELSE 8
           to == Fedauth!Pass(b, 4, n, Fedauth!Counted(4))
           no == Fedauth!NoPart
<1>1. n \in Nat /\ from \in Nat /\ i \in from..n - 1
  OBVIOUS
<1>2. n >= 8 => to = Fedauth!Failed \/ to \in 8..n
  BY Zenon, FedauthPass
<1> HIDE DEF to
<1>3. ASSUME NEW t \in from..n, r.token = Fedauth!Part(from, t),
             \/ r.nonce = Fedauth!Part(t, n) /\ r.unclassified = no
             \/ r.unclassified = Fedauth!Part(t, n) /\ r.nonce = no
             \/ t = n /\ r.nonce = no /\ r.unclassified = no
      PROVE  Once(<<r.token, r.nonce, r.unclassified>>, i)
  <2> HIDE DEF r, from, n
  <2>1. t \in Nat /\ from <= t /\ t <= n
    BY <1>1
  <2> QED
    BY ONLY Zenon, <1>1, <1>3, <2>1, ThreeOnce DEF no
<1>4. ASSUME s.ok PROVE Once(<<r.token, r.nonce, r.unclassified>>, i)
  <2>1. /\ n >= 8 /\ to # Fedauth!Failed
        /\ s = [ok |-> TRUE, token |-> Fedauth!Part(8, to),
                nonce |-> IF n = to THEN no ELSE Fedauth!Part(to, n)]
    BY <1>1, <1>4 DEF Fedauth!parse, Fedauth!From, to
  <2> HIDE DEF s
  <2>2. r = [token |-> s.token, nonce |-> s.nonce, unclassified |-> no, warned |-> FALSE]
    BY Zenon, <1>4 DEF Fedauth!parse_for_telemetry, Fedauth!Given, s
  <2>3. /\ r.token = Fedauth!Part(8, to) /\ r.unclassified = no
        /\ n = to => r.nonce = no
        /\ n # to => r.nonce = Fedauth!Part(to, n)
    <3> HIDE DEF r, no
    <3> QED
      BY Zenon, <2>1, <2>2
  <2>4. to \in from..n /\ from = 8
    BY <1>1, <1>2, <2>1
  <2> HIDE DEF r, from, n
  <2> QED
    BY ZenonT(60), <1>3, <2>3, <2>4
<1>5. ASSUME ~s.ok PROVE Once(<<r.token, r.nonce, r.unclassified>>, i)
  <2> DEFINE k == Fedauth!Presented(b, expected)
             t == k.to
             rest == Fedauth!Part(t, n)
             u == Fedauth!Unclassified(k, rest)
  <2>1. t \in from..n /\ k = Fedauth!Part(from, t)
    <3>1. CASE n < 8
      <4>1. k = Fedauth!Part(0, n)
        BY Zenon, <3>1 DEF Fedauth!Presented
      <4>2. t = n
        BY Zenon, <4>1, FedauthPart
      <4> QED
        BY SMT, <1>1, <3>1, <4>1, <4>2
    <3>2. CASE ~(n < 8) /\ to = Fedauth!Failed
      <4> DEFINE e == IF expected /\ n - 8 >= 32 THEN n - 32 ELSE n
      <4>1. k = Fedauth!Part(8, e)
        BY Zenon, <3>2 DEF Fedauth!Presented, Fedauth!From, to
      <4>2. t = e
        BY Zenon, <4>1, FedauthPart
      <4>3. e \in from..n /\ from = 8
        BY <1>1, <3>2
      <4> HIDE DEF e, k, from
      <4> QED
        BY SMT, <4>1, <4>2, <4>3
    <3>3. CASE ~(n < 8) /\ to # Fedauth!Failed
      <4>1. k = Fedauth!Part(8, to)
        BY Zenon, <3>3 DEF Fedauth!Presented, Fedauth!From, to
      <4>2. t = to
        BY Zenon, <4>1, FedauthPart
      <4>3. to \in from..n /\ from = 8
        BY <1>1, <1>2, <3>3
      <4> HIDE DEF k, from
      <4> QED
        BY Zenon, <4>1, <4>2, <4>3
    <3> QED
      BY Zenon, <3>1, <3>2, <3>3
  <2>2. r = u
    <3> HIDE DEF s
    <3> QED
      BY Zenon, <1>5 DEF Fedauth!parse_for_telemetry, Fedauth!Given, Fedauth!Salvaged, s
  <2> HIDE DEF k, rest
  <2>3. /\ u.token = k
        /\ \/ u.nonce = rest /\ u.unclassified = no
           \/ u.nonce = no /\ u.unclassified = rest
    <3> DEFINE isNonce == rest.to - rest.from = 32
    <3>1. u = [token |-> k, nonce |-> IF isNonce THEN rest ELSE no,
               unclassified |-> IF isNonce THEN no ELSE rest, warned |-> TRUE]
      BY Zenon DEF Fedauth!Unclassified
    <3> HIDE DEF u, isNonce, no
    <3> QED
      BY Zenon, <3>1
  <2> HIDE DEF r, from, n, u, t
  <2> QED
    BY ZenonT(60), <1>3, <2>1, <2>2, <2>3 DEF rest
<1>6. Once(<<r.token, r.nonce, r.unclassified>>, i)
  BY Zenon, <1>4, <1>5
<1> QED
  BY Zenon, <1>6 DEF r

(***************************************************************************)
(* Session multiplexing                                                    *)
(***************************************************************************)

IsFrames(turn, b, max) ==
    /\ turn[0] = [ok |-> TRUE, at |-> 0, frames |-> <<>>]
    /\ \A n \in 1..MaxFrames + 1 : turn[n] = Fedauth!Frame(b, turn[n - 1], max)
    /\ Fedauth!parse_smp(b, max) = turn[MaxFrames + 1]

\* The frames are read by such a loop (parse_smp).
LEMMA FramesLoop ==
    ASSUME NEW b, NEW max
    PROVE  \E turn : IsFrames(turn, b, max)
<1> DEFINE x == [loop |-> "frames", b |-> b, max |-> max]
           n == MaxFrames + 1
           first == [ok |-> TRUE, at |-> 0, frames |-> <<>>]
           Is(f) == f = [k \in 0..n |-> IF k = 0 THEN first ELSE Fedauth!Frame(b, f[k - 1], max)]
           t == CHOOSE f : Is(f)
<1>1. \A k, s : MuxRun(x, k, s) = Fedauth!Frame(b, s, max)
  BY Zenon DEF MuxRun
<1>2. Fedauth!parse_smp(b, max) = t[n]
  BY Zenon DEF Fedauth!parse_smp
<1> HIDE DEF x, first
<1>3. \A f : Is(f) <=> IsMuxLoop(f, x, first, n)
  BY <1>1 DEF IsMuxLoop
<1> HIDE DEF Is, n
<1>4. n \in Nat
  BY FrameLimit DEF n
<1>5. Is(t)
  BY Zenon, <1>3, <1>4, MuxLoop
<1> HIDE DEF t
<1>6. /\ t[0] = first
      /\ \A k \in 1..n : t[k] = MuxRun(x, k, t[k - 1])
  <2>1. IsMuxLoop(t, x, first, n)
    BY Zenon, <1>3, <1>5
  <2> QED
    BY ONLY SMT, <2>1, <1>4, MuxTurns
<1>7. \A k \in 1..n : t[k] = Fedauth!Frame(b, t[k - 1], max)
  BY Zenon, <1>1, <1>6
<1> QED
  BY Zenon, <1>2, <1>6, <1>7 DEF n, first, IsFrames

Spans == [from : Nat, to : Nat]

\* The frames that were read are the bytes that were passed.
IsMux(b, s) ==
    /\ s \in [ok : BOOLEAN, at : Nat, frames : Seq(Spans)]
    /\ s.at <= Len(b)
    /\ Len(s.frames) <= MaxFrames
    /\ Covers(s.frames, 0..s.at - 1)

MuxDone(b, s) == ~s.ok \/ s.at = Len(b)

\* One frame more, or the end.
LEMMA FrameStep ==
    ASSUME NEW b \in Seq(Byte), NEW max, NEW s, IsMux(b, s)
    PROVE  LET q == Fedauth!Frame(b, s, max)
           IN  /\ IsMux(b, q)
               /\ MuxDone(b, s) => q = s
               /\ MuxDone(b, q) \/ Len(q.frames) = Len(s.frames) + 1
<1> DEFINE q == Fedauth!Frame(b, s, max)
           i == s.at
           length == Fedauth!U32(b, i + 4)
           part == Fedauth!Part(i, i + length)
           no == [s EXCEPT !.ok = FALSE]
           yes == [s EXCEPT !.at = i + length, !.frames = Append(@, part)]
           short == i + Fedauth!HEADER_LEN > Len(b)
           wrong == \/ length < Fedauth!HEADER_LEN
                    \/ i + length > Len(b)
                    \/ Len(s.frames) = MaxFrames
<1>1. /\ MuxDone(b, s) => q = s
      /\ ~MuxDone(b, s) => \/ q = no
                           \/ ~short /\ ~wrong /\ q = yes
  BY Zenon DEF Fedauth!Frame, MuxDone
<1> HIDE DEF q, length, wrong, short
<1>2. IsMux(b, no) /\ ~no.ok
  <2>1. no.at = s.at /\ no.frames = s.frames /\ no \in [ok : BOOLEAN, at : Nat, frames : Seq(Spans)]
    BY Zenon DEF IsMux
  <2>2. ~no.ok
    BY Zenon DEF IsMux
  <2> QED
    BY Zenon, <2>1, <2>2 DEF IsMux
<1>3. ASSUME ~short, ~wrong
      PROVE  IsMux(b, yes) /\ Len(yes.frames) = Len(s.frames) + 1
  <2>1. i \in Nat /\ i + 16 <= Len(b) /\ Len(b) \in Nat
    BY <1>3 DEF short, IsMux, Fedauth!HEADER_LEN
  <2>2. length \in Nat
    <3>1. i + 4 \in Nat /\ (i + 4) + 4 <= Len(b)
      BY <2>1
    <3> QED
      BY Zenon, <3>1, FedauthLength DEF length
  <2>3. i + length <= Len(b) /\ Len(s.frames) # MaxFrames /\ i + length \in Nat /\ i <= i + length
    BY <1>3, <2>1, <2>2 DEF wrong
  <2>4. part \in Spans /\ part.from = i /\ part.to = i + length
    <3>1. part.from = i /\ part.to = i + length
      BY Zenon, FedauthPart
    <3> QED
      BY Zenon, <2>1, <2>3, <3>1 DEF Fedauth!Part, Spans
  <2>5. s.frames \in Seq(Spans) /\ Covers(s.frames, 0..i - 1)
    BY Zenon DEF IsMux
  <2> DEFINE k == i + length
             f == Append(s.frames, part)
  <2> HIDE DEF part, k
  <2>6. Covers(f, 0..k - 1)
    <3>1. 0 \in Nat /\ 0 <= i
      BY <2>1
    <3> DEFINE p == s.frames
               j == s.at
    <3>2. p \in Seq(Spans) /\ Covers(p, 0..j - 1) /\ j \in Nat /\ k \in Nat /\ j <= k /\ part.from = j /\ part.to = k
      BY ZenonT(60), <2>1, <2>3, <2>4, <2>5 DEF k
    <3> HIDE DEF p, j
    <3>3. 0 <= j
      BY <3>2
    <3>4. Covers(Append(p, part), 0..k - 1)
      BY ONLY ZenonT(60), <2>4, <3>1, <3>2, <3>3, CoversAppended
    <3> QED
      BY Zenon, <3>4 DEF p
  <2>7. f \in Seq(Spans) /\ Len(f) = Len(s.frames) + 1 /\ Len(f) <= MaxFrames
    <3>1. MaxFrames \in Nat /\ Len(s.frames) <= MaxFrames
      BY Zenon, FrameLimit DEF IsMux
    <3> QED
      BY SMTT(60), <2>3, <2>4, <2>5, <3>1
  <2>8. yes.at = k /\ yes.frames = f /\ yes \in [ok : BOOLEAN, at : Nat, frames : Seq(Spans)]
    <3>1. s \in [ok : BOOLEAN, at : Nat, frames : Seq(Spans)]
      BY Zenon DEF IsMux
    <3>2. yes = [s EXCEPT !.at = k, !.frames = f]
      BY Zenon DEF k
    <3>3. k \in Nat
      BY Zenon, <2>3 DEF k
    <3> HIDE DEF yes, f
    <3>4. yes \in [ok : BOOLEAN, at : Nat, frames : Seq(Spans)]
      <4> DEFINE F == Seq(Spans)
      <4>1. f \in F /\ s \in [ok : BOOLEAN, at : Nat, frames : F]
        BY Zenon, <2>7, <3>1
      <4> HIDE DEF F
      <4>2. yes \in [ok : BOOLEAN, at : Nat, frames : F]
        BY ONLY ZenonT(60), <4>1, <3>2, <3>3
      <4> QED
        BY Zenon, <4>2 DEF F
    <3> QED
      BY ONLY ZenonT(60), <3>1, <3>2, <3>4
  <2> HIDE DEF yes, f
  <2> QED
    BY Zenon, <2>3, <2>6, <2>7, <2>8 DEF IsMux, k
<1> HIDE DEF no, yes
<1>4. IsMux(b, q) /\ (MuxDone(b, q) \/ Len(q.frames) = Len(s.frames) + 1)
  BY ZenonT(60), <1>1, <1>2, <1>3 DEF MuxDone
<1> QED
  BY Zenon, <1>1, <1>4 DEF q

\* The frames of a payload that parse_smp accepts are the payload.
LEMMA FramesOnce ==
    ASSUME NEW b \in Seq(Byte), NEW max, Fedauth!parse_smp(b, max).ok, NEW i \in 0..(Len(b) - 1)
    PROVE  Once(Fedauth!parse_smp(b, max).frames, i)
<1>1. PICK t : IsFrames(t, b, max)
  BY Zenon, FramesLoop
<1> DEFINE n == MaxFrames + 1
           Good(k) == /\ IsMux(b, t[k])
                      /\ MuxDone(b, t[k]) \/ Len(t[k].frames) = k
           T == {k \in 0..n : Good(k)}
<1>2. n \in Nat /\ MaxFrames \in Nat
  BY FrameLimit
<1>3. 0 \in T
  <2>1. t[0] = [ok |-> TRUE, at |-> 0, frames |-> <<>>]
    BY Zenon, <1>1 DEF IsFrames
  <2>2. /\ t[0] \in [ok : BOOLEAN, at : Nat, frames : Seq(Spans)]
        /\ t[0].at = 0 /\ t[0].frames = <<>> /\ Len(t[0].frames) = 0
    BY <2>1
  <2>3. Covers(t[0].frames, 0..t[0].at - 1)
    <3>1. 0..t[0].at - 1 = {}
      BY <2>2
    <3> QED
      BY Zenon, <2>2, <3>1, CoversNone
  <2>4. t[0].at <= Len(b) /\ Len(t[0].frames) <= MaxFrames
    BY SMTT(60), <1>2, <2>2
  <2> QED
    BY SMTT(60), <1>2, <2>2, <2>3, <2>4 DEF IsMux
<1>4. ASSUME NEW k \in 1..n, k - 1 \in T
      PROVE  k \in T
  <2> DEFINE s == t[k - 1]
             q == t[k]
  <2>1. q = Fedauth!Frame(b, s, max)
    BY Zenon, <1>1 DEF IsFrames
  <2>2. IsMux(b, s) /\ (MuxDone(b, s) \/ Len(s.frames) = k - 1)
    BY Zenon, <1>4
  <2> HIDE DEF s, q
  <2>3. IsMux(b, q) /\ (MuxDone(b, s) => q = s) /\ (MuxDone(b, q) \/ Len(q.frames) = Len(s.frames) + 1)
    BY ZenonT(60), <2>1, <2>2, FrameStep
  <2>4. k \in 0..n /\ (k - 1) + 1 = k
    BY <1>2
  <2>5. MuxDone(b, q) \/ Len(q.frames) = k
    BY Zenon, <2>2, <2>3, <2>4
  <2> QED
    BY Zenon, <2>3, <2>4, <2>5 DEF q
<1>5. Good(n)
  <2> HIDE DEF Good, n
  <2>1. 0 \in T /\ \A k \in 1..n : k - 1 \in T => k \in T
    BY Zenon, <1>3, <1>4
  <2>2. n \in T
    <3> HIDE DEF T
    <3> QED
      BY ONLY Zenon, <1>2, <2>1, Upward
  <2> QED
    BY Zenon, <2>2
<1> DEFINE r == Fedauth!parse_smp(b, max)
<1>6. r = t[n]
  BY Zenon, <1>1 DEF IsFrames
<1>7. r.ok /\ Len(r.frames) <= MaxFrames /\ Covers(r.frames, 0..r.at - 1) /\ (MuxDone(b, r) \/ Len(r.frames) = n)
  BY Zenon, <1>5, <1>6 DEF IsMux
<1> HIDE DEF r
<1>8. r.at = Len(b)
  BY <1>2, <1>7 DEF MuxDone
<1>9. i \in 0..r.at - 1 /\ i \in Nat
  BY <1>8
<1> QED
  BY ZenonT(60), <1>7, <1>9, CoversOnce DEF r

(***************************************************************************)
(* The message on its way                                                  *)
(***************************************************************************)

\* A message that is cut or has another byte in it (CutOff, Bend) is still a sequence of bytes.
LEMMA StillBytes ==
    ASSUME wire \in Seq(Byte), CutOff \/ Bend
    PROVE  wire' \in Seq(Byte)
<1>1. CASE CutOff
  <2> HIDE DEF Byte
  <2> QED
    BY <1>1 DEF CutOff
<1>2. CASE Bend
  <2>1. PICK i \in DOMAIN wire, byte \in BentBytes : wire' = [wire EXCEPT ![i] = byte]
    BY Zenon, <1>2 DEF Bend
  <2>2. byte \in Byte
    BY Zenon, BentAreBytes
  <2> HIDE DEF Byte
  <2> QED
    BY <2>1, <2>2
<1> QED
  BY Zenon, <1>1, <1>2

(***************************************************************************)
(* The handlers                                                            *)
(***************************************************************************)

\* What the handlers have made of a message is what its bytes, which do not change any more, give.
PartsComputed ==
    /\ wire \in Seq(Byte)
    /\ Handled("stream") => Result.telemetry = Tds5!parse_for_telemetry(wire, Limit)
    /\ Handled("fedauth") =>
          Result.tolerant = Fedauth!parse_for_telemetry(wire, input.fedauth.expected)
    /\ Handled("smp") => Result = Fedauth!parse_smp(wire, Limit + 16)

\* No step of a message or of a handler changes that.
LEMMA PartStep == PartsComputed /\ [PartNext]_vars => PartsComputed'
<1> SUFFICES ASSUME PartsComputed, [PartNext]_vars PROVE PartsComputed'
  BY Zenon
<1> USE DEF Handled, Result
<1>1. CASE CutOff
  <2>1. wire' \in Seq(Byte)
    BY Zenon, <1>1, StillBytes DEF PartsComputed
  <2> QED
    BY Zenon, <1>1, <2>1 DEF CutOff, PartsComputed
<1>2. CASE Bend
  <2>1. wire' \in Seq(Byte)
    BY Zenon, <1>2, StillBytes DEF PartsComputed
  <2> QED
    BY Zenon, <1>2, <2>1 DEF Bend, PartsComputed
<1>3. CASE ReadElsewhere({"stream", "fedauth", "smp"})
  BY Zenon, <1>3 DEF ReadElsewhere, PartsComputed
<1>4. CASE UNCHANGED vars
  BY Zenon, <1>4 DEF vars, PartsComputed
<1>5. \A x : <<x>>[1] = x
  BY Zenon
<1>6. CASE ReadStream
  <2> DEFINE m == [strict |-> Tds5!parse_authentication(wire, 0, Limit),
                   telemetry |-> Tds5!parse_for_telemetry(wire, Limit)]
  <2>1. /\ input.kind = "stream" /\ input' = input /\ wire' = wire /\ output' = <<m>>
    BY Zenon, <1>6 DEF ReadStream, Handles
  <2>2. m.telemetry = Tds5!parse_for_telemetry(wire, Limit)
    BY Zenon
  <2> HIDE DEF m
  <2>3. output'[1] = m
    BY Zenon, <2>1, <1>5
  <2> QED
    BY Zenon, <2>1, <2>2, <2>3 DEF PartsComputed
<1>7. CASE ReadFedauth
  <2> DEFINE m == [strict |-> Fedauth!parse(wire, input.fedauth.expected),
                   tolerant |-> Fedauth!parse_for_telemetry(wire, input.fedauth.expected)]
  <2>1. /\ input.kind = "fedauth" /\ input' = input /\ wire' = wire /\ output' = <<m>>
    BY Zenon, <1>7 DEF ReadFedauth, Handles
  <2>2. m.tolerant = Fedauth!parse_for_telemetry(wire, input.fedauth.expected)
    BY Zenon
  <2> HIDE DEF m
  <2>3. output'[1] = m
    BY Zenon, <2>1, <1>5
  <2> QED
    BY Zenon, <2>1, <2>2, <2>3 DEF PartsComputed
<1>8. CASE ReadSmp
  <2> DEFINE m == Fedauth!parse_smp(wire, Limit + 16)
  <2>1. /\ input.kind = "smp" /\ input' = input /\ wire' = wire /\ output' = <<m>>
    BY Zenon, <1>8 DEF ReadSmp, Handles
  <2>2. output'[1] = m
    BY Zenon, <2>1, <1>5
  <2> HIDE DEF m
  <2> QED
    BY Zenon, <2>1, <2>2 DEF PartsComputed, m
<1> QED
  BY ZenonT(60), <1>1, <1>2, <1>3, <1>4, <1>6, <1>7, <1>8 DEF PartNext

\* Whatever arrives, what a handler has made of a message is what the parsers give for the bytes
\* that arrived.
LEMMA PartsAreComputed == PartSpec => []PartsComputed
<1>1. ReaderInit => PartsComputed
  BY Zenon DEF ReaderInit, PartsComputed, Handled
<1> QED
  BY PTL, <1>1, PartStep DEF PartSpec

\* What is reported of a stream is the whole stream, within the limit.
LEMMA StreamReported ==
    ASSUME PartsComputed, Handled("stream")
    PROVE  IsWhole(wire, Result.telemetry, Limit)
<1>1. wire \in Seq(Byte) /\ Result.telemetry = Tds5!parse_for_telemetry(wire, Limit)
  BY Zenon DEF PartsComputed
<1>2. Limit \in Nat
  BY Zenon, StreamLimits
<1> QED
  BY Zenon, <1>1, <1>2, TelemetryWhole

\* No byte of what was read has two meanings or none.
LEMMA ComputedOnce == PartsComputed => BytesHaveOneMeaning
<1> SUFFICES ASSUME PartsComputed PROVE BytesHaveOneMeaning
  BY Zenon
<1>1. ASSUME Handled("stream"), NEW i \in 0..(Len(wire) - 1)
      PROVE  LET regions == Result.telemetry.unparsed_regions
                 parts == Result.telemetry.tokens \o [k \in DOMAIN regions |-> Region(regions[k])]
             IN  Once(parts, i)
  <2> DEFINE r == Result.telemetry
             parts == r.tokens \o RegionParts(r.unparsed_regions)
  <2>1. Covers(parts, 0..Len(wire) - 1)
    BY Zenon, <1>1, StreamReported DEF IsWhole
  <2>2. i \in Nat
    OBVIOUS
  <2>3. Once(parts, i)
    <3> HIDE DEF parts
    <3> QED
      BY Zenon, <1>1, <2>1, <2>2, CoversOnce
  <2> QED
    BY Zenon, <2>3 DEF RegionParts
<1>2. ASSUME Handled("fedauth"), NEW i \in (IF Len(wire) < 8 THEN 0 ELSE 8)..(Len(wire) - 1)
      PROVE  Once(<<Result.tolerant.token, Result.tolerant.nonce, Result.tolerant.unclassified>>, i)
  <2>1. /\ wire \in Seq(Byte)
        /\ Result.tolerant = Fedauth!parse_for_telemetry(wire, input.fedauth.expected)
    BY Zenon, <1>2 DEF PartsComputed
  <2> QED
    BY Zenon, <1>2, <2>1, FedauthOnce
<1>3. ASSUME Handled("smp"), Result.ok, NEW i \in 0..(Len(wire) - 1)
      PROVE  Once(Result.frames, i)
  <2>1. wire \in Seq(Byte) /\ Result = Fedauth!parse_smp(wire, Limit + 16)
    BY Zenon, <1>3 DEF PartsComputed
  <2> QED
    BY Zenon, <1>3, <2>1, FramesOnce
<1> QED
  BY Zenon, <1>1, <1>2, <1>3 DEF BytesHaveOneMeaning

\* For every message, whatever arrives of it and however long it is: the tokens and unparsed
\* regions that parse_for_telemetry reports are the whole TDS 5 stream, a federated-authentication
\* message is divided, and frames are the payload.
THEOREM EveryByteOnce == PartSpec => []BytesHaveOneMeaning
BY PTL, PartsAreComputed, ComputedOnce

\* For every TDS 5 stream and every limit, parse_for_telemetry keeps at most so many bytes of values,
\* also when it joins two readings.
THEOREM WithinTheLimit == PartSpec => []StreamBudget
<1>1. PartsComputed => StreamBudget
  BY Zenon, StreamReported DEF StreamBudget, IsWhole, Budgeted
<1> QED
  BY PTL, <1>1, PartsAreComputed
=============================================================================
