------------------------------- MODULE Bytes --------------------------------
(***************************************************************************)
(* Byte strings as the parsers of src/tds read them: positions count from  *)
(* zero, integers are little-endian, and a read past the end fails.  A     *)
(* layout is a sequence of fields, each of a fixed width or with a length  *)
(* before it; reading one field after another, as a Cursor does, either    *)
(* ends at a position or fails.                                            *)
(***************************************************************************)
EXTENDS Integers, Sequences

At(b, i) == b[i + 1]
Slice(b, i, j) == SubSeq(b, i + 1, j)
Bit(n, mask) == (n \div mask) % 2 = 1

U16(b, i) == At(b, i) + 256 * At(b, i + 1)

\* Lengths of four bytes: all that need the fourth are beyond any payload here.
Huge == 256 * 256 * 256
U32(b, i) ==
    IF At(b, i + 3) > 0 THEN Huge ELSE U16(b, i) + 65536 * At(b, i + 2)

LE(b, i, width) ==
    IF width = 1 THEN At(b, i) ELSE IF width = 2 THEN U16(b, i) ELSE U32(b, i)

LE16(n) == <<n % 256, n \div 256>>
LE32(n) == LE16(n % 65536) \o LE16(n \div 65536)

\* A position no read starts from.
Failed == -1

\* Fields: bytes, and units of as many bytes each that the first ones count
Fixed(n) == <<n, 0>>
Counted(width) == <<width, 1>>
Chars(width) == <<width, 2>>

\* i, unless it lies behind end.
Upto(i, end) == IF i > end THEN Failed ELSE i

\* Where a field that starts at i ends, not behind end.
Pass(b, i, end, f) ==
    IF i = Failed \/ i + f[1] > end THEN Failed
    ELSE Upto(i + f[1] + (IF f[2] = 0 THEN 0 ELSE f[2] * LE(b, i, f[1])), end)

\* Where a layout ends: its fields one after another.
Fit(b, i, end, layout) ==
    LET at[k \in 0..Len(layout)] == IF k = 0 THEN i ELSE Pass(b, at[k - 1], end, layout[k])
    IN  at[Len(layout)]

\* The layout takes the whole of the bytes from i to end.
Exactly(b, i, end, layout) == Fit(b, i, end, layout) = end

\* One read after another, the `?` of the code: the next one goes on from the position or from the
\* result of the last one, and is left out, the result being bad, when that failed.
From(at, bad, Next(_)) == IF at = Failed THEN bad ELSE Next(at)
Then(r, bad, Next(_)) == IF r.at = Failed THEN bad ELSE Next(r)
Given(r, bad, Next(_)) == IF ~r.ok THEN bad ELSE Next(r)

\* UTF-16 code units, least significant byte first
Units(b) == [k \in 1..(Len(b) \div 2) |-> U16(b, 2 * k - 2)]
=============================================================================
