-------------------------------- MODULE Sspi --------------------------------
(***************************************************************************)
(* Integrated-authentication tokens (src/tds/sspi.rs): an NTLM message     *)
(* anywhere in the token, else an inventory of the DER or BER nodes it is  *)
(* made of.  A walk keeps what it has found when it fails.  Text is the    *)
(* sequence of its code units.                                             *)
(***************************************************************************)
EXTENDS Bytes, FiniteSetsExt, SequencesExt

CONSTANTS MaxDepth,       \* 32 in the code
          MaxNodes        \* 4096
-----------------------------------------------------------------------------
(* DER and BER *)

EmptyInventory == [oids |-> <<>>, texts |-> <<>>, nodes |-> 0, indefinite |-> 0]

Insert(s, v) == IF Contains(s, v) THEN s ELSE Append(s, v)

\* An object identifier is the sequence of its arcs, an arc its significant
\* septets: more of them than 64 bits hold overflow.
OidByte(a, byte) ==
    LET arc == IF a.arc = <<>> /\ byte = 128 THEN <<>> ELSE Append(a.arc, byte % 128)
    IN  IF byte >= 128 THEN [a EXCEPT !.arc = arc]
        ELSE [arcs |-> Append(a.arcs, arc), arc |-> <<>>]

ArcFits(arc) == Len(arc) < 10 \/ (Len(arc) = 10 /\ arc[1] <= 1)

OidOf(value, arcs) ==
    [ok |-> value # <<>> /\ Last(value) < 128 /\ (\A k \in DOMAIN arcs : ArcFits(arcs[k])),
     arcs |-> arcs]

decode_oid(value) ==
    OidOf(value, FoldLeft(OidByte, [arcs |-> <<>>, arc |-> <<>>], value).arcs)

Controls == ((0..31) \ {9, 10, 12, 13}) \cup {127}

retain_der_text(inv, text) ==
    IF text = <<>> \/ Len(text) > 1024 \/ (\E k \in DOMAIN text : text[k] \in Controls)
    THEN inv
    ELSE [inv EXCEPT !.texts = Insert(@, text)]

\* Behind the tag: a tag number in bytes of its own takes at most eight.
TagEnd(b, i, end) ==
    LET last == {k \in 1..8 : i + k < end /\ At(b, i + k) < 128}
    IN  IF At(b, i) % 32 # 31 THEN i + 1
        ELSE IF last = {} THEN Failed ELSE i + Min(last) + 1

\* [at, end] of the content of a node whose length is at h; at is Failed when the length is cut
\* off, too wide or behind the input.
NoExtent == [at |-> Failed, end |-> Failed]
ExtentOf(at, n, end) == IF at + n > end THEN NoExtent ELSE [at |-> at, end |-> at + n]

BigEndian(bytes) ==
    FoldLeft(LAMBDA n, byte : IF n >= 65536 THEN Huge ELSE 256 * n + byte, 0, bytes)

Extent(b, h, end) ==
    LET octets == At(b, h) - 128
    IN  IF octets < 0 THEN ExtentOf(h + 1, At(b, h), end)
        ELSE IF octets > 4 \/ h + 1 + octets > end THEN NoExtent
        ELSE ExtentOf(h + 1 + octets, BigEndian(Slice(b, h + 1, h + 1 + octets)), end)

WideText(b, i, e) == [k \in 1..((e - i) \div 2) |-> 256 * At(b, i + 2 * k - 2) + At(b, i + 2 * k - 1)]

\* What a node with a definite length adds to the inventory.
Note(b, i, x, inv) ==
    LET value == Slice(b, x.at, x.end)
    IN  CASE At(b, i) = 6 -> [inv EXCEPT !.oids = Insert(@, decode_oid(value).arcs)]
          [] At(b, i) \in {12, 19, 22, 26, 27} -> retain_der_text(inv, value)
          [] At(b, i) = 30 /\ Len(value) % 2 = 0 -> retain_der_text(inv, WideText(b, x.at, x.end))
          [] OTHER -> inv

\* One node from i: [ok, at, inv], at being where the node ends.
Walked(ok, at, inv) == [ok |-> ok, at |-> at, inv |-> inv]

RECURSIVE walk_der(_, _, _, _, _), Children(_, _, _, _, _, _)
Node(b, i, x, depth, inv) ==
    IF At(b, i) = 6 /\ ~decode_oid(Slice(b, x.at, x.end)).ok THEN Walked(FALSE, i, inv)
    ELSE IF Bit(At(b, i), 32) THEN Children(b, x.at, x.end, depth, Note(b, i, x, inv), FALSE)
    ELSE Walked(TRUE, x.end, Note(b, i, x, inv))

Entered(b, i, end, depth, inv) ==
    IF inv.nodes > MaxNodes \/ i = end THEN Walked(FALSE, i, inv)
    ELSE From(Upto(TagEnd(b, i, end), end - 1), Walked(FALSE, i, inv), LAMBDA h :
      IF At(b, h) # 128
      THEN Then(Extent(b, h, end), Walked(FALSE, i, inv), LAMBDA x : Node(b, i, x, depth, inv))
      ELSE IF ~Bit(At(b, i), 32) THEN Walked(FALSE, i, inv)
      ELSE Children(b, h + 1, end, depth, [inv EXCEPT !.indefinite = @ + 1], TRUE))

\* Mutant of walk_der: the deepest level that is allowed is refused.
WalkShallow(b, i, end, depth, inv) ==
    IF depth >= MaxDepth THEN Walked(FALSE, i, inv)
    ELSE Entered(b, i, end, depth, [inv EXCEPT !.nodes = @ + 1])

walk_der(b, i, end, depth, inv) ==
    IF depth > MaxDepth THEN Walked(FALSE, i, inv)
    ELSE Entered(b, i, end, depth, [inv EXCEPT !.nodes = @ + 1])

\* The nodes from i to end, or to the two zero bytes that end an open one.
Children(b, i, end, depth, inv, open) ==
    IF open /\ i + 2 > end THEN Walked(FALSE, i, inv)
    ELSE IF open /\ At(b, i) = 0 /\ At(b, i + 1) = 0 THEN Walked(TRUE, i + 2, inv)
    ELSE IF ~open /\ i = end THEN Walked(TRUE, end, inv)
    ELSE LET next(child) == IF ~child.ok THEN child
                            ELSE Children(b, child.at, end, depth, child.inv, open)
         IN  next(walk_der(b, i, end, depth + 1, inv))

WholeWalk(b) == walk_der(b, 0, Len(b), 0, EmptyInventory)

Inventory(b, w) == [inventory |-> w.inv, complete |-> w.ok /\ w.at = Len(b)]

recover_der_inventory(b) == Inventory(b, WholeWalk(b))

\* The one object identifier that a value is, or nothing.
OneOid(b, w) ==
    IF w.ok /\ w.at = Len(b) /\ w.inv.nodes = 1 /\ Len(w.inv.oids) = 1 THEN w.inv.oids ELSE <<>>

decode_der_oid_tlv(b) == OneOid(b, WholeWalk(b))
-----------------------------------------------------------------------------
(* NTLM: a message of b from o on, with descriptors at fixed offsets *)

Signature == <<78, 84, 76, 77, 83, 83, 80, 0>>

security_buffer_value(b, o, offset) ==
    LET d == o + offset
        from == o + U32(b, d + 4)
    IN  IF U16(b, d) > U16(b, d + 2) \/ from + U16(b, d) > Len(b)
        THEN [ok |-> FALSE, bytes |-> <<>>]
        ELSE [ok |-> TRUE, bytes |-> Slice(b, from, from + U16(b, d))]

decode_text(bytes, unicode) ==
    IF unicode /\ Len(bytes) % 2 = 0
    THEN [k \in 1..(Len(bytes) \div 2) |-> bytes[2 * k - 1] + 256 * bytes[2 * k]]
    ELSE bytes

\* Buffers by name; a bad one is empty and leaves a warning.
Buffers(b, o, offsets) ==
    [f \in DOMAIN offsets |-> security_buffer_value(b, o, offsets[f]).bytes]
Warnings(b, o, offsets) ==
    {f \in DOMAIN offsets : ~security_buffer_value(b, o, offsets[f]).ok}

AuthenticateOffsets ==
    [lm |-> 12, nt |-> 20, domain |-> 28, username |-> 36, workstation |-> 44, key |-> 52]

Authenticate(raw, unicode, warnings) ==
    [ok |-> TRUE, warnings |-> warnings, secrets |-> <<raw.lm, raw.nt, raw.key>>,
     domain |-> decode_text(raw.domain, unicode), username |-> decode_text(raw.username, unicode),
     workstation |-> decode_text(raw.workstation, unicode)]

parse_ntlm_authenticate(b, o) ==
    IF o + 60 > Len(b) THEN [ok |-> FALSE, warnings |-> {"truncated"}]
    ELSE Authenticate(Buffers(b, o, AuthenticateOffsets),
                      o + 64 > Len(b) \/ Bit(At(b, o + 60), 1), Warnings(b, o, AuthenticateOffsets))

NegotiateOffsets == [domain |-> 16, workstation |-> 24]

Negotiate(raw, unicode, warnings) ==
    [ok |-> TRUE, warnings |-> warnings, domain |-> decode_text(raw.domain, unicode),
     workstation |-> decode_text(raw.workstation, unicode)]

parse_ntlm_negotiate(b, o) ==
    IF o + 32 > Len(b) THEN [ok |-> FALSE, warnings |-> {"truncated"}]
    ELSE Negotiate(Buffers(b, o, NegotiateOffsets), Bit(At(b, o + 12), 1),
                   Warnings(b, o, NegotiateOffsets))

Families == {\h60, \h6e, \h6f, \h7e, \ha0, \ha1, \h30}

\* The message of b from o on
Ntlm(b, o) ==
    LET type == IF o + 12 > Len(b) THEN 0 ELSE U32(b, o + 8)
    IN  [family |-> IF o = 0 THEN "ntlmssp" ELSE "spnego_ntlmssp", type |-> type,
         ntlm |-> IF type = 3 THEN <<parse_ntlm_authenticate(b, o)>>
                  ELSE IF type = 1 THEN <<parse_ntlm_negotiate(b, o)>>
                  ELSE <<>>,
         der |-> <<>>]

Token(b, found) ==
    IF found # {} THEN Ntlm(b, Min(found))
    ELSE IF b # <<>> /\ b[1] \in Families
    THEN [family |-> "der", type |-> 0, ntlm |-> <<>>, der |-> <<recover_der_inventory(b)>>]
    ELSE [family |-> "other", type |-> 0, ntlm |-> <<>>, der |-> <<>>]

parse(b) == Token(b, {i \in 0..Len(b) - 8 : Slice(b, i, i + 8) = Signature})

security_buffer(length, offset) == LE16(length) \o LE16(length) \o LE32(offset)

\* The challenge of the server, for its name in UTF-16 and eight bytes.
ntlm_challenge(target, challenge) ==
    LET entry(id) == LE16(id) \o LE16(Len(target)) \o target
        info == entry(1) \o entry(2) \o entry(3) \o entry(4) \o <<0, 0, 0, 0>>
    IN  Signature \o LE32(2) \o security_buffer(Len(target), 48)
          \o <<\h05, \h82, \h88, 0>> \o challenge \o <<0, 0, 0, 0, 0, 0, 0, 0>>
          \o security_buffer(Len(info), 48 + Len(target)) \o target \o info
=============================================================================
