------------------------------ MODULE StoreCodec ------------------------------
(* Writing and reading durable records.  Encoded bytes are a sequence of      *)
(* tokens, each a value with the number of bytes it takes; a read that asks   *)
(* for another number of bytes than was written there fails, as reading at a  *)
(* shifted offset does.  Readers give the set of [v, rest], empty for errors. *)
EXTENDS Integers, Sequences, FiniteSets, FiniteSetsExt

(* A value used several times.                                                *)
Bind(x, F(_)) == CHOOSE z \in {F(y) : y \in {x}} : TRUE

fixed(n, v) == <<[n |-> n, v |-> v]>>
u8(v) == fixed(1, v)
u16(v) == fixed(2, v)
u32(v) == fixed(4, v)
u64(v) == fixed(8, v)

append_bytes(length, v) == u32(length) \o fixed(length, v)

Flattened(s) ==
    LET upto[i \in 0..Len(s)] == IF i = 0 THEN <<>> ELSE upto[i - 1] \o s[i]
    IN  upto[Len(s)]

append_counted(width, s, Write(_)) ==
    fixed(width, Len(s)) \o Flattened(SubSeq([i \in DOMAIN s |-> Write(s[i])], 1, Len(s)))
append_all(s, Write(_)) == append_counted(4, s, Write)

encoded_len(t) ==
    MapThenSumSet(LAMBDA n : n * Cardinality({i \in DOMAIN t : t[i].n = n}), {t[i].n : i \in DOMAIN t})

-----------------------------------------------------------------------------
(* A reader's place in what it reads.                                         *)
Cursor(tokens) == [t |-> tokens, at |-> 0]
Left(c) == Len(c.t) - c.at
Peek(c, i) == c.t[c.at + i]
Drop(c, n) == [c EXCEPT !.at = @ + n]
AtEnd(c) == Left(c) = 0

Got(v, rest) == [v |-> v, rest |-> rest]

(* Several fixed fields at once.                                              *)
take(widths, c) ==
    IF Left(c) >= Len(widths) /\ \A i \in DOMAIN widths : Peek(c, i).n = widths[i]
    THEN {Got(SubSeq([i \in DOMAIN widths |-> Peek(c, i).v], 1, Len(widths)), Drop(c, Len(widths)))} ELSE {}

bounded_bytes(maximum, c) ==
    IF Left(c) >= 2 /\ Peek(c, 1).n = 4 /\ Peek(c, 1).v <= maximum /\ Peek(c, 2).n = Peek(c, 1).v
    THEN {Got(Peek(c, 2).v, Drop(c, 2))} ELSE {}

(* One read after another.                                                    *)
and_then(read, Next(_)) == UNION {Next(g) : g \in read}

(* A presence byte, then what it announces.                                   *)
optional(none, c, Read(_)) ==
    IF AtEnd(c) \/ Peek(c, 1).n # 1 THEN {}
    ELSE IF Peek(c, 1).v = 0 THEN {Got(none, Drop(c, 1))}
    ELSE IF Peek(c, 1).v = 1 THEN UNION {Read(rest) : rest \in {Drop(c, 1)}} ELSE {}

counted_in(width, maximum, c, Read(_)) ==
    IF AtEnd(c) \/ Peek(c, 1).n # width \/ Peek(c, 1).v > maximum THEN {}
    ELSE LET read[i \in 0..Peek(c, 1).v] ==
                 IF i = 0 THEN {Got(<<>>, Drop(c, 1))}
                 ELSE UNION {{Got(Append(g.v, h.v), h.rest) : h \in Read(g.rest)} : g \in read[i - 1]}
         IN  read[Peek(c, 1).v]
counted(maximum, c, Read(_)) == counted_in(4, maximum, c, Read)
=============================================================================
