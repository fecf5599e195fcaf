------------------------------- MODULE BerOctets -------------------------------
(***************************************************************************)
(* BER as this code writes and reads it (ber/mod.rs, writer.rs, reader.rs): *)
(* tags, definite lengths and the contents of primitives, in octets.       *)
(*                                                                         *)
(* A reader gives the set of what it reads: the value, or nothing when the *)
(* octets are refused.                                                     *)
(***************************************************************************)
EXTENDS Integers, SequencesExt, TLC

CONSTANTS
    Wide,      \* octets of an i64 and a u64
    Narrow,    \* octets of an i32 and a u32
    TagMax     \* the largest tag number, all ones

ASSUME BerAssumption ==
    /\ {Wide, Narrow} \subseteq Nat /\ 0 < Narrow /\ Narrow < Wide
    /\ TagMax \in 127 .. 128 * 128 * 128 - 1

Classes == <<"universal", "application", "context", "private">>
TagOf(class, constructed, number) == [class |-> class, constructed |-> constructed, number |-> number]
Context(n) == TagOf("context", FALSE, n)
ContextConstructed(n) == TagOf("context", TRUE, n)
IntegerTag == TagOf("universal", FALSE, 2)
SequenceTag == TagOf("universal", TRUE, 16)
GraphicTag == TagOf("universal", FALSE, 25)
VisibleTag == TagOf("universal", FALSE, 26)

BigEndian(v, width) == [i \in 1 .. width |-> (v \div 256 ^ (width - i)) % 256]
ValueOf(octets) == FoldLeft(LAMBDA v, o : v * 256 + o, 0, octets)

-----------------------------------------------------------------------------
(* The writer.                                                             *)

FirstOctet(tag) ==
    (64 * ((CHOOSE k \in 1 .. 4 : Classes[k] = tag.class) - 1)) + (IF tag.constructed THEN 32 ELSE 0)
        + (IF tag.number < 31 THEN tag.number ELSE 31)

\* A number of 31 and more in groups of seven bits, the last without the top bit.
Groups(n) ==
    LET k == CHOOSE k \in 1 .. 5 : n < 128 ^ k /\ (k = 1 \/ n >= 128 ^ (k - 1))
    IN  [i \in 1 .. k |-> (IF i < k THEN 128 ELSE 0) + ((n \div 128 ^ (k - i)) % 128)]

TagOctets(tag) == <<FirstOctet(tag)>> \o (IF tag.number < 31 THEN <<>> ELSE Groups(tag.number))

LengthOctets(n) ==
    IF n < 128 THEN <<n>>
    ELSE LET k == CHOOSE k \in 1 .. 3 : n < 256 ^ k /\ (k = 1 \/ n >= 256 ^ (k - 1))
         IN  <<128 + k>> \o BigEndian(n, k)

Primitive(tag, contents) == TagOctets(tag) \o LengthOctets(Len(contents)) \o contents

\* Contents of variable length, measured when they are written.
Constructed(tag, parts) == Primitive(tag, FlattenSeq(parts))

\* Two's complement, without the leading octets that only repeat the sign.
IntegerOctets(v) ==
    LET b == BigEndian(v % 256 ^ Wide, Wide)
        repeats(i) == (b[i] = 0 /\ b[i + 1] < 128) \/ (b[i] = 255 /\ b[i + 1] >= 128)
        start == Min({i \in 1 .. Wide : i = Wide \/ ~repeats(i)})
    IN  SubSeq(b, start, Wide)

\* Without leading zero octets, but one where the top bit is set.
UnsignedOctets(v) ==
    LET b == BigEndian(v, Wide)
        start == Min({i \in 1 .. Wide : i = Wide \/ b[i] # 0 \/ b[i + 1] >= 128})
    IN  (IF b[start] >= 128 THEN <<0>> ELSE <<>>) \o SubSeq(b, start, Wide)

BooleanOctets(v) == IF v THEN <<1>> ELSE <<0>>
BitStringOctets(v) == <<v.unused>> \o v.bits

-----------------------------------------------------------------------------
(* The reader: one element, and a cursor over several.                     *)

\* The tag, and how many octets it took. The long form is minimal, and a number
\* of four groups is larger than TagMax.
TagAt(o) ==
    LET low == o[1] % 32
        tag(number) == TagOf(Classes[1 + (o[1] \div 64)], (o[1] \div 32) % 2 = 1, number)
        ends == {i \in 2 .. Len(o) : o[i] < 128}
        last == Min(ends)
        number == FoldLeft(LAMBDA n, g : n * 128 + (g % 128), 0, SubSeq(o, 2, last))
    IN  IF low # 31 THEN {[tag |-> tag(low), size |-> 1]}
        ELSE IF ends = {} \/ last > 4 \/ o[2] = 128 THEN {}
        ELSE IF number < 31 \/ number > TagMax THEN {}
        ELSE {[tag |-> tag(number), size |-> last]}

\* The length, definite: short, or up to four octets.  One of 2^16 and more is
\* longer than any buffer there is here.
LengthAt(o) ==
    IF o = <<>> THEN {}
    ELSE IF o[1] < 128 THEN {[length |-> o[1], size |-> 1]}
    ELSE LET n == o[1] - 128
         IN  IF n = 0 \/ n > 4 \/ Len(o) < n + 1 \/ \E i \in 1 .. n - 2 : o[1 + i] # 0 THEN {}
             ELSE {[length |-> ValueOf(SubSeq(o, 2, n + 1)), size |-> n + 1]}

Dropped(o, n) == SubSeq(o, n + 1, Len(o))

\* The next element, and the octets after it.
NextElement(o) ==
    IF o = <<>> THEN {}
    ELSE UNION {UNION {
             LET from == t.size + l.size
             IN  IF from + l.length > Len(o) THEN {}
                 ELSE {[tag |-> t.tag, value |-> SubSeq(o, from + 1, from + l.length), rest |-> Dropped(o, from + l.length)]}
         : l \in LengthAt(Dropped(o, t.size))} : t \in TagAt(o)}

\* All of them; a malformed one refuses the whole.
Elements(o) ==
    LET from[i \in 1 .. Len(o) + 1] ==
            IF i > Len(o) THEN {<<>>}
            ELSE UNION {{<<[tag |-> e.tag, value |-> e.value]>> \o others : others \in from[Len(o) - Len(e.rest) + 1]}
                        : e \in NextElement(Dropped(o, i - 1))}
    IN  from[1]

IntegerOf(c) ==
    IF Len(c) \notin 1 .. Wide THEN {}
    ELSE {ValueOf(c) - (IF c[1] >= 128 THEN 256 ^ (Len(c)) ELSE 0)}

\* Leniently: the top bit is no sign, and one leading zero octet is allowed.
UnsignedOf(c) ==
    IF Len(c) = Wide + 1 /\ c[1] = 0 THEN {ValueOf(c)}
    ELSE IF Len(c) \in 1 .. Wide THEN {ValueOf(c)}
    ELSE {}

Integer32Of(c) == {v \in IntegerOf(c) : -(256 ^ Narrow \div 2) <= v /\ v < 256 ^ Narrow \div 2}
Unsigned32Of(c) == {v \in UnsignedOf(c) : v < 256 ^ Narrow}
BooleanOf(c) == IF Len(c) = 1 THEN {c[1] # 0} ELSE {}

BitStringOf(c) ==
    IF c = <<>> THEN {}
    ELSE IF c[1] > 7 \/ (Len(c) = 1 /\ c[1] # 0) THEN {}
    ELSE {[unused |-> c[1], bits |-> Tail(c)]}

StringOf(c) == IF \A i \in DOMAIN c : c[i] < 128 THEN {c} ELSE {}
=============================================================================
