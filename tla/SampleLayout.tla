----------------------------- MODULE SampleLayout ----------------------------
(***************************************************************************)
(* What the octets of an ASDU's sample block mean (proto/sv/layout.rs): the *)
(* channels of the data set back to back, nothing on the wire between them. *)
(*                                                                         *)
(* A layout is a sequence of channel types.  A floating point number, a    *)
(* timestamp and a quality word are copied octet by octet, so here they    *)
(* are the unsigned number those octets spell.                             *)
(***************************************************************************)
EXTENDS Integers, Sequences, SequencesExt

CONSTANT Octet    \* values of an octet, 256

ASSUME SampleLayoutAssumption == Octet \in Nat /\ Octet > 1 /\ Octet % 2 = 0

Signed == {"Int", "Enum"}
ChannelKinds == Signed \cup {"Boolean", "Unsigned", "Float32", "Float64", "Quality", "Timestamp"}

\* ChannelType::width, never outside 1 .. 8.
Width(c) ==
    CASE c.kind = "Boolean" -> 1
      [] c.kind \in {"Int", "Unsigned"} -> IF c.octets = 0 THEN 1 ELSE IF c.octets > 8 THEN 8 ELSE c.octets
      [] c.kind \in {"Enum", "Float32", "Quality"} -> 4
      [] OTHER -> 8

\* SampleLayout::new: the offset of a channel follows from the widths before it.
Offset(layout, i) == FoldLeft(LAMBDA n, c : n + Width(c), 0, SubSeq(layout, 1, i - 1))
LayoutLen(layout) == Offset(layout, Len(layout) + 1)
LayoutFits(layout, block) == Len(block) = LayoutLen(layout)

\* The low w octets of a number, big-endian, and the number that octets spell.
Octets(v, w) == [i \in 1 .. w |-> (v \div Octet ^ (w - i)) % Octet]
Number(octets) == FoldLeft(LAMBDA n, o : n * Octet + o, 0, octets)

Read(c, octets) ==
    LET n == Number(octets)
    IN  CASE c.kind = "Boolean" -> IF n = 0 THEN 0 ELSE 1
          [] c.kind \in Signed /\ 2 * n >= Octet ^ Len(octets) -> n - Octet ^ Len(octets)
          [] OTHER -> n

NoValue == "no value"

\* SampleLayout::value: none where there is no such channel in the block.
Holds(layout, block, i) == i \in DOMAIN layout /\ Offset(layout, i + 1) <= Len(block)
Value(layout, block, i) ==
    IF Holds(layout, block, i) THEN Read(layout[i], SubSeq(block, Offset(layout, i) + 1, Offset(layout, i + 1))) ELSE NoValue

\* SampleLayout::decode: a short block yields the channels it holds.
Channels(layout, block) ==
    [i \in {j \in DOMAIN layout : Holds(layout, block, j)} |-> Value(layout, block, i)]

\* A value that does not fit is a fault, not a sample.
FitsChannel(c, v) ==
    IF c.kind \in Signed THEN 2 * v >= -(Octet ^ Width(c)) /\ 2 * v < Octet ^ Width(c)
    ELSE v >= 0 /\ v < Octet ^ Width(c)

\* SampleLayout::write: the block, or nothing, where the layout has no such
\* channel, the block is short or the value does not fit.
MayWrite(layout, block, i, v) == i \in DOMAIN layout /\ Offset(layout, i + 1) <= Len(block) /\ FitsChannel(layout[i], v)
Write(layout, block, i, v) ==
    [o \in DOMAIN block |->
        IF o \in Offset(layout, i) + 1 .. Offset(layout, i + 1)
        THEN Octets(v, Width(layout[i]))[o - Offset(layout, i)] ELSE block[o]]

ZeroBlock(len) == [o \in 1 .. len |-> 0]
=============================================================================
