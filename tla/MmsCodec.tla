-------------------------------- MODULE MmsCodec --------------------------------
(***************************************************************************)
(* The MMS codec: the two tables as functions from octets to PDUs and back, *)
(* and a PDU on its way from the end that writes it to the end that reads   *)
(* it, over a line that may spoil it.                                      *)
(*                                                                         *)
(* A reader gives the set of what it reads, empty where the octets are     *)
(* refused.                                                                *)
(***************************************************************************)
EXTENDS MmsWriting

CONSTANTS
    Messages,         \* the PDUs written
    Spoilt(_),        \* what an octet may become on the way
    MaxSteps          \* alternate::MAX_DEPTH, the levels of a path that are read

ASSUME CodecAssumption == MaxSteps \in Nat

InvokeIdOf(c) == {v \in IntegerOf(c) : 0 <= v /\ v < 256 ^ Narrow}
TimeOf(c) == IF Len(c) \in {4, 6} THEN {c} ELSE {}
WidthOf(c) == {v \in Unsigned32Of(c) : v < 256}
FileNameOf(c) == {c : names \in {es \in Elements(c) : Len(es) <= 32 /\ \A i \in DOMAIN es :
                                    Len(es[i].value) <= MaxPrimitive /\ StringOf(es[i].value) # {}}}

LeafOf(of, e) ==
    CASE of = "integer" -> IntegerOf(e.value)
      [] of = "integer32" -> Integer32Of(e.value)
      [] of = "unsigned32" -> Unsigned32Of(e.value)
      [] of = "boolean" -> BooleanOf(e.value)
      [] of = "bits" -> BitStringOf(e.value)
      [] of = "string" -> StringOf(e.value)
      [] of = "octets" -> {e.value}
      [] of = "octetsWithin" -> {c \in {e.value} : Len(c) <= MaxPrimitive}
      [] of = "kept" -> {[tag |-> e.tag, octets |-> e.value]}
      [] of = "data" -> {[tag |-> e.tag, octets |-> e.value] : v \in View(e)}
      [] of = "time" -> TimeOf(e.value)
      [] of = "width" -> WidthOf(e.value)
      [] of = "fileName" -> FileNameOf(e.value)
      [] of = "invokeId" -> InvokeIdOf(e.value)
      [] of = "nothing" -> {<<>>}
      [] of = "number" -> {e.tag.number}

-----------------------------------------------------------------------------
(* The part of a variable: one selection a level.                          *)

CountedFrom(c) == UNION {UNION {
    {<<low, count>> : count \in UNION {Unsigned32Of(n.value) : n \in {x \in NextElement(l.rest) : x.tag = Prim(1)}}}
    : low \in Unsigned32Of(l.value)} : l \in {x \in NextElement(c) : x.tag = Prim(0)}}

SelectorOf(e, as) ==
    IF e.tag.class # "context" THEN {}
    ELSE CASE as = 1 -> {[component |-> s] : s \in StringOf(e.value)}
           [] as = 2 -> {[index |-> n] : n \in Unsigned32Of(e.value)}
           [] as = 3 -> {[range |-> r] : r \in CountedFrom(e.value)}
           [] as = 4 -> {[all |-> <<>>]}
           [] OTHER -> {}

RECURSIVE PathOf(_, _)
PathOf(c, depth) ==
    UNION {LET first == es[1]
               inner == IF Len(es) = 1 /\ first.tag = Built(0) THEN Elements(first.value) ELSE {}
           IN  IF Len(es) # 1 THEN {}
               ELSE IF first.tag # Built(0) THEN {<<s>> : s \in SelectorOf(first, first.tag.number)}
               ELSE UNION {UNION {{<<s>> \o more : more \in PathOf(in[2].value, depth + 1)}
                                  : s \in SelectorOf(in[1], in[1].tag.number + 1)}
                           : in \in {x \in inner : Len(x) = 2 /\ x[2].tag = SequenceTag}}
           : es \in {x \in Elements(c) : x # <<>> /\ depth < MaxSteps}}

SelectorOctets(s, last) ==
    LET tag(n) == IF last THEN n ELSE n - 1
    IN  IF "component" \in DOMAIN s THEN Primitive(Prim(tag(1)), s.component)
        ELSE IF "index" \in DOMAIN s THEN Primitive(Prim(tag(2)), UnsignedOctets(s.index))
        ELSE IF "range" \in DOMAIN s
        THEN Constructed(Built(tag(3)), [i \in 1 .. 2 |-> Primitive(Prim(i - 1), UnsignedOctets(s.range[i]))])
        ELSE Primitive(Prim(tag(4)), <<>>)

RECURSIVE PathOctets(_)
PathOctets(path) ==
    IF Len(path) = 1 THEN SelectorOctets(path[1], TRUE)
    ELSE Constructed(Built(0), <<SelectorOctets(path[1], FALSE), Constructed(SequenceTag, <<PathOctets(Tail(path))>>)>>)

\* The entries of a directory, in a wrapper of their own or without one.
DirectoryOf(c) ==
    LET first == NextElement(c)
        wrapped(f) == f.tag = SequenceTag /\ (f.value = <<>> \/ \E in \in NextElement(f.value) : in.tag = SequenceTag)
    IN  IF \E f \in first : wrapped(f) THEN (CHOOSE f \in first : TRUE).value ELSE c

-----------------------------------------------------------------------------
(* Reading by the table.  An optional field that is not the next element,  *)
(* or whose element is malformed, is missing.                              *)

RECURSIVE ReadAs(_, _)
RECURSIVE ReadAll(_, _)

\* The elements of a list, each as the shape says.
ReadAll(shape, c) ==
    UNION {LET each == [i \in DOMAIN es |-> IF shape.tags = {} \/ es[i].tag \in shape.tags THEN ReadAs(shape.each, es[i]) ELSE {}]
           IN  IF Len(es) > shape.most \/ \E i \in DOMAIN es : each[i] = {} THEN {}
               ELSE {[i \in DOMAIN es |-> CHOOSE v \in each[i] : TRUE]}
           : es \in Elements(c)}

\* One field more: what is still to be read, and the fields read so far.
NextField(at, f) ==
    LET next == {e \in NextElement(at.rest) : f.tags = {} \/ e.tag \in f.tags}
        with(e, v) == [rest |-> e.rest, got |-> at.got @@ (f.name :> v)]
        without == [rest |-> at.rest, got |-> IF f.how = "default" THEN at.got @@ (f.name :> f.value) ELSE at.got]
    IN  IF next = {} THEN (IF f.how = "needed" THEN {} ELSE {without})
        ELSE IF f.how = "passed" THEN {[at EXCEPT !.rest = e.rest] : e \in next}
        ELSE UNION {{with(e, v) : v \in ReadAs(f.shape, e)} : e \in next}

ReadFields(table, c) ==
    FoldLeft(LAMBDA ats, f : UNION {NextField(at, f) : at \in ats}, {[rest |-> c, got |-> <<>>]}, table)

ReadAs(shape, e) ==
    CASE shape.of = "fields" -> {at.got : at \in ReadFields(shape.table, e.value)}
      [] shape.of = "whole" -> {at.got : at \in {x \in ReadFields(shape.table, e.value) : x.rest = <<>>}}
      [] shape.of = "explicit" -> UNION {ReadAs(shape.in, in) : in \in NextElement(e.value)}
      [] shape.of = "many" -> ReadAll(shape, e.value)
      [] shape.of = "choice" ->
            LET taken == {k \in DOMAIN shape.among : e.tag \in shape.among[k].tags}
                way == IF taken = {} THEN shape.other ELSE shape.among[CHOOSE k \in taken : TRUE]
            IN  IF e.tag.class \notin shape.classes \/ way.name = "" THEN {}
                ELSE {way.name :> v : v \in ReadAs(way.shape, e)}
      [] shape.of = "first" ->
            ReadAs(IF \E in \in NextElement(e.value) : in.tag = shape.tag THEN shape.then ELSE shape.otherwise, e)
      [] shape.of = "type" -> IF shape.depth > MaxDepth THEN {} ELSE ReadAs(TypeRead(shape.depth), e)
      [] shape.of = "path" -> PathOf(e.value, 0)
      [] shape.of = "directory" -> ReadAll(Many({SequenceTag}, DirectoryEntryRead, MaxItems), DirectoryOf(e.value))
      [] shape.of = "reason" ->
            IF e.tag.class # "context" \/ e.tag.constructed \/ e.tag.number = 0 THEN {}
            ELSE {[tag |-> e.tag.number, code |-> v] : v \in IntegerOf(e.value)}
      [] OTHER -> LeafOf(shape.of, e)

\* Octets after the PDU are not looked at.
Parse(octets) == UNION {ReadAs(PduRead, e) : e \in NextElement(octets)}

\* The invoke identifier of a PDU whose service need not be readable.
AttributedKinds == {0, 1, 2, 5}
PeekInvokeId(octets) ==
    UNION {UNION {IntegerOf(id.value) : id \in {x \in NextElement(e.value) : x.tag \in {IntegerTag, Prim(0)}}}
           : e \in {x \in NextElement(octets) : x.tag.class = "context" /\ x.tag.number \in AttributedKinds}}

-----------------------------------------------------------------------------
(* Writing by the table.                                                   *)

RECURSIVE Write(_, _, _)
Write(shape, tag, v) ==
    CASE shape.of = "fields" ->
            Constructed(tag, [k \in DOMAIN shape.table |->
                LET f == shape.table[k]
                IN  IF f.name \notin DOMAIN v THEN <<>>
                    ELSE IF v[f.name] \in f.unless THEN <<>>
                    ELSE Write(f.shape, f.tag, v[f.name])])
      [] shape.of = "oneOf" ->
            LET way == CHOOSE w \in shape.among : w.name \in DOMAIN v IN Write(way.shape, way.tag, v[way.name])
      [] shape.of = "holding" -> Constructed(tag, <<Write(shape.in, shape.tag, v)>>)
      [] shape.of = "each" -> Constructed(tag, [k \in DOMAIN v |-> Write(shape.in, shape.tag, v[k])])
      [] shape.of = "type" -> Write(TypeWrite, tag, v)
      [] shape.of = "path" -> Constructed(tag, <<PathOctets(v)>>)
      [] shape.of = "reason" -> Primitive(Prim(v.tag), IntegerOctets(v.code))
      [] shape.of = "number" -> Primitive(Prim(v), <<>>)
      [] shape.of = "kept" -> Primitive(v.tag, v.octets)
      [] shape.of = "integer" -> Primitive(tag, IntegerOctets(v))
      [] shape.of = "unsigned" -> Primitive(tag, UnsignedOctets(v))
      [] shape.of = "boolean" -> Primitive(tag, BooleanOctets(v))
      [] shape.of = "bits" -> Primitive(tag, BitStringOctets(v))
      [] shape.of = "nothing" -> Primitive(tag, <<>>)
      [] shape.of \in {"string", "octets"} -> Primitive(tag, v)

Encode(pdu) == Write(PduWrite, OwnTag, pdu)

-----------------------------------------------------------------------------
(* A PDU, or a value of its own, on its way.                               *)

VARIABLES
    sent,       \* what was written: a PDU or a value
    line,       \* the octets
    spoilt,     \* where an octet was spoilt, 0: nowhere
    heard       \* what is read of them: <<>> or <<the set of readings>>

codecVars == <<sent, line, spoilt, heard>>

IsValue == "value" \in DOMAIN sent
Readings(octets) == IF IsValue THEN UNION {UNION {Owned(v, 0) : v \in View(e)} : e \in NextElement(octets)} ELSE Parse(octets)
Octets(m) == IF IsValue THEN Encoded(m) ELSE Encode(m)

CodecInit ==
    /\ sent \in Messages
    /\ line = IF IsValue THEN Encoded(sent.value) ELSE Encode(sent)
    /\ spoilt = 0
    /\ heard = <<>>

Spoil(i, o) ==
    /\ heard = <<>> /\ spoilt = 0
    /\ line[i] # o
    /\ line' = [line EXCEPT ![i] = o]
    /\ spoilt' = i
    /\ UNCHANGED <<sent, heard>>

Hear ==
    /\ heard = <<>>
    /\ heard' = <<Readings(line)>>
    /\ UNCHANGED <<sent, line, spoilt>>

CodecNext ==
    \/ \E i \in DOMAIN line : \E o \in Spoilt(line[i]) : Spoil(i, o)
    \/ Hear

-----------------------------------------------------------------------------
(* What is expected of the codec.                                          *)

RECURSIVE Fits(_, _)
Fits(v, depth) ==
    /\ depth <= MaxDepth
    /\ IF v.kind \in {"array", "structure"}
       THEN Len(v.of) <= MaxMembers /\ \A i \in DOMAIN v.of : Fits(v.of[i], depth + 1)
       ELSE Bounded(v.kind, IF v.kind = "bitString" THEN v.of.bits ELSE v.of)

\* What arrives as it was written is read as what was written, and a value
\* beyond the limits is refused.
WrittenIsRead ==
    heard # <<>> /\ spoilt = 0 =>
        heard[1] = IF IsValue THEN {sent.value : m \in {x \in {sent} : Fits(x.value, 0)}} ELSE {sent}

\* Whatever is read, from spoilt octets too, is written as octets that are read
\* and written as the same: nothing is lost between a reading and its writing.
ReadingIsKept ==
    heard # <<>> => \A m \in heard[1] : \E again \in Readings(Octets(m)) : Octets(again) = Octets(m)

\* A confirmed PDU whose service cannot be read still says whose it is, and the
\* hurried look agrees with the reading.
IsAttributed ==
    heard # <<>> /\ ~IsValue =>
        /\ \A m \in heard[1] : \A kind \in DOMAIN m \cap {"request", "response", "error"} : PeekInvokeId(line) = {m[kind].id}
        /\ heard[1] = {} => \A kind \in DOMAIN sent \cap {"request", "response", "error"} :
               spoilt > 2 + Len(Primitive(IntegerTag, IntegerOctets(sent[kind].id))) /\ Len(line) < 128
                   => PeekInvokeId(line) = {sent[kind].id}
=============================================================================
