------------------------------- MODULE MmsShapes -------------------------------
(***************************************************************************)
(* What proto/mms reads and what it writes, as two tables that are written *)
(* apart as the code writes its parse and write functions apart: MmsCodec  *)
(* interprets them.                                                        *)
(*                                                                         *)
(* A shape says how the contents of one element are read or written.  The  *)
(* fields of a sequence stand in their order; a value is a record of the   *)
(* fields it has, so that a missing field is a None, and a choice is a     *)
(* record of the one alternative taken.                                    *)
(***************************************************************************)
EXTENDS BerOctets

CONSTANTS
    MaxDepth,         \* Limits::max_depth
    MaxMembers,       \* Limits::max_dataset_members
    MaxPrimitive,     \* Limits::max_primitive_len
    MaxItems          \* Limits::max_list_items

ASSUME DataAssumption == {MaxDepth, MaxMembers, MaxPrimitive} \subseteq Nat

-----------------------------------------------------------------------------
(* The values of GOOSE and MMS, ISO 9506's Data (proto/data.rs): a view of  *)
(* one element, the owned value within the limits of a decoder, and the     *)
(* encoder.  A float, a time and an octet string are the octets they travel *)
(* as.                                                                      *)

\* kind -> its tag number; every other number is kept as it is.
DataTags == [array |-> 1, structure |-> 2, boolean |-> 3, bitString |-> 4, integer |-> 5, unsigned |-> 6,
             float |-> 7, octetString |-> 9, visibleString |-> 10, binaryTime |-> 12, mmsString |-> 16, utcTime |-> 17]

Data(kind, of) ==
    [kind |-> kind, tag |-> TagOf("context", kind \in {"array", "structure"}, DataTags[kind]), of |-> of]
Kept(tag, octets) == [kind |-> "other", tag |-> tag, of |-> octets]

KindsOf(tag) ==
    {k \in DOMAIN DataTags : DataTags[k] = tag.number /\ tag.constructed = (k \in {"array", "structure"})}

FloatOf(c) == IF c # <<>> /\ <<c[1], Len(c)>> \in {<<8, 5>>, <<11, 9>>} THEN {c} ELSE {}

\* What the contents of a primitive of a kind read as. An MMSString is UTF-8, of
\* which the ASCII strings stand for all.
Contents(kind, c) ==
    CASE kind = "boolean" -> BooleanOf(c)
      [] kind = "bitString" -> BitStringOf(c)
      [] kind = "integer" -> IntegerOf(c)
      [] kind = "unsigned" -> UnsignedOf(c)
      [] kind = "float" -> FloatOf(c)
      [] kind \in {"visibleString", "mmsString"} -> StringOf(c)
      [] kind = "utcTime" -> IF Len(c) = 8 THEN {c} ELSE {}
      [] OTHER -> {c}

\* from_tlv: the members of an array or a structure are not looked at.
View(e) ==
    IF e.tag.class # "context" THEN {}
    ELSE IF KindsOf(e.tag) = {} THEN {Kept(e.tag, e.value)}
    ELSE UNION {{[kind |-> k, tag |-> e.tag, of |-> v] : v \in Contents(k, e.value)} : k \in KindsOf(e.tag)}

Bounded(kind, of) ==
    kind \in {"bitString", "octetString", "visibleString", "mmsString", "binaryTime", "other"} => Len(of) <= MaxPrimitive

\* to_owned: the value whole, unless it is nested, wide or long beyond the limits.
RECURSIVE Owned(_, _)
Owned(v, depth) ==
    IF depth > MaxDepth THEN {}
    ELSE IF v.kind \notin {"array", "structure"}
    THEN {w \in {v} : Bounded(w.kind, IF w.kind = "bitString" THEN w.of.bits ELSE w.of)}
    ELSE UNION {
        LET each == [i \in DOMAIN es |-> UNION {Owned(m, depth + 1) : m \in View(es[i])}]
        IN  IF Len(es) > MaxMembers \/ \E i \in DOMAIN es : each[i] = {} THEN {}
            ELSE {[v EXCEPT !.of = [i \in DOMAIN es |-> CHOOSE m \in each[i] : TRUE]]}
        : es \in Elements(v.of)}

\* encode: the members of an array or a structure one after another.
RECURSIVE Encoded(_)
Encoded(v) ==
    CASE v.kind \in {"array", "structure"} -> Constructed(v.tag, [i \in DOMAIN v.of |-> Encoded(v.of[i])])
      [] v.kind = "boolean" -> Primitive(v.tag, BooleanOctets(v.of))
      [] v.kind = "bitString" -> Primitive(v.tag, BitStringOctets(v.of))
      [] v.kind = "integer" -> Primitive(v.tag, IntegerOctets(v.of))
      [] v.kind = "unsigned" -> Primitive(v.tag, UnsignedOctets(v.of))
      [] OTHER -> Primitive(v.tag, v.of)

-----------------------------------------------------------------------------
(* Shapes *)

Prim(n) == Context(n)
Built(n) == ContextConstructed(n)

\* The tags of a number, where the code looks at the number only.
WithNumber(n) == {TagOf(class, c, n) : class \in Range(Classes), c \in BOOLEAN}

Leaf(of) == [of |-> of]
Fields(table) == [of |-> "fields", table |-> table]
Explicit(shape) == [of |-> "explicit", in |-> shape]
Many(tags, each, most) == [of |-> "many", tags |-> tags, each |-> each, most |-> most]
Choice(among, other) == [of |-> "choice", among |-> among, other |-> other, classes |-> Range(Classes)]
ContextChoice(among, other) == [Choice(among, other) EXCEPT !.classes = {"context"}]
Case(name, tags, shape) == [name |-> name, tags |-> tags, shape |-> shape]

Refused == Case("", {}, Leaf("kept"))
KeptWhole == Case("other", {}, Leaf("kept"))
Unlimited == 999

-----------------------------------------------------------------------------
(* Reading: a field is needed, optional, optional with a default, or passed *)
(* over.  Without tags, any element is the field.                          *)

Needs(name, tags, shape) == [name |-> name, tags |-> tags, shape |-> shape, how |-> "needed"]
May(name, tags, shape) == [name |-> name, tags |-> tags, shape |-> shape, how |-> "optional"]
Else(name, tags, shape, value) == [name |-> name, tags |-> tags, shape |-> shape, how |-> "default", value |-> value]
Passed(tags) == [name |-> "", tags |-> tags, shape |-> Leaf("kept"), how |-> "passed"]
AnyTag == {}

ObjectNameRead ==
    ContextChoice(<<
        Case("vmd", WithNumber(0), Leaf("string")),
        Case("domain", WithNumber(1), Fields(<<Needs("domain", {VisibleTag}, Leaf("string")),
                                             Needs("item", {VisibleTag}, Leaf("string"))>>)),
        Case("aa", WithNumber(2), Leaf("string"))>>, Refused)

ScopeRead ==
    ContextChoice(<<Case("vmd", WithNumber(0), Leaf("nothing")), Case("domain", WithNumber(1), Leaf("string")),
                    Case("aa", WithNumber(2), Leaf("nothing"))>>, KeptWhole)

\* A list item: a name and perhaps the part of it, or another specification.
VariableRead ==
    [of |-> "first", tag |-> Built(0),
     then |-> Fields(<<Needs("name", {Built(0)}, Explicit(ObjectNameRead)), May("access", {Built(5)}, Leaf("path"))>>),
     otherwise |-> Fields(<<Needs("other", AnyTag, Leaf("kept"))>>)]
VariableListRead == Many({SequenceTag}, VariableRead, MaxMembers)

AccessRead ==
    ContextChoice(<<Case("variables", WithNumber(0), VariableListRead),
                    Case("list", WithNumber(1), Explicit(ObjectNameRead))>>, Refused)

ResultsRead ==
    Many(AnyTag, Choice(<<Case("failure", {Prim(0)}, Leaf("integer"))>>, Case("success", {}, Leaf("data"))), MaxMembers)

InitiateRead ==
    Fields(<<
        May("localDetail", {Prim(0)}, Leaf("integer")),
        Needs("calling", {Prim(1)}, Leaf("integer")),
        Needs("called", {Prim(2)}, Leaf("integer")),
        May("nesting", {Prim(3)}, Leaf("integer")),
        Needs("detail", {Built(4)}, Fields(<<
            Needs("version", {Prim(0)}, Leaf("integer")),
            Needs("parameters", {Prim(1)}, Leaf("bits")),
            Needs("services", {Prim(2)}, Leaf("bits"))>>))>>)

ReadJournalRead ==
    Fields(<<
        May("name", {Built(0)}, Explicit(ObjectNameRead)),
        May("start", {Built(1)}, Explicit(Choice(<<Case("time", WithNumber(0), Leaf("time")),
                                                  Case("entry", WithNumber(1), Leaf("octets"))>>, Refused))),
        May("stop", {Built(2)}, Explicit(Choice(<<Case("time", WithNumber(0), Leaf("time")),
                                                 Case("count", WithNumber(1), Leaf("integer32"))>>, Refused))),
        Else("variables", {Built(4)}, Many(AnyTag, Leaf("string"), Unlimited), <<>>),
        May("after", {Built(5)}, Fields(<<Needs("time", {Prim(0)}, Leaf("time")),
                                         Needs("entry", {Prim(1)}, Leaf("octets"))>>))>>)

FileNameRead == Leaf("fileName")
AttributesRead == Fields(<<Needs("size", {Prim(0)}, Leaf("unsigned32")), May("modified", {Prim(1)}, Leaf("string"))>>)
DirectoryEntryRead == Fields(<<Needs("name", {Built(0)}, FileNameRead), Needs("attributes", {Built(1)}, AttributesRead)>>)

JournalEntryRead ==
    Fields(<<
        Needs("entry", {Prim(0)}, Leaf("octetsWithin")),
        May("origin", {Built(1)}, Leaf("kept")),
        Needs("content", {Built(2)}, Fields(<<
            Needs("occurred", {Prim(0)}, Leaf("time")),
            Passed({Built(1)}),
            Needs("form", AnyTag, Choice(<<
                Case("data", {Built(2)}, Fields(<<
                    Passed({Built(0)}),
                    Else("variables", {Built(1)},
                         Many({SequenceTag}, Fields(<<Needs("tag", {Prim(0)}, Leaf("string")),
                                                      Needs("value", {Built(1)}, Explicit(Leaf("data")))>>), MaxMembers),
                         <<>>)>>)),
                Case("annotation", {Prim(3)}, Leaf("string"))>>, Refused))>>))>>)

\* The name of a type keeps no difference between the VMD's and the association's.
TypeNameRead == [ObjectNameRead EXCEPT !.among[3].name = "vmd"]

\* A type, nested no deeper than the limit; a type the code has no name for is
\* its number.
TypeRead(depth) ==
    LET inner == Explicit([of |-> "type", depth |-> depth + 1])
        packed == Else("packed", {Prim(0)}, Leaf("boolean"), FALSE)
    IN  ContextChoice(<<
            Case("named", WithNumber(0), Explicit(TypeNameRead)),
            Case("array", WithNumber(1), Fields(<<packed, Needs("elements", {Prim(1)}, Leaf("unsigned32")), Needs("type", {Built(2)}, inner)>>)),
            Case("structure", WithNumber(2), Fields(<<packed, Needs("components", {Built(1)},
                Many({SequenceTag}, Fields(<<May("name", {Prim(0)}, Leaf("string")), Needs("type", {Built(1)}, inner)>>), MaxMembers))>>)),
            Case("boolean", WithNumber(3), Leaf("nothing")),
            Case("bitString", WithNumber(4), Leaf("integer32")),
            Case("integer", WithNumber(5), Leaf("width")),
            Case("unsigned", WithNumber(6), Leaf("width")),
            Case("float", WithNumber(7), Fields(<<Needs("format", {IntegerTag, Prim(0)}, Leaf("width")),
                                                Needs("exponent", {IntegerTag, Prim(1)}, Leaf("width"))>>)),
            Case("octetString", WithNumber(9), Leaf("integer32")),
            Case("visibleString", WithNumber(10), Leaf("integer32")),
            Case("generalizedTime", WithNumber(11), Leaf("nothing")),
            Case("binaryTime", WithNumber(12), Leaf("boolean")),
            Case("bcd", WithNumber(13), Leaf("width")),
            Case("mmsString", WithNumber(16), Leaf("integer32")),
            Case("utcTime", WithNumber(17), Leaf("nothing"))>>, Case("other", {}, Leaf("number")))

RejectRead ==
    [of |-> "whole",
     table |-> <<May("id", {Prim(0)}, Leaf("invokeId")),
                 Needs("reason", AnyTag, Leaf("reason"))>>]

RequestRead ==
    ContextChoice(<<
        Case("status", WithNumber(0), Leaf("boolean")),
        Case("getNameList", WithNumber(1), Fields(<<
            Needs("class", {Built(0)}, Explicit(Leaf("integer"))),
            Needs("scope", {Built(1)}, Explicit(ScopeRead)),
            May("after", {Prim(2)}, Leaf("string"))>>)),
        Case("identify", WithNumber(2), Leaf("nothing")),
        Case("read", WithNumber(4), Fields(<<
            Else("withResult", {Prim(0)}, Leaf("boolean"), FALSE),
            Needs("access", {Built(1)}, Explicit(AccessRead))>>)),
        Case("write", WithNumber(5), Fields(<<
            Needs("access", AnyTag, AccessRead),
            Needs("values", {Built(0)}, Many(AnyTag, Leaf("data"), MaxMembers))>>)),
        Case("getVariableAttributes", WithNumber(6), Fields(<<Needs("name", {Built(0)}, Explicit(ObjectNameRead))>>)),
        Case("defineList", WithNumber(11), Fields(<<
            Needs("name", AnyTag, ObjectNameRead), Needs("variables", {Built(0)}, VariableListRead)>>)),
        Case("getListAttributes", WithNumber(12), Explicit(ObjectNameRead)),
        Case("deleteList", WithNumber(13), Fields(<<
            Else("scope", {Prim(0)}, Leaf("integer"), 0),
            Else("names", {Built(1)}, Many(AnyTag, ObjectNameRead, MaxItems), <<>>),
            May("domain", {Prim(2)}, Leaf("string"))>>)),
        Case("readJournal", WithNumber(65), ReadJournalRead),
        Case("getCapabilities", WithNumber(71), Fields(<<May("after", {VisibleTag}, Leaf("string"))>>)),
        Case("fileOpen", WithNumber(72), Fields(<<
            Needs("name", {Built(0)}, FileNameRead), Needs("position", {Prim(1)}, Leaf("unsigned32"))>>)),
        Case("fileRead", WithNumber(73), Leaf("integer32")),
        Case("fileClose", WithNumber(74), Leaf("integer32")),
        Case("fileDelete", WithNumber(76), FileNameRead),
        Case("fileDirectory", WithNumber(77), Fields(<<
            May("specification", {Built(0)}, FileNameRead), May("after", {Built(1)}, FileNameRead)>>))>>, KeptWhole)

MoreReadTrue(value) == Else("more", {Prim(1)}, Leaf("boolean"), TRUE)

\* moreFollows is TRUE by default of a list of names or capabilities and of a
\* piece of a file, FALSE of journal entries and of a directory.
MoreRead(value) == Else("more", {Prim(1)}, Leaf("boolean"), value)

ResponseRead ==
    ContextChoice(<<
        Case("status", WithNumber(0), Fields(<<
            Needs("logical", {Prim(0)}, Leaf("integer")), Needs("physical", {Prim(1)}, Leaf("integer")),
            May("detail", {Prim(2)}, Leaf("bits"))>>)),
        Case("getNameList", WithNumber(1), Fields(<<
            Needs("names", {Built(0)}, Many({VisibleTag}, Leaf("string"), MaxItems)), MoreRead(TRUE)>>)),
        Case("identify", WithNumber(2), Fields(<<
            Needs("vendor", {Prim(0)}, Leaf("string")), Needs("model", {Prim(1)}, Leaf("string")),
            Needs("revision", {Prim(2)}, Leaf("string"))>>)),
        Case("read", WithNumber(4), Fields(<<
            May("access", {Built(0)}, Explicit(AccessRead)), Needs("results", {Built(1)}, ResultsRead)>>)),
        Case("write", WithNumber(5),
             Many(AnyTag, Choice(<<Case("failure", WithNumber(0), Leaf("integer"))>>, Case("success", {}, Leaf("nothing"))), Unlimited)),
        Case("getVariableAttributes", WithNumber(6), Fields(<<
            Else("deletable", {Prim(0)}, Leaf("boolean"), FALSE), Passed({Built(1)}),
            Needs("type", {Built(2)}, Explicit([of |-> "type", depth |-> 0]))>>)),
        Case("defineList", WithNumber(11), Leaf("nothing")),
        Case("getListAttributes", WithNumber(12), Fields(<<
            Else("deletable", {Prim(0)}, Leaf("boolean"), FALSE), Needs("variables", {Built(1)}, VariableListRead)>>)),
        Case("deleteList", WithNumber(13), Fields(<<
            Needs("matched", {Prim(0)}, Leaf("unsigned32")), Needs("deleted", {Prim(1)}, Leaf("unsigned32"))>>)),
        Case("readJournal", WithNumber(65), Fields(<<
            Needs("entries", {Built(0)}, Many({SequenceTag}, JournalEntryRead, MaxItems)), MoreRead(FALSE)>>)),
        Case("getCapabilities", WithNumber(71), Fields(<<
            Needs("names", {Built(0)}, Many({VisibleTag}, Leaf("string"), MaxItems)), MoreRead(TRUE)>>)),
        Case("fileOpen", WithNumber(72), Fields(<<
            Needs("handle", {Prim(0)}, Leaf("integer32")), Needs("attributes", {Built(1)}, AttributesRead)>>)),
        Case("fileRead", WithNumber(73), Fields(<<Needs("data", {Prim(0)}, Leaf("octetsWithin")), MoreRead(TRUE)>>)),
        Case("fileClose", WithNumber(74), Leaf("nothing")),
        Case("fileDelete", WithNumber(76), Leaf("nothing")),
        Case("fileDirectory", WithNumber(77), Fields(<<Needs("entries", {Built(0)}, Leaf("directory")), MoreRead(FALSE)>>))>>, KeptWhole)

PduRead ==
    ContextChoice(<<
        Case("request", WithNumber(0), Fields(<<
            Needs("id", {IntegerTag}, Leaf("invokeId")), Passed({SequenceTag}), Needs("service", AnyTag, RequestRead)>>)),
        Case("response", WithNumber(1), Fields(<<
            Needs("id", {IntegerTag}, Leaf("invokeId")), Needs("service", AnyTag, ResponseRead)>>)),
        Case("error", WithNumber(2), Fields(<<
            Needs("id", {Prim(0)}, Leaf("invokeId")), May("modifier", {Prim(1)}, Leaf("unsigned32")),
            Needs("error", AnyTag, Leaf("kept"))>>)),
        Case("unconfirmed", WithNumber(3), Explicit(Choice(<<
            Case("report", {Built(0)}, Fields(<<Needs("access", AnyTag, AccessRead), Needs("results", {Built(0)}, ResultsRead)>>))>>, KeptWhole))),
        Case("reject", WithNumber(4), RejectRead),
        Case("cancelRequest", WithNumber(5), Leaf("invokeId")),
        Case("cancelResponse", WithNumber(6), Leaf("invokeId")),
        Case("cancelError", WithNumber(7), Fields(<<
            Needs("id", {Prim(0)}, Leaf("invokeId")), Needs("error", AnyTag, Leaf("kept"))>>)),
        Case("initiateRequest", WithNumber(8), InitiateRead),
        Case("initiateResponse", WithNumber(9), InitiateRead),
        Case("initiateError", WithNumber(10), Leaf("kept")),
        Case("concludeRequest", WithNumber(11), Leaf("nothing")),
        Case("concludeResponse", WithNumber(12), Leaf("nothing")),
        Case("concludeError", WithNumber(13), Leaf("kept"))>>, KeptWhole)
=============================================================================
