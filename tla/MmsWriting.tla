------------------------------ MODULE MmsWriting ------------------------------
(***************************************************************************)
(* What proto/mms writes: the table of the write functions, apart from what *)
(* MmsShapes reads.                                                        *)
(***************************************************************************)
EXTENDS MmsShapes

(* Writing: a field is put unless it is missing or has a value that is left *)
(* out; an alternative brings its own tag.                                 *)

PuttingUnless(values, name, tag, shape) == [name |-> name, tag |-> tag, shape |-> shape, unless |-> values]
Putting(name, tag, shape) == PuttingUnless({}, name, tag, shape)
OneOf(alternatives) == [of |-> "oneOf", among |-> alternatives]
Way(name, tag, shape) == [name |-> name, tag |-> tag, shape |-> shape]
Holding(tag, shape) == [of |-> "holding", tag |-> tag, in |-> shape]
Each(tag, shape) == [of |-> "each", tag |-> tag, in |-> shape]
OwnTag == Prim(0)      \* of an element that brings its own

ObjectNameWrite ==
    OneOf({Way("vmd", Prim(0), Leaf("string")),
           Way("domain", Built(1), Fields(<<Putting("domain", VisibleTag, Leaf("string")), Putting("item", VisibleTag, Leaf("string"))>>)),
           Way("aa", Prim(2), Leaf("string"))})
NameInside == Holding(OwnTag, ObjectNameWrite)

ScopeWrite ==
    OneOf({Way("vmd", Prim(0), Leaf("nothing")), Way("domain", Prim(1), Leaf("string")),
           Way("aa", Prim(2), Leaf("nothing")), Way("other", OwnTag, Leaf("kept"))})

VariableListWrite ==
    Each(SequenceTag, Fields(<<Putting("name", Built(0), NameInside), PuttingUnless({<<>>}, "access", Built(5), Leaf("path")),
                               Putting("other", OwnTag, Leaf("kept"))>>))

AccessWrite == OneOf({Way("variables", Built(0), VariableListWrite), Way("list", Built(1), NameInside)})

ResultsWrite == Each(OwnTag, OneOf({Way("failure", Prim(0), Leaf("integer")), Way("success", OwnTag, Leaf("kept"))}))

InitiateWrite ==
    Fields(<<
        Putting("localDetail", Prim(0), Leaf("integer")),
        Putting("calling", Prim(1), Leaf("integer")),
        Putting("called", Prim(2), Leaf("integer")),
        Putting("nesting", Prim(3), Leaf("integer")),
        Putting("detail", Built(4), Fields(<<
            Putting("version", Prim(0), Leaf("integer")),
            Putting("parameters", Prim(1), Leaf("bits")),
            Putting("services", Prim(2), Leaf("bits"))>>))>>)

ReadJournalWrite ==
    Fields(<<
        Putting("name", Built(0), NameInside),
        Putting("start", Built(1), Holding(OwnTag, OneOf({Way("time", Prim(0), Leaf("octets")), Way("entry", Prim(1), Leaf("octets"))}))),
        Putting("stop", Built(2), Holding(OwnTag, OneOf({Way("time", Prim(0), Leaf("octets")), Way("count", Prim(1), Leaf("integer"))}))),
        PuttingUnless({<<>>}, "variables", Built(4), Each(VisibleTag, Leaf("string"))),
        Putting("after", Built(5), Fields(<<Putting("time", Prim(0), Leaf("octets")), Putting("entry", Prim(1), Leaf("octets"))>>))>>)

AttributesWrite == Fields(<<Putting("size", Prim(0), Leaf("unsigned")), Putting("modified", Prim(1), Leaf("string"))>>)
DirectoryEntryWrite == Fields(<<Putting("name", Built(0), Leaf("octets")), Putting("attributes", Built(1), AttributesWrite)>>)

\* An entry that names no origin says so with an empty one.
JournalEntryWrite ==
    Fields(<<
        Putting("entry", Prim(0), Leaf("octets")),
        Putting("origin", Built(1), Leaf("kept")),
        Putting("content", Built(2), Fields(<<
            Putting("occurred", Prim(0), Leaf("octets")),
            Putting("form", OwnTag, OneOf({
                Way("data", Built(2), Fields(<<
                    Putting("variables", Built(1), Each(SequenceTag, Fields(<<
                        Putting("tag", Prim(0), Leaf("string")), Putting("value", Built(1), Holding(OwnTag, Leaf("kept")))>>)))>>)),
                Way("annotation", Prim(3), Leaf("string"))}))>>))>>)
NoOrigin == [tag |-> Built(1), octets |-> Constructed(SequenceTag, <<>>)]

TypeWrite ==
    LET inner == Holding(OwnTag, Leaf("type"))
        packed == PuttingUnless({FALSE}, "packed", Prim(0), Leaf("boolean"))
    IN  OneOf({
            Way("named", Built(0), NameInside),
            Way("array", Built(1), Fields(<<packed, Putting("elements", Prim(1), Leaf("unsigned")), Putting("type", Built(2), inner)>>)),
            Way("structure", Built(2), Fields(<<packed, Putting("components", Built(1),
                Each(SequenceTag, Fields(<<Putting("name", Prim(0), Leaf("string")), Putting("type", Built(1), inner)>>)))>>)),
            Way("boolean", Prim(3), Leaf("nothing")),
            Way("bitString", Prim(4), Leaf("integer")),
            Way("integer", Prim(5), Leaf("unsigned")),
            Way("unsigned", Prim(6), Leaf("unsigned")),
            Way("float", Built(7), Fields(<<Putting("format", IntegerTag, Leaf("unsigned")), Putting("exponent", IntegerTag, Leaf("unsigned"))>>)),
            Way("octetString", Prim(9), Leaf("integer")),
            Way("visibleString", Prim(10), Leaf("integer")),
            Way("generalizedTime", Prim(11), Leaf("nothing")),
            Way("binaryTime", Prim(12), Leaf("boolean")),
            Way("bcd", Prim(13), Leaf("unsigned")),
            Way("mmsString", Prim(16), Leaf("integer")),
            Way("utcTime", Prim(17), Leaf("nothing")),
            Way("other", OwnTag, Leaf("number"))})

RejectWrite == Fields(<<Putting("id", Prim(0), Leaf("unsigned")), Putting("reason", OwnTag, Leaf("reason"))>>)

RequestWrite ==
    OneOf({
        Way("status", Prim(0), Leaf("boolean")),
        Way("getNameList", Built(1), Fields(<<
            Putting("class", Built(0), Holding(Prim(0), Leaf("integer"))),
            Putting("scope", Built(1), Holding(OwnTag, ScopeWrite)),
            Putting("after", Prim(2), Leaf("string"))>>)),
        Way("identify", Prim(2), Leaf("nothing")),
        Way("read", Built(4), Fields(<<
            PuttingUnless({FALSE}, "withResult", Prim(0), Leaf("boolean")),
            Putting("access", Built(1), Holding(OwnTag, AccessWrite))>>)),
        Way("write", Built(5), Fields(<<Putting("access", OwnTag, AccessWrite), Putting("values", Built(0), Each(OwnTag, Leaf("kept")))>>)),
        Way("getVariableAttributes", Built(6), Fields(<<Putting("name", Built(0), NameInside)>>)),
        Way("defineList", Built(11), Fields(<<Putting("name", OwnTag, ObjectNameWrite), Putting("variables", Built(0), VariableListWrite)>>)),
        Way("getListAttributes", Built(12), NameInside),
        Way("deleteList", Built(13), Fields(<<
            PuttingUnless({0}, "scope", Prim(0), Leaf("integer")),
            PuttingUnless({<<>>}, "names", Built(1), Each(OwnTag, ObjectNameWrite)),
            Putting("domain", Prim(2), Leaf("string"))>>)),
        Way("readJournal", Built(65), ReadJournalWrite),
        Way("getCapabilities", Built(71), Fields(<<Putting("after", VisibleTag, Leaf("string"))>>)),
        Way("fileOpen", Built(72), Fields(<<Putting("name", Built(0), Leaf("octets")), Putting("position", Prim(1), Leaf("unsigned"))>>)),
        Way("fileRead", Prim(73), Leaf("integer")),
        Way("fileClose", Prim(74), Leaf("integer")),
        Way("fileDelete", Built(76), Leaf("octets")),
        Way("fileDirectory", Built(77), Fields(<<Putting("specification", Built(0), Leaf("octets")), Putting("after", Built(1), Leaf("octets"))>>)),
        Way("other", OwnTag, Leaf("kept"))})

\* moreFollows, but not where it has the value its absence means.
MoreWrite(absent) == PuttingUnless({absent}, "more", Prim(1), Leaf("boolean"))
NamesWrite == Putting("names", Built(0), Each(VisibleTag, Leaf("string")))

ResponseWrite ==
    OneOf({
        Way("status", Built(0), Fields(<<
            Putting("logical", Prim(0), Leaf("integer")), Putting("physical", Prim(1), Leaf("integer")), Putting("detail", Prim(2), Leaf("bits"))>>)),
        Way("getNameList", Built(1), Fields(<<NamesWrite, MoreWrite(TRUE)>>)),
        Way("identify", Built(2), Fields(<<
            Putting("vendor", Prim(0), Leaf("string")), Putting("model", Prim(1), Leaf("string")), Putting("revision", Prim(2), Leaf("string"))>>)),
        Way("read", Built(4), Fields(<<
            Putting("access", Built(0), Holding(OwnTag, AccessWrite)), Putting("results", Built(1), ResultsWrite)>>)),
        Way("write", Built(5), Each(OwnTag, OneOf({Way("failure", Prim(0), Leaf("integer")), Way("success", Prim(1), Leaf("nothing"))}))),
        Way("getVariableAttributes", Built(6), Fields(<<
            Putting("deletable", Prim(0), Leaf("boolean")), Putting("type", Built(2), Holding(OwnTag, Leaf("type")))>>)),
        Way("defineList", Prim(11), Leaf("nothing")),
        Way("getListAttributes", Built(12), Fields(<<
            Putting("deletable", Prim(0), Leaf("boolean")), Putting("variables", Built(1), VariableListWrite)>>)),
        Way("deleteList", Built(13), Fields(<<Putting("matched", Prim(0), Leaf("unsigned")), Putting("deleted", Prim(1), Leaf("unsigned"))>>)),
        Way("readJournal", Built(65), Fields(<<Putting("entries", Built(0), Each(SequenceTag, JournalEntryWrite)), MoreWrite(FALSE)>>)),
        Way("getCapabilities", Built(71), Fields(<<NamesWrite, MoreWrite(TRUE)>>)),
        Way("fileOpen", Built(72), Fields(<<Putting("handle", Prim(0), Leaf("integer")), Putting("attributes", Built(1), AttributesWrite)>>)),
        Way("fileRead", Built(73), Fields(<<Putting("data", Prim(0), Leaf("octets")), MoreWrite(TRUE)>>)),
        Way("fileClose", Prim(74), Leaf("nothing")),
        Way("fileDelete", Prim(76), Leaf("nothing")),
        Way("fileDirectory", Built(77), Fields(<<
            Putting("entries", Built(0), Holding(SequenceTag, Each(SequenceTag, DirectoryEntryWrite))), MoreWrite(FALSE)>>)),
        Way("other", OwnTag, Leaf("kept"))})

PduWrite ==
    LET error(id) == <<Putting("id", Prim(0), Leaf(id)), Putting("modifier", Prim(1), Leaf("unsigned")), Putting("error", OwnTag, Leaf("kept"))>>
    IN  OneOf({
            Way("request", Built(0), Fields(<<Putting("id", IntegerTag, Leaf("integer")), Putting("service", OwnTag, RequestWrite)>>)),
            Way("response", Built(1), Fields(<<Putting("id", IntegerTag, Leaf("integer")), Putting("service", OwnTag, ResponseWrite)>>)),
            Way("error", Built(2), Fields(error("integer"))),
            Way("unconfirmed", Built(3), Holding(OwnTag, OneOf({
                Way("report", Built(0), Fields(<<Putting("access", OwnTag, AccessWrite), Putting("results", Built(0), ResultsWrite)>>)),
                Way("other", OwnTag, Leaf("kept"))}))),
            Way("reject", Built(4), RejectWrite),
            Way("cancelRequest", Prim(5), Leaf("unsigned")),
            Way("cancelResponse", Prim(6), Leaf("unsigned")),
            Way("cancelError", Built(7), Fields(error("unsigned"))),
            Way("initiateRequest", Built(8), InitiateWrite),
            Way("initiateResponse", Built(9), InitiateWrite),
            Way("initiateError", OwnTag, Leaf("kept")),
            Way("concludeRequest", Prim(11), Leaf("nothing")),
            Way("concludeResponse", Prim(12), Leaf("nothing")),
            Way("concludeError", OwnTag, Leaf("kept")),
            Way("other", OwnTag, Leaf("kept"))})
=============================================================================
