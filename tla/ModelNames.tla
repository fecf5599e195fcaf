------------------------------- MODULE ModelNames -------------------------------
(***************************************************************************)
(* The names of a served model: the tree of named variables made of what   *)
(* the file declares, the reference of a member of a data set and whether  *)
(* the model has what it names, and an object reference on its way from a  *)
(* client, as a name and a selection beside it, back to a place in the     *)
(* tree.                                                                   *)
(*                                                                         *)
(* What is declared under a logical node is known by its path of names.    *)
(***************************************************************************)
EXTENDS Integers, SequencesExt

CONSTANTS
    Declarations,   \* the models: path -> an object or an attribute, constraint, count
    ConstraintsOf,  \* the functional constraints a reference may name
    Spelt,          \* the paths a file or a client may write
    Places,         \* the array indices it may write
    NoPlace         \* no index

ASSUME NamesAssumption ==
    /\ Places \subseteq Nat /\ NoPlace \notin Places
    /\ \A d \in Declarations : \A p \in DOMAIN d : Len(p) > 0 /\ (Len(p) > 1 => Front(p) \in DOMAIN d)

VARIABLES
    decl,     \* what the file declares
    asked     \* what is asked for: its parts, each a name and an index, the
              \* constraint, and the index a file writes beside them

namesVars == <<decl, asked>>

Part(name, place) == [name |-> name, place |-> place]
NamesIn(parts) == [k \in DOMAIN parts |-> parts[k].name]

Wordings(path) == {[k \in DOMAIN path |-> Part(path[k], at[k])] : at \in [DOMAIN path -> Places \cup {NoPlace}]}
Asks == UNION {[parts : Wordings(path), fc : ConstraintsOf, ix : Places \cup {NoPlace}] : path \in Spelt}

NamesInit ==
    /\ decl \in Declarations
    /\ asked = [parts |-> <<>>, fc |-> CHOOSE fc \in ConstraintsOf : TRUE, ix |-> NoPlace]

AskFor ==
    /\ asked.parts = <<>>
    /\ asked' \in Asks
    /\ UNCHANGED decl

NamesNext == AskFor

-----------------------------------------------------------------------------
(* The tree: domain_of and what it is made of.                             *)

IsArray(p) == decl[p].count > 0

\* The attributes an object has directly; those below have their constraint.
TopAttributes == {p \in DOMAIN decl : decl[p].kind = "attribute" /\ (Len(p) = 1 \/ decl[Front(p)].kind = "object")}

\* A setting is published under both of its constraints, whichever declares it.
BelongsUnder(declared, fc) == declared = fc \/ {declared, fc} \subseteq {"SG", "SE"}

\* What a logical node has under a constraint: the attributes that belong there,
\* what is below them, and the objects above them.
Published(fc) ==
    {p \in DOMAIN decl : \E a \in TopAttributes :
        BelongsUnder(decl[a].fc, fc) /\ (IsPrefix(a, p) \/ IsPrefix(p, a))}

\* The namespace ends at an array: its elements have no names.
Listed(fc) == {p \in Published(fc) : \A k \in 1 .. Len(p) - 1 : ~IsArray(SubSeq(p, 1, k))}

\* An index is for an array and inside it, and an array is passed with one only.
TreeResolves(fc, parts) ==
    /\ NamesIn(parts) \in Published(fc)
    /\ \A k \in DOMAIN parts :
        LET p == NamesIn(SubSeq(parts, 1, k))
        IN  IF parts[k].place # NoPlace THEN parts[k].place < decl[p].count
            ELSE k < Len(parts) => ~IsArray(p)

-----------------------------------------------------------------------------
(* A member of a data set: fcda_walk, fcda_reference, fcda_resolves.       *)

\* Each component a sub object or an attribute of what is before it, whatever
\* constraint it is declared under.
FcdaWalks(m) == NamesIn(m.parts) \in DOMAIN decl

ArrayAt(m, k) == IsArray(NamesIn(SubSeq(m.parts, 1, k)))
ArraysOf(m) == {k \in DOMAIN m.parts : ArrayAt(m, k)}
IndexWritten(m) == \E k \in DOMAIN m.parts : m.parts[k].place # NoPlace

FcdaReferenceAtEnd(m) ==
    IF m.ix = NoPlace \/ IndexWritten(m) THEN m.parts
    ELSE [m.parts EXCEPT ![Len(m.parts)].place = m.ix]

\* ix goes to the first array on the path, unless an index is written in it.
FcdaReference(m) ==
    IF m.ix = NoPlace \/ IndexWritten(m) \/ ~FcdaWalks(m) THEN m.parts
    ELSE IF ArraysOf(m) = {} THEN m.parts
    ELSE [m.parts EXCEPT ![Min(ArraysOf(m))].place = m.ix]

FcdaResolves(m) ==
    /\ FcdaWalks(m)
    /\ \A k \in DOMAIN m.parts :
        m.parts[k].place # NoPlace => ArrayAt(m, k) /\ m.parts[k].place < decl[NamesIn(SubSeq(m.parts, 1, k))].count
    /\ m.ix # NoPlace /\ ~IndexWritten(m) =>
        /\ ArraysOf(m) # {}
        /\ m.ix < decl[NamesIn(SubSeq(m.parts, 1, Min(ArraysOf(m))))].count

-----------------------------------------------------------------------------
(* A reference of a client: the name up to the first index, and the rest a *)
(* selection, which travels as an alternateAccess.                         *)

NamedLen(parts) ==
    LET at == {k \in DOMAIN parts : parts[k].place # NoPlace}
    IN  IF at = {} THEN Len(parts) ELSE Min(at)

ToMms(parts) == SubSeq(NamesIn(parts), 1, NamedLen(parts))

Component(name) == [kind |-> "component", of |-> name]
Index(i) == [kind |-> "index", of |-> i]

Selection(parts) ==
    FoldLeft(LAMBDA steps, k :
        steps \o (IF k > NamedLen(parts) THEN <<Component(parts[k].name)>> ELSE <<>>)
              \o (IF parts[k].place # NoPlace THEN <<Index(parts[k].place)>> ELSE <<>>),
        <<>>, [k \in DOMAIN parts |-> k])

\* The tag of the last step of an alternateAccess; of one with more after it,
\* one less.
LastTag(step) == CASE step.kind = "component" -> 1 [] step.kind = "index" -> 2

WriteSteps(steps) ==
    [k \in DOMAIN steps |-> [tag |-> IF k = Len(steps) THEN LastTag(steps[k]) ELSE LastTag(steps[k]) - 1, of |-> steps[k].of]]

Selector(asLast, of) == [kind |-> CASE asLast = 1 -> "component" [] asLast = 2 -> "index" [] OTHER -> "refused", of |-> of]

\* Read from the outside in; a step is the last when nothing is nested in it.
ParseSteps(sent) ==
    [k \in DOMAIN sent |-> Selector(IF k = Len(sent) THEN sent[k].tag ELSE sent[k].tag + 1, sent[k].of)]

\* item_with: a component is one more name, an index goes to the name before it.
ItemWith(name, steps) ==
    FoldLeft(LAMBDA parts, s :
        IF s.kind = "component" THEN Append(parts, Part(s.of, NoPlace))
        ELSE [parts EXCEPT ![Len(parts)].place = s.of],
        [k \in DOMAIN name |-> Part(name[k], NoPlace)], steps)

\* What the server looks up when a client asks for a reference.
Arrives(parts) == ItemWith(ToMms(parts), ParseSteps(WriteSteps(Selection(parts))))

-----------------------------------------------------------------------------
(* The leaves under a reference, in which its value is read and its changes *)
(* are seen.                                                               *)

IsLeaf(p) == \A q \in DOMAIN decl : IsPrefix(p, q) => q = p

PlacesAt(p) == IF IsArray(p) THEN 0 .. decl[p].count - 1 ELSE {NoPlace}

\* Every leaf below, an array's once for each of its elements.
LeavesOf(fc, parts) ==
    UNION {{l \in {[k \in DOMAIN p |-> Part(p[k], at[k])] : at \in [DOMAIN p -> Places \cup {NoPlace}]} :
                /\ \A k \in DOMAIN p : l[k].place \in PlacesAt(SubSeq(p, 1, k))
                /\ \A k \in DOMAIN parts : parts[k].place = NoPlace \/ l[k].place = parts[k].place}
           : p \in {q \in Published(fc) : IsLeaf(q) /\ IsPrefix(NamesIn(parts), q)}}

-----------------------------------------------------------------------------
(* Properties.                                                             *)

\* The reference of a member carries the index its file writes, in the path or
\* beside it.
Carries(m) == m.ix = NoPlace \/ IndexWritten(m) \/ FcdaReference(m) # m.parts

\* The file gives array k of a member an index, in the path or, to the first,
\* beside it.
FileIndexes(m, k) ==
    \/ m.parts[k].place # NoPlace
    \/ m.ix # NoPlace /\ ~IndexWritten(m) /\ k = Min(ArraysOf(m))

\* A member the validator lets through is one the server has, under a
\* constraint that something below it has and with every array before its last
\* component given an index, which the validator does not look at; what the
\* server has under a reference that carries the member's index, it lets
\* through. An index no component can carry it always refuses: that is where
\* such a member is stopped, for its reference is left as it is and the server
\* has the whole under it.
MembersAreServed ==
    asked.parts # <<>> =>
        LET r == FcdaReference(asked)
        IN  /\ /\ FcdaResolves(asked)
               /\ NamesIn(r) \in Published(asked.fc)
               /\ \A k \in 1 .. Len(r) - 1 : ArrayAt(asked, k) => FileIndexes(asked, k)
               => TreeResolves(asked.fc, r)
            /\ TreeResolves(asked.fc, r) /\ Carries(asked) => FcdaResolves(asked)
            /\ ~Carries(asked) => ~FcdaResolves(asked)

\* What a client asks for is what the server looks up, index by index; what
\* it finds is under a name that is listed, and has leaves, each of which the
\* tree has. A setting is found in force and in its edit copy alike.
ReferencesArrive ==
    asked.parts # <<>> =>
        /\ Arrives(asked.parts) = asked.parts
        /\ TreeResolves(asked.fc, asked.parts) =>
               /\ ToMms(asked.parts) \in Listed(asked.fc)
               /\ LeavesOf(asked.fc, asked.parts) # {}
               /\ \A l \in LeavesOf(asked.fc, asked.parts) : TreeResolves(asked.fc, l)
        /\ TreeResolves("SG", asked.parts) = TreeResolves("SE", asked.parts)
=============================================================================
