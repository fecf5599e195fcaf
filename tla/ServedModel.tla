----------------------------- MODULE ServedModel -----------------------------
(***************************************************************************)
(* The served model: the tree of named variables, the one store of values  *)
(* behind it, who may write what, and what each write leaves to be         *)
(* reported and logged.                                                    *)
(*                                                                         *)
(* A variable is known by the leaves under it, in the order of the model;  *)
(* the value written to it is the sequence of values for them.             *)
(***************************************************************************)
EXTENDS Integers, SequencesExt

CONSTANTS
    Served,          \* reference -> its functional constraint and its leaves
    LeafType,        \* leaf -> its basic type; an array's elements are no leaf of it
    AttributeOf,     \* attribute of a control block -> the block
    WritableAttrs,   \* the attributes a client configures; the server counts the rest
    TrackerOf,       \* functional constraint -> the leaf of its tracking object
    Shapes,          \* basic type -> the shapes of value it accepts
    Requests,        \* Writes a client may send: sequences of a reference and its values
    MaxServed,       \* bound: writes of clients, of the application, of the server
    NoFc             \* the functional constraint of a logical node: none

ASSUME ServedAssumption ==
    /\ DOMAIN AttributeOf \subseteq DOMAIN Served
    /\ \A r \in DOMAIN Served : ToSet(Served[r].walk) \subseteq DOMAIN Served
    /\ DOMAIN LeafType \subseteq DOMAIN Served
    /\ MaxServed \in Nat

VARIABLES
    store,       \* leaf -> its value
    dirty,       \* leaf -> what its writes since the last commit trigger
    servedPast   \* history: writes, values at the last commit, what clients did

servedVars == <<store, dirty, servedPast>>

ServedLeaves == DOMAIN LeafType
Default(type) == [shape |-> CHOOSE s \in Shapes[type] : TRUE, n |-> 0]

\* missed: leaves that had changed and were not marked for the logs and reports;
\* faked: values of the process a client changed; asked, verdicts: the last
\* Write.
ServedInit ==
    /\ store = [l \in ServedLeaves |-> Default(LeafType[l])]
    /\ dirty = [l \in ServedLeaves |-> {}]
    /\ servedPast = [writes |-> 0, committed |-> store, missed |-> {}, faked |-> {},
                     asked |-> <<>>, verdicts |-> <<>>]

-----------------------------------------------------------------------------
(* write_leaf, set_internal and the walk of a structure. m is the store and *)
(* the dirty set while a request is served; err is "none" for success.     *)

NonExistent == "object-non-existent"
Inconsistent == "type-inconsistent"
Denied == "object-access-denied"

Accepts(leaf, value) == value.shape \in Shapes[LeafType[leaf]]

TriggerOf(leaf, changed) ==
    IF ~changed THEN {"dupd"} ELSE IF LeafType[leaf] = "Quality" THEN {"qchg"} ELSE {"dchg"}

PutLast(m, leaf, value) ==
    [m EXCEPT !.store[leaf] = value, !.dirty[leaf] = TriggerOf(leaf, m.store[leaf] # value)]

Put(m, leaf, value) ==
    [m EXCEPT !.store[leaf] = value, !.dirty[leaf] = @ \cup TriggerOf(leaf, m.store[leaf] # value)]

\* Written with the type checked; a quality that changes is not a data change,
\* and a write that changes nothing is an update.
WriteLeaf(m, leaf, value) ==
    IF leaf \notin ServedLeaves THEN [m |-> m, err |-> NonExistent]
    ELSE IF ~Accepts(leaf, value) THEN [m |-> m, err |-> Inconsistent]
    ELSE [m |-> Put(m, leaf, value), err |-> "none"]

\* The leaves of a structure one after the other, until one is refused: what
\* was written before it stays.
WriteValue(m, ref, values) ==
    LET walk == Served[ref].walk
    IN  IF Len(values) # Len(walk) THEN [m |-> m, err |-> Inconsistent]
        ELSE FoldLeft(LAMBDA r, i : IF r.err = "none" THEN WriteLeaf(r.m, walk[i], values[i]) ELSE r,
                      [m |-> m, err |-> "none"], [i \in 1 .. Len(walk) |-> i])

-----------------------------------------------------------------------------
(* Who may write what.                                                     *)

ClientFcs == {"SP", "SV", "CF", "DC", "SE", "BL", "RP", "BR", "LG", "GO", "GS", "MS", "US"}

\* Inside a control block the table of its attributes, elsewhere the
\* functional constraint; a logical node has none.
Allowed(ref) ==
    IF ref \notin DOMAIN Served THEN NonExistent
    ELSE IF ref \in DOMAIN AttributeOf
    THEN IF ref \in WritableAttrs THEN "none" ELSE Denied
    ELSE IF Served[ref].fc \in ClientFcs THEN "none" ELSE Denied

\* One write: an attribute of a control block is its engine's to agree to, and
\* agrees says whether it does; everything else goes to the store.
WriteReference(m, ref, values, agrees) ==
    IF Allowed(ref) # "none" THEN [m |-> m, err |-> Allowed(ref)]
    ELSE IF ref \in DOMAIN AttributeOf /\ ~agrees THEN [m |-> m, err |-> Denied]
    ELSE WriteValue(m, ref, values)

\* The service is a data change of its own: the tracking object of the class.
TrackWrite(m, ref) ==
    LET fc == IF ref \in DOMAIN Served THEN Served[ref].fc ELSE NoFc
    IN  IF fc \notin DOMAIN TrackerOf THEN m
        ELSE WriteLeaf(m, TrackerOf[fc], [shape |-> "time", n |-> servedPast.writes + 1]).m

-----------------------------------------------------------------------------
(* What happens.                                                           *)

Room == servedPast.writes < MaxServed
Now == [store |-> store, dirty |-> dirty]

\* What only the device or an activation changes, and what the server counts.
OfTheProcess == {l \in ServedLeaves : Served[l].fc \in {"ST", "MX", "SG", "OR", "EX"}}
Bookkeeping == (ServedLeaves \cap DOMAIN AttributeOf) \ WritableAttrs

\* A Write, each of its variables answered for itself and tracked; agrees is
\* what the engines say of the attributes in it.
ClientWrite ==
    /\ Room
    /\ \E asked \in Requests, agrees \in BOOLEAN :
        LET one(r, a) ==
                LET w == WriteReference(r.m, a.ref, a.values, agrees)
                IN  [m |-> TrackWrite(w.m, a.ref), errs |-> Append(r.errs, w.err)]
            out == FoldLeft(one, [m |-> Now, errs |-> <<>>], asked)
            changed == {l \in ServedLeaves : out.m.store[l] # store[l]}
        IN  /\ store' = out.m.store
            /\ dirty' = out.m.dirty
            /\ servedPast' = [servedPast EXCEPT
                   !.writes = @ + 1,
                   !.faked = @ \cup (changed \cap OfTheProcess),
                   !.asked = asked,
                   !.verdicts = out.errs]

\* What was written is taken to the logs and the reports.
Unmarked(m) == {l \in ServedLeaves : m.store[l] # servedPast.committed[l] /\ m.dirty[l] \cap {"dchg", "qchg"} = {}}

Publish(m) ==
    /\ store' = m.store
    /\ dirty' = [l \in ServedLeaves |-> {}]

\* A transaction of the application: values of the process, written one after
\* the other and published at once, with what a request had not published yet.
Process == {l \in ServedLeaves : Served[l].fc \in {"ST", "MX"}}
Moves == [leaf : Process, n : 0 .. 1]
ApplicationWrites ==
    /\ Room
    /\ \E txn \in {<<w>> : w \in Moves} \cup {<<v, w>> : v, w \in Moves} :
        LET m == FoldLeft(LAMBDA r, w : WriteLeaf(r, w.leaf, [Default(LeafType[w.leaf]) EXCEPT !.n = w.n]).m, Now, txn)
        IN  /\ Publish(m)
            /\ servedPast' = [servedPast EXCEPT !.writes = @ + 1, !.committed = m.store, !.missed = @ \cup Unmarked(m),
                                                !.asked = <<>>, !.verdicts = <<>>]

\* The server counts: a value of its own bookkeeping, which no data set holds.
SetInternal ==
    /\ Room
    /\ \E l \in Bookkeeping :
        /\ store' = [store EXCEPT ![l].n = @ + 1]
        /\ servedPast' = [servedPast EXCEPT !.writes = @ + 1, !.committed[l] = store'[l], !.asked = <<>>, !.verdicts = <<>>]
    /\ UNCHANGED dirty

\* The thread that served a request takes the lock again and publishes.
CommitServed ==
    /\ \E l \in ServedLeaves : dirty[l] # {}
    /\ Publish(Now)
    /\ servedPast' = [servedPast EXCEPT !.committed = store, !.missed = @ \cup Unmarked(Now), !.asked = <<>>, !.verdicts = <<>>]

ServedNext == ClientWrite \/ ApplicationWrites \/ SetInternal \/ CommitServed

-----------------------------------------------------------------------------
(* Properties.                                                             *)

\* A write answered with success is in the store, whole; and every value that
\* is not what the logs and reports last saw is marked for them with a change,
\* whichever thread publishes it.
WritesAreKept ==
    /\ \A i \in DOMAIN servedPast.verdicts :
        servedPast.verdicts[i] = "none" =>
            \A k \in DOMAIN servedPast.asked[i].values :
                LET l == Served[servedPast.asked[i].ref].walk[k]
                IN  \/ store[l] = servedPast.asked[i].values[k]
                    \/ \E j \in DOMAIN servedPast.asked : j > i /\ l \in ToSet(Served[servedPast.asked[j].ref].walk)
    /\ servedPast.missed = {} /\ Unmarked(Now) = {}

\* No write of a client, to whatever variable of the tree, changes a value of
\* the process or a setting in force.
ProcessIsNotFaked == servedPast.faked = {}
=============================================================================
