---------------------------- MODULE ReportEngine ----------------------------
(***************************************************************************)
(* The server's report engine with the threads that drive it: one thread    *)
(* per association (src/src/server/net.rs), each of which polls the         *)
(* engine's deadlines, serves its client's Write requests and publishes,    *)
(* and an application that commits transactions.                            *)
(*                                                                         *)
(* All of them share one mutex.  A Write request holds it for the whole     *)
(* list of variables it names, releases it, and takes it again to publish:  *)
(* whatever another thread does may fall between the two.                   *)
(***************************************************************************)
EXTENDS ReportBlock

CONSTANTS
    Blocks,          \* the report control blocks of the model
    Kinds,           \* the kinds engineered: TRUE for buffered blocks
    Deletable,       \* data sets a client created, and may delete and create
    Structures,      \* what clients write when they write a block whole
    Taken,           \* how many of its leaves fit before one that does not
    Misfits,         \* whether clients also send values of the wrong type
    MaxWrites,       \* bound: variables named by one Write request
    MaxEntry         \* bound: the last EntryID a block may hand out

ASSUME ReportEngineAssumption ==
    /\ Kinds \subseteq BOOLEAN
    /\ Deletable \subseteq DataSet
    /\ Structures \subseteq Structure /\ Taken \subseteq Nat \ {0}
    /\ Misfits \in BOOLEAN
    /\ MaxWrites \in Nat \ {0}
    /\ MaxEntry \in Nat

VARIABLES
    rcb,          \* the blocks
    defined,      \* data sets that exist
    state,        \* the life of each association: new, open, closed
    lock,         \* the association whose request holds the mutex
    writes,       \* how many variables that request has written
    unpublished,  \* associations between serving a request and publishing
    dirty         \* members written since the last publish

vars == <<rcb, defined, state, lock, writes, unpublished, dirty>>
thread == <<state, lock, writes, unpublished>>

Opened == {a \in Assoc : state[a] = "open"}

\* A block as a configuration file engineers it.
Engineered == {NewBlock(kind, ds, period) :
                  kind \in Kinds, ds \in DataSet \ Deletable, period \in IntgPds}

Init ==
    /\ rcb \in [Blocks -> Engineered]
    /\ defined = DataSet \ Deletable
    /\ state = [a \in Assoc |-> "new"]
    /\ lock = None
    /\ writes = 0
    /\ unpublished = {}
    /\ dirty = {}

Clock == 0 .. Stale

\* The entries a block may still make without a new input, and the bound.
Count(p) == IF p THEN 1 ELSE 0

Owed(r, D) == Count(r.gi) + Count(r.due # Never)
                + Count(r.integrityDue # Never) + Count(D # {})

Room(blocks, D) ==
    \A b \in Blocks : blocks[b].nextEntry + Owed(blocks[b], D) <= MaxEntry + 1

(***************************************************************************)
(* Associations open and end.                                              *)
(***************************************************************************)
Open(a) ==
    /\ lock = None
    /\ state[a] = "new"
    /\ state' = [state EXCEPT ![a] = "open"]
    /\ rcb' = [b \in Blocks |-> Quiet(rcb[b])]
    /\ UNCHANGED <<defined, lock, writes, unpublished, dirty>>

Close(a) ==
    /\ lock = None
    /\ state[a] = "open" /\ a \notin unpublished
    /\ state' = [state EXCEPT ![a] = "closed"]
    /\ rcb' = [b \in Blocks |-> Closed(rcb[b], a)]
    /\ UNCHANGED <<defined, lock, writes, unpublished, dirty>>

(***************************************************************************)
(* A Write request, one variable at a time under the one lock.              *)
(***************************************************************************)
Serving(a) ==
    /\ state[a] = "open" /\ a \notin unpublished
    /\ lock \in {None, a}

\* After a variable the request either goes on to the next one or ends.
Continue(a) ==
    /\ writes + 1 < MaxWrites
    /\ lock' = a /\ writes' = writes + 1
    /\ UNCHANGED <<state, unpublished>>

Finish(a) ==
    /\ lock' = None /\ writes' = 0
    /\ unpublished' = unpublished \cup {a}
    /\ UNCHANGED state

Answered(a) == Continue(a) \/ Finish(a)

\* The write reaches block b, which becomes r; the others produce nothing.
WriteBlock(a, b, r) ==
    /\ Serving(a)
    /\ rcb' = [c \in Blocks |-> IF c = b THEN r ELSE Quiet(rcb[c])]
    /\ Answered(a)

Fits == IF Misfits THEN BOOLEAN ELSE {TRUE}

WriteRptEnaTrue(a, b, s) ==
    /\ MayEnable(rcb[b], a)
    /\ WriteBlock(a, b, Enabled(Quiet(rcb[b]), defined, a, s))
    /\ UNCHANGED <<defined, dirty>>
    /\ Room(rcb', dirty)

WriteRptEnaFalse(a, b, fits) ==
    /\ MayDisable(rcb[b], a)
    /\ WriteBlock(a, b, Disabled(Quiet(rcb[b]), fits))
    /\ UNCHANGED <<defined, dirty>>

WriteGI(a, b, on) ==
    /\ rcb[b].owner = a
    /\ WriteBlock(a, b, [Quiet(rcb[b]) EXCEPT !.gi = on])
    /\ UNCHANGED <<defined, dirty>>
    /\ Room(rcb', dirty)

WritePurgeBuf(a, b, on) ==
    /\ rcb[b].owner = a /\ rcb[b].buffered
    /\ WriteBlock(a, b, [Quiet(rcb[b]) EXCEPT !.purge = on])
    /\ UNCHANGED <<defined, dirty>>

\* Resv of an unbuffered block, ResvTms of a buffered one; a misfit is the
\* attribute the block has not got.
WriteReservation(a, b, linger, fits) ==
    /\ (linger = None) <=> (rcb[b].buffered <=> ~fits)
    /\ MayReserve(rcb[b], a)
    /\ WriteBlock(a, b, Reserved(Quiet(rcb[b]), a, linger, fits))
    /\ UNCHANGED <<defined, dirty>>

WriteRelease(a, b, fits) ==
    /\ WriteBlock(a, b, Released(Quiet(rcb[b]), a, fits))
    /\ UNCHANGED <<defined, dirty>>

WriteDatSet(a, b, ds) ==
    /\ MayConfigure(rcb[b], a) /\ ds \in defined
    /\ WriteBlock(a, b, Redirected(Quiet(rcb[b]), ds))
    /\ UNCHANGED <<defined, dirty>>

WriteIntgPd(a, b, period) ==
    /\ MayConfigure(rcb[b], a)
    /\ WriteBlock(a, b, [Quiet(rcb[b]) EXCEPT !.intgPd = period])
    /\ UNCHANGED <<defined, dirty>>

WriteEntryID(a, b, id) ==
    /\ MayConfigure(rcb[b], a) /\ rcb[b].buffered
    /\ WriteBlock(a, b, [Quiet(rcb[b]) EXCEPT !.entryID = id])
    /\ UNCHANGED <<defined, dirty>>

\* A Write of the block's own name.  Its constraint is a client's to write, the
\* engine knows blocks by their attributes, and the leaves go to the store; of
\* a structure that does not fit, those before the first misfit do.  A Write
\* of LLN0$BR or LLN0$RP is this for its blocks one after another.
WriteStructure(a, b, w, n) ==
    /\ WriteBlock(a, b, Overwritten(Quiet(rcb[b]), w, n))
    /\ UNCHANGED <<defined, dirty>>
    /\ Room(rcb', dirty)

\* A refused write changes nothing, but the request it is part of goes on.
WriteRefused(a) ==
    /\ Serving(a)
    /\ rcb' = [b \in Blocks |-> Quiet(rcb[b])]
    /\ Answered(a)
    /\ UNCHANGED <<defined, dirty>>

\* A client may also write process data a data set contains, and create or
\* delete a data set of its own; these are requests like any other.
WriteValue(a, m) ==
    /\ Serving(a)
    /\ rcb' = [b \in Blocks |-> Quiet(rcb[b])]
    /\ dirty' = dirty \cup {m}
    /\ Room(rcb, dirty')
    /\ Answered(a)
    /\ UNCHANGED defined

CreateDataSet(a, ds) ==
    /\ Serving(a) /\ lock = None
    /\ ds \in Deletable \ defined
    /\ defined' = defined \cup {ds}
    /\ rcb' = [b \in Blocks |-> Quiet(rcb[b])]
    /\ Finish(a)
    /\ UNCHANGED dirty

DeleteDataSet(a, ds) ==
    /\ Serving(a) /\ lock = None
    /\ ds \in Deletable \cap defined
    /\ defined' = defined \ {ds}
    /\ rcb' = [b \in Blocks |-> Quiet(rcb[b])]
    /\ Finish(a)
    /\ UNCHANGED dirty

(***************************************************************************)
(* Publishing, after a request and after an application's transaction, and  *)
(* the poll every thread makes between reads of its socket.                 *)
(***************************************************************************)
Publish(a, s) ==
    /\ lock = None
    /\ a \in unpublished
    /\ unpublished' = unpublished \ {a}
    /\ rcb' = [b \in Blocks |-> Committed(rcb[b], defined, dirty, s)]
    /\ dirty' = {}
    /\ Room(rcb', dirty')
    /\ UNCHANGED <<defined, state, lock, writes>>

Transact(D) ==
    /\ lock = None
    /\ rcb' = [b \in Blocks |-> Committed(rcb[b], defined, dirty \cup D, 0)]
    /\ dirty' = {}
    /\ Room(rcb', dirty')
    /\ UNCHANGED <<defined, thread>>

Poll(a, s) ==
    /\ lock = None
    /\ state[a] = "open" /\ a \notin unpublished
    /\ rcb' = [b \in Blocks |-> TimedOut(rcb[b], defined, s)]
    /\ UNCHANGED <<defined, dirty, thread>>
    /\ Room(rcb', dirty)

Tick ==
    /\ rcb' = [b \in Blocks |-> LetTimePass(rcb[b])]
    /\ UNCHANGED <<defined, dirty, thread>>

(***************************************************************************)
(* The specification.                                                      *)
(***************************************************************************)
EntryIDs == 0 .. MaxEntry

WriteRequest(a) ==
    \/ WriteRefused(a)
    \/ \E m \in Member : WriteValue(a, m)
    \/ \E ds \in DataSet : CreateDataSet(a, ds) \/ DeleteDataSet(a, ds)
    \/ \E b \in Blocks :
        \/ \E s \in Clock : WriteRptEnaTrue(a, b, s)
        \/ \E fits \in Fits : \/ WriteRptEnaFalse(a, b, fits)
                              \/ WriteRelease(a, b, fits)
                              \/ \E l \in Lingers \cup {None} :
                                    WriteReservation(a, b, l, fits)
        \/ \E on \in BOOLEAN : WriteGI(a, b, on) \/ WritePurgeBuf(a, b, on)
        \/ \E ds \in DataSet : WriteDatSet(a, b, ds)
        \/ \E p \in IntgPds : WriteIntgPd(a, b, p)
        \/ \E id \in EntryIDs : WriteEntryID(a, b, id)
        \/ \E w \in Structures, n \in Taken : WriteStructure(a, b, w, n)

Next ==
    \/ \E a \in Assoc : Open(a) \/ Close(a) \/ WriteRequest(a)
    \/ \E a \in Assoc, s \in Clock : Publish(a, s) \/ Poll(a, s)
    \/ \E D \in SUBSET Member : Transact(D)
    \/ Tick

Spec == Init /\ [][Next]_vars

\* Time passes; a request that holds the mutex ends; a thread publishes after
\* every request it has served; and every pass of a thread's loop polls the
\* deadlines before it serves what it has read, so that a thread whose client
\* never stops writing polls again and again all the same.
Fairness ==
    /\ WF_vars(Tick)
    /\ \A a \in Assoc :
        /\ WF_vars(lock = a /\ WriteRequest(a))
        /\ SF_vars(\E s \in Clock : Publish(a, s))
        /\ SF_vars(\E s \in Clock : Poll(a, s))

FairSpec == Spec /\ Fairness
=============================================================================
