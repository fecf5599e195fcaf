---------------------------- MODULE TrackingService ----------------------------
(***************************************************************************)
(* Service tracking: the objects of the model in which the server shows    *)
(* the last service of a class, with what the service was asked and what   *)
(* the control block it was asked of looked like when it had ended.        *)
(*                                                                         *)
(* A control block is reduced to who has enabled and who has reserved it,  *)
(* and to what its leaves say of that; the engine is ReportEngine's.       *)
(***************************************************************************)
EXTENDS Integers, SequencesExt

CONSTANTS
    Trackers,        \* the tracking objects in model order: class, type, attributes
    TrackedBlocks,   \* the report control blocks
    Buffered,        \* those that are reserved by ResvTms, the others by Resv
    Commands,        \* the controllable objects
    CommandType,     \* controllable object -> the type of its ctlVal
    Requesters,      \* the associations
    Causes,          \* why a command is refused
    Nobody,          \* no association, and no originator
    Departed,        \* an association that has ended and left a lease behind
    MaxTracked       \* bound: services

ASSUME TrackingAssumption ==
    /\ \A i, k \in DOMAIN Trackers : i # k => Trackers[i].id # Trackers[k].id
    /\ DOMAIN CommandType = Commands
    /\ {Nobody, Departed} \cap Requesters = {} /\ Nobody # Departed
    /\ Buffered \subseteq TrackedBlocks
    /\ MaxTracked \in Nat

VARIABLES
    shown,       \* tracking object -> the service it shows, and each attribute with
                 \* the service that wrote it
    held,        \* block -> who has it enabled, who has it reserved, whether that
                 \* outlives the association; and its leaves RptEna and Resv or ResvTms
    released,    \* the blocks the engine released by itself and nobody has tracked
    tracked,     \* history: how many services were tracked
    overwritten, \* history: blocks written as a structure since they were tracked
    expired      \* history: blocks whose lease ran out, and whose leaf nobody set since

trackingVars == <<shown, held, released, tracked, overwritten, expired>>

TrackerIds == {Trackers[i].id : i \in DOMAIN Trackers}
TrackerAt(id) == CHOOSE t \in ToSet(Trackers) : t.id = id
Unwritten == [of |-> 0, value |-> "initial"]
NoService == [obj |-> Nobody, name |-> "none", error |-> FALSE, by |-> Nobody, serial |-> 0,
              decodes |-> FALSE]

TrackingInit ==
    /\ shown = [id \in TrackerIds |-> [service |-> NoService, attrs |-> [a \in TrackerAt(id).attrs |-> Unwritten]]]
    /\ held = [b \in TrackedBlocks |-> [owner |-> Nobody, reserved |-> Nobody, lingers |-> FALSE, rptEna |-> FALSE, resv |-> FALSE]]
    /\ released = <<>> /\ tracked = 0 /\ overwritten = {} /\ expired = {}

-----------------------------------------------------------------------------
(* The engine: record_with, select, mirror.                                *)

OfClass(class) == SelectSeq(Trackers, LAMBDA t : t.class = class)

FirstOfClass(event) == OfClass(event.class)[1]

\* One tracker of a class; only among those of commands the type decides, and
\* when no type fits, the first.
SelectTracker(event) ==
    LET all == OfClass(event.class)
        fit == SelectSeq(all, LAMBDA t : t.type = event.type)
    IN  IF event.class = "CTS" /\ Len(all) > 1 /\ fit # <<>> THEN fit[1] ELSE all[1]

\* The attributes that are copied from the leaves of a control block.
Mirrors(obj, a) == obj \in TrackedBlocks /\ a \in {"rptEna", "resv"}

\* A value of another type than the tracker declares is not taken.
Takes(t, event, a, extra) == a \in DOMAIN extra /\ (a = "ctlVal" => t.type = event.type)

\* all: what the trackers show; the attributes that neither the block nor the
\* request has keep what an earlier service left in them.
RecordWith(all, blocks, event, extra) ==
    IF OfClass(event.class) = <<>> THEN all
    ELSE LET t == SelectTracker(event)
             new(a) == IF Takes(t, event, a, extra) THEN [of |-> event.service.serial, value |-> extra[a]]
                       ELSE IF Mirrors(event.service.obj, a)
                       THEN [of |-> event.service.serial, value |-> blocks[event.service.obj][a]]
                       ELSE all[t.id].attrs[a]
         IN  [all EXCEPT ![t.id] = [service |-> event.service, attrs |-> [a \in t.attrs |-> new(a)]]]

Event(class, type, obj, name, error, by, serial) ==
    [class |-> class, type |-> type,
     service |-> [NoService EXCEPT !.obj = obj, !.name = name, !.error = error, !.by = by, !.serial = serial]]

Track(class, obj, name, error, p) ==
    shown' = RecordWith(shown, held', Event(class, "none", obj, name, error, p, tracked + 1), <<>>)

OneMore == tracked < MaxTracked /\ tracked' = tracked + 1

-----------------------------------------------------------------------------
(* The services of clients.                                                *)

OfBlock(b, name, error, p) ==
    /\ Track(IF b \in Buffered THEN "BTS" ELSE "UTS", b, name, error, p)
    /\ overwritten' = overwritten \ {b}

Owns(b, p) == held[b].owner \in {Nobody, p}
Free(b, p) == Owns(b, p) /\ held[b].reserved \in {Nobody, p}
Set(b, claim) == held' = [held EXCEPT ![b] = claim @@ @]

\* RptEna, Resv or ResvTms of a report control block: the engine agrees first,
\* and then the store has the leaf or has not; any of it is tracked.
TrackBlockWrite ==
    /\ OneMore
    /\ \E b \in TrackedBlocks, p \in Requesters :
        \/ /\ Free(b, p) /\ Set(b, [owner |-> p, rptEna |-> TRUE])
           /\ OfBlock(b, "SetRCBValues", FALSE, p)
           /\ UNCHANGED expired
        \/ /\ Owns(b, p) /\ Set(b, [owner |-> Nobody, rptEna |-> FALSE])
           /\ OfBlock(b, "SetRCBValues", FALSE, p)
           /\ UNCHANGED expired
        \/ \E has \in BOOLEAN :
           /\ Free(b, p)
           /\ Set(b, [reserved |-> p, lingers |-> (b \in Buffered <=> has), resv |-> has \/ held[b].resv])
           /\ OfBlock(b, "SetRCBValues", ~has, p)
           /\ expired' = expired \ {b}
        \/ \E has \in BOOLEAN :
           /\ Set(b, [reserved |-> IF held[b].reserved = p THEN Nobody ELSE held[b].reserved, resv |-> held[b].resv /\ ~has])
           /\ OfBlock(b, "SetRCBValues", ~has, p)
           /\ UNCHANGED expired
        \/ /\ ~Free(b, p) /\ UNCHANGED <<held, expired>>
           /\ OfBlock(b, "SetRCBValues", TRUE, p)
    /\ UNCHANGED released

\* The block written as a structure, which the engine does not hear of: RptEna,
\* and then the reservation, until a leaf does not take its value. It is a
\* SetDataValues of the common class.
TrackStructureWrite ==
    /\ OneMore
    /\ \E b \in TrackedBlocks, p \in Requesters, enabled, reserved, fits \in BOOLEAN :
        \E reached \in {{"rptEna"}, {"rptEna", "resv"}} :
            LET value == [rptEna |-> enabled, resv |-> reserved]
            IN  /\ fits => "resv" \in reached
                /\ Set(b, [a \in reached |-> value[a]])
                /\ Track("CST", b, "SetDataValues", ~fits, p)
                /\ overwritten' = overwritten \cup {b}
                /\ expired' = IF "resv" \in reached THEN expired \ {b} ELSE expired
    /\ UNCHANGED released

\* The cause, taken from the engine for this command, and what the structure of
\* the command gives; one that cannot be decoded gives nothing.
CommandValues(cause, decodes, timed, serial) ==
    LET filled == IF ~decodes THEN {} ELSE {"ctlVal", "ctlNum"} \cup IF timed THEN {"operTm"} ELSE {}
    IN  [a \in {"respAddCause"} \cup filled |-> IF a = "respAddCause" THEN cause ELSE serial]

\* A control written: refused with a cause, refused for what it cannot decode,
\* or accepted. A refusal of enhanced security is answered with success.
TrackCommand ==
    /\ OneMore
    /\ \E o \in Commands, p \in Requesters, name \in {"SelectWithValue", "Operate", "Cancel"} :
       \E refusal \in Causes \cup {"none"}, decodes, timed, error \in BOOLEAN :
        LET event == Event("CTS", CommandType[o], o, name, error, p, tracked + 1)
        IN  /\ ~decodes => refusal = "none" /\ error
            /\ refusal = "none" /\ decodes => ~error
            /\ shown' = RecordWith(shown, held, [event EXCEPT !.service.decodes = decodes],
                                   CommandValues(refusal, decodes, timed, tracked + 1))
    /\ UNCHANGED <<held, released, overwritten, expired>>

\* SBO is selected by a Read, and its refusal has no cause to give.
TrackSelect ==
    /\ OneMore
    /\ \E o \in Commands, p \in Requesters, error \in BOOLEAN :
        shown' = RecordWith(shown, held, Event("CTS", CommandType[o], o, "Select", error, p, tracked + 1), <<>>)
    /\ UNCHANGED <<held, released, overwritten, expired>>

\* A log queried, by a range of time or after an entry, and a data set created
\* or deleted.
TrackQuery ==
    /\ OneMore
    /\ \E p \in Requesters, error \in BOOLEAN, asked \in SUBSET {"entryID", "rangeStartTime"} :
        shown' = RecordWith(shown, held,
                     Event("OTS", "none", "log", IF "entryID" \in asked THEN "QueryLogAfter" ELSE "QueryLogByTime", error, p, tracked + 1),
                     [a \in asked |-> tracked + 1])
    /\ UNCHANGED <<held, released, overwritten, expired>>

TrackNamed ==
    /\ OneMore
    /\ UNCHANGED <<held, released, overwritten, expired>>
    /\ \E p \in Requesters, name \in {"CreateDataSet", "DeleteDataSet"}, error \in BOOLEAN : Track("CST", "dataSet", name, error, p)

-----------------------------------------------------------------------------
(* What the server does by itself: InternalChange.                         *)

\* The released blocks one after the other, in the name of nobody.
TrackReleased(all, blocks, queue) ==
    FoldLeft(LAMBDA s, b : RecordWith(s, blocks, Event(IF b \in Buffered THEN "BTS" ELSE "UTS", "none", b, "InternalChange", FALSE,
                                                       Nobody, tracked), <<>>), all, queue)

\* An association ends: the blocks it has enabled are released and tracked;
\* a reservation lingers, or goes with it.
CloseTracked ==
    /\ UNCHANGED <<tracked, expired>>
    /\ \E p \in Requesters :
        LET enabled == {b \in TrackedBlocks : held[b].owner = p}
            mine    == {b \in TrackedBlocks : held[b].reserved = p}
            dropped == {b \in mine : ~held[b].lingers}
            queue   == released \o SetToSeq(enabled)
        IN  /\ enabled \cup mine # {}
            /\ held' = [b \in TrackedBlocks |->
                   [owner |-> IF b \in enabled THEN Nobody ELSE held[b].owner,
                    reserved |-> IF b \in dropped THEN Nobody ELSE IF b \in mine THEN Departed ELSE held[b].reserved,
                    lingers |-> held[b].lingers,
                    rptEna |-> held[b].rptEna /\ b \notin enabled,
                    resv |-> held[b].resv /\ b \notin dropped \cup (enabled \ Buffered)]]
            /\ shown' = TrackReleased(shown, held', queue)
            /\ overwritten' = overwritten \ ToSet(queue)
    /\ released' = <<>>

\* The tick: what was released before is tracked, and then the leases that have
\* run out end, to be tracked by the next one.
TrackTick ==
    /\ shown' = TrackReleased(shown, held, released)
    /\ overwritten' = overwritten \ ToSet(released)
    /\ \E over \in SUBSET {b \in TrackedBlocks : held[b].reserved = Departed} :
        /\ over # {} \/ released # <<>>
        /\ held' = [b \in TrackedBlocks |-> IF b \in over THEN [held[b] EXCEPT !.reserved = Nobody, !.resv = FALSE] ELSE held[b]]
        /\ released' = SetToSeq(over)
        /\ expired' = expired \cup over
    /\ UNCHANGED tracked

TrackingNext ==
    \/ TrackBlockWrite \/ TrackStructureWrite \/ TrackCommand \/ TrackSelect \/ TrackQuery \/ TrackNamed
    \/ CloseTracked \/ TrackTick

-----------------------------------------------------------------------------
(* Properties.                                                             *)

\* A tracker of a block shows it enabled exactly when its RptEna is set, and
\* reserved whenever its reservation is; and the end of a lease from the tick
\* after it on.  Nothing is claimed after a client wrote the block as a
\* structure, which is tracked elsewhere; nor that a reservation which ends with
\* its association is tracked (rcb.rs:342-345).
BlockShownAsItIs ==
    \A id \in TrackerIds :
        LET b == shown[id].service.obj
            attrs == shown[id].attrs
        IN  TrackerAt(id).class \in {"BTS", "UTS"} /\ b \in TrackedBlocks \ overwritten =>
                /\ attrs["rptEna"].value = held[b].rptEna
                /\ held[b].resv => attrs["resv"].value
                /\ b \in expired \ ToSet(released) => ~attrs["resv"].value

\* When a command could be decoded and some tracker is of its type, the value
\* and the number shown are the command's.
CommandShownWhole ==
    \A id \in TrackerIds :
        LET s == shown[id]
            fits == \E t \in ToSet(OfClass("CTS")) : t.type = CommandType[s.service.obj]
        IN  TrackerAt(id).class = "CTS" /\ s.service.decodes /\ fits =>
                s.attrs["ctlVal"].of = s.service.serial /\ s.attrs["ctlNum"].of = s.service.serial
=============================================================================
