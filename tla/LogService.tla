------------------------------ MODULE LogService -----------------------------
(***************************************************************************)
(* A log of a served IED: the control blocks that write into it, the        *)
(* bounded ring that keeps its entries (MemoryLog), the two queries, and a *)
(* client that reads the log from its beginning and then goes on after the *)
(* last entry it holds, over lost associations and restarts of the server. *)
(***************************************************************************)
EXTENDS Integers, SequencesExt

CONSTANTS
    None,
    LogCapacity,     \* entries a log keeps
    PageLimit,       \* entries one ReadJournal answers with
    MaxHeld,         \* entries the reading application is willing to hold
    LogBlocks,       \* the control blocks of the log, in the model's order
    LogSets,         \* the data sets: sets of members
    LogTriggers,     \* the triggers: data change, quality change, data update
    Changes,         \* what a commit may find changed: the triggers of each member
    LcbValues,       \* the structures a client may write to a block
    MaxMade,         \* bound: entries made
    MaxMoment,       \* bound: milliseconds the wall clock advances
    MaxLcbWrites,    \* bound: writes to the control blocks
    MaxLogRestarts   \* bound: restarts of the server

ASSUME LogAssumption ==
    /\ {LogCapacity, PageLimit, MaxHeld, MaxMade, MaxMoment, MaxLcbWrites, MaxLogRestarts} \subseteq Nat
    /\ LogCapacity > 0 /\ PageLimit > 0
    /\ \A c \in Changes : \A m \in DOMAIN c : c[m] \subseteq LogTriggers
    /\ \A c \in Changes : \A ds \in LogSets : ds \subseteq DOMAIN c

VARIABLES
    journal,   \* the store: the entries it keeps and the identifier of the next
    lcb,       \* the control blocks: LogEna, DatSet, OldEntrTm, NewEntrTm, OldEnt,
               \* NewEnt and TrgOps
    wall,      \* the server's wall clock
    reader,    \* the client: whether it is reading, what the application holds,
               \* where it resumes
    logPast    \* history: entries made, restarts, writes, blocks whose bounds were
               \* overwritten, and what no page gave

logVars == <<journal, lcb, wall, reader, logPast>>

Lcbs == ToSet(LogBlocks)
Epoch == -1      \* before every moment of the wall clock
BoundLeaves == {"oldAt", "newAt", "oldId", "newId"}
NothingShown == [oldAt |-> Epoch, newAt |-> Epoch, oldId |-> 0, newId |-> 0]

EmptyJournal == [entries |-> <<>>, next |-> 1]
Engineered(ena) == [b \in Lcbs |-> [ena |-> ena, trg |-> {"dchg"}, ds |-> CHOOSE ds \in LogSets : TRUE] @@ NothingShown]
NotReading == [phase |-> "none", held |-> <<>>, resume |-> None]

LogInit ==
    /\ journal = EmptyJournal
    /\ lcb = Engineered(TRUE)
    /\ wall = 0
    /\ reader = NotReading
    /\ logPast = [made |-> 0, era |-> 0, writes |-> 0, stray |-> {}, skipped |-> {}]

-----------------------------------------------------------------------------
(* The log engine.                                                         *)

\* What a block's TrgOps make of the triggers of a leaf; shared with reports.
ReasonFor(triggers, trg) == triggers \cap trg \cap LogTriggers

Append1(j, at, serial) ==
    LET grown == Append(j.entries, [id |-> j.next, at |-> at, serial |-> serial])
    IN  [entries |-> IF Len(grown) > LogCapacity THEN Tail(grown) ELSE grown, next |-> j.next + 1]

BoundsOf(j) ==
    IF j.entries = <<>> THEN NothingShown
    ELSE [oldAt |-> Head(j.entries).at, newAt |-> Last(j.entries).at, oldId |-> Head(j.entries).id, newId |-> Last(j.entries).id]

\* Every block of the log shows its bounds, whichever block wrote the entry.
ShowBounds(blocks, j) == [b \in Lcbs |-> BoundsOf(j) @@ blocks[b]]

LogAsksFor(b, changed) ==
    /\ lcb[b].ena
    /\ lcb[b].ds # None
    /\ \E m \in lcb[b].ds : ReasonFor(changed[m], lcb[b].trg) # {}

\* One entry for every block that asked for what changed, in the blocks' order.
LogCommit ==
    /\ \E changed \in Changes :
        LET writers == SelectSeq(LogBlocks, LAMBDA b : LogAsksFor(b, changed))
            filled  == FoldLeft(LAMBDA s, b :
                           LET j == Append1(s.j, wall, s.made + 1)
                           IN  [j |-> j, made |-> s.made + 1, lcb |-> ShowBounds(s.lcb, j)],
                           [j |-> journal, made |-> logPast.made, lcb |-> lcb], writers)
        IN  /\ filled.made <= MaxMade
            /\ journal' = filled.j
            /\ lcb' = filled.lcb
            /\ logPast' = [logPast EXCEPT !.made = filled.made, !.stray = IF writers = <<>> THEN @ ELSE {}]
    /\ UNCHANGED <<wall, reader>>

\* A client configures a block, which no state of the block forbids.
WriteLcb ==
    /\ logPast.writes < MaxLcbWrites
    /\ logPast' = [logPast EXCEPT !.writes = @ + 1]
    /\ \E b \in Lcbs :
        \/ lcb' = [lcb EXCEPT ![b].ena = ~@]
        \/ \E trg \in {{"qchg"}, {"dchg", "dupd"}} : lcb' = [lcb EXCEPT ![b].trg = trg]
        \/ \E ds \in LogSets \cup {None} : lcb' = [lcb EXCEPT ![b].ds = ds]
    /\ UNCHANGED <<journal, wall, reader>>

\* The block written as a structure: its leaves one after the other, the
\* server's own among them, until one does not take its value.
LcbLeaves == <<"ena", "ds", "oldAt", "newAt", "oldId", "newId", "trg">>
WriteLcbStructure ==
    /\ logPast.writes < MaxLcbWrites
    /\ \E b \in Lcbs, value \in LcbValues, n \in 0 .. Len(LcbLeaves) :
        LET written == ToSet(SubSeq(LcbLeaves, 1, n))
        IN  /\ lcb' = [lcb EXCEPT ![b] = Restrict(value, written) @@ @]
            /\ logPast' = [logPast EXCEPT !.writes = @ + 1,
                                          !.stray = @ \cup IF written \cap BoundLeaves # {} THEN {b} ELSE {}]
    /\ UNCHANGED <<journal, wall, reader>>

\* Several entries may fall into one millisecond.
WallAdvances ==
    /\ wall < MaxMoment
    /\ wall' = wall + 1
    /\ UNCHANGED <<journal, lcb, reader, logPast>>

\* The server starts again: the ring is empty and counts from one, and the
\* association of a client in the middle of its reading is gone.
LogRestart ==
    /\ logPast.era < MaxLogRestarts
    /\ journal' = EmptyJournal
    /\ lcb' = Engineered(TRUE)
    /\ reader' = IF reader.phase = "walking" THEN NotReading ELSE reader
    /\ logPast' = [logPast EXCEPT !.era = @ + 1, !.stray = {}]
    /\ UNCHANGED wall

-----------------------------------------------------------------------------
(* The two queries.                                                        *)

LogPage(matching) ==
    [entries |-> SubSeq(matching, 1, IF Len(matching) < PageLimit THEN Len(matching) ELSE PageLimit),
     more |-> Len(matching) > PageLimit]

ByTime(j, from) == LogPage(SelectSeq(j.entries, LAMBDA e : e.at >= from))

PositionOf(j, id) == {i \in 1 .. Len(j.entries) : j.entries[i].id = id}

AfterHeldOnly(j, point) ==
    LET at == PositionOf(j, point.id)
    IN  IF at # {}
        THEN LogPage(SubSeq(j.entries, 1 + CHOOSE i \in at : TRUE, Len(j.entries)))
        ELSE LogPage(<<>>)

\* After the entry, or, when it is no longer held, after its moment.
After(j, point) ==
    LET at == PositionOf(j, point.id)
    IN  IF at # {}
        THEN LogPage(SubSeq(j.entries, 1 + CHOOSE i \in at : TRUE, Len(j.entries)))
        ELSE LogPage(SelectSeq(j.entries, LAMBDA e : e.at > point.at))

-----------------------------------------------------------------------------
(* The reading client.                                                     *)

\* The entries a page passed over: held by the store, made after the one the
\* client resumes after, and not to be met by a later page; with what had become
\* of that one, and of its identifier.
PassedOver(page, from) ==
    LET newer == {e \in ToSet(journal.entries) : from.serial # None /\ e.serial > from.serial}
        met(e) == e \in ToSet(page.entries) \/ (page.more /\ e.serial > Last(page.entries).serial)
    IN  {[kept |-> \E k \in ToSet(journal.entries) : k.serial = from.serial,
          named |-> PositionOf(journal, from.id) # {}, later |-> e.at > from.at] : e \in {x \in newer : ~met(x)}}

\* A resume point, with the entry it was made of.
ResumeAt(id, at, serial) == [id |-> id, at |-> at, serial |-> serial]

\* read_whole_log takes pages until the server has no more; the application
\* holds its entries only when it has read the log to the end.
Took(page, phase) ==
    LET held == reader.held \o page.entries
    IN  reader' = IF phase = "walking" /\ page.more /\ Len(held) >= MaxHeld THEN NotReading
                  ELSE [phase |-> IF phase = "walking" /\ ~page.more THEN "holds" ELSE phase,
                        held |-> held,
                        resume |-> IF page.entries = <<>> THEN reader.resume
                                   ELSE LET e == Last(page.entries) IN ResumeAt(e.id, e.at, e.serial)]

StartReading ==
    /\ reader.phase = "none"
    /\ Took(ByTime(journal, 0), "walking")
    /\ UNCHANGED <<journal, lcb, wall, logPast>>

\* A client with no stored position starts where a control block points, after
\* the oldest entry; what was overwritten points at nothing known.
StartAtOldest ==
    /\ reader.phase = "none"
    /\ \E b \in Lcbs :
        LET serial == IF b \in logPast.stray THEN None ELSE IF journal.entries = <<>> THEN 0 ELSE Head(journal.entries).serial
        IN  reader' = [phase |-> "holds", held |-> <<>>, resume |-> ResumeAt(lcb[b].oldId, lcb[b].oldAt, serial)]
    /\ UNCHANGED <<journal, lcb, wall, logPast>>

GoOn ==
    /\ reader.resume # None
    /\ LET page == After(journal, reader.resume)
       IN  /\ Took(page, reader.phase)
           /\ logPast' = [logPast EXCEPT !.skipped = @ \cup PassedOver(page, reader.resume)]
    /\ UNCHANGED <<journal, lcb, wall>>

\* The association is lost while the log is being read.
StopReading ==
    /\ reader.phase = "walking"
    /\ reader' = NotReading
    /\ UNCHANGED <<journal, lcb, wall, logPast>>

LogNext ==
    \/ LogCommit \/ WriteLcb \/ WriteLcbStructure \/ WallAdvances \/ LogRestart
    \/ StartReading \/ StartAtOldest \/ GoOn \/ StopReading

-----------------------------------------------------------------------------
(* Properties.                                                             *)

\* A client that goes on after an entry is given, each once and in the order
\* made, every newer entry the log keeps while it keeps that one; when it has no
\* entry of that identifier any more, every one of a later moment.  Nothing is
\* claimed of what is newer within the moment (log.rs:161), nor where a log that
\* began anew has given the identifier to another entry.
LogIsFollowed ==
    /\ \A s \in logPast.skipped : ~s.kept /\ ~(s.later /\ ~s.named)
    /\ \A i, k \in 1 .. Len(reader.held) : i < k => reader.held[i].serial < reader.held[k].serial

\* What a control block of the log shows as its oldest and newest entry is what
\* a query would find, over a full ring, a restart, and from the next entry on
\* after a client wrote the block as a structure: a client that comes back
\* learns what it missed.
BoundsAreShown ==
    \A b \in Lcbs \ logPast.stray : Restrict(lcb[b], BoundLeaves) = BoundsOf(journal)
=============================================================================
