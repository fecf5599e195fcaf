----------------------------- MODULE ReportBlock -----------------------------
(***************************************************************************)
(* One report control block of the server, and the operations the report   *)
(* engine (src/src/server/rcb.rs) and the ACSI layer perform on it.         *)
(*                                                                         *)
(* A block is a record.  The first group of fields is `struct Rcb`, the     *)
(* engine's own state; the second is what the served model stores under     *)
(* the block's name (`RptEna`, `GI`, ...), which clients read and write.    *)
(* An operation is an operator from a block to a block; `out` holds the     *)
(* reports the operation produced, in the order they are handed to the      *)
(* transport.                                                              *)
(*                                                                         *)
(* Deadlines are kept as the time that remains, so that the passing of      *)
(* time (LetTimePass) is what moves them and no absolute clock is needed:   *)
(* a deadline d has passed for a caller that reads the clock s ticks late   *)
(* exactly when d <= -s.                                                   *)
(***************************************************************************)
EXTENDS Integers, Sequences

CONSTANTS
    Assoc,       \* association numbers; the server never gives one out twice
    Member,      \* data set members, the granularity of a report
    DataSet,     \* data set references a client can write into DatSet
    MembersOf,   \* the members of each data set
    None,        \* "no association" / "no linger"
    Never,       \* "no deadline"
    BufferLen,   \* Engine::buffer_len, how many entries a buffered block keeps
    BufTm,       \* gathering window, in ticks
    IntgPds,     \* integrity periods a client may configure; 0 asks for none
    Lingers,     \* durations a client may write into ResvTms
    Stale,       \* how many ticks late a thread may use the clock it has read
    SeqMod,      \* modulus of SqNum: 2^16 buffered, 2^8 unbuffered
    ConfRevMod   \* modulus of ConfRev: 2^32

ASSUME ReportBlockAssumption ==
    /\ None \notin Assoc
    /\ Never \notin Int
    /\ None \notin Nat
    /\ MembersOf \in [DataSet -> SUBSET Member]
    /\ BufferLen \in Nat \ {0}
    /\ BufTm \in Nat
    /\ IntgPds \subseteq Nat
    /\ Lingers \subseteq Nat \ {0}
    /\ Stale \in Nat
    /\ SeqMod \in [BOOLEAN -> Nat \ {0}]
    /\ ConfRevMod \in Nat \ {0, 1}

(***************************************************************************)
(* Types.                                                                  *)
(***************************************************************************)
NoEntry  == 0                       \* an empty EntryID octet string
Deadline == Int \cup {Never}
Entry    == [id : Nat, members : SUBSET Member]
Report   == [assoc : Assoc, seq : Nat, id : Nat, members : SUBSET Member,
             ovfl : BOOLEAN]

\* The two leaves by which clients read who holds a block.
ClaimLeaves == {"RptEna", "Owner"}

Block == [buffered     : BOOLEAN,
          owner        : Assoc \cup {None},
          reserved     : Assoc \cup {None},
          linger       : Nat \cup {None},
          until        : Deadline,
          pending      : SUBSET Member,
          due          : Deadline,
          integrityDue : Deadline,
          buffer       : Seq(Entry),
          nextEntry    : Nat,
          overflowed   : BOOLEAN,
          seq          : Nat,
          \* what the model stores
          rptEna       : BOOLEAN,
          gi           : BOOLEAN,
          purge        : BOOLEAN,
          resv         : BOOLEAN,    \* Resv, or ResvTms above zero
          datSet       : DataSet,
          confRev      : Nat,
          intgPd       : Nat,        \* IntgPd when TrgOps asks for integrity
          sqNum        : Nat,
          entryID      : Nat,
          ownerAttr    : Assoc \cup {None},
          \* history: the leaves of the claim a client last wrote past the
          \* engine, which the engine has not set since
          stray        : SUBSET ClaimLeaves,
          \* reports made: waiting for the next publish, and handed over
          deferred     : Seq(Report),
          out          : Seq(Report)]

\* What a client names when it writes a block as one structure.
Structure == [rptEna : BOOLEAN, gi : BOOLEAN, purge : BOOLEAN, resv : BOOLEAN,
              datSet : DataSet, confRev : Nat, intgPd : Nat, sqNum : Nat,
              entryID : Nat, ownerAttr : Assoc \cup {None}]

NewBlock(buffered, ds, period) ==
    [buffered |-> buffered, owner |-> None, reserved |-> None, linger |-> None,
     until |-> Never, pending |-> {}, due |-> Never, integrityDue |-> Never,
     buffer |-> <<>>, nextEntry |-> 1, overflowed |-> FALSE, seq |-> 0,
     rptEna |-> FALSE, gi |-> FALSE, purge |-> FALSE, resv |-> FALSE,
     datSet |-> ds, confRev |-> 1, intgPd |-> period, sqNum |-> 0,
     entryID |-> NoEntry, ownerAttr |-> None, stray |-> {},
     deferred |-> <<>>, out |-> <<>>]

(***************************************************************************)
(* Who holds a block: the client that enabled it, else the one it is        *)
(* reserved for.                                                           *)
(***************************************************************************)
Holder(r) == IF r.owner # None THEN r.owner ELSE r.reserved

TakenByOther(r, a) == \/ r.owner \notin {None, a}
                      \/ r.reserved \notin {None, a}

Passed(deadline, s) == deadline # Never /\ deadline <= 0 - s

IntegrityStart(r, s) == IF r.intgPd = 0 THEN Never ELSE r.intgPd - s

(***************************************************************************)
(* Building reports.                                                       *)
(***************************************************************************)

\* The new buffer after one more entry: the oldest makes room for it.
Pushed(buf, e) ==
    IF Len(buf) >= BufferLen THEN Append(Tail(buf), e) ELSE Append(buf, e)

\* Mutant: the oldest entry makes room without a word.
RecordedSilently(r, ms, interrogation) ==
    IF r.buffered /\ ~interrogation
      THEN [r EXCEPT !.nextEntry = @ + 1,
                     !.buffer = Pushed(@, [id |-> r.nextEntry, members |-> ms])]
      ELSE [r EXCEPT !.nextEntry = @ + 1]

\* A buffered block records every entry except the answer to an interrogation.
Recorded(r, ms, interrogation) ==
    IF r.buffered /\ ~interrogation
      THEN [r EXCEPT !.nextEntry = @ + 1,
                     !.buffer = Pushed(@, [id |-> r.nextEntry, members |-> ms]),
                     !.overflowed = @ \/ Len(r.buffer) >= BufferLen]
      ELSE [r EXCEPT !.nextEntry = @ + 1]

\* The report of the entry with identifier `id`, to the client that enabled r.
Sent(r, id, ms) ==
    IF r.owner = None THEN r
    ELSE [r EXCEPT
            !.out = Append(@, [assoc |-> r.owner, seq |-> r.seq, id |-> id,
                               members |-> ms \cap MembersOf[r.datSet],
                               ovfl |-> r.overflowed]),
            !.overflowed = FALSE,
            !.seq = (@ + 1) % SeqMod[r.buffered],
            !.sqNum = r.seq,
            !.entryID = IF r.buffered THEN id ELSE @]

Build(r, ms, interrogation) ==
    IF ms = {} THEN r ELSE Sent(Recorded(r, ms, interrogation), r.nextEntry, ms)

\* Changes of the members D: they join what the block has gathered, and the
\* first of them opens the window.
Gathered(r, defined, D, s) ==
    LET hits == D \cap MembersOf[r.datSet] IN
    IF (r.owner = None /\ ~r.buffered) \/ r.datSet \notin defined \/ hits = {}
      THEN r
      ELSE [r EXCEPT !.pending = @ \cup hits,
                     !.due = IF @ = Never THEN BufTm - s ELSE @]

\* The four things emit_due does with a block, in its order.
Interrogated(r, defined) ==
    IF ~(r.gi /\ r.owner # None) THEN r
    ELSE LET r1 == [r EXCEPT !.gi = FALSE] IN
         IF r.datSet \in defined THEN Build(r1, MembersOf[r.datSet], TRUE)
                                 ELSE r1

Purged(r) ==
    IF ~r.purge THEN r
    ELSE [r EXCEPT !.purge = FALSE, !.buffer = <<>>, !.overflowed = FALSE]

Scanned(r, defined, s) ==
    IF ~Passed(r.integrityDue, s) THEN r
    ELSE LET r1 == [r EXCEPT !.integrityDue = IntegrityStart(r, s)] IN
         IF r.datSet \in defined THEN Build(r1, MembersOf[r.datSet], FALSE)
                                 ELSE r1

Flushed(r, defined, s) ==
    IF ~Passed(r.due, s) \/ r.datSet \notin defined THEN r
    ELSE Build([r EXCEPT !.due = Never, !.pending = {}], r.pending, FALSE)

Emitted(r, defined, s) ==
    Flushed(Scanned(Purged(Interrogated(r, defined)), defined, s), defined, s)

\* What a caller that starts a new operation sees: nothing produced yet.
Quiet(r) == [r EXCEPT !.out = <<>>]

\* Mutant: a replay is handed over and kept, to be handed over again.
CommittedTwice(r, defined, D, s) ==
    LET e == Emitted(Gathered(Quiet(r), defined, D, s), defined, s) IN
    [e EXCEPT !.out = @ \o e.deferred]

\* Mutant: nobody takes the deferred replays.
CommittedLive(r, defined, D, s) ==
    Emitted(Gathered(Quiet(r), defined, D, s), defined, s)

\* Acsi::commit of the changes D: gather, emit, and then the replays that
\* an enabling client is still owed.
Committed(r, defined, D, s) ==
    LET e == Emitted(Gathered(Quiet(r), defined, D, s), defined, s) IN
    [e EXCEPT !.out = @ \o e.deferred, !.deferred = <<>>]

\* Reservations whose time is up, and what the model says of them.
Unreserved(r) ==
    [r EXCEPT !.reserved = None, !.linger = None, !.until = Never,
              !.resv = FALSE, !.ownerAttr = None, !.stray = @ \ {"Owner"}]

\* Mutant: a poll ends every lingering reservation.
ExpiredAtOnce(r, s) == IF r.until # Never THEN Unreserved(r) ELSE r

Expired(r, s) == IF Passed(r.until, s) THEN Unreserved(r) ELSE r

\* Mutants: the poll forgets the reservations, or the reports.
TimedOutReports(r, defined, s) == Emitted(Quiet(r), defined, s)
TimedOutLeases(r, defined, s)  == Expired(Quiet(r), s)

TimedOut(r, defined, s) == Emitted(Expired(Quiet(r), s), defined, s)

(***************************************************************************)
(* Replay of the buffer to a client that has just enabled the block.        *)
(***************************************************************************)
Position(r) == {i \in 1 .. Len(r.buffer) : r.buffer[i].id = r.entryID}

ResumePointLost(r) == r.entryID # NoEntry /\ Position(r) = {}

ReplayStart(r) ==
    IF Position(r) = {} THEN 0 ELSE CHOOSE i \in Position(r) : TRUE

\* The k-th replayed entry; entries stay in the buffer.
ReplayOf(r, k) ==
    LET e == r.buffer[ReplayStart(r) + k] IN
    [assoc |-> r.owner, seq |-> (r.seq + k - 1) % SeqMod[TRUE], id |-> e.id,
     members |-> e.members \cap MembersOf[r.datSet],
     ovfl |-> k = 1 /\ (r.overflowed \/ ResumePointLost(r))]

Drained(r, defined) ==
    LET n == Len(r.buffer) - ReplayStart(r)
        shown == n > 0 /\ r.datSet \in defined
    IN  [r EXCEPT
            !.overflowed = FALSE,
            !.seq = IF n > 0 THEN (@ + n) % SeqMod[TRUE] ELSE @,
            !.deferred = IF shown THEN @ \o [k \in 1 .. n |-> ReplayOf(r, k)]
                                  ELSE @,
            !.sqNum = IF shown THEN (r.seq + n - 1) % SeqMod[TRUE] ELSE @,
            !.entryID = IF shown THEN r.buffer[Len(r.buffer)].id ELSE @]

(***************************************************************************)
(* Client writes inside the block.  `fits` says whether the value has the   *)
(* attribute's type and the block has the attribute at all: the engine      *)
(* decides and acts first, and the store refuses a misfit afterwards.       *)
(***************************************************************************)

\* Owner in the model is recomputed after an accepted RptEna, Resv, ResvTms.
Published(r, fits) ==
    IF fits THEN [r EXCEPT !.ownerAttr = Holder(r), !.stray = @ \ {"Owner"}]
            ELSE [r EXCEPT !.stray = @ \cup {"Owner"}]

\* Mutant: enabling looks at the owner only.
MayEnableUnowned(r, a) == r.owner \in {None, a}

MayEnable(r, a) == ~TakenByOther(r, a)

Enabled(r, defined, a, s) ==
    LET on == [r EXCEPT !.owner = a, !.pending = {}, !.due = Never, !.seq = 0,
                        !.integrityDue = IntegrityStart(r, s), !.sqNum = 0,
                        !.rptEna = TRUE, !.stray = @ \ {"RptEna"}]
    IN  Drained(Published(on, TRUE), defined)

MayDisable(r, a) == r.owner \in {None, a}

Disabled(r, fits) ==
    LET off == [r EXCEPT !.owner = None, !.integrityDue = Never, !.pending = {},
                         !.due = Never, !.rptEna = IF fits THEN FALSE ELSE @,
                         !.stray = IF fits THEN @ \ {"RptEna"}
                                           ELSE @ \cup {"RptEna"}]
    IN  Published(off, fits)

\* Mutant: reserving looks at other reservations only.
MayReserveUnreserved(r, a) == r.reserved \in {None, a}

MayReserve(r, a) == ~TakenByOther(r, a)

Reserved(r, a, linger, fits) ==
    Published([r EXCEPT !.reserved = a, !.linger = linger, !.until = Never,
                        !.resv = IF fits THEN TRUE ELSE @], fits)

\* Writing the falsy value: it drops the writer's own reservation only, and
\* the store takes it from anybody.
Released(r, a, fits) ==
    LET own == IF r.reserved = a
                 THEN [r EXCEPT !.reserved = None, !.linger = None, !.until = Never]
                 ELSE r
    IN  Published([own EXCEPT !.resv = IF fits THEN FALSE ELSE @], fits)

\* Mutant: the client that enabled the block may configure it.
MayConfigureOwn(r, a) == ~TakenByOther(r, a)

MayConfigure(r, a) == ~r.rptEna /\ ~TakenByOther(r, a)

Redirected(r, ds) ==
    [r EXCEPT !.datSet = ds,
              !.confRev = IF ds = r.datSet THEN @ ELSE (@ + 1) % ConfRevMod]

\* The order in which the leaves of a block stand in its structure.
LeafOrder(buffered) ==
    IF buffered
    THEN [rptEna |-> 1, datSet |-> 2, confRev |-> 3, sqNum |-> 4, intgPd |-> 5,
          gi |-> 6, purge |-> 7, entryID |-> 8, resv |-> 9, ownerAttr |-> 10]
    ELSE [rptEna |-> 1, resv |-> 2, datSet |-> 3, confRev |-> 4, sqNum |-> 5,
          intgPd |-> 6, gi |-> 7, ownerAttr |-> 8]

\* The block written as a structure: no arm of on_write has the name, so the
\* store puts the first n leaves, before one that does not take its value or
\* all of them, and the engine hears of nothing.
Overwritten(r, w, n) ==
    LET at == LeafOrder(r.buffered)
        put(leaf) == at[leaf] <= n
    IN  [r EXCEPT !.rptEna = w.rptEna,
                  !.resv = IF put("resv") THEN w.resv ELSE @,
                  !.datSet = IF put("datSet") THEN w.datSet ELSE @,
                  !.confRev = IF put("confRev") THEN w.confRev ELSE @,
                  !.sqNum = IF put("sqNum") THEN w.sqNum ELSE @,
                  !.intgPd = IF put("intgPd") THEN w.intgPd ELSE @,
                  !.gi = IF put("gi") THEN w.gi ELSE @,
                  !.purge = r.buffered /\ IF put("purge") THEN w.purge ELSE @,
                  !.entryID = IF r.buffered /\ put("entryID") THEN w.entryID ELSE @,
                  !.ownerAttr = IF put("ownerAttr") THEN w.ownerAttr ELSE @,
                  !.stray = @ \cup IF put("ownerAttr") THEN ClaimLeaves ELSE {"RptEna"}]

(***************************************************************************)
(* The association that `a` names has ended.                               *)
(***************************************************************************)
\* Mutants: RptEna stays set, or what was gathered is dropped but not its
\* deadline.
DisownedInEngine(r, a) ==
    IF r.owner # a THEN r
    ELSE [r EXCEPT !.owner = None, !.due = Never, !.pending = {},
                   !.buffer = IF r.buffered THEN @ ELSE <<>>,
                   !.stray = @ \ {"RptEna"}]

Disowned(r, a) ==
    IF r.owner # a THEN r
    ELSE [r EXCEPT !.owner = None, !.due = Never, !.pending = {},
                   !.buffer = IF r.buffered THEN @ ELSE <<>>,
                   !.rptEna = FALSE, !.gi = FALSE, !.purge = FALSE,
                   !.resv = r.buffered /\ @, !.stray = @ \ {"RptEna"}]

Abandoned(r, a) ==
    IF r.reserved # a THEN r
    ELSE IF r.linger = None THEN Unreserved(r)
    ELSE [r EXCEPT !.until = r.linger]

Closed(r, a) ==
    LET held == a \in {r.owner, r.reserved}
        left == Abandoned(Disowned(Quiet(r), a), a)
    IN  IF held THEN Published(left, TRUE) ELSE left

(***************************************************************************)
(* One tick.                                                               *)
(***************************************************************************)
Sooner(deadline) ==
    IF deadline = Never \/ deadline <= 0 - Stale THEN deadline ELSE deadline - 1

LetTimePass(r) ==
    [r EXCEPT !.until = Sooner(@), !.due = Sooner(@), !.integrityDue = Sooner(@),
              !.out = <<>>]
=============================================================================
