-------------------------- MODULE ReportEngineProofs --------------------------
(***************************************************************************)
(* Theorems about the report engine, for every number of associations,      *)
(* blocks, data sets and entries, and with or without misfit writes.        *)
(*                                                                         *)
(* The inductive invariant ties the claims on a block to the associations   *)
(* that are open and closed, and its replays to the threads that owe a      *)
(* publish.  BlockInv states it of one block; there is one lemma for each   *)
(* operation on a block, and one step of the proof for each action.         *)
(*                                                                         *)
(* The last part shows that the engine implements BlockHolder: one lemma    *)
(* says what each operation does to the holder of its block, and each       *)
(* action is then a step of BlockHolder or changes no holder.               *)
(***************************************************************************)
EXTENDS ReportSafety, SequenceTheorems, TLAPS

-----------------------------------------------------------------------------
(***************************************************************************)
(* What the operations on one report control block preserve.  Every lemma   *)
(* is about one operator of ReportBlock: that it yields a block, and that   *)
(* it leaves the claims on the block alone.                                *)
(***************************************************************************)

\* The claims on a block, and what the model says of them.
SameClaims(q, r) ==
    /\ q.buffered = r.buffered
    /\ q.owner = r.owner
    /\ q.reserved = r.reserved
    /\ q.linger = r.linger
    /\ q.until = r.until
    /\ q.rptEna = r.rptEna
    /\ "RptEna" \in q.stray <=> "RptEna" \in r.stray

\* What the block has gathered, and when it is due.
SameGathered(q, r) == q.pending = r.pending /\ q.due = r.due

\* The ring and the identifier of the next entry.
SameRing(q, r) == q.buffer = r.buffer /\ q.nextEntry = r.nextEntry

\* What a critical section has not produced is no report at all (rcb.rs:430).
LEMMA NoReports == <<>> \in Seq(Report) /\ <<>> \in Seq(Entry)
OBVIOUS

\* Forgetting what the last critical section produced touches no claim.
LEMMA QuietType ==
    ASSUME NEW r \in Block
    PROVE  Quiet(r) \in Block /\ SameClaims(Quiet(r), r)
BY NoReports DEF Quiet, Block, SameClaims

\* The ring stays a sequence of entries when it takes one more
\* (rcb.rs:518-524).
LEMMA PushedType ==
    ASSUME NEW buf \in Seq(Entry), NEW e \in Entry
    PROVE  Pushed(buf, e) \in Seq(Entry)
<1>1. BufferLen \in Nat \ {0}
  BY ReportBlockAssumption
<1>2. CASE Len(buf) >= BufferLen
  BY <1>1, <1>2 DEF Pushed
<1>3. CASE ~(Len(buf) >= BufferLen)
  BY <1>3 DEF Pushed
<1>4. QED BY <1>2, <1>3

\* Recording an entry (rcb.rs:503-524) keeps the type and every claim.
LEMMA RecordedType ==
    ASSUME NEW r \in Block, NEW ms \in SUBSET Member, NEW i \in BOOLEAN
    PROVE  Recorded(r, ms, i) \in Block /\ SameClaims(Recorded(r, ms, i), r)
<1> DEFINE e   == [id |-> r.nextEntry, members |-> ms]
           buf == Pushed(r.buffer, e)
           ovf == r.overflowed \/ Len(r.buffer) >= BufferLen
           nxt == r.nextEntry + 1
<1>1. e \in Entry
  BY DEF Block, Entry
<1>2. buf \in Seq(Entry)
  BY <1>1, PushedType DEF Block
<1>3. ovf \in BOOLEAN
  BY DEF Block
<1>4. nxt \in Nat
  BY DEF Block
<1>5. Recorded(r, ms, i) = IF r.buffered /\ ~i
                             THEN [r EXCEPT !.nextEntry = nxt, !.buffer = buf,
                                            !.overflowed = ovf]
                             ELSE [r EXCEPT !.nextEntry = nxt]
  BY DEF Recorded, Block
<1> HIDE DEF buf, ovf, nxt
<1>6. Recorded(r, ms, i) \in Block
  <2>1. [r EXCEPT !.nextEntry = nxt] \in Block
    BY <1>4 DEF Block
  <2>2. [r EXCEPT !.nextEntry = nxt, !.buffer = buf, !.overflowed = ovf]
          \in Block
    BY <1>2, <1>3, <1>4 DEF Block
  <2>3. QED BY <1>5, <2>1, <2>2
<1>7. SameClaims(Recorded(r, ms, i), r)
  BY <1>5 DEF Block, SameClaims
<1>8. QED BY <1>6, <1>7

\* Sending a report (rcb.rs:526-549) keeps the type and every claim.
LEMMA SentType ==
    ASSUME NEW r \in Block, NEW id \in Nat, NEW ms \in SUBSET Member
    PROVE  Sent(r, id, ms) \in Block /\ SameClaims(Sent(r, id, ms), r)
<1> DEFINE report == [assoc |-> r.owner, seq |-> r.seq, id |-> id,
                      members |-> ms \cap MembersOf[r.datSet],
                      ovfl |-> r.overflowed]
           reports == Append(r.out, report)
           next == (r.seq + 1) % SeqMod[r.buffered]
           entry == IF r.buffered THEN id ELSE r.entryID
<1>1. CASE r.owner = None
  BY <1>1 DEF Sent, SameClaims
<1>2. CASE r.owner # None
  <2>1. report \in Report
    BY <1>2 DEF Report, Block
  <2>2. reports \in Seq(Report)
    BY <2>1 DEF Block
  <2>3. next \in Nat
    BY SMTT(30), ReportBlockAssumption DEF Block
  <2>4. entry \in Nat
    BY DEF Block
  <2>5. Sent(r, id, ms) = [r EXCEPT !.out = reports, !.overflowed = FALSE,
                                    !.seq = next, !.sqNum = r.seq,
                                    !.entryID = entry]
    BY <1>2 DEF Sent, Block
  <2> HIDE DEF reports, next, entry
  <2>6. [r EXCEPT !.out = reports, !.overflowed = FALSE, !.seq = next,
                  !.sqNum = r.seq, !.entryID = entry] \in Block
    BY <2>2, <2>3, <2>4 DEF Block
  <2>7. SameClaims(Sent(r, id, ms), r)
    BY <2>5 DEF Block, SameClaims
  <2>8. QED BY <2>5, <2>6, <2>7
<1>3. QED BY <1>1, <1>2

\* Building a report, recorded or sent (rcb.rs:475-549), keeps the type and
\* every claim.
LEMMA BuildType ==
    ASSUME NEW r \in Block, NEW ms \in SUBSET Member, NEW i \in BOOLEAN
    PROVE  Build(r, ms, i) \in Block /\ SameClaims(Build(r, ms, i), r)
<1> DEFINE rec == Recorded(r, ms, i)
<1>1. CASE ms = {}
  BY <1>1 DEF Build, SameClaims
<1>2. CASE ms # {}
  <2>1. rec \in Block /\ SameClaims(rec, r)
    BY RecordedType
  <2>2. r.nextEntry \in Nat
    BY DEF Block
  <2>3. Build(r, ms, i) = Sent(rec, r.nextEntry, ms)
    BY <1>2 DEF Build
  <2> HIDE DEF rec
  <2>4. Sent(rec, r.nextEntry, ms) \in Block
    BY <2>1, <2>2, SentType
  <2>5. SameClaims(Sent(rec, r.nextEntry, ms), rec)
    BY <2>1, <2>2, SentType
  <2>6. SameClaims(Sent(rec, r.nextEntry, ms), r)
    BY <2>1, <2>5 DEF SameClaims
  <2>7. QED BY <2>3, <2>4, <2>6
<1>3. QED BY <1>1, <1>2

\* Gathering a change (rcb.rs:384-428) keeps the type and every claim.
LEMMA GatheredType ==
    ASSUME NEW r \in Block, NEW datasets, NEW D \in SUBSET Member, NEW s \in Nat
    PROVE  /\ Gathered(r, datasets, D, s) \in Block
           /\ SameClaims(Gathered(r, datasets, D, s), r)
<1> DEFINE hits == D \cap MembersOf[r.datSet]
           gathered == r.pending \cup hits
           window == IF r.due = Never THEN BufTm - s ELSE r.due
<1>1. gathered \in SUBSET Member
  BY DEF Block
<1>2. window \in Deadline
  BY ReportBlockAssumption DEF Block, Deadline
<1>3. \/ Gathered(r, datasets, D, s) = r
      \/ Gathered(r, datasets, D, s) = [r EXCEPT !.pending = gathered,
                                                !.due = window]
  BY DEF Gathered, Block
<1> HIDE DEF gathered, window
<1>4. [r EXCEPT !.pending = gathered, !.due = window] \in Block
  BY <1>1, <1>2 DEF Block
<1>5. SameClaims([r EXCEPT !.pending = gathered, !.due = window], r)
  BY DEF SameClaims, Block
<1>6. SameClaims(r, r)
  BY DEF SameClaims
<1>7. QED BY <1>3, <1>4, <1>5, <1>6

\* Answering a general interrogation (rcb.rs:435-445) keeps the type and
\* every claim.
LEMMA InterrogatedType ==
    ASSUME NEW r \in Block, NEW datasets
    PROVE  /\ Interrogated(r, datasets) \in Block
           /\ SameClaims(Interrogated(r, datasets), r)
<1> DEFINE r1 == [r EXCEPT !.gi = FALSE]
<1>1. r1 \in Block /\ SameClaims(r1, r)
  BY DEF Block, SameClaims
<1>2. MembersOf[r.datSet] \in SUBSET Member
  BY ReportBlockAssumption DEF Block
<1>3. \/ Interrogated(r, datasets) = r
      \/ Interrogated(r, datasets) = r1
      \/ Interrogated(r, datasets) = Build(r1, MembersOf[r.datSet], TRUE)
  BY DEF Interrogated
<1> HIDE DEF r1
<1>4. Build(r1, MembersOf[r.datSet], TRUE) \in Block
  BY <1>1, <1>2, BuildType
<1>5. SameClaims(Build(r1, MembersOf[r.datSet], TRUE), r1)
  BY <1>1, <1>2, BuildType
<1>6. QED
  BY <1>1, <1>3, <1>4, <1>5 DEF SameClaims

\* Purging the ring (rcb.rs:446-452) keeps the type and every claim.
LEMMA PurgedType ==
    ASSUME NEW r \in Block
    PROVE  Purged(r) \in Block /\ SameClaims(Purged(r), r)
<1>1. [r EXCEPT !.purge = FALSE, !.buffer = <<>>, !.overflowed = FALSE]
        \in Block
  BY NoReports DEF Block
<1>2. SameClaims(Purged(r), r)
  BY DEF Purged, SameClaims, Block
<1>3. QED BY <1>1, <1>2 DEF Purged

\* The start of an integrity period (rcb.rs:825-838) is a deadline.
LEMMA IntegrityStartType ==
    ASSUME NEW r \in Block, NEW s \in Nat
    PROVE  IntegrityStart(r, s) \in Deadline
BY DEF IntegrityStart, Deadline, Block

\* An integrity scan (rcb.rs:453-463) keeps the type and every claim.
LEMMA ScannedType ==
    ASSUME NEW r \in Block, NEW datasets, NEW s \in Nat
    PROVE  /\ Scanned(r, datasets, s) \in Block
           /\ SameClaims(Scanned(r, datasets, s), r)
<1> DEFINE start == IntegrityStart(r, s)
           r1 == [r EXCEPT !.integrityDue = start]
<1>1. start \in Deadline
  BY IntegrityStartType
<1>2. MembersOf[r.datSet] \in SUBSET Member
  BY ReportBlockAssumption DEF Block
<1>3. \/ Scanned(r, datasets, s) = r
      \/ Scanned(r, datasets, s) = r1
      \/ Scanned(r, datasets, s) = Build(r1, MembersOf[r.datSet], FALSE)
  BY DEF Scanned
<1> HIDE DEF start
<1>4. r1 \in Block /\ SameClaims(r1, r)
  BY <1>1 DEF Block, SameClaims
<1> HIDE DEF r1
<1>5. Build(r1, MembersOf[r.datSet], FALSE) \in Block
  BY <1>2, <1>4, BuildType
<1>6. SameClaims(Build(r1, MembersOf[r.datSet], FALSE), r1)
  BY <1>2, <1>4, BuildType
<1>7. QED
  BY <1>3, <1>4, <1>5, <1>6 DEF SameClaims

\* Reporting what a window gathered (rcb.rs:464-469) keeps the type and every
\* claim.
LEMMA FlushedType ==
    ASSUME NEW r \in Block, NEW datasets, NEW s \in Nat
    PROVE  /\ Flushed(r, datasets, s) \in Block
           /\ SameClaims(Flushed(r, datasets, s), r)
<1> DEFINE r1 == [r EXCEPT !.due = Never, !.pending = {}]
<1>1. r1 \in Block /\ SameClaims(r1, r)
  BY ZenonT(40) DEF Block, SameClaims, Deadline
<1>2. r.pending \in SUBSET Member
  BY DEF Block
<1>3. \/ Flushed(r, datasets, s) = r
      \/ Flushed(r, datasets, s) = Build(r1, r.pending, FALSE)
  BY DEF Flushed
<1> HIDE DEF r1
<1>4. Build(r1, r.pending, FALSE) \in Block
  BY <1>1, <1>2, BuildType
<1>5. SameClaims(Build(r1, r.pending, FALSE), r1)
  BY <1>1, <1>2, BuildType
<1>6. QED
  BY <1>1, <1>3, <1>4, <1>5 DEF SameClaims

\* emit_due as a whole (rcb.rs:430-469) keeps the type and every claim.
LEMMA EmittedType ==
    ASSUME NEW r \in Block, NEW datasets, NEW s \in Nat
    PROVE  /\ Emitted(r, datasets, s) \in Block
           /\ SameClaims(Emitted(r, datasets, s), r)
<1> DEFINE r1 == Interrogated(r, datasets)
           r2 == Purged(r1)
           r3 == Scanned(r2, datasets, s)
           r4 == Flushed(r3, datasets, s)
<1>1. r1 \in Block /\ SameClaims(r1, r)
  BY InterrogatedType
<1>2. r2 \in Block /\ SameClaims(r2, r1)
  BY <1>1, PurgedType
<1>3. r3 \in Block /\ SameClaims(r3, r2)
  BY <1>2, ScannedType
<1>4. r4 \in Block /\ SameClaims(r4, r3)
  BY <1>3, FlushedType
<1>5. Emitted(r, datasets, s) = r4
  BY DEF Emitted
<1> HIDE DEF r1, r2, r3, r4
<1>6. QED
  BY <1>1, <1>2, <1>3, <1>4, <1>5 DEF SameClaims

\* A publish (acsi.rs:661-676) keeps the type and every claim.
LEMMA CommittedType ==
    ASSUME NEW r \in Block, NEW datasets, NEW D \in SUBSET Member, NEW s \in Nat
    PROVE  /\ Committed(r, datasets, D, s) \in Block
           /\ SameClaims(Committed(r, datasets, D, s), r)
           /\ Committed(r, datasets, D, s).deferred = <<>>
<1> DEFINE r1 == Quiet(r)
           r2 == Gathered(r1, datasets, D, s)
           r3 == Emitted(r2, datasets, s)
           reports == r3.out \o r3.deferred
           r4 == [r3 EXCEPT !.out = reports, !.deferred = <<>>]
<1>1. r1 \in Block /\ SameClaims(r1, r)
  BY QuietType
<1>2. r2 \in Block /\ SameClaims(r2, r1)
  BY <1>1, GatheredType
<1>3. r3 \in Block /\ SameClaims(r3, r2)
  BY <1>2, EmittedType
<1>4. Committed(r, datasets, D, s) = r4
  BY <1>3 DEF Committed, Block
<1> HIDE DEF r1, r2, r3
<1>5. reports \in Seq(Report)
  BY <1>3 DEF Block
<1> HIDE DEF reports
<1>6. r4 \in Block
  BY <1>3, <1>5, NoReports DEF Block
<1>7. SameClaims(r4, r3) /\ r4.deferred = <<>>
  BY <1>3 DEF Block, SameClaims
<1> HIDE DEF r4
<1>8. QED
  BY <1>1, <1>2, <1>3, <1>4, <1>6, <1>7 DEF SameClaims

\* release_reservation (rcb.rs:815-823) gives a block.
LEMMA UnreservedType ==
    ASSUME NEW r \in Block
    PROVE  /\ Unreserved(r) \in Block
           /\ "RptEna" \in Unreserved(r).stray <=> "RptEna" \in r.stray
<1> DEFINE left == r.stray \ {"Owner"}
<1>1. left \in SUBSET ClaimLeaves /\ ("RptEna" \in left <=> "RptEna" \in r.stray)
  BY DEF Block
<1>2. Unreserved(r) = [r EXCEPT !.reserved = None, !.linger = None,
                                !.until = Never, !.resv = FALSE,
                                !.ownerAttr = None, !.stray = left]
  BY DEF Unreserved, Block
<1> HIDE DEF left
<1>3. [r EXCEPT !.reserved = None, !.linger = None, !.until = Never,
                !.resv = FALSE, !.ownerAttr = None, !.stray = left] \in Block
  BY <1>1 DEF Block, Deadline
<1>4. QED
  BY <1>1, <1>2, <1>3 DEF Block

\* Expiry of a reservation (rcb.rs:351-362) gives a block.
LEMMA ExpiredType ==
    ASSUME NEW r \in Block, NEW s \in Nat
    PROVE  Expired(r, s) \in Block
BY UnreservedType DEF Expired

\* A poll (rcb.rs:373-377) keeps the type and everything an expiry leaves
\* alone.
LEMMA TimedOutType ==
    ASSUME NEW r \in Block, NEW datasets, NEW s \in Nat
    PROVE  /\ TimedOut(r, datasets, s) \in Block
           /\ SameClaims(TimedOut(r, datasets, s), Expired(Quiet(r), s))
<1>1. Quiet(r) \in Block
  BY QuietType
<1>2. Expired(Quiet(r), s) \in Block
  BY <1>1, ExpiredType
<1>3. QED
  BY <1>2, EmittedType DEF TimedOut

\* A replay starts at a position of the ring or just after it
\* (rcb.rs:752-763).
LEMMA ReplayStartType ==
    ASSUME NEW r \in Block
    PROVE  ReplayStart(r) \in 0 .. Len(r.buffer)
<1>1. Position(r) \subseteq 1 .. Len(r.buffer)
  BY DEF Position
<1>2. Len(r.buffer) \in Nat
  BY DEF Block
<1>3. CASE Position(r) = {}
  BY <1>2, <1>3 DEF ReplayStart
<1>4. CASE Position(r) # {}
  BY <1>1, <1>2, <1>4 DEF ReplayStart
<1>5. QED BY <1>3, <1>4

\* A remainder is a natural number below its modulus.
LEMMA ModType ==
    ASSUME NEW a \in Int, NEW m \in Nat \ {0}
    PROVE  a % m \in Nat
OBVIOUS

\* A sequence number is below its modulus (rcb.rs:531).
LEMMA SeqModType ==
    ASSUME NEW a \in Int
    PROVE  a % SeqMod[TRUE] \in Nat
<1>1. SeqMod[TRUE] \in Nat \ {0}
  BY ReportBlockAssumption
<1>2. QED BY <1>1, ModType

\* Replayed entries become reports for the owner, with rising numbers
\* (rcb.rs:775-793).
LEMMA ReplayType ==
    ASSUME NEW r \in Block, r.owner \in Assoc
    PROVE  LET n == Len(r.buffer) - ReplayStart(r)
           IN  /\ n \in Nat
               /\ [k \in 1 .. n |-> ReplayOf(r, k)] \in Seq(Report)
<1> DEFINE start == ReplayStart(r)
           n == Len(r.buffer) - start
<1>1. start \in Nat /\ n \in Nat /\ start + n = Len(r.buffer)
  <2>1. r.buffer \in Seq(Entry)
    BY DEF Block
  <2>2. start \in 0 .. Len(r.buffer) /\ Len(r.buffer) \in Nat
    BY <2>1, ReplayStartType
  <2> QED BY <2>2
<1>2. r.buffer \in Seq(Entry)
  BY DEF Block
<1> HIDE DEF start
<1>3. ASSUME NEW k \in 1 .. n
      PROVE  ReplayOf(r, k) \in Report
  <2> DEFINE entry == r.buffer[start + k]
             seq == (r.seq + k - 1) % SeqMod[TRUE]
             members == entry.members \cap MembersOf[r.datSet]
             ovfl == k = 1 /\ (r.overflowed \/ ResumePointLost(r))
  <2>1. start + k \in 1 .. Len(r.buffer)
    BY <1>1
  <2>2. entry \in Entry
    BY <1>2, <2>1
  <2>3. r.seq + k - 1 \in Int
    BY <1>1 DEF Block
  <2>4. seq \in Nat
    BY <2>3, SeqModType
  <2>5. ovfl \in BOOLEAN
    OBVIOUS
  <2>6. entry.id \in Nat /\ members \in SUBSET Member
    BY <2>2 DEF Entry
  <2>7. ReplayOf(r, k) = [assoc |-> r.owner, seq |-> seq, id |-> entry.id,
                          members |-> members, ovfl |-> ovfl]
    BY DEF ReplayOf, start
  <2> HIDE DEF entry, seq, members, ovfl
  <2>8. QED
    BY <2>4, <2>5, <2>6, <2>7 DEF Report
<1>4. [k \in 1 .. n |-> ReplayOf(r, k)] \in Seq(Report)
  BY <1>1, <1>3
<1>5. QED
  BY <1>1, <1>4 DEF start

\* Handing a ring to an enabling client (rcb.rs:739-773) keeps the type and
\* every claim.
LEMMA DrainedType ==
    ASSUME NEW r \in Block, NEW datasets, r.owner \in Assoc
    PROVE  /\ Drained(r, datasets) \in Block
           /\ SameClaims(Drained(r, datasets), r)
           /\ SameGathered(Drained(r, datasets), r)
           /\ SameRing(Drained(r, datasets), r)
<1> DEFINE n == Len(r.buffer) - ReplayStart(r)
           shown == n > 0 /\ r.datSet \in datasets
           replay == [k \in 1 .. n |-> ReplayOf(r, k)]
           seq == IF n > 0 THEN (r.seq + n) % SeqMod[TRUE] ELSE r.seq
           deferred == IF shown THEN r.deferred \o replay ELSE r.deferred
           sqNum == IF shown THEN (r.seq + n - 1) % SeqMod[TRUE] ELSE r.sqNum
           entryID == IF shown THEN r.buffer[Len(r.buffer)].id ELSE r.entryID
<1>1. n \in Nat /\ replay \in Seq(Report)
  BY ReplayType
<1>2. n <= Len(r.buffer)
  BY ReplayStartType DEF Block
<1>3. seq \in Nat /\ sqNum \in Nat
  <2>1. r.seq \in Nat /\ r.sqNum \in Nat
    BY DEF Block
  <2>2. r.seq + n \in Int /\ r.seq + n - 1 \in Int
    BY <1>1, <2>1
  <2>3. (r.seq + n) % SeqMod[TRUE] \in Nat
    BY <2>2, SeqModType
  <2>4. (r.seq + n - 1) % SeqMod[TRUE] \in Nat
    BY <2>2, SeqModType
  <2>5. QED BY <2>1, <2>3, <2>4
<1>4. deferred \in Seq(Report)
  BY <1>1 DEF Block
<1>5. entryID \in Nat
  <2>1. r.buffer \in Seq(Entry) /\ r.entryID \in Nat
    BY DEF Block
  <2>2. CASE shown
    <3>1. Len(r.buffer) \in 1 .. Len(r.buffer)
      BY <1>1, <1>2, <2>1, <2>2
    <3>2. r.buffer[Len(r.buffer)] \in Entry
      BY <2>1, <3>1
    <3>3. QED BY <2>2, <3>2 DEF Entry
  <2>3. CASE ~shown
    BY <2>1, <2>3
  <2>4. QED BY <2>2, <2>3
<1>6. Drained(r, datasets) =
        [r EXCEPT !.overflowed = FALSE, !.seq = seq, !.deferred = deferred,
                  !.sqNum = sqNum, !.entryID = entryID]
  BY DEF Drained, Block
<1> HIDE DEF seq, deferred, sqNum, entryID
<1>7. [r EXCEPT !.overflowed = FALSE, !.seq = seq, !.deferred = deferred,
                !.sqNum = sqNum, !.entryID = entryID] \in Block
  BY <1>3, <1>4, <1>5 DEF Block
<1>8. /\ SameClaims(Drained(r, datasets), r)
      /\ SameGathered(Drained(r, datasets), r)
      /\ SameRing(Drained(r, datasets), r)
  BY <1>6 DEF SameClaims, SameGathered, SameRing, Block
<1>9. QED BY <1>6, <1>7, <1>8

\* The holder of a block is an association or nobody (rcb.rs:191-199).
LEMMA HolderType ==
    ASSUME NEW r \in Block
    PROVE  Holder(r) \in Assoc \cup {None}
BY DEF Holder, Block

\* Publishing Owner (acsi.rs:1122-1140) changes the attribute and nothing
\* else.
LEMMA PublishedType ==
    ASSUME NEW r \in Block, NEW fits \in BOOLEAN
    PROVE  /\ Published(r, fits) \in Block
           /\ SameClaims(Published(r, fits), r)
           /\ SameGathered(Published(r, fits), r)
           /\ SameRing(Published(r, fits), r)
           /\ Published(r, fits).deferred = r.deferred
<1> DEFINE h == Holder(r)
           with == r.stray \cup {"Owner"}
           less == r.stray \ {"Owner"}
<1>1. h \in Assoc \cup {None}
  BY HolderType
<1>2. /\ with \in SUBSET ClaimLeaves /\ less \in SUBSET ClaimLeaves
      /\ "RptEna" \in with <=> "RptEna" \in r.stray
      /\ "RptEna" \in less <=> "RptEna" \in r.stray
  BY DEF Block, ClaimLeaves
<1>3. Published(r, fits) = IF fits THEN [r EXCEPT !.ownerAttr = h, !.stray = less]
                                   ELSE [r EXCEPT !.stray = with]
  BY DEF Published, Block
<1> HIDE DEF h, with, less
<1>4. /\ [r EXCEPT !.ownerAttr = h, !.stray = less] \in Block
      /\ [r EXCEPT !.stray = with] \in Block
  BY <1>1, <1>2 DEF Block
<1>5. CASE fits
  BY <1>2, <1>3, <1>4, <1>5 DEF Block, SameClaims, SameGathered, SameRing
<1>6. CASE ~fits
  BY <1>2, <1>3, <1>4, <1>6 DEF Block, SameClaims, SameGathered, SameRing
<1>7. QED BY <1>5, <1>6

\* Enabling: the block is a's, its window is empty, and its replay is typed.
LEMMA EnabledType ==
    ASSUME NEW r \in Block, NEW datasets, NEW a \in Assoc, NEW s \in Nat
    PROVE  LET q == Enabled(r, datasets, a, s)
           IN  /\ q \in Block
               /\ q.owner = a /\ q.rptEna /\ "RptEna" \notin q.stray
               /\ q.buffered = r.buffered /\ q.reserved = r.reserved
               /\ q.linger = r.linger /\ q.until = r.until
               /\ q.pending = {} /\ q.due = Never /\ SameRing(q, r)
<1> DEFINE start == IntegrityStart(r, s)
           left == r.stray \ {"RptEna"}
           on == [r EXCEPT !.owner = a, !.pending = {}, !.due = Never, !.seq = 0,
                           !.integrityDue = start, !.sqNum = 0, !.rptEna = TRUE,
                           !.stray = left]
           shown == Published(on, TRUE)
<1>1. start \in Deadline /\ left \in SUBSET ClaimLeaves /\ "RptEna" \notin left
  BY IntegrityStartType DEF Block
<1>2. Enabled(r, datasets, a, s) = Drained(shown, datasets)
  BY DEF Enabled, Block
<1> HIDE DEF start, left
<1>3. on \in Block
  BY <1>1 DEF Block, Deadline
<1>4. /\ on.owner = a /\ on.rptEna /\ on.buffered = r.buffered
      /\ "RptEna" \notin on.stray
      /\ on.reserved = r.reserved /\ on.linger = r.linger /\ on.until = r.until
      /\ on.pending = {} /\ on.due = Never /\ SameRing(on, r)
  BY <1>1 DEF Block, SameRing
<1> HIDE DEF on
<1>5. /\ shown \in Block /\ SameClaims(shown, on)
      /\ SameGathered(shown, on) /\ SameRing(shown, on)
  BY <1>3, PublishedType
<1> HIDE DEF shown
<1>6. shown.owner \in Assoc
  BY <1>4, <1>5 DEF SameClaims
<1> DEFINE drained == Drained(shown, datasets)
<1>7. /\ drained \in Block /\ SameClaims(drained, shown)
      /\ SameGathered(drained, shown) /\ SameRing(drained, shown)
  BY <1>5, <1>6, DrainedType
<1> HIDE DEF drained
<1>8. QED
  BY <1>2, <1>4, <1>5, <1>7 DEF SameClaims, SameGathered, SameRing, drained

\* Writing RptEna false (rcb.rs:237-246) takes the owner away and drops the
\* window.
LEMMA DisabledType ==
    ASSUME NEW r \in Block, NEW fits \in BOOLEAN
    PROVE  LET q == Disabled(r, fits)
           IN  /\ q \in Block
               /\ q.owner = None
               /\ q.buffered = r.buffered /\ q.reserved = r.reserved
               /\ q.linger = r.linger /\ q.until = r.until
               /\ q.deferred = r.deferred
               /\ q.pending = {} /\ q.due = Never /\ SameRing(q, r)
<1> DEFINE ena == IF fits THEN FALSE ELSE r.rptEna
           left == IF fits THEN r.stray \ {"RptEna"} ELSE r.stray \cup {"RptEna"}
           off == [r EXCEPT !.owner = None, !.integrityDue = Never, !.pending = {},
                            !.due = Never, !.rptEna = ena, !.stray = left]
<1>1. ena \in BOOLEAN /\ left \in SUBSET ClaimLeaves
  BY DEF Block, ClaimLeaves
<1>2. Disabled(r, fits) = Published(off, fits)
  BY DEF Disabled, Block
<1> HIDE DEF ena, left
<1>3. off \in Block
  BY <1>1 DEF Block, Deadline
<1>4. /\ off.owner = None /\ off.buffered = r.buffered
      /\ off.reserved = r.reserved /\ off.linger = r.linger
      /\ off.until = r.until /\ off.deferred = r.deferred
      /\ off.pending = {} /\ off.due = Never /\ SameRing(off, r)
  BY DEF Block, SameRing
<1> HIDE DEF off
<1>5. QED
  BY <1>2, <1>3, <1>4, PublishedType DEF SameClaims, SameGathered, SameRing

\* Reserving (rcb.rs:262-276) changes the reservation and the attribute that
\* shows it.
LEMMA ReservedType ==
    ASSUME NEW r \in Block, NEW a \in Assoc, NEW l \in Nat \cup {None},
           NEW fits \in BOOLEAN
    PROVE  LET q == Reserved(r, a, l, fits)
           IN  /\ q \in Block
               /\ q.reserved = a /\ q.linger = l /\ q.until = Never
               /\ q.buffered = r.buffered /\ q.owner = r.owner
               /\ q.rptEna = r.rptEna /\ q.deferred = r.deferred
               /\ "RptEna" \in q.stray <=> "RptEna" \in r.stray
               /\ SameGathered(q, r) /\ SameRing(q, r)
<1> DEFINE resv == IF fits THEN TRUE ELSE r.resv
           mine == [r EXCEPT !.reserved = a, !.linger = l, !.until = Never,
                             !.resv = resv]
<1>1. resv \in BOOLEAN
  BY DEF Block
<1>2. Reserved(r, a, l, fits) = Published(mine, fits)
  BY DEF Reserved, Block
<1> HIDE DEF resv
<1>3. mine \in Block
  BY <1>1 DEF Block, Deadline
<1>4. /\ mine.reserved = a /\ mine.linger = l /\ mine.until = Never
      /\ mine.buffered = r.buffered /\ mine.owner = r.owner
      /\ mine.rptEna = r.rptEna /\ mine.deferred = r.deferred
      /\ mine.stray = r.stray
      /\ SameGathered(mine, r) /\ SameRing(mine, r)
  BY DEF Block, SameGathered, SameRing
<1> HIDE DEF mine
<1>5. QED
  BY <1>2, <1>3, <1>4, PublishedType DEF SameClaims, SameGathered, SameRing

\* Releasing (rcb.rs:277-280) ends the reservation of the one who holds it.
LEMMA ReleasedType ==
    ASSUME NEW r \in Block, NEW a \in Assoc, NEW fits \in BOOLEAN
    PROVE  LET q == Released(r, a, fits)
           IN  /\ q \in Block
               /\ q.buffered = r.buffered /\ q.owner = r.owner
               /\ q.rptEna = r.rptEna /\ q.deferred = r.deferred
               /\ "RptEna" \in q.stray <=> "RptEna" \in r.stray
               /\ SameGathered(q, r) /\ SameRing(q, r)
               /\ IF r.reserved = a
                    THEN q.reserved = None /\ q.linger = None /\ q.until = Never
                    ELSE SameClaims(q, r)
<1> DEFINE own == IF r.reserved = a
                    THEN [r EXCEPT !.reserved = None, !.linger = None, !.until = Never]
                    ELSE r
           resv == IF fits THEN FALSE ELSE r.resv
           free == [own EXCEPT !.resv = resv]
<1>1. own \in Block
  <2>1. [r EXCEPT !.reserved = None, !.linger = None, !.until = Never] \in Block
    BY DEF Block, Deadline
  <2>2. QED BY <2>1
<1>2. resv \in BOOLEAN
  BY DEF Block
<1>3. own.resv = r.resv
  BY DEF Block
<1>4. Released(r, a, fits) = Published(free, fits)
  BY <1>3 DEF Released
<1>5. /\ own.buffered = r.buffered /\ own.owner = r.owner
      /\ own.rptEna = r.rptEna /\ own.deferred = r.deferred
      /\ own.stray = r.stray
      /\ SameGathered(own, r) /\ SameRing(own, r)
      /\ IF r.reserved = a
           THEN own.reserved = None /\ own.linger = None /\ own.until = Never
           ELSE own = r
  BY DEF Block, SameGathered, SameRing
<1> HIDE DEF resv, own
<1>6. free \in Block
  BY <1>1, <1>2 DEF Block
<1>7. /\ SameClaims(free, own) /\ SameGathered(free, own) /\ SameRing(free, own)
      /\ free.deferred = own.deferred
  BY <1>1 DEF Block, SameClaims, SameGathered, SameRing
<1> HIDE DEF free
<1>8. QED
  BY <1>4, <1>5, <1>6, <1>7, PublishedType DEF SameClaims, SameGathered, SameRing

\* Writes that touch neither the claims, nor the window, nor the ring.
Undisturbed(q, r) ==
    /\ SameClaims(q, r) /\ SameGathered(q, r) /\ SameRing(q, r)
    /\ q.deferred = r.deferred

\* A block a request does not name is as it was, but for what it produced.
LEMMA QuietUndisturbed ==
    ASSUME NEW r \in Block
    PROVE  Undisturbed(Quiet(r), r)
BY DEF Quiet, Block, Undisturbed, SameClaims, SameGathered, SameRing

\* GI, PurgeBuf, IntgPd and EntryID (rcb.rs:248-258, 299-304) touch no claim.
LEMMA SettingType ==
    ASSUME NEW r \in Block, NEW on \in BOOLEAN, NEW n \in Nat
    PROVE  /\ [r EXCEPT !.gi = on] \in Block
           /\ Undisturbed([r EXCEPT !.gi = on], r)
           /\ [r EXCEPT !.purge = on] \in Block
           /\ Undisturbed([r EXCEPT !.purge = on], r)
           /\ [r EXCEPT !.intgPd = n] \in Block
           /\ Undisturbed([r EXCEPT !.intgPd = n], r)
           /\ [r EXCEPT !.entryID = n] \in Block
           /\ Undisturbed([r EXCEPT !.entryID = n], r)
BY ZenonT(40) DEF Block, Undisturbed, SameClaims, SameGathered, SameRing

\* Writing DatSet (rcb.rs:288-298) touches no claim.
LEMMA RedirectedType ==
    ASSUME NEW r \in Block, NEW ds \in DataSet
    PROVE  Redirected(r, ds) \in Block /\ Undisturbed(Redirected(r, ds), r)
<1> DEFINE rev == IF ds = r.datSet THEN r.confRev ELSE (r.confRev + 1) % ConfRevMod
<1>1. rev \in Nat
  BY SMTT(30), ReportBlockAssumption, ModType DEF Block
<1>2. Redirected(r, ds) = [r EXCEPT !.datSet = ds, !.confRev = rev]
  BY DEF Redirected, Block
<1> HIDE DEF rev
<1>3. [r EXCEPT !.datSet = ds, !.confRev = rev] \in Block
  BY <1>1 DEF Block
<1>4. Undisturbed(Redirected(r, ds), r)
  BY <1>2 DEF Block, Undisturbed, SameClaims, SameGathered, SameRing
<1>5. QED BY <1>2, <1>3, <1>4

\* An association that ends gives up what it has enabled, and its window.
LEMMA DisownedType ==
    ASSUME NEW r \in Block, NEW a \in Assoc
    PROVE  LET q == Disowned(r, a)
           IN  /\ q \in Block
               /\ q.buffered = r.buffered /\ q.reserved = r.reserved
               /\ q.linger = r.linger /\ q.until = r.until
               /\ q.deferred = r.deferred /\ q.nextEntry = r.nextEntry
               /\ r.owner # a => q = r
               /\ r.owner = a =>
                     /\ q.owner = None /\ ~q.rptEna /\ "RptEna" \notin q.stray
                     /\ q.pending = {} /\ q.due = Never
                     /\ q.buffer = IF r.buffered THEN r.buffer ELSE <<>>
<1> DEFINE buf == IF r.buffered THEN r.buffer ELSE <<>>
           resv == r.buffered /\ r.resv
           left == r.stray \ {"RptEna"}
           gone == [r EXCEPT !.owner = None, !.due = Never, !.pending = {},
                             !.buffer = buf, !.rptEna = FALSE, !.gi = FALSE,
                             !.purge = FALSE, !.resv = resv, !.stray = left]
<1>1. /\ buf \in Seq(Entry) /\ resv \in BOOLEAN
      /\ left \in SUBSET ClaimLeaves /\ "RptEna" \notin left
  BY NoReports DEF Block
<1>2. Disowned(r, a) = IF r.owner # a THEN r ELSE gone
  BY DEF Disowned, Block
<1> HIDE DEF resv, left
<1>3. gone \in Block
  <2> HIDE DEF buf
  <2>1. QED BY ZenonT(40), <1>1 DEF Block, Deadline
<1>4. /\ gone.buffered = r.buffered /\ gone.reserved = r.reserved
      /\ gone.linger = r.linger /\ gone.until = r.until
      /\ gone.deferred = r.deferred /\ gone.nextEntry = r.nextEntry
      /\ gone.owner = None /\ gone.pending = {} /\ gone.due = Never
      /\ gone.buffer = buf /\ ~gone.rptEna /\ gone.stray = left
  BY DEF Block
<1> HIDE DEF gone
<1>5. QED
  BY <1>1, <1>2, <1>3, <1>4

\* The reservation of an association that ends lapses or lingers
\* (rcb.rs:336-347).
LEMMA AbandonedType ==
    ASSUME NEW r \in Block, NEW a \in Assoc
    PROVE  LET q == Abandoned(r, a)
           IN  /\ q \in Block
               /\ q.buffered = r.buffered /\ q.owner = r.owner
               /\ q.rptEna = r.rptEna /\ q.deferred = r.deferred
               /\ "RptEna" \in q.stray <=> "RptEna" \in r.stray
               /\ SameGathered(q, r) /\ SameRing(q, r)
               /\ r.reserved # a => q = r
               /\ r.reserved = a /\ r.linger = None =>
                     q.reserved = None /\ q.until = Never
               /\ r.reserved = a /\ r.linger # None =>
                     /\ q.reserved = a /\ q.linger = r.linger
                     /\ q.until # Never
<1> DEFINE end == r.linger
           left == [r EXCEPT !.until = end]
<1>1. CASE r.reserved # a
  BY <1>1 DEF Abandoned, SameGathered, SameRing
<1>2. CASE r.reserved = a /\ r.linger = None
  <2>1. Abandoned(r, a) = Unreserved(r)
    BY <1>2 DEF Abandoned
  <2>2. /\ Unreserved(r) \in Block
        /\ "RptEna" \in Unreserved(r).stray <=> "RptEna" \in r.stray
    BY UnreservedType
  <2>3. QED
    BY <1>2, <2>1, <2>2 DEF Unreserved, Block, SameGathered, SameRing
<1>3. CASE r.reserved = a /\ r.linger # None
  <2>1. Abandoned(r, a) = left
    BY <1>3 DEF Abandoned, Block
  <2>2. end \in Deadline /\ end # Never
    BY <1>3, ReportBlockAssumption DEF Block, Deadline
  <2>3. left \in Block
    <3> HIDE DEF end
    <3>1. QED BY <2>2 DEF Block
  <2>4. QED
    BY <1>3, <2>1, <2>2, <2>3 DEF Block, SameGathered, SameRing
<1>4. QED BY <1>1, <1>2, <1>3

\* A reservation with a linger outlives its association, and every other claim
\* of it goes.
LEMMA ClosedType ==
    ASSUME NEW r \in Block, NEW a \in Assoc
    PROVE  LET q == Closed(r, a)
           IN  /\ q \in Block
               /\ SameClaims(q, Abandoned(Disowned(Quiet(r), a), a))
               /\ SameGathered(q, Abandoned(Disowned(Quiet(r), a), a))
               /\ SameRing(q, Abandoned(Disowned(Quiet(r), a), a))
               /\ q.deferred = r.deferred
<1> DEFINE r1 == Quiet(r)
           r2 == Disowned(r1, a)
           r3 == Abandoned(r2, a)
           q  == Published(r3, TRUE)
<1>1. r1 \in Block /\ r1.deferred = r.deferred
  BY QuietType, QuietUndisturbed DEF Undisturbed
<1> HIDE DEF r1
<1>2. r2 \in Block /\ r2.deferred = r.deferred
  BY <1>1, DisownedType
<1> HIDE DEF r2
<1>3. r3 \in Block /\ r3.deferred = r.deferred
  BY <1>2, AbandonedType
<1>4. Closed(r, a) = r3 \/ Closed(r, a) = q
  BY DEF Closed, r1, r2
<1> HIDE DEF r3
<1>5. /\ q \in Block /\ SameClaims(q, r3) /\ SameGathered(q, r3)
      /\ SameRing(q, r3) /\ q.deferred = r3.deferred
  BY <1>3, PublishedType
<1> HIDE DEF q
<1>6. SameClaims(r3, r3) /\ SameGathered(r3, r3) /\ SameRing(r3, r3)
  BY DEF SameClaims, SameGathered, SameRing
<1>7. /\ Closed(r, a) \in Block
      /\ SameClaims(Closed(r, a), r3) /\ SameGathered(Closed(r, a), r3)
      /\ SameRing(Closed(r, a), r3) /\ Closed(r, a).deferred = r.deferred
  BY <1>3, <1>4, <1>5, <1>6
<1>8. QED
  BY <1>7 DEF r1, r2, r3

\* A deadline is still one a tick later.
LEMMA SoonerType ==
    ASSUME NEW d \in Deadline
    PROVE  Sooner(d) \in Deadline /\ (Sooner(d) = Never <=> d = Never)
BY ReportBlockAssumption DEF Sooner, Deadline

\* Time brings deadlines nearer and changes nothing else.
LEMMA LetTimePassType ==
    ASSUME NEW r \in Block
    PROVE  LET q == LetTimePass(r)
           IN  /\ q \in Block
               /\ q.buffered = r.buffered /\ q.owner = r.owner
               /\ q.reserved = r.reserved /\ q.linger = r.linger
               /\ q.rptEna = r.rptEna /\ q.deferred = r.deferred
               /\ q.stray = r.stray
               /\ q.pending = r.pending /\ SameRing(q, r)
               /\ (q.due = Never <=> r.due = Never)
               /\ (q.until = Never <=> r.until = Never)
<1> DEFINE u == Sooner(r.until)
           d == Sooner(r.due)
           i == Sooner(r.integrityDue)
<1>1. /\ u \in Deadline /\ (u = Never <=> r.until = Never)
      /\ d \in Deadline /\ (d = Never <=> r.due = Never)
      /\ i \in Deadline
  BY SoonerType DEF Block
<1>2. LetTimePass(r) = [r EXCEPT !.until = u, !.due = d, !.integrityDue = i,
                                 !.out = <<>>]
  BY DEF LetTimePass, Block
<1> HIDE DEF u, d, i
<1>3. [r EXCEPT !.until = u, !.due = d, !.integrityDue = i, !.out = <<>>] \in Block
  BY <1>1, NoReports DEF Block
<1>4. QED
  BY <1>1, <1>2, <1>3 DEF Block, SameRing

\* A block as engineered (rcb.rs:128-153) is a block.
LEMMA NewBlockType ==
    ASSUME NEW k \in BOOLEAN, NEW ds \in DataSet, NEW p \in Nat
    PROVE  NewBlock(k, ds, p) \in Block
BY NoReports DEF NewBlock, Block, Deadline, NoEntry

\* A Write of the block as a structure (acsi.rs:1143-1157) replaces leaves of the
\* model and nothing of the engine's.
LEMMA OverwrittenType ==
    ASSUME NEW r \in Block, NEW w \in Structure, NEW n
    PROVE  LET q == Overwritten(r, w, n)
           IN  /\ q \in Block
               /\ q.buffered = r.buffered /\ q.owner = r.owner
               /\ q.reserved = r.reserved /\ q.linger = r.linger
               /\ q.until = r.until /\ q.deferred = r.deferred
               /\ "RptEna" \in q.stray
               /\ "Owner" \notin q.stray => /\ "Owner" \notin r.stray
                                            /\ q.ownerAttr = r.ownerAttr
               /\ SameGathered(q, r) /\ SameRing(q, r)
<1> DEFINE at == LeafOrder(r.buffered)
           put(leaf) == at[leaf] <= n
           ena == w.rptEna
           gi == IF put("gi") THEN w.gi ELSE r.gi
           purge == r.buffered /\ IF put("purge") THEN w.purge ELSE r.purge
           resv == IF put("resv") THEN w.resv ELSE r.resv
           ds == IF put("datSet") THEN w.datSet ELSE r.datSet
           rev == IF put("confRev") THEN w.confRev ELSE r.confRev
           period == IF put("intgPd") THEN w.intgPd ELSE r.intgPd
           seq == IF put("sqNum") THEN w.sqNum ELSE r.sqNum
           entry == IF r.buffered /\ put("entryID") THEN w.entryID ELSE r.entryID
           owner == IF put("ownerAttr") THEN w.ownerAttr ELSE r.ownerAttr
           leaves == r.stray \cup IF put("ownerAttr") THEN ClaimLeaves ELSE {"RptEna"}
           first == [r EXCEPT !.rptEna = ena, !.resv = resv, !.datSet = ds,
                              !.confRev = rev, !.sqNum = seq]
           q == [first EXCEPT !.intgPd = period, !.gi = gi, !.purge = purge,
                              !.entryID = entry, !.ownerAttr = owner,
                              !.stray = leaves]
<1>1. Overwritten(r, w, n) = q
  BY DEF Overwritten, Block
<1> HIDE DEF put, at
<1>2. /\ ena \in BOOLEAN /\ gi \in BOOLEAN /\ purge \in BOOLEAN /\ resv \in BOOLEAN
      /\ ds \in DataSet /\ rev \in Nat /\ period \in Nat /\ seq \in Nat
      /\ entry \in Nat /\ owner \in Assoc \cup {None}
  <2>1. /\ w.rptEna \in BOOLEAN /\ w.gi \in BOOLEAN /\ w.purge \in BOOLEAN
        /\ w.resv \in BOOLEAN /\ w.datSet \in DataSet /\ w.confRev \in Nat
        /\ w.intgPd \in Nat /\ w.sqNum \in Nat /\ w.entryID \in Nat
        /\ w.ownerAttr \in Assoc \cup {None}
    BY DEF Structure
  <2>2. /\ r.buffered \in BOOLEAN /\ r.gi \in BOOLEAN /\ r.purge \in BOOLEAN
        /\ r.resv \in BOOLEAN /\ r.datSet \in DataSet /\ r.confRev \in Nat
        /\ r.intgPd \in Nat /\ r.sqNum \in Nat /\ r.entryID \in Nat
        /\ r.ownerAttr \in Assoc \cup {None}
    BY DEF Block
  <2>3. ena \in BOOLEAN /\ gi \in BOOLEAN /\ resv \in BOOLEAN
    BY <2>1, <2>2
  <2>4. purge \in BOOLEAN
    BY <2>1, <2>2
  <2>5. ds \in DataSet /\ owner \in Assoc \cup {None}
    BY <2>1, <2>2
  <2>6. rev \in Nat /\ period \in Nat /\ seq \in Nat /\ entry \in Nat
    BY <2>1, <2>2
  <2> QED BY <2>3, <2>4, <2>5, <2>6
<1>3. /\ leaves \in SUBSET ClaimLeaves /\ "RptEna" \in leaves
      /\ "Owner" \notin leaves => "Owner" \notin r.stray /\ owner = r.ownerAttr
  BY DEF Block, ClaimLeaves
<1> HIDE DEF ena, gi, purge, resv, ds, rev, period, seq, entry, owner, leaves
<1>4. q \in Block
  <2>1. first \in Block
    BY <1>2 DEF Block
  <2> HIDE DEF first
  <2> QED BY <1>2, <1>3, <2>1 DEF Block
<1>5. /\ q.buffered = r.buffered /\ q.owner = r.owner
      /\ q.reserved = r.reserved /\ q.linger = r.linger
      /\ q.until = r.until /\ q.deferred = r.deferred
      /\ q.stray = leaves /\ q.ownerAttr = owner
      /\ SameGathered(q, r) /\ SameRing(q, r)
  BY DEF Block, SameGathered, SameRing
<1> HIDE DEF q
<1>6. QED
  BY <1>1, <1>3, <1>4, <1>5

(***************************************************************************)
(* What a block has gathered and what it has kept, invariant of every       *)
(* operation.                                                              *)
(***************************************************************************)

\* What is gathered is due, what is due was gathered, and a block that has
\* nobody to report to and does not buffer gathers nothing.
Gathering(r) ==
    /\ r.pending = {} <=> r.due = Never
    /\ ~r.buffered /\ r.owner = None => r.pending = {}

\* The ring is bounded, rises, and belongs to buffered blocks.
Ring(r) ==
    /\ Len(r.buffer) <= BufferLen
    /\ \A i \in 1 .. Len(r.buffer) : r.buffer[i].id < r.nextEntry
    /\ \A i, j \in 1 .. Len(r.buffer) : i < j => r.buffer[i].id < r.buffer[j].id
    /\ ~r.buffered => r.buffer = <<>>

\* A step that leaves the ring alone keeps it ordered.
LEMMA RingSame ==
    ASSUME NEW r, NEW q, Ring(r), SameRing(q, r), q.buffered = r.buffered
    PROVE  Ring(q)
BY DEF Ring, SameRing

\* A step that leaves the window alone keeps it sound.
LEMMA GatheringSame ==
    ASSUME NEW r, NEW q, Gathering(r), SameGathered(q, r), SameClaims(q, r)
    PROVE  Gathering(q)
BY DEF Gathering, SameGathered, SameClaims

\* Entries of a ring are numbered records.
LEMMA EntriesNumbered ==
    ASSUME NEW buf \in Seq(Entry)
    PROVE  \A i \in 1 .. Len(buf) : buf[i].id \in Nat
<1>1. \A i \in 1 .. Len(buf) : buf[i] \in Entry
  OBVIOUS
<1>2. QED BY <1>1 DEF Entry

\* Pushing a younger entry keeps a ring bounded and rising.
LEMMA PushedRises ==
    ASSUME NEW buf \in Seq(Entry), NEW e \in Entry, Len(buf) <= BufferLen,
           \A i \in 1 .. Len(buf) : buf[i].id < e.id,
           \A i, j \in 1 .. Len(buf) : i < j => buf[i].id < buf[j].id
    PROVE  LET q == Pushed(buf, e)
           IN  /\ Len(q) <= BufferLen
               /\ \A i \in 1 .. Len(q) : q[i].id < e.id + 1
               /\ \A i, j \in 1 .. Len(q) : i < j => q[i].id < q[j].id
<1> DEFINE q == Pushed(buf, e)
<1>1. BufferLen \in Nat \ {0} /\ Len(buf) \in Nat
  BY ReportBlockAssumption
<1>2. \A i \in 1 .. Len(buf) : buf[i].id \in Nat
  BY EntriesNumbered
<1>3. e.id \in Nat
  BY DEF Entry
<1>4. CASE Len(buf) >= BufferLen
  <2>1. q = Append(Tail(buf), e)
    BY <1>4 DEF Pushed
  <2>2. buf # <<>>
    BY <1>1, <1>4
  <2>3. Tail(buf) \in Seq(Entry) /\ Len(Tail(buf)) = Len(buf) - 1
    BY <2>2
  <2>4. \A i \in 1 .. Len(buf) - 1 : Tail(buf)[i] = buf[i + 1]
    BY <2>2
  <2>5. Len(q) = Len(buf)
    BY <1>1, <2>1, <2>3
  <2>6. \A i \in 1 .. Len(buf) - 1 : q[i] = buf[i + 1]
    BY <1>1, <2>1, <2>3, <2>4
  <2>7. q[Len(buf)] = e
    BY <1>1, <2>1, <2>3
  <2> HIDE DEF q
  <2>8. ASSUME NEW i \in 1 .. Len(q)
        PROVE  q[i].id < e.id + 1 /\ (i < Len(q) => q[i].id < e.id)
    <3>1. CASE i = Len(buf)
      BY <1>1, <1>3, <2>5, <2>7, <3>1
    <3>2. CASE i # Len(buf)
      <4>1. i \in 1 .. Len(buf) - 1 /\ i + 1 \in 1 .. Len(buf)
        BY <1>1, <2>5, <3>2
      <4>2. q[i] = buf[i + 1] /\ buf[i + 1].id < e.id /\ buf[i + 1].id \in Nat
        BY <1>2, <2>6, <4>1
      <4>3. QED BY <1>3, <4>2
    <3>3. QED BY <3>1, <3>2
  <2>9. ASSUME NEW i \in 1 .. Len(q), NEW j \in 1 .. Len(q), i < j
        PROVE  q[i].id < q[j].id
    <3>1. CASE j = Len(buf)
      BY <1>1, <2>5, <2>7, <2>8, <2>9, <3>1
    <3>2. CASE j # Len(buf)
      <4>1. /\ i \in 1 .. Len(buf) - 1 /\ j \in 1 .. Len(buf) - 1
            /\ i + 1 \in 1 .. Len(buf) /\ j + 1 \in 1 .. Len(buf)
            /\ i + 1 < j + 1
        BY <1>1, <2>5, <2>9, <3>2
      <4>2. q[i] = buf[i + 1] /\ q[j] = buf[j + 1]
        BY <2>6, <4>1
      <4>3. QED BY <4>1, <4>2
    <3>3. QED BY <3>1, <3>2
  <2>10. Len(q) <= BufferLen
    BY <1>1, <2>5
  <2>11. QED
    BY <2>8, <2>9, <2>10 DEF q
<1>5. CASE ~(Len(buf) >= BufferLen)
  <2>1. q = Append(buf, e)
    BY <1>5 DEF Pushed
  <2>2. Len(q) = Len(buf) + 1
    BY <2>1
  <2>3. \A i \in 1 .. Len(buf) : q[i] = buf[i]
    BY <2>1
  <2>4. q[Len(buf) + 1] = e
    BY <2>1
  <2> HIDE DEF q
  <2>5. QED
    BY SMTT(30), <1>1, <1>2, <1>3, <1>5, <2>2, <2>3, <2>4 DEF q
<1>6. QED BY <1>4, <1>5

\* Recording keeps the ring bounded and rising (rcb.rs:503-524).
LEMMA RecordedSound ==
    ASSUME NEW r \in Block, NEW ms \in SUBSET Member, NEW i \in BOOLEAN, Ring(r)
    PROVE  Ring(Recorded(r, ms, i)) /\ SameGathered(Recorded(r, ms, i), r)
<1> DEFINE e   == [id |-> r.nextEntry, members |-> ms]
           buf == Pushed(r.buffer, e)
           ovf == r.overflowed \/ Len(r.buffer) >= BufferLen
           q   == Recorded(r, ms, i)
<1>1. e \in Entry /\ e.id = r.nextEntry /\ r.buffer \in Seq(Entry)
  BY DEF Block, Entry
<1>2. /\ Len(buf) <= BufferLen
      /\ \A k \in 1 .. Len(buf) : buf[k].id < r.nextEntry + 1
      /\ \A k, l \in 1 .. Len(buf) : k < l => buf[k].id < buf[l].id
  <2> HIDE DEF e
  <2>1. QED BY <1>1, PushedRises DEF Ring
<1> HIDE DEF buf, ovf
<1>3. CASE r.buffered /\ ~i
  <2>1. q = [r EXCEPT !.nextEntry = r.nextEntry + 1, !.buffer = buf,
                      !.overflowed = ovf]
    BY <1>3 DEF Recorded, Block, buf, ovf
  <2>2. /\ q.buffer = buf /\ q.nextEntry = r.nextEntry + 1 /\ q.buffered
        /\ SameGathered(q, r)
    BY <1>3, <2>1 DEF Block, SameGathered
  <2> HIDE DEF q
  <2>3. QED BY <1>2, <2>2 DEF Ring, q
<1>4. CASE ~(r.buffered /\ ~i)
  <2>1. q = [r EXCEPT !.nextEntry = r.nextEntry + 1]
    BY <1>4 DEF Recorded, Block
  <2>2. /\ q.buffer = r.buffer /\ q.nextEntry = r.nextEntry + 1
        /\ q.buffered = r.buffered /\ SameGathered(q, r)
    BY <2>1 DEF Block, SameGathered
  <2>3. r.nextEntry \in Nat /\ \A k \in 1 .. Len(r.buffer) : r.buffer[k].id \in Nat
    BY <1>1, EntriesNumbered DEF Block
  <2> HIDE DEF q
  <2>4. QED BY <2>2, <2>3 DEF Ring, q
<1>5. QED BY <1>3, <1>4

\* A report that is sent and not recorded leaves the ring alone
\* (rcb.rs:526-549).
LEMMA SentSound ==
    ASSUME NEW r \in Block, NEW id \in Nat, NEW ms \in SUBSET Member
    PROVE  SameRing(Sent(r, id, ms), r) /\ SameGathered(Sent(r, id, ms), r)
BY DEF Sent, Block, SameRing, SameGathered

\* Building a report keeps the ring bounded and rising (rcb.rs:475-549).
LEMMA BuildSound ==
    ASSUME NEW r \in Block, NEW ms \in SUBSET Member, NEW i \in BOOLEAN, Ring(r)
    PROVE  Ring(Build(r, ms, i)) /\ SameGathered(Build(r, ms, i), r)
<1> DEFINE rec == Recorded(r, ms, i)
           q == Sent(rec, r.nextEntry, ms)
<1>1. CASE ms = {}
  BY <1>1 DEF Build, SameGathered
<1>2. CASE ms # {}
  <2>1. rec \in Block /\ Ring(rec) /\ SameGathered(rec, r)
    BY RecordedType, RecordedSound
  <2>2. r.nextEntry \in Nat
    BY DEF Block
  <2>3. Build(r, ms, i) = q
    BY <1>2 DEF Build
  <2> HIDE DEF rec
  <2>4. SameClaims(q, rec) /\ SameRing(q, rec) /\ SameGathered(q, rec)
    BY <2>1, <2>2, SentType, SentSound
  <2>5. Ring(q)
    BY <2>1, <2>4, RingSame DEF SameClaims
  <2>6. QED BY <2>1, <2>3, <2>4, <2>5 DEF SameGathered
<1>3. QED BY <1>1, <1>2

\* Both invariants at once.
Sound(r) == Gathering(r) /\ Ring(r)

\* A step that leaves window and ring alone keeps both sound.
LEMMA SoundSame ==
    ASSUME NEW r, NEW q, Sound(r), SameGathered(q, r), SameRing(q, r),
           SameClaims(q, r)
    PROVE  Sound(q)
BY RingSame, GatheringSame DEF Sound, SameClaims

\* Gathering opens a window with a deadline, and only for a block that
\* reports (rcb.rs:384-428).
LEMMA GatheredSound ==
    ASSUME NEW r \in Block, NEW datasets, NEW D \in SUBSET Member, NEW s \in Nat,
           Sound(r)
    PROVE  Sound(Gathered(r, datasets, D, s))
<1> DEFINE hits == D \cap MembersOf[r.datSet]
           gathered == r.pending \cup hits
           window == IF r.due = Never THEN BufTm - s ELSE r.due
           q == [r EXCEPT !.pending = gathered, !.due = window]
<1>1. CASE (r.owner = None /\ ~r.buffered) \/ r.datSet \notin datasets \/ hits = {}
  BY <1>1 DEF Gathered
<1>2. CASE ~((r.owner = None /\ ~r.buffered) \/ r.datSet \notin datasets \/ hits = {})
  <2>1. Gathered(r, datasets, D, s) = q
    BY <1>2 DEF Gathered, Block
  <2>2. gathered # {}
    BY <1>2
  <2>3. window # Never
    BY ReportBlockAssumption
  <2> HIDE DEF gathered, window
  <2>4. /\ q.pending = gathered /\ q.due = window /\ SameRing(q, r)
        /\ q.buffered = r.buffered /\ q.owner = r.owner
    BY DEF Block, SameRing
  <2> HIDE DEF q
  <2>5. Ring(q)
    BY <2>4, RingSame DEF Sound
  <2>6. Gathering(q)
    BY <1>2, <2>2, <2>3, <2>4 DEF Gathering
  <2>7. QED BY <2>1, <2>5, <2>6 DEF Sound
<1>3. QED BY <1>1, <1>2

\* A general interrogation keeps window and ring sound (rcb.rs:435-445).
LEMMA InterrogatedSound ==
    ASSUME NEW r \in Block, NEW datasets, Sound(r)
    PROVE  Sound(Interrogated(r, datasets))
<1> DEFINE r1 == [r EXCEPT !.gi = FALSE]
           q == Build(r1, MembersOf[r.datSet], TRUE)
<1>1. r1 \in Block /\ Undisturbed(r1, r)
  BY SettingType
<1>2. MembersOf[r.datSet] \in SUBSET Member
  BY ReportBlockAssumption DEF Block
<1>3. \/ Interrogated(r, datasets) = r
      \/ Interrogated(r, datasets) = r1
      \/ Interrogated(r, datasets) = q
  BY DEF Interrogated
<1> HIDE DEF r1
<1>4. Sound(r1)
  BY <1>1, SoundSame DEF Undisturbed
<1>5. Ring(q) /\ SameGathered(q, r1) /\ SameClaims(q, r1)
  BY <1>1, <1>2, <1>4, BuildSound, BuildType DEF Sound
<1>6. Gathering(q)
  BY <1>4, <1>5, GatheringSame DEF Sound
<1>7. QED BY <1>3, <1>4, <1>5, <1>6 DEF Sound

\* A purge keeps window and ring sound (rcb.rs:446-452).
LEMMA PurgedSound ==
    ASSUME NEW r \in Block, Sound(r)
    PROVE  Sound(Purged(r))
<1> DEFINE q == [r EXCEPT !.purge = FALSE, !.buffer = <<>>, !.overflowed = FALSE]
<1>1. /\ q.buffer = <<>> /\ q.buffered = r.buffered
      /\ SameGathered(q, r) /\ SameClaims(q, r)
  BY DEF Block, SameGathered, SameClaims
<1>2. Purged(r) = r \/ Purged(r) = q
  BY DEF Purged
<1> HIDE DEF q
<1>3. Ring(q)
  BY <1>1, ReportBlockAssumption DEF Ring
<1>4. Gathering(q)
  BY <1>1, GatheringSame DEF Sound
<1>5. QED BY <1>2, <1>3, <1>4 DEF Sound

\* An integrity scan closes no window it leaves something in
\* (rcb.rs:453-463).
LEMMA ScannedSound ==
    ASSUME NEW r \in Block, NEW datasets, NEW s \in Nat, Sound(r)
    PROVE  Sound(Scanned(r, datasets, s))
<1> DEFINE start == IntegrityStart(r, s)
           r1 == [r EXCEPT !.integrityDue = start]
           q == Build(r1, MembersOf[r.datSet], FALSE)
<1>1. start \in Deadline
  BY IntegrityStartType
<1>2. MembersOf[r.datSet] \in SUBSET Member
  BY ReportBlockAssumption DEF Block
<1>3. \/ Scanned(r, datasets, s) = r
      \/ Scanned(r, datasets, s) = r1
      \/ Scanned(r, datasets, s) = q
  BY DEF Scanned
<1> HIDE DEF start
<1>4. /\ r1 \in Block /\ SameClaims(r1, r)
      /\ SameGathered(r1, r) /\ SameRing(r1, r)
  BY <1>1 DEF Block, SameClaims, SameGathered, SameRing
<1> HIDE DEF r1
<1>5. Sound(r1)
  BY <1>4, SoundSame
<1>6. Ring(q) /\ SameGathered(q, r1) /\ SameClaims(q, r1)
  BY <1>2, <1>4, <1>5, BuildSound, BuildType DEF Sound
<1>7. Gathering(q)
  BY <1>5, <1>6, GatheringSame DEF Sound
<1>8. QED BY <1>3, <1>5, <1>6, <1>7 DEF Sound

\* A window that closes is empty and has no deadline (rcb.rs:464-469).
LEMMA FlushedSound ==
    ASSUME NEW r \in Block, NEW datasets, NEW s \in Nat, Sound(r)
    PROVE  Sound(Flushed(r, datasets, s))
<1> DEFINE r1 == [r EXCEPT !.due = Never, !.pending = {}]
           q == Build(r1, r.pending, FALSE)
<1>1. /\ r1 \in Block /\ SameClaims(r1, r) /\ SameRing(r1, r)
      /\ r1.due = Never /\ r1.pending = {}
  BY DEF Block, SameClaims, SameRing, Deadline
<1>2. r.pending \in SUBSET Member
  BY DEF Block
<1>3. \/ Flushed(r, datasets, s) = r
      \/ Flushed(r, datasets, s) = q
  BY DEF Flushed
<1> HIDE DEF r1
<1>4. Ring(r1) /\ Gathering(r1)
  BY <1>1, RingSame DEF Sound, SameClaims, Gathering
<1>5. Ring(q) /\ SameGathered(q, r1) /\ SameClaims(q, r1)
  BY <1>1, <1>2, <1>4, BuildSound, BuildType
<1>6. Gathering(q)
  BY <1>4, <1>5, GatheringSame
<1>7. QED BY <1>3, <1>5, <1>6 DEF Sound

\* emit_due as a whole keeps window and ring sound (rcb.rs:430-469).
LEMMA EmittedSound ==
    ASSUME NEW r \in Block, NEW datasets, NEW s \in Nat, Sound(r)
    PROVE  Sound(Emitted(r, datasets, s))
<1> DEFINE r1 == Interrogated(r, datasets)
           r2 == Purged(r1)
           r3 == Scanned(r2, datasets, s)
           r4 == Flushed(r3, datasets, s)
<1>1. r1 \in Block /\ Sound(r1)
  BY InterrogatedType, InterrogatedSound
<1>2. r2 \in Block /\ Sound(r2)
  BY <1>1, PurgedType, PurgedSound
<1>3. r3 \in Block /\ Sound(r3)
  BY <1>2, ScannedType, ScannedSound
<1>4. Sound(r4)
  BY <1>3, FlushedSound
<1>5. Emitted(r, datasets, s) = r4
  BY DEF Emitted
<1>6. QED BY <1>4, <1>5

\* A publish keeps window and ring sound (acsi.rs:661-676).
LEMMA CommittedSound ==
    ASSUME NEW r \in Block, NEW datasets, NEW D \in SUBSET Member, NEW s \in Nat,
           Sound(r)
    PROVE  Sound(Committed(r, datasets, D, s))
<1> DEFINE r1 == Quiet(r)
           r2 == Gathered(r1, datasets, D, s)
           r3 == Emitted(r2, datasets, s)
           r4 == [r3 EXCEPT !.out = r3.out \o r3.deferred, !.deferred = <<>>]
<1>1. r1 \in Block /\ Sound(r1)
  BY QuietType, QuietUndisturbed, SoundSame DEF Undisturbed
<1>2. r2 \in Block /\ Sound(r2)
  BY <1>1, GatheredType, GatheredSound
<1>3. r3 \in Block /\ Sound(r3)
  BY <1>2, EmittedType, EmittedSound
<1>4. Committed(r, datasets, D, s) = r4
  BY <1>3 DEF Committed, Block
<1> HIDE DEF r1, r2, r3
<1>5. SameClaims(r4, r3) /\ SameGathered(r4, r3) /\ SameRing(r4, r3)
  BY <1>3 DEF Block, SameClaims, SameGathered, SameRing
<1> HIDE DEF r4
<1>6. QED BY <1>3, <1>4, <1>5, SoundSame

\* A poll keeps window and ring sound (rcb.rs:373-377).
LEMMA TimedOutSound ==
    ASSUME NEW r \in Block, NEW datasets, NEW s \in Nat, Sound(r)
    PROVE  Sound(TimedOut(r, datasets, s))
<1> DEFINE r1 == Quiet(r)
           r2 == Expired(r1, s)
<1>1. r1 \in Block /\ Sound(r1)
  BY QuietType, QuietUndisturbed, SoundSame DEF Undisturbed
<1> HIDE DEF r1
<1>2. /\ r2 \in Block /\ SameGathered(r2, r1) /\ SameRing(r2, r1)
      /\ r2.buffered = r1.buffered /\ r2.owner = r1.owner
  BY <1>1, ExpiredType
     DEF Expired, Unreserved, Block, SameGathered, SameRing
<1> HIDE DEF r2
<1>3. Sound(r2)
  BY <1>1, <1>2, RingSame DEF Sound, Gathering, SameGathered
<1>4. QED
  BY <1>2, <1>3, EmittedSound DEF TimedOut, r1, r2

-----------------------------------------------------------------------------

Claims(r) ==
    /\ r.owner # None /\ r.reserved # None => r.owner = r.reserved
    /\ r.owner # None /\ "RptEna" \notin r.stray => r.rptEna
    /\ r.until # Never => r.reserved # None /\ r.linger # None

\* Every replay that waits is for an association of S.
Owes(r, S) == \A i \in DOMAIN r.deferred : r.deferred[i].assoc \in S

\* O: the associations that are open.  C: those that have ended.  S: those
\* that publish before they read another request.
BlockInv(r, O, C, S) ==
    /\ r \in Block /\ Sound(r) /\ Claims(r)
    /\ r.owner # None => r.owner \in O
    /\ r.reserved # None /\ r.until = Never => r.reserved \in O
    /\ r.until # Never => r.reserved \in C
    /\ Owes(r, S)

\* What a block owes to open, ended and publishing associations it owes to
\* more of them.
LEMMA BlockInvMonotonic ==
    ASSUME NEW r, NEW O1, NEW C1, NEW S1, NEW O2, NEW C2, NEW S2,
           BlockInv(r, O1, C1, S1), O1 \subseteq O2, C1 \subseteq C2,
           S1 \subseteq S2
    PROVE  BlockInv(r, O2, C2, S2)
BY DEF BlockInv, Owes

\* A step that leaves claims, window, ring and replays alone keeps a block's
\* invariant.
LEMMA UndisturbedInv ==
    ASSUME NEW r, NEW q \in Block, NEW O, NEW C, NEW S,
           BlockInv(r, O, C, S), Undisturbed(q, r)
    PROVE  BlockInv(q, O, C, S)
<1>1. Sound(q)
  BY SoundSame DEF BlockInv, Undisturbed
<1>2. QED
  BY <1>1 DEF BlockInv, Undisturbed, SameClaims, Claims, Owes

\* A block a critical section does not reach keeps its invariant.
LEMMA QuietInv ==
    ASSUME NEW r, NEW O, NEW C, NEW S, BlockInv(r, O, C, S)
    PROVE  Quiet(r) \in Block /\ BlockInv(Quiet(r), O, C, S)
<1>1. r \in Block
  BY DEF BlockInv
<1>2. QED BY <1>1, QuietType, QuietUndisturbed, UndisturbedInv

\* A replay is for the client that enabled the block.
LEMMA DrainedOwed ==
    ASSUME NEW r \in Block, NEW known, NEW S, r.owner \in Assoc, r.owner \in S,
           Owes(r, S)
    PROVE  Owes(Drained(r, known), S)
<1> DEFINE n == Len(r.buffer) - ReplayStart(r)
           replay == [k \in 1 .. n |-> ReplayOf(r, k)]
<1>1. n \in Nat /\ replay \in Seq(Report)
  BY ReplayType
<1>2. \A k \in 1 .. n : replay[k].assoc = r.owner
  BY DEF ReplayOf
<1>3. Len(replay) = n
  BY <1>1
<1>4. r.deferred \in Seq(Report)
  BY DEF Block
<1>5. \/ Drained(r, known).deferred = r.deferred
      \/ Drained(r, known).deferred = r.deferred \o replay
  BY DEF Drained, Block
<1> HIDE DEF replay, n
<1>6. \A i \in DOMAIN (r.deferred \o replay) :
        (r.deferred \o replay)[i].assoc \in S
  <2> TAKE i \in DOMAIN (r.deferred \o replay)
  <2>1. CASE i <= Len(r.deferred)
    BY <1>1, <1>4, <2>1 DEF Owes
  <2>2. CASE ~(i <= Len(r.deferred))
    <3>1. i - Len(r.deferred) \in 1 .. n
      BY <1>1, <1>3, <1>4, <2>2
    <3>2. (r.deferred \o replay)[i] = replay[i - Len(r.deferred)]
      BY <1>1, <1>3, <1>4, <2>2
    <3>3. QED BY <1>2, <3>1, <3>2
  <2>3. QED BY <2>1, <2>2
<1>7. QED BY <1>5, <1>6 DEF Owes

\* Enabling a block (rcb.rs:220-236) makes an open association its owner and
\* owes the replay to it.
LEMMA EnabledInv ==
    ASSUME NEW r, NEW O, NEW C, NEW S, NEW known, NEW a \in Assoc, NEW s \in Nat,
           BlockInv(r, O, C, S), a \in O, a \in S, MayEnable(r, a)
    PROVE  BlockInv(Enabled(r, known, a, s), O, C, S)
<1> DEFINE q == Enabled(r, known, a, s)
<1>1. r \in Block /\ Sound(r) /\ Claims(r) /\ Owes(r, S)
  BY DEF BlockInv
<1>2. /\ q \in Block /\ q.owner = a /\ q.rptEna
      /\ q.buffered = r.buffered /\ q.reserved = r.reserved
      /\ q.linger = r.linger /\ q.until = r.until
      /\ q.pending = {} /\ q.due = Never /\ SameRing(q, r)
  BY <1>1, EnabledType
<1>3. Owes(q, S)
  <2> DEFINE start == IntegrityStart(r, s)
             left == r.stray \ {"RptEna"}
             on == [r EXCEPT !.owner = a, !.pending = {}, !.due = Never,
                             !.seq = 0, !.integrityDue = start, !.sqNum = 0,
                             !.rptEna = TRUE, !.stray = left]
             shown == Published(on, TRUE)
  <2>1. start \in Deadline /\ left \in SUBSET ClaimLeaves
    BY <1>1, IntegrityStartType DEF Block
  <2>2. q = Drained(shown, known)
    BY <1>1 DEF Enabled, Block
  <2> HIDE DEF start, left
  <2>3. on \in Block
    BY <1>1, <2>1 DEF Block, Deadline
  <2>4. on.owner = a /\ on.deferred = r.deferred
    BY <1>1 DEF Block
  <2> HIDE DEF on
  <2>5. shown \in Block /\ shown.owner = a /\ shown.deferred = r.deferred
    BY <2>3, <2>4, PublishedType DEF SameClaims
  <2> HIDE DEF shown
  <2>6. Owes(shown, S)
    BY <1>1, <2>5 DEF Owes
  <2>7. Owes(Drained(shown, known), S)
    BY <2>5, <2>6, DrainedOwed
  <2>8. QED BY <2>2, <2>7
<1> HIDE DEF q
<1>4. Ring(q) /\ Gathering(q)
  BY <1>1, <1>2, RingSame, ReportBlockAssumption DEF Sound, Gathering
<1>5. r.reserved \in {None, a}
  BY DEF MayEnable, TakenByOther
<1>6. Claims(q)
  BY <1>1, <1>2, <1>5 DEF Claims
<1>7. QED
  BY <1>1, <1>2, <1>3, <1>4, <1>5, <1>6 DEF BlockInv, Sound, q

\* Disabling a block (rcb.rs:237-246) keeps its invariant, whatever value
\* disabled it.
LEMMA DisabledInv ==
    ASSUME NEW r, NEW O, NEW C, NEW S, NEW fits \in BOOLEAN, BlockInv(r, O, C, S)
    PROVE  BlockInv(Disabled(r, fits), O, C, S)
<1> DEFINE q == Disabled(r, fits)
<1>1. r \in Block
  BY DEF BlockInv
<1>2. /\ q \in Block /\ q.owner = None
      /\ q.buffered = r.buffered /\ q.reserved = r.reserved
      /\ q.linger = r.linger /\ q.until = r.until /\ q.deferred = r.deferred
      /\ q.pending = {} /\ q.due = Never /\ SameRing(q, r)
  BY <1>1, DisabledType
<1> HIDE DEF q
<1>3. Ring(q) /\ Gathering(q)
  BY <1>2, RingSame DEF BlockInv, Sound, Gathering
<1>4. QED
  BY <1>2, <1>3 DEF BlockInv, Sound, Claims, Owes, q

\* A reservation (rcb.rs:262-276) is an open association's and has no
\* deadline.
LEMMA ReservedInv ==
    ASSUME NEW r, NEW O, NEW C, NEW S, NEW a \in Assoc, NEW l \in Nat \cup {None},
           NEW fits \in BOOLEAN, BlockInv(r, O, C, S), a \in O, MayReserve(r, a)
    PROVE  BlockInv(Reserved(r, a, l, fits), O, C, S)
<1> DEFINE q == Reserved(r, a, l, fits)
<1>1. r \in Block
  BY DEF BlockInv
<1>2. /\ q \in Block /\ q.reserved = a /\ q.linger = l /\ q.until = Never
      /\ q.buffered = r.buffered /\ q.owner = r.owner
      /\ q.rptEna = r.rptEna /\ q.deferred = r.deferred
      /\ "RptEna" \in q.stray <=> "RptEna" \in r.stray
      /\ SameGathered(q, r) /\ SameRing(q, r)
  BY <1>1, ReservedType
<1> HIDE DEF q
<1>3. Sound(q)
  BY <1>2, RingSame DEF BlockInv, Sound, Gathering, SameGathered
<1>4. r.owner \in {None, a}
  BY DEF MayReserve, TakenByOther
<1>5. QED
  BY <1>2, <1>3, <1>4 DEF BlockInv, Claims, Owes, q

\* A release (rcb.rs:277-280) keeps the block's invariant.
LEMMA ReleasedInv ==
    ASSUME NEW r, NEW O, NEW C, NEW S, NEW a \in Assoc, NEW fits \in BOOLEAN,
           BlockInv(r, O, C, S)
    PROVE  BlockInv(Released(r, a, fits), O, C, S)
<1> DEFINE q == Released(r, a, fits)
<1>1. r \in Block
  BY DEF BlockInv
<1>2. /\ q \in Block
      /\ q.buffered = r.buffered /\ q.owner = r.owner
      /\ q.rptEna = r.rptEna /\ q.deferred = r.deferred
      /\ "RptEna" \in q.stray <=> "RptEna" \in r.stray
      /\ SameGathered(q, r) /\ SameRing(q, r)
      /\ IF r.reserved = a
           THEN q.reserved = None /\ q.linger = None /\ q.until = Never
           ELSE SameClaims(q, r)
  BY <1>1, ReleasedType
<1> HIDE DEF q
<1>3. Sound(q)
  BY <1>2, RingSame DEF BlockInv, Sound, Gathering, SameGathered
<1>4. QED
  BY <1>2, <1>3 DEF BlockInv, Claims, Owes, SameClaims, q

\* Association a ends: what it had enabled is free, and what it reserved is
\* free or lingers.
LEMMA ClosedInv ==
    ASSUME NEW r, NEW O, NEW C, NEW S, NEW a \in Assoc, BlockInv(r, O, C, S)
    PROVE  BlockInv(Closed(r, a), O \ {a}, C \cup {a}, S)
<1> DEFINE r1 == Quiet(r)
           r2 == Disowned(r1, a)
           r3 == Abandoned(r2, a)
           q  == Closed(r, a)
<1>1. r \in Block /\ r1 \in Block /\ BlockInv(r1, O, C, S)
  BY QuietInv DEF BlockInv
<1>2. /\ q \in Block /\ SameClaims(q, r3) /\ SameGathered(q, r3)
      /\ SameRing(q, r3) /\ q.deferred = r.deferred
  BY <1>1, ClosedType
<1> HIDE DEF r1, q
<1>3. /\ r2 \in Block
      /\ r2.buffered = r1.buffered /\ r2.reserved = r1.reserved
      /\ r2.linger = r1.linger /\ r2.until = r1.until
      /\ r2.nextEntry = r1.nextEntry
      /\ r1.owner # a => r2 = r1
      /\ r1.owner = a =>
            /\ r2.owner = None /\ r2.pending = {} /\ r2.due = Never
            /\ r2.buffer = IF r1.buffered THEN r1.buffer ELSE <<>>
  BY <1>1, DisownedType
<1> HIDE DEF r2
<1>4. None \notin Assoc
  BY ReportBlockAssumption
<1>5. Sound(r2) /\ Claims(r2) /\ r2.owner # a
  <2>1. CASE r1.owner # a
    BY <1>1, <1>3, <2>1 DEF BlockInv
  <2>2. CASE r1.owner = a
    <3>1. Gathering(r2)
      BY <1>3, <2>2 DEF Gathering
    <3>2. Ring(r2)
      BY <1>1, <1>3, <2>2, ReportBlockAssumption DEF BlockInv, Sound, Ring
    <3>3. Claims(r2)
      BY <1>1, <1>3, <2>2 DEF BlockInv, Claims
    <3>4. QED BY <1>3, <1>4, <2>2, <3>1, <3>2, <3>3 DEF Sound
  <2>3. QED BY <2>1, <2>2
<1>6. /\ r2.owner # None => r2.owner \in O \ {a}
      /\ r2.reserved # None /\ r2.until = Never => r2.reserved \in O
      /\ r2.until # Never => r2.reserved \in C
  BY <1>1, <1>3, <1>5 DEF BlockInv
<1>7. /\ r3 \in Block
      /\ r3.buffered = r2.buffered /\ r3.owner = r2.owner
      /\ r3.rptEna = r2.rptEna
      /\ "RptEna" \in r3.stray <=> "RptEna" \in r2.stray
      /\ SameGathered(r3, r2) /\ SameRing(r3, r2)
      /\ r2.reserved # a => r3 = r2
      /\ r2.reserved = a /\ r2.linger = None =>
            r3.reserved = None /\ r3.until = Never
      /\ r2.reserved = a /\ r2.linger # None =>
            /\ r3.reserved = a /\ r3.linger = r2.linger
            /\ r3.until # Never
  BY <1>3, AbandonedType
<1> HIDE DEF r3
<1>8. Sound(r3)
  BY <1>5, <1>7, RingSame DEF Sound, Gathering, SameGathered
<1>9. Claims(r3)
  BY <1>4, <1>5, <1>7 DEF Claims
<1>10. /\ r3.owner # None => r3.owner \in O \ {a}
       /\ r3.reserved # None /\ r3.until = Never => r3.reserved \in O \ {a}
       /\ r3.until # Never => r3.reserved \in C \cup {a}
  BY <1>4, <1>6, <1>7
<1>11. Sound(q)
  BY <1>2, <1>8, SoundSame
<1>12. Owes(q, S)
  BY <1>2 DEF BlockInv, Owes
<1>13. QED
  BY <1>2, <1>9, <1>10, <1>11, <1>12 DEF BlockInv, SameClaims, Claims, q

\* A publish (acsi.rs:661-676) hands over every replay, so nothing is owed
\* after it.
LEMMA CommittedInv ==
    ASSUME NEW r, NEW O, NEW C, NEW S, NEW T, NEW known,
           NEW D \in SUBSET Member, NEW s \in Nat, BlockInv(r, O, C, S)
    PROVE  BlockInv(Committed(r, known, D, s), O, C, T)
<1> DEFINE q == Committed(r, known, D, s)
<1>1. r \in Block /\ Sound(r)
  BY DEF BlockInv
<1>2. q \in Block /\ SameClaims(q, r) /\ q.deferred = <<>>
  BY <1>1, CommittedType
<1>3. Sound(q)
  BY <1>1, CommittedSound
<1> HIDE DEF q
<1>4. QED
  BY <1>2, <1>3 DEF BlockInv, SameClaims, Claims, Owes, q

\* Emitting hands nothing to, and takes nothing from, the deferred replays.
LEMMA BuildOwed ==
    ASSUME NEW r \in Block, NEW ms \in SUBSET Member, NEW i \in BOOLEAN
    PROVE  Build(r, ms, i).deferred = r.deferred
<1> DEFINE rec == Recorded(r, ms, i)
<1>1. rec \in Block
  BY RecordedType
<1>2. rec.deferred = r.deferred
  BY DEF Recorded, Block
<1> HIDE DEF rec
<1>3. Sent(rec, r.nextEntry, ms).deferred = rec.deferred
  BY <1>1 DEF Sent, Block
<1>4. QED
  BY <1>2, <1>3 DEF Build, rec

\* Emitting reports defers no replay (rcb.rs:430-469).
LEMMA EmittedOwed ==
    ASSUME NEW r \in Block, NEW known, NEW s \in Nat
    PROVE  Emitted(r, known, s).deferred = r.deferred
<1> DEFINE r1 == Interrogated(r, known)
           r2 == Purged(r1)
           r3 == Scanned(r2, known, s)
           r4 == Flushed(r3, known, s)
<1>1. ASSUME NEW x \in Block
      PROVE  MembersOf[x.datSet] \in SUBSET Member /\ x.pending \in SUBSET Member
  BY ReportBlockAssumption DEF Block
<1>2. r1 \in Block /\ r1.deferred = r.deferred
  <2> DEFINE x == [r EXCEPT !.gi = FALSE]
  <2>1. x \in Block /\ x.deferred = r.deferred
    BY SettingType DEF Undisturbed
  <2>2. \/ r1 = r \/ r1 = x
        \/ r1 = Build(x, MembersOf[r.datSet], TRUE)
    BY DEF Interrogated
  <2> HIDE DEF x
  <2>3. Build(x, MembersOf[r.datSet], TRUE).deferred = x.deferred
    BY <1>1, <2>1, BuildOwed
  <2>4. QED BY <2>1, <2>2, <2>3, InterrogatedType
<1> HIDE DEF r1
<1>3. r2 \in Block /\ r2.deferred = r1.deferred
  BY ZenonT(40), <1>2, PurgedType DEF Purged, Block
<1> HIDE DEF r2
<1>4. r3 \in Block /\ r3.deferred = r2.deferred
  <2> DEFINE start == IntegrityStart(r2, s)
             x == [r2 EXCEPT !.integrityDue = start]
  <2>1. start \in Deadline
    BY <1>3, IntegrityStartType
  <2>2. \/ r3 = r2 \/ r3 = x
        \/ r3 = Build(x, MembersOf[r2.datSet], FALSE)
    BY DEF Scanned
  <2> HIDE DEF start
  <2>3. x \in Block /\ x.deferred = r2.deferred
    BY <1>3, <2>1 DEF Block
  <2> HIDE DEF x
  <2>4. Build(x, MembersOf[r2.datSet], FALSE).deferred = x.deferred
    BY <1>1, <1>3, <2>3, BuildOwed
  <2>5. QED BY <1>3, <2>2, <2>3, <2>4, ScannedType
<1> HIDE DEF r3
<1>5. r4.deferred = r3.deferred
  <2> DEFINE x == [r3 EXCEPT !.due = Never, !.pending = {}]
  <2>1. x \in Block /\ x.deferred = r3.deferred
    <3>1. Never \in Deadline /\ {} \in SUBSET Member
      BY DEF Deadline
    <3>2. x \in Block
      BY <1>4, <3>1 DEF Block
    <3>3. x.deferred = r3.deferred
      BY <1>4 DEF Block
    <3>4. QED BY <3>2, <3>3
  <2>2. r4 = r3 \/ r4 = Build(x, r3.pending, FALSE)
    BY DEF Flushed
  <2> HIDE DEF x
  <2>3. Build(x, r3.pending, FALSE).deferred = x.deferred
    BY <1>1, <1>4, <2>1, BuildOwed
  <2>4. QED BY <2>1, <2>2, <2>3
<1>6. Emitted(r, known, s) = r4
  BY DEF Emitted, r1, r2, r3
<1>7. QED BY <1>2, <1>3, <1>4, <1>5, <1>6

\* A poll (rcb.rs:373-377) ends only claims of associations that have ended.
LEMMA TimedOutInv ==
    ASSUME NEW r, NEW O, NEW C, NEW S, NEW known, NEW s \in Nat,
           BlockInv(r, O, C, S)
    PROVE  BlockInv(TimedOut(r, known, s), O, C, S)
<1> DEFINE r1 == Quiet(r)
           r2 == Expired(r1, s)
           q  == TimedOut(r, known, s)
<1>1. r \in Block /\ r1 \in Block /\ BlockInv(r1, O, C, S)
  BY QuietInv DEF BlockInv
<1>2. q \in Block /\ SameClaims(q, r2) /\ Sound(q)
  BY <1>1, TimedOutType, TimedOutSound DEF BlockInv
<1>3. q = Emitted(r2, known, s)
  BY DEF TimedOut
<1> HIDE DEF r1, q
<1>4. r2 \in Block
  BY <1>1, ExpiredType
<1>5. /\ r2.deferred = r1.deferred /\ r2.owner = r1.owner
      /\ r2.rptEna = r1.rptEna
      /\ "RptEna" \in r2.stray <=> "RptEna" \in r1.stray
      /\ \/ r2.reserved = None /\ r2.until = Never
         \/ SameClaims(r2, r1)
  <2>1. "RptEna" \in Unreserved(r1).stray <=> "RptEna" \in r1.stray
    BY <1>1, UnreservedType
  <2>2. /\ Unreserved(r1).deferred = r1.deferred
        /\ Unreserved(r1).owner = r1.owner /\ Unreserved(r1).rptEna = r1.rptEna
        /\ Unreserved(r1).reserved = None /\ Unreserved(r1).until = Never
    BY <1>1 DEF Unreserved, Block
  <2>3. SameClaims(r1, r1)
    BY DEF SameClaims
  <2>4. r2 = r1 \/ r2 = Unreserved(r1)
    BY DEF Expired
  <2> HIDE DEF r2
  <2>5. QED BY <2>1, <2>2, <2>3, <2>4
<1> HIDE DEF r2
<1>6. q.deferred = r1.deferred
  BY <1>3, <1>4, <1>5, EmittedOwed
<1>7. Owes(q, S)
  BY <1>1, <1>6 DEF BlockInv, Owes
<1>8. Claims(q)
  BY <1>1, <1>2, <1>5 DEF BlockInv, Claims, SameClaims
<1>9. QED
  BY <1>1, <1>2, <1>5, <1>7, <1>8 DEF BlockInv, SameClaims, q

\* A structure Write (acsi.rs:1143-1157) leaves the engine's claims, window, ring
\* and replays alone.
LEMMA OverwrittenInv ==
    ASSUME NEW r, NEW O, NEW C, NEW S, NEW w \in Structure, NEW n,
           BlockInv(r, O, C, S)
    PROVE  BlockInv(Overwritten(r, w, n), O, C, S)
<1> DEFINE q == Overwritten(r, w, n)
<1>1. r \in Block
  BY DEF BlockInv
<1>2. /\ q \in Block
      /\ q.buffered = r.buffered /\ q.owner = r.owner
      /\ q.reserved = r.reserved /\ q.linger = r.linger
      /\ q.until = r.until /\ q.deferred = r.deferred
      /\ "RptEna" \in q.stray
      /\ SameGathered(q, r) /\ SameRing(q, r)
  BY <1>1, OverwrittenType
<1> HIDE DEF q
<1>3. Sound(q)
  BY <1>2, RingSame DEF BlockInv, Sound, Gathering, SameGathered
<1>4. QED
  BY <1>2, <1>3 DEF BlockInv, Claims, Owes, q

\* Time ends no claim by itself: only a poll does.
LEMMA LetTimePassInv ==
    ASSUME NEW r, NEW O, NEW C, NEW S, BlockInv(r, O, C, S)
    PROVE  BlockInv(LetTimePass(r), O, C, S)
<1> DEFINE q == LetTimePass(r)
<1>1. r \in Block
  BY DEF BlockInv
<1>2. /\ q \in Block
      /\ q.buffered = r.buffered /\ q.owner = r.owner
      /\ q.reserved = r.reserved /\ q.linger = r.linger
      /\ q.rptEna = r.rptEna /\ q.deferred = r.deferred
      /\ q.stray = r.stray
      /\ q.pending = r.pending /\ SameRing(q, r)
      /\ (q.due = Never <=> r.due = Never)
      /\ (q.until = Never <=> r.until = Never)
  BY <1>1, LetTimePassType
<1> HIDE DEF q
<1>3. Sound(q)
  BY <1>2, RingSame DEF BlockInv, Sound, Gathering
<1>4. QED
  BY <1>2, <1>3 DEF BlockInv, Claims, Owes, q

(***************************************************************************)
(* The inductive invariant of the specification.                           *)
(***************************************************************************)
Ended == {a \in Assoc : state[a] = "closed"}

\* The associations whose thread publishes before it reads another request.
Publishers == unpublished \cup ({lock} \cap Assoc)

Threads ==
    /\ defined \subseteq DataSet
    /\ state \in [Assoc -> {"new", "open", "closed"}]
    /\ lock \in Assoc \cup {None}
    /\ writes \in Nat
    /\ unpublished \subseteq Assoc
    /\ dirty \subseteq Member

BlocksInv ==
    /\ rcb = [b \in Blocks |-> rcb[b]]
    /\ \A b \in Blocks : BlockInv(rcb[b], Opened, Ended, Publishers)

IInv == Threads /\ BlocksInv

\* The blocks are what their writer left, and every other one is quiet.
LEMMA WriteBlockInv ==
    ASSUME IInv, NEW a \in Assoc, NEW b \in Blocks, NEW r,
           BlockInv(r, Opened, Ended, Publishers \cup {a}), WriteBlock(a, b, r),
           defined' \subseteq DataSet, dirty' \subseteq Member
    PROVE  IInv'
<1>1. Serving(a) /\ Answered(a)
  BY DEF WriteBlock
<1>2. rcb' = [c \in Blocks |-> IF c = b THEN r ELSE Quiet(rcb[c])]
  BY DEF WriteBlock
<1>3. state' = state
  BY <1>1 DEF Answered, Continue, Finish
<1>4. /\ Opened' = Opened /\ Ended' = Ended
  BY <1>3 DEF Opened, Ended
<1>5. Publishers \cup {a} \subseteq Publishers'
  BY <1>1, ReportBlockAssumption
     DEF IInv, Threads, Serving, Answered, Continue, Finish, Publishers
<1>6. Threads'
  BY <1>1, <1>3
     DEF IInv, Threads, Answered, Continue, Finish
<1>7. ASSUME NEW c \in Blocks
      PROVE  BlockInv(rcb'[c], Opened', Ended', Publishers')
  <2>1. CASE c = b
    BY <1>2, <1>4, <1>5, <2>1, BlockInvMonotonic
  <2>2. CASE c # b
    <3>1. BlockInv(Quiet(rcb[c]), Opened, Ended, Publishers)
      BY QuietInv DEF IInv, BlocksInv
    <3>2. rcb'[c] = Quiet(rcb[c])
      BY <1>2, <2>2
    <3>3. QED BY <1>4, <1>5, <3>1, <3>2, BlockInvMonotonic
  <2>3. QED BY <2>1, <2>2
<1>8. BlocksInv'
  BY <1>2, <1>7 DEF BlocksInv
<1>9. QED BY <1>6, <1>8 DEF IInv

\* A thread that serves a request is open, and is about to publish or to go
\* on writing (net.rs:449-467).
LEMMA BeforeWrite ==
    ASSUME IInv, NEW a \in Assoc, NEW b \in Blocks, Serving(a)
    PROVE  /\ a \in Opened
           /\ Quiet(rcb[b]) \in Block
           /\ SameClaims(Quiet(rcb[b]), rcb[b])
           /\ BlockInv(Quiet(rcb[b]), Opened, Ended, Publishers \cup {a})
<1>1. BlockInv(rcb[b], Opened, Ended, Publishers)
  BY DEF IInv, BlocksInv
<1>2. BlockInv(Quiet(rcb[b]), Opened, Ended, Publishers)
  BY <1>1, QuietInv
<1>3. BlockInv(Quiet(rcb[b]), Opened, Ended, Publishers \cup {a})
  BY <1>2, BlockInvMonotonic
<1>4. rcb[b] \in Block
  BY <1>1 DEF BlockInv
<1>5. QED
  BY <1>3, <1>4, QuietType DEF Serving, Opened

\* A server that has just been bound satisfies the invariant (rcb.rs:128-153,
\* net.rs:148-160).
LEMMA InitInv == Init => IInv
<1> SUFFICES ASSUME Init PROVE IInv
  OBVIOUS
<1>1. Threads
  BY DEF Init, Threads
<1>2. ASSUME NEW b \in Blocks
      PROVE  BlockInv(rcb[b], Opened, Ended, Publishers)
  <2>1. PICK k \in Kinds, ds \in DataSet \ Deletable, p \in IntgPds :
          rcb[b] = NewBlock(k, ds, p)
    BY DEF Init, Engineered
  <2>2. k \in BOOLEAN /\ ds \in DataSet /\ p \in Nat
    BY ReportEngineAssumption, ReportBlockAssumption
  <2>3. NewBlock(k, ds, p) \in Block
    BY <2>2, NewBlockType
  <2>4. Sound(NewBlock(k, ds, p))
    BY ReportBlockAssumption DEF NewBlock, Sound, Gathering, Ring
  <2>5. Claims(NewBlock(k, ds, p)) /\ Owes(NewBlock(k, ds, p), Publishers)
    BY DEF NewBlock, Claims, Owes
  <2>6. QED
    BY <2>1, <2>3, <2>4, <2>5 DEF BlockInv, NewBlock
<1>3. rcb = [b \in Blocks |-> rcb[b]]
  BY DEF Init
<1>4. QED BY <1>1, <1>2, <1>3 DEF IInv, BlocksInv

\* Every variable a Write request names keeps the invariant
\* (acsi.rs:943-1120).
LEMMA WriteInv ==
    ASSUME IInv, NEW a \in Assoc, WriteRequest(a)
    PROVE  IInv'
<1>1. Threads
  BY DEF IInv
<1>2. ASSUME rcb' = [b \in Blocks |-> Quiet(rcb[b])],
             Serving(a), Answered(a), defined' \subseteq DataSet,
             dirty' \subseteq Member
      PROVE  IInv'
  <2>1. CASE Blocks = {}
    <3>1. BlocksInv'
      BY <1>2, <2>1 DEF BlocksInv
    <3>2. Threads'
      BY <1>1, <1>2 DEF Threads, Answered, Continue, Finish
    <3>3. QED BY <3>1, <3>2 DEF IInv
  <2>2. CASE Blocks # {}
    <3>1. PICK b \in Blocks : TRUE
      BY <2>2
    <3>2. WriteBlock(a, b, Quiet(rcb[b]))
      BY <1>2 DEF WriteBlock
    <3>3. BlockInv(Quiet(rcb[b]), Opened, Ended, Publishers \cup {a})
      BY <1>2, BeforeWrite
    <3>4. QED BY <1>2, <3>2, <3>3, WriteBlockInv
  <2>3. QED BY <2>1, <2>2
<1>3. CASE WriteRefused(a)
  BY <1>1, <1>2, <1>3 DEF WriteRefused, Threads
<1>4. ASSUME NEW m \in Member, WriteValue(a, m)
      PROVE  IInv'
  BY <1>1, <1>2, <1>4 DEF WriteValue, Threads
<1>5. ASSUME NEW ds \in DataSet, CreateDataSet(a, ds) \/ DeleteDataSet(a, ds)
      PROVE  IInv'
  BY <1>1, <1>2, <1>5 DEF CreateDataSet, DeleteDataSet, Answered, Threads
<1>6. ASSUME NEW b \in Blocks, NEW s \in Clock, WriteRptEnaTrue(a, b, s)
      PROVE  IInv'
  <2> DEFINE r == Quiet(rcb[b])
  <2>1. /\ Serving(a) /\ MayEnable(rcb[b], a)
        /\ WriteBlock(a, b, Enabled(r, defined, a, s))
        /\ UNCHANGED <<defined, dirty>>
    BY <1>6 DEF WriteRptEnaTrue, WriteBlock
  <2>2. /\ a \in Opened /\ SameClaims(r, rcb[b])
        /\ BlockInv(r, Opened, Ended, Publishers \cup {a})
    BY <2>1, BeforeWrite
  <2>3. MayEnable(r, a)
    BY <2>1, <2>2 DEF MayEnable, TakenByOther, SameClaims
  <2>4. s \in Nat
    BY ReportBlockAssumption DEF Clock
  <2> HIDE DEF r
  <2>5. BlockInv(Enabled(r, defined, a, s), Opened, Ended, Publishers \cup {a})
    BY <2>2, <2>3, <2>4, EnabledInv
  <2>6. QED BY <1>1, <2>1, <2>5, WriteBlockInv DEF Threads
<1>7. ASSUME NEW b \in Blocks, NEW fits \in BOOLEAN, WriteRptEnaFalse(a, b, fits)
      PROVE  IInv'
  <2>1. BlockInv(Disabled(Quiet(rcb[b]), fits), Opened, Ended, Publishers \cup {a})
    BY <1>7, BeforeWrite, DisabledInv DEF WriteRptEnaFalse, WriteBlock
  <2>2. QED BY <1>1, <1>7, <2>1, WriteBlockInv DEF WriteRptEnaFalse, Threads
<1>8. ASSUME NEW b \in Blocks, NEW fits \in BOOLEAN, WriteRelease(a, b, fits)
      PROVE  IInv'
  <2>1. BlockInv(Released(Quiet(rcb[b]), a, fits), Opened, Ended,
                 Publishers \cup {a})
    BY <1>8, BeforeWrite, ReleasedInv DEF WriteRelease, WriteBlock
  <2>2. QED BY <1>1, <1>8, <2>1, WriteBlockInv DEF WriteRelease, Threads
<1>9. ASSUME NEW b \in Blocks, NEW fits \in BOOLEAN, NEW l \in Lingers \cup {None},
             WriteReservation(a, b, l, fits)
      PROVE  IInv'
  <2> DEFINE r == Quiet(rcb[b])
  <2>1. /\ Serving(a) /\ MayReserve(rcb[b], a)
        /\ WriteBlock(a, b, Reserved(r, a, l, fits))
        /\ UNCHANGED <<defined, dirty>>
    BY <1>9 DEF WriteReservation, WriteBlock
  <2>2. /\ a \in Opened /\ SameClaims(r, rcb[b])
        /\ BlockInv(r, Opened, Ended, Publishers \cup {a})
    BY <2>1, BeforeWrite
  <2>3. MayReserve(r, a)
    BY <2>1, <2>2 DEF MayReserve, TakenByOther, SameClaims
  <2>4. l \in Nat \cup {None}
    BY ReportBlockAssumption
  <2> HIDE DEF r
  <2>5. BlockInv(Reserved(r, a, l, fits), Opened, Ended, Publishers \cup {a})
    BY <2>2, <2>3, <2>4, ReservedInv
  <2>6. QED BY <1>1, <2>1, <2>5, WriteBlockInv DEF Threads
<1>10. ASSUME NEW b \in Blocks, NEW q \in Block, Serving(a),
              Undisturbed(q, Quiet(rcb[b])), WriteBlock(a, b, q),
              UNCHANGED <<defined, dirty>>
       PROVE  IInv'
  <2>1. BlockInv(q, Opened, Ended, Publishers \cup {a})
    BY <1>10, BeforeWrite, UndisturbedInv
  <2>2. QED BY <1>1, <1>10, <2>1, WriteBlockInv DEF Threads
<1>11. ASSUME NEW b \in Blocks, Serving(a)
       PROVE  Quiet(rcb[b]) \in Block
  BY <1>11, BeforeWrite
<1>12. ASSUME NEW b \in Blocks, NEW on \in BOOLEAN,
              WriteGI(a, b, on) \/ WritePurgeBuf(a, b, on)
       PROVE  IInv'
  BY <1>10, <1>11, <1>12, SettingType DEF WriteGI, WritePurgeBuf, WriteBlock
<1>13. ASSUME NEW b \in Blocks, NEW ds \in DataSet, WriteDatSet(a, b, ds)
       PROVE  IInv'
  BY <1>10, <1>11, <1>13, RedirectedType DEF WriteDatSet, WriteBlock
<1>14. ASSUME NEW b \in Blocks, NEW p \in Nat,
              WriteIntgPd(a, b, p) \/ WriteEntryID(a, b, p)
       PROVE  IInv'
  BY <1>10, <1>11, <1>14, SettingType DEF WriteIntgPd, WriteEntryID, WriteBlock
<1>15. ASSUME NEW b \in Blocks, NEW w \in Structures, NEW n \in Taken,
              WriteStructure(a, b, w, n)
       PROVE  IInv'
  <2>1. w \in Structure
    BY ReportEngineAssumption
  <2>2. BlockInv(Overwritten(Quiet(rcb[b]), w, n), Opened, Ended, Publishers \cup {a})
    BY <1>15, <2>1, BeforeWrite, OverwrittenInv DEF WriteStructure, WriteBlock
  <2>3. QED BY <1>1, <1>15, <2>2, WriteBlockInv DEF WriteStructure, Threads
<1>16. /\ Fits \subseteq BOOLEAN /\ IntgPds \subseteq Nat /\ EntryIDs \subseteq Nat
  <2>1. Fits \subseteq BOOLEAN
    BY DEF Fits
  <2>2. IntgPds \subseteq Nat
    BY ReportBlockAssumption
  <2>3. EntryIDs \subseteq Nat
    BY DEF EntryIDs
  <2>4. QED BY <2>1, <2>2, <2>3
<1>17. QED
  BY <1>3, <1>4, <1>5, <1>6, <1>7, <1>8, <1>9, <1>12, <1>13, <1>14, <1>15, <1>16
     DEF WriteRequest

\* What the steps that are not part of a request have in common.
LEMMA BlocksStep ==
    ASSUME Threads', rcb' = [b \in Blocks |-> rcb'[b]],
           \A b \in Blocks : BlockInv(rcb'[b], Opened', Ended', Publishers')
    PROVE  IInv'
BY DEF IInv, BlocksInv

\* Every step keeps the invariant.
LEMMA NextInv == IInv /\ [Next]_vars => IInv'
<1> SUFFICES ASSUME IInv, [Next]_vars PROVE IInv'
  OBVIOUS
<1>1. Threads
  BY DEF IInv
<1>2. \A b \in Blocks : BlockInv(rcb[b], Opened, Ended, Publishers)
  BY DEF IInv, BlocksInv
<1>3. Clock \subseteq Nat
  BY DEF Clock
<1>4. ASSUME NEW a \in Assoc, Open(a)
      PROVE  IInv'
  <2>1. /\ rcb' = [b \in Blocks |-> Quiet(rcb[b])]
        /\ state' = [state EXCEPT ![a] = "open"] /\ state[a] = "new"
        /\ UNCHANGED <<defined, lock, writes, unpublished, dirty>>
    BY <1>4 DEF Open
  <2>2. /\ Opened \subseteq Opened' /\ Ended \subseteq Ended'
        /\ Publishers' = Publishers /\ Threads'
    BY <1>1, <2>1 DEF Threads, Opened, Ended, Publishers
  <2>3. \A b \in Blocks : BlockInv(rcb'[b], Opened', Ended', Publishers')
    BY <1>2, <2>1, <2>2, QuietInv, BlockInvMonotonic
  <2>4. QED BY <2>1, <2>2, <2>3, BlocksStep
<1>5. ASSUME NEW a \in Assoc, Close(a)
      PROVE  IInv'
  <2>1. /\ rcb' = [b \in Blocks |-> Closed(rcb[b], a)]
        /\ state' = [state EXCEPT ![a] = "closed"] /\ state[a] = "open"
        /\ UNCHANGED <<defined, lock, writes, unpublished, dirty>>
    BY <1>5 DEF Close
  <2>2. /\ Opened' = Opened \ {a} /\ Ended' = Ended \cup {a}
        /\ Publishers' = Publishers /\ Threads'
    BY <1>1, <2>1 DEF Threads, Opened, Ended, Publishers
  <2>3. \A b \in Blocks : BlockInv(rcb'[b], Opened', Ended', Publishers')
    BY <1>2, <2>1, <2>2, ClosedInv
  <2>4. QED BY <2>1, <2>2, <2>3, BlocksStep
<1>6. ASSUME NEW a \in Assoc, NEW s \in Clock, Publish(a, s)
      PROVE  IInv'
  <2>1. /\ rcb' = [b \in Blocks |-> Committed(rcb[b], defined, dirty, s)]
        /\ unpublished' = unpublished \ {a} /\ dirty' = {}
        /\ UNCHANGED <<defined, state, lock, writes>>
    BY <1>6 DEF Publish
  <2>2. Opened' = Opened /\ Ended' = Ended /\ Threads'
    BY <1>1, <2>1 DEF Threads, Opened, Ended
  <2>3. s \in Nat /\ dirty \in SUBSET Member
    BY <1>1, <1>3 DEF Threads
  <2>4. \A b \in Blocks : BlockInv(rcb'[b], Opened', Ended', Publishers')
    BY <1>2, <2>1, <2>2, <2>3, CommittedInv
  <2>5. QED BY <2>1, <2>2, <2>4, BlocksStep
<1>7. ASSUME NEW D \in SUBSET Member, Transact(D)
      PROVE  IInv'
  <2>1. /\ rcb' = [b \in Blocks |-> Committed(rcb[b], defined, dirty \cup D, 0)]
        /\ dirty' = {} /\ UNCHANGED <<defined, thread>>
    BY <1>7 DEF Transact
  <2>2. Opened' = Opened /\ Ended' = Ended /\ Threads'
    BY <1>1, <2>1 DEF Threads, Opened, Ended, thread
  <2>3. dirty \cup D \in SUBSET Member
    BY <1>1 DEF Threads
  <2>4. \A b \in Blocks : BlockInv(rcb'[b], Opened', Ended', Publishers')
    BY <1>2, <2>1, <2>2, <2>3, CommittedInv
  <2>5. QED BY <2>1, <2>2, <2>4, BlocksStep
<1>8. ASSUME NEW a \in Assoc, NEW s \in Clock, Poll(a, s)
      PROVE  IInv'
  <2>1. /\ rcb' = [b \in Blocks |-> TimedOut(rcb[b], defined, s)]
        /\ UNCHANGED <<defined, dirty, thread>>
    BY <1>8 DEF Poll
  <2>2. /\ Opened' = Opened /\ Ended' = Ended /\ Publishers' = Publishers
        /\ Threads'
    BY <1>1, <2>1 DEF Threads, Opened, Ended, Publishers, thread
  <2>3. \A b \in Blocks : BlockInv(rcb'[b], Opened', Ended', Publishers')
    BY <1>2, <1>3, <2>1, <2>2, TimedOutInv
  <2>4. QED BY <2>1, <2>2, <2>3, BlocksStep
<1>9. CASE Tick
  <2>1. /\ rcb' = [b \in Blocks |-> LetTimePass(rcb[b])]
        /\ UNCHANGED <<defined, dirty, thread>>
    BY <1>9 DEF Tick
  <2>2. /\ Opened' = Opened /\ Ended' = Ended /\ Publishers' = Publishers
        /\ Threads'
    BY <1>1, <2>1 DEF Threads, Opened, Ended, Publishers, thread
  <2>3. \A b \in Blocks : BlockInv(rcb'[b], Opened', Ended', Publishers')
    BY <1>2, <2>1, <2>2, LetTimePassInv
  <2>4. QED BY <2>1, <2>2, <2>3, BlocksStep
<1>10. CASE UNCHANGED vars
  <2>1. /\ Opened' = Opened /\ Ended' = Ended /\ Publishers' = Publishers
        /\ Threads' /\ rcb' = rcb
    BY <1>1, <1>10 DEF vars, Threads, Opened, Ended, Publishers
  <2>2. QED BY <2>1 DEF IInv, BlocksInv
<1>11. QED
  BY <1>4, <1>5, <1>6, <1>7, <1>8, <1>9, <1>10, WriteInv DEF Next

\* The invariant holds of every behaviour of the engine.
THEOREM Invariance == Spec => []IInv
<1>1. Init => IInv
  BY InitInv
<1>2. IInv /\ [Next]_vars => IInv'
  BY NextInv
<1>3. QED BY <1>1, <1>2, PTL DEF Spec

\* Every variable keeps its type, whatever clients write and in which order
\* requests, publishes, polls and disconnects interleave (rcb.rs:210-377).
THEOREM TypeCorrect == Spec => []TypeOK
<1>1. IInv => TypeOK
  BY DEF IInv, Threads, BlocksInv, BlockInv, TypeOK
<1>2. QED BY <1>1, Invariance, PTL

\* No block is enabled by one association and reserved for another
\* (rcb.rs:224, 273), misfit writes included.
THEOREM OneHolderAlways == Spec => []OneHolder
<1>1. IInv => OneHolder
  BY DEF IInv, BlocksInv, BlockInv, Claims, OneHolder
<1>2. QED BY <1>1, Invariance, PTL

\* No claim on a block outlives its client without an end (rcb.rs:312-349).
THEOREM ClaimsEndAlways == Spec => []ClaimsEnd
<1>1. IInv => ClaimsEnd
  BY DEF IInv, BlocksInv, BlockInv, Claims, ClaimsEnd
<1>2. QED BY <1>1, Invariance, PTL

\* What a block has gathered has a deadline, and every deadline something
\* gathered (rcb.rs:418-427, 488-491, and every place that clears them).
THEOREM GatheredIsDueAlways == Spec => []GatheredIsDue
<1>1. IInv => GatheredIsDue
  BY DEF IInv, BlocksInv, BlockInv, Sound, Gathering, GatheredIsDue
<1>2. QED BY <1>1, Invariance, PTL

\* An unbuffered block nobody has enabled holds nothing (rcb.rs:389-391).
THEOREM UnownedIsIdleAlways == Spec => []UnownedIsIdle
<1>1. IInv => UnownedIsIdle
  BY DEF IInv, BlocksInv, BlockInv, Sound, Gathering, Ring, UnownedIsIdle
<1>2. QED BY <1>1, Invariance, PTL

\* The buffer is a bounded ring whose identifiers rise (rcb.rs:505-524), for
\* every length of the ring.
THEOREM RingOrderedAlways == Spec => []RingOrdered
<1>1. IInv => RingOrdered
  BY DEF IInv, BlocksInv, BlockInv, Sound, Ring, RingOrdered
<1>2. QED BY <1>1, Invariance, PTL

\* A replay waits only for the publish of the request that asked for it
\* (acsi.rs:1109-1115, net.rs:463-467).
THEOREM ReplayIsOwedAlways == Spec => []ReplayIsOwed
<1>1. IInv => ReplayIsOwed
  BY DEF IInv, BlocksInv, BlockInv, Owes, Publishers, ReplayIsOwed
<1>2. QED BY <1>1, Invariance, PTL

\* The ring can be resumed from, and every replay has somebody to go to
\* (rcb.rs:505-524, 742-790; acsi.rs:1109-1115).
THEOREM BufferIsAlwaysSound == Spec => []BufferIsSound
<1>1. RingOrdered /\ ReplayIsOwed => BufferIsSound
  BY DEF BufferIsSound
<1>2. QED BY <1>1, RingOrderedAlways, ReplayIsOwedAlways, PTL

\* What the engine holds of every block is one story (rcb.rs:218-349, 389-427),
\* for any number of associations, blocks and data sets, and whatever clients put
\* under its leaves by writing it as a structure (acsi.rs:1143-1157).
THEOREM ClaimsAlwaysAgree == Spec => []ClaimsAgree
<1>1. TypeOK /\ OneHolder /\ ClaimsEnd /\ GatheredIsDue /\ UnownedIsIdle
         => ClaimsAgree
  BY DEF ClaimsAgree
<1>2. QED
  BY <1>1, TypeCorrect, OneHolderAlways, ClaimsEndAlways, GatheredIsDueAlways,
     UnownedIsIdleAlways, PTL

(***************************************************************************)
(* The engine implements BlockHolder: each operation on the holder of a     *)
(* block, and then each action.                                            *)
(***************************************************************************)
LEMMA SameHolder ==
    ASSUME NEW r, NEW q, SameClaims(q, r)
    PROVE  Holder(q) = Holder(r)
BY DEF SameClaims, Holder

\* Enabling takes a block that is free, or is the client's already
\* (rcb.rs:220-236).
LEMMA EnabledHolder ==
    ASSUME NEW r \in Block, Claims(r), NEW known, NEW a \in Assoc, NEW s \in Nat, MayEnable(r, a)
    PROVE  Holder(r) \in {None, a} /\ Holder(Enabled(r, known, a, s)) = a
<1>1. Enabled(r, known, a, s).owner = a
  BY EnabledType
<1>2. a # None
  BY ReportBlockAssumption
<1>3. Holder(r) \in {None, a}
  BY DEF MayEnable, TakenByOther, Holder
<1> QED BY <1>1, <1>2, <1>3 DEF Holder

\* Disabling leaves the client its reservation, if it has one
\* (rcb.rs:237-247).
LEMMA DisabledHolder ==
    ASSUME NEW r \in Block, Claims(r), NEW a \in Assoc, NEW fits \in BOOLEAN, MayDisable(r, a)
    PROVE  \/ Holder(Disabled(r, fits)) = Holder(r)
           \/ Holder(r) = a /\ Holder(Disabled(r, fits)) = None
<1>1. Disabled(r, fits).owner = None /\ Disabled(r, fits).reserved = r.reserved
  BY DisabledType
<1>2. r.owner \in {None, a} /\ (r.owner # None /\ r.reserved # None => r.owner = r.reserved)
  BY DEF MayDisable, Claims
<1> QED BY <1>1, <1>2 DEF Holder

\* A reservation is of a free block, or of the client's own
\* (rcb.rs:260-281).
LEMMA ReservedHolder ==
    ASSUME NEW r \in Block, NEW a \in Assoc, NEW l \in Nat \cup {None}, NEW fits \in BOOLEAN,
           MayReserve(r, a)
    PROVE  Holder(r) \in {None, a} /\ Holder(Reserved(r, a, l, fits)) = a
<1>1. Reserved(r, a, l, fits).owner = r.owner /\ Reserved(r, a, l, fits).reserved = a
  BY ReservedType
<1>2. a # None
  BY ReportBlockAssumption
<1>3. r.owner \in {None, a} /\ r.reserved \in {None, a}
  BY DEF MayReserve, TakenByOther
<1> QED BY <1>1, <1>2, <1>3 DEF Holder

\* Only the client's own reservation is let go (rcb.rs:277-280).
LEMMA ReleasedHolder ==
    ASSUME NEW r \in Block, Claims(r), NEW a \in Assoc, NEW fits \in BOOLEAN
    PROVE  \/ Holder(Released(r, a, fits)) = Holder(r)
           \/ Holder(r) = a /\ Holder(Released(r, a, fits)) = None
<1> DEFINE q == Released(r, a, fits)
<1>1. /\ q.owner = r.owner
      /\ IF r.reserved = a THEN q.reserved = None ELSE SameClaims(q, r)
  BY ReleasedType
<1> HIDE DEF q
<1>2. CASE r.reserved # a
  BY <1>1, <1>2, SameHolder DEF q
<1>3. CASE r.reserved = a
  BY <1>1, <1>3 DEF Holder, q
<1> QED BY <1>2, <1>3

\* An association that ends keeps of its blocks those its reservation lingers
\* on, and no other block changes hands (rcb.rs:312-349).
LEMMA ClosedHolder ==
    ASSUME NEW r, NEW O, NEW C, NEW S, NEW a \in Assoc, BlockInv(r, O, C, S)
    PROVE  IF Holder(r) = a THEN Holder(Closed(r, a)) \in {None, a}
                            ELSE Holder(Closed(r, a)) = Holder(r)
<1> DEFINE r1 == Quiet(r)
           r2 == Disowned(r1, a)
           r3 == Abandoned(r2, a)
<1>1. r \in Block /\ r1 \in Block /\ SameClaims(r1, r) /\ Claims(r)
  BY QuietType DEF BlockInv
<1>2. SameClaims(Closed(r, a), r3)
  BY <1>1, ClosedType
<1> HIDE DEF r1
<1>3. /\ r2 \in Block /\ r2.reserved = r1.reserved
      /\ r1.owner # a => r2 = r1
      /\ r1.owner = a => r2.owner = None
  BY <1>1, DisownedType
<1> HIDE DEF r2
<1>4. /\ r3.owner = r2.owner
      /\ r2.reserved # a => r3 = r2
      /\ r2.reserved = a => r3.reserved \in {None, a}
  BY <1>3, AbandonedType
<1> HIDE DEF r3
<1>5. Holder(Closed(r, a)) = Holder(r3) /\ r1.owner = r.owner /\ r1.reserved = r.reserved
  BY <1>1, <1>2, SameHolder DEF SameClaims
<1>6. (r.owner # None /\ r.reserved # None => r.owner = r.reserved) /\ a # None
  BY <1>1, ReportBlockAssumption DEF Claims
<1>7. CASE r.owner = a
  BY <1>3, <1>4, <1>5, <1>6, <1>7 DEF Holder
<1>8. CASE r.owner # a
  BY <1>3, <1>4, <1>5, <1>6, <1>8 DEF Holder
<1> QED BY <1>7, <1>8

\* A poll ends claims of associations that have ended, and no other
\* (rcb.rs:351-377).
LEMMA TimedOutHolder ==
    ASSUME NEW r, NEW O, NEW C, NEW S, NEW known, NEW s \in Nat, BlockInv(r, O, C, S),
           O \cap C = {}
    PROVE  \/ Holder(TimedOut(r, known, s)) = Holder(r)
           \/ Holder(r) \in C /\ Holder(TimedOut(r, known, s)) = None
<1> DEFINE r1 == Quiet(r)
           r2 == Expired(r1, s)
<1>1. r \in Block /\ r1 \in Block /\ SameClaims(r1, r)
  BY QuietType DEF BlockInv
<1>2. BlockInv(r1, O, C, S)
  BY QuietInv
<1>3. SameClaims(TimedOut(r, known, s), r2)
  BY <1>1, TimedOutType
<1> HIDE DEF r1
<1>4. \/ r2 = r1
      \/ r1.until # Never /\ r2.owner = r1.owner /\ r2.reserved = None
  BY <1>1 DEF Expired, Passed, Unreserved, Block
<1> HIDE DEF r2
<1>5. Holder(TimedOut(r, known, s)) = Holder(r2) /\ Holder(r1) = Holder(r)
  BY <1>1, <1>3, SameHolder
<1>6. CASE r2 = r1
  BY <1>5, <1>6
<1>7. CASE r1.until # Never /\ r2.owner = r1.owner /\ r2.reserved = None
  <2>1. r1.reserved \in C /\ r1.reserved # None
    BY <1>2, <1>7 DEF BlockInv, Claims
  <2>2. r1.owner = None
    BY <1>2, <2>1 DEF BlockInv, Claims
  <2> QED BY <1>5, <1>7, <2>1, <2>2 DEF Holder
<1> QED BY <1>4, <1>6, <1>7

\* Who holds each block.
Holders == [b \in Blocks |-> Holder(rcb[b])]

abstract == <<Holders, Opened, Ended>>

\* A variable of a Write request takes or gives up one block for the client
\* that writes, or changes no holder.
LEMMA WriteBlockImplements ==
    ASSUME IInv, NEW a \in Assoc, NEW b \in Blocks, NEW q, WriteBlock(a, b, q),
           LET r == Quiet(rcb[b])
           IN  \/ Holder(q) = Holder(r)
               \/ Holder(r) \in {None, a} /\ Holder(q) = a
               \/ Holder(r) = a /\ Holder(q) = None
    PROVE  [Abstract!Next]_abstract
<1>1. /\ rcb' = [c \in Blocks |-> IF c = b THEN q ELSE Quiet(rcb[c])]
      /\ Serving(a) /\ state' = state
  BY DEF WriteBlock, Answered, Continue, Finish
<1>2. \A c \in Blocks : Holder(Quiet(rcb[c])) = Holder(rcb[c])
  BY QuietType, SameHolder DEF IInv, BlocksInv, BlockInv
<1>3. Opened' = Opened /\ Ended' = Ended /\ a \in Opened
  BY <1>1 DEF Opened, Ended, Serving
<1>4. Holders' = [Holders EXCEPT ![b] = Holder(q)]
  BY <1>1, <1>2 DEF Holders, Holder
<1>5. Holders[b] = Holder(rcb[b]) /\ Holders[b] = Holder(Quiet(rcb[b]))
  BY <1>2 DEF Holders
<1>6. CASE Holder(q) = Holders[b]
  <2>1. Holders' = Holders
    BY <1>4, <1>6 DEF Holders
  <2> QED BY <1>3, <2>1 DEF abstract
<1>7. CASE Holders[b] = None /\ Holder(q) = a
  <2>1. Abstract!Take(a, b)
    BY <1>3, <1>4, <1>7 DEF Abstract!Take, Holders, Ended
  <2> QED BY <2>1 DEF Abstract!Next
<1>8. CASE Holders[b] = a /\ Holder(q) = None
  <2>1. Abstract!GiveUp(a, b)
    BY <1>3, <1>4, <1>8 DEF Abstract!GiveUp, Holders, Ended
  <2> QED BY <2>1 DEF Abstract!Next
<1> QED BY <1>5, <1>6, <1>7, <1>8

\* Every variable a Write request names takes, gives up or leaves its block
\* (acsi.rs:943-1120).
LEMMA WriteImplements ==
    ASSUME IInv, NEW a \in Assoc, WriteRequest(a)
    PROVE  [Abstract!Next]_abstract
<1>1. \A b \in Blocks : /\ rcb[b] \in Block /\ Claims(rcb[b])
                        /\ Quiet(rcb[b]) \in Block /\ SameClaims(Quiet(rcb[b]), rcb[b])
                        /\ Holder(Quiet(rcb[b])) = Holder(rcb[b])
  BY QuietType, SameHolder DEF IInv, BlocksInv, BlockInv
<1>2. \A b \in Blocks : Claims(Quiet(rcb[b]))
  BY <1>1 DEF Claims, SameClaims
<1>3. ASSUME rcb' = [b \in Blocks |-> Quiet(rcb[b])], state' = state
      PROVE  [Abstract!Next]_abstract
  <2>1. Holders' = Holders
    BY <1>1, <1>3 DEF Holders, Holder
  <2>2. Opened' = Opened /\ Ended' = Ended
    BY <1>3 DEF Opened, Ended
  <2> QED BY <2>1, <2>2 DEF abstract
<1>4. CASE WriteRefused(a)
  BY <1>3, <1>4 DEF WriteRefused, Answered, Continue, Finish
<1>5. ASSUME NEW m \in Member, WriteValue(a, m)
      PROVE  [Abstract!Next]_abstract
  BY <1>3, <1>5 DEF WriteValue, Answered, Continue, Finish
<1>6. ASSUME NEW ds \in DataSet, CreateDataSet(a, ds) \/ DeleteDataSet(a, ds)
      PROVE  [Abstract!Next]_abstract
  BY <1>3, <1>6 DEF CreateDataSet, DeleteDataSet, Finish
<1>7. ASSUME NEW b \in Blocks, NEW s \in Clock, WriteRptEnaTrue(a, b, s)
      PROVE  [Abstract!Next]_abstract
  <2>1. MayEnable(Quiet(rcb[b]), a) /\ s \in Nat
    BY <1>1, <1>7 DEF WriteRptEnaTrue, MayEnable, TakenByOther, SameClaims, Clock
  <2>2. LET r == Quiet(rcb[b])
        IN  Holder(r) \in {None, a} /\ Holder(Enabled(r, defined, a, s)) = a
    BY <1>1, <1>2, <2>1, EnabledHolder
  <2> QED BY <1>7, <2>2, WriteBlockImplements DEF WriteRptEnaTrue
<1>8. ASSUME NEW b \in Blocks, NEW fits \in BOOLEAN, WriteRptEnaFalse(a, b, fits)
      PROVE  [Abstract!Next]_abstract
  <2>1. MayDisable(Quiet(rcb[b]), a)
    BY <1>1, <1>8 DEF WriteRptEnaFalse, MayDisable, SameClaims
  <2>2. LET r == Quiet(rcb[b])
        IN  \/ Holder(Disabled(r, fits)) = Holder(r)
            \/ Holder(r) = a /\ Holder(Disabled(r, fits)) = None
    BY <1>1, <1>2, <2>1, DisabledHolder
  <2> QED BY <1>8, <2>2, WriteBlockImplements DEF WriteRptEnaFalse
<1>9. ASSUME NEW b \in Blocks, NEW fits \in BOOLEAN, WriteRelease(a, b, fits)
      PROVE  [Abstract!Next]_abstract
  <2>1. LET r == Quiet(rcb[b])
        IN  \/ Holder(Released(r, a, fits)) = Holder(r)
            \/ Holder(r) = a /\ Holder(Released(r, a, fits)) = None
    BY <1>1, <1>2, ReleasedHolder
  <2> QED BY <1>9, <2>1, WriteBlockImplements DEF WriteRelease
<1>10. ASSUME NEW b \in Blocks, NEW fits \in BOOLEAN, NEW l \in Lingers \cup {None},
              WriteReservation(a, b, l, fits)
       PROVE  [Abstract!Next]_abstract
  <2>1. MayReserve(Quiet(rcb[b]), a) /\ l \in Nat \cup {None}
    BY <1>1, <1>10, ReportBlockAssumption DEF WriteReservation, MayReserve, TakenByOther, SameClaims
  <2>2. LET r == Quiet(rcb[b])
        IN  Holder(r) \in {None, a} /\ Holder(Reserved(r, a, l, fits)) = a
    BY <1>1, <2>1, ReservedHolder
  <2> QED BY <1>10, <2>2, WriteBlockImplements DEF WriteReservation
<1>11. ASSUME NEW b \in Blocks, NEW q, Undisturbed(q, Quiet(rcb[b])), WriteBlock(a, b, q)
       PROVE  [Abstract!Next]_abstract
  <2>1. Holder(q) = Holder(Quiet(rcb[b]))
    BY <1>11, SameHolder DEF Undisturbed
  <2> QED BY <1>11, <2>1, WriteBlockImplements
<1>12. ASSUME NEW b \in Blocks, NEW on \in BOOLEAN, WriteGI(a, b, on) \/ WritePurgeBuf(a, b, on)
       PROVE  [Abstract!Next]_abstract
  BY <1>1, <1>11, <1>12, SettingType DEF WriteGI, WritePurgeBuf
<1>13. ASSUME NEW b \in Blocks, NEW ds \in DataSet, WriteDatSet(a, b, ds)
       PROVE  [Abstract!Next]_abstract
  BY <1>1, <1>11, <1>13, RedirectedType DEF WriteDatSet
<1>14. ASSUME NEW b \in Blocks, NEW p \in Nat, WriteIntgPd(a, b, p) \/ WriteEntryID(a, b, p)
       PROVE  [Abstract!Next]_abstract
  BY <1>1, <1>11, <1>14, SettingType DEF WriteIntgPd, WriteEntryID
<1>15. ASSUME NEW b \in Blocks, NEW w \in Structures, NEW n \in Taken,
              WriteStructure(a, b, w, n)
       PROVE  [Abstract!Next]_abstract
  <2>1. w \in Structure
    BY ReportEngineAssumption
  <2>2. Holder(Overwritten(Quiet(rcb[b]), w, n)) = Holder(Quiet(rcb[b]))
    BY <1>1, <2>1, OverwrittenType DEF Holder
  <2> QED BY <1>15, <2>2, WriteBlockImplements DEF WriteStructure
<1>16. /\ Fits \subseteq BOOLEAN /\ IntgPds \subseteq Nat /\ EntryIDs \subseteq Nat
  <2>1. Fits \subseteq BOOLEAN
    BY DEF Fits
  <2>2. IntgPds \subseteq Nat
    BY ReportBlockAssumption
  <2> QED BY <2>1, <2>2 DEF EntryIDs
<1> QED
  BY <1>4, <1>5, <1>6, <1>7, <1>8, <1>9, <1>10, <1>12, <1>13, <1>14, <1>15, <1>16
     DEF WriteRequest

\* Every step of the engine is a step of BlockHolder, or of nobody.
LEMMA NextImplements == IInv /\ [Next]_vars => [Abstract!Next]_abstract
<1> SUFFICES ASSUME IInv, [Next]_vars PROVE [Abstract!Next]_abstract
  OBVIOUS
<1>1. /\ \A b \in Blocks : BlockInv(rcb[b], Opened, Ended, Publishers) /\ rcb[b] \in Block
      /\ state \in [Assoc -> {"new", "open", "closed"}] /\ dirty \subseteq Member
      /\ Clock \subseteq Nat
  BY DEF IInv, BlocksInv, BlockInv, Threads, Clock
<1>2. Opened \cap Ended = {}
  BY DEF Opened, Ended
<1>3. ASSUME state' = state, Holders' = Holders
      PROVE  [Abstract!Next]_abstract
  BY <1>3 DEF Opened, Ended, abstract
<1>4. ASSUME NEW a \in Assoc, Open(a)
      PROVE  [Abstract!Next]_abstract
  <2>1. \A b \in Blocks : Holder(Quiet(rcb[b])) = Holder(rcb[b])
    BY <1>1, QuietType, SameHolder
  <2>2. Holders' = Holders
    BY <1>4, <2>1 DEF Open, Holders, Holder
  <2>3. a \notin Opened \cup Ended /\ Opened' = Opened \cup {a} /\ Ended' = Ended
    BY <1>1, <1>4 DEF Open, Opened, Ended
  <2>4. Abstract!Arrive(a)
    BY <2>2, <2>3 DEF Abstract!Arrive, Holders, Ended
  <2> QED BY <2>4 DEF Abstract!Next
<1>5. ASSUME NEW a \in Assoc, Close(a)
      PROVE  [Abstract!Next]_abstract
  <2> DEFINE lingering == {b \in Blocks : Holder(Closed(rcb[b], a)) = a}
  <2>1. \A b \in Blocks : IF Holder(rcb[b]) = a THEN Holder(Closed(rcb[b], a)) \in {None, a}
                                                ELSE Holder(Closed(rcb[b], a)) = Holder(rcb[b])
    BY <1>1, ClosedHolder
  <2>2. Holders' = [b \in Blocks |-> Holder(Closed(rcb[b], a))]
    BY <1>5 DEF Close, Holders, Holder
  <2>3. Holders' = [b \in Blocks |-> IF Holders[b] = a /\ b \notin lingering THEN None ELSE Holders[b]]
    BY <2>1, <2>2 DEF Holders
  <2>4. a \in Opened /\ Opened' = Opened \ {a} /\ Ended' = Ended \cup {a}
    BY <1>1, <1>5 DEF Close, Opened, Ended
  <2>5. PICK L \in SUBSET Blocks : L = lingering
    OBVIOUS
  <2>6. Holders' = [b \in Blocks |-> IF Holders[b] = a /\ b \notin L THEN None ELSE Holders[b]]
    BY <2>3, <2>5
  <2> HIDE DEF lingering
  <2>7. Abstract!Depart(a, L)
    BY <2>4, <2>6 DEF Abstract!Depart, Holders, Ended
  <2> QED BY <2>7 DEF Abstract!Next
<1>6. ASSUME NEW a \in Assoc, WriteRequest(a)
      PROVE  [Abstract!Next]_abstract
  BY <1>6, WriteImplements
<1>7. ASSUME NEW D \in SUBSET Member, NEW s \in Nat, state' = state,
             rcb' = [b \in Blocks |-> Committed(rcb[b], defined, D, s)]
      PROVE  [Abstract!Next]_abstract
  <2>1. \A b \in Blocks : Holder(Committed(rcb[b], defined, D, s)) = Holder(rcb[b])
    BY <1>1, CommittedType, SameHolder
  <2>2. Holders' = Holders
    BY <1>7, <2>1 DEF Holders, Holder
  <2> QED BY <1>3, <1>7, <2>2
<1>8. ASSUME NEW a \in Assoc, NEW s \in Clock, Publish(a, s)
      PROVE  [Abstract!Next]_abstract
  BY <1>1, <1>7, <1>8 DEF Publish
<1>9. ASSUME NEW D \in SUBSET Member, Transact(D)
      PROVE  [Abstract!Next]_abstract
  <2>1. dirty \cup D \in SUBSET Member /\ state' = state
    BY <1>1, <1>9 DEF Transact, thread
  <2> QED BY <1>7, <1>9, <2>1 DEF Transact
<1>10. ASSUME NEW a \in Assoc, NEW s \in Clock, Poll(a, s)
       PROVE  [Abstract!Next]_abstract
  <2> DEFINE freed == {b \in Blocks : Holder(rcb[b]) \in Ended /\ Holder(TimedOut(rcb[b], defined, s)) = None}
  <2>1. \A b \in Blocks : \/ Holder(TimedOut(rcb[b], defined, s)) = Holder(rcb[b])
                          \/ /\ Holder(rcb[b]) \in Ended
                             /\ Holder(TimedOut(rcb[b], defined, s)) = None
    BY <1>1, <1>2, TimedOutHolder
  <2>2. Holders' = [b \in Blocks |-> Holder(TimedOut(rcb[b], defined, s))]
    BY <1>10 DEF Poll, Holders, Holder
  <2>3. Holders' = [b \in Blocks |-> IF b \in freed THEN None ELSE Holders[b]]
    BY <2>1, <2>2 DEF Holders
  <2>4. \A b \in freed : Holders[b] \in Ended
    BY DEF Holders
  <2>5. Opened' = Opened /\ Ended' = Ended
    BY <1>10 DEF Poll, thread, Opened, Ended
  <2>6. PICK F \in SUBSET Blocks : F = freed
    OBVIOUS
  <2>7. /\ Holders' = [b \in Blocks |-> IF b \in F THEN None ELSE Holders[b]]
        /\ \A b \in F : Holders[b] \in Ended
    BY <2>3, <2>4, <2>6
  <2> HIDE DEF freed
  <2>8. Abstract!Lapse(F)
    BY <2>5, <2>7 DEF Abstract!Lapse, Holders, Ended
  <2> QED BY <2>8 DEF Abstract!Next
<1>11. CASE Tick
  <2>1. \A b \in Blocks : Holder(LetTimePass(rcb[b])) = Holder(rcb[b])
    BY <1>1, LetTimePassType DEF Holder
  <2>2. Holders' = Holders /\ state' = state
    BY <1>11, <2>1 DEF Tick, thread, Holders, Holder
  <2> QED BY <1>3, <2>2
<1>12. CASE UNCHANGED vars
  BY <1>3, <1>12 DEF vars, Holders, Holder
<1> QED
  BY <1>4, <1>5, <1>6, <1>8, <1>9, <1>10, <1>11, <1>12 DEF Next

\* The engine keeps what BlockHolder promises: a block passes from one client
\* to another only by becoming free in between, an association that ends leaves
\* its blocks free or held in its name, and only the end of its time takes
\* those away (rcb.rs:218-377, acsi.rs:706-731).
THEOREM EngineImplementsHolder == Spec => HolderSpec
<1>1. Init => Abstract!Init
  <2> SUFFICES ASSUME Init PROVE Abstract!Init
    OBVIOUS
  <2>1. ASSUME NEW b \in Blocks
        PROVE  Holder(rcb[b]) = None
    <3>1. PICK k \in Kinds, ds \in DataSet \ Deletable, p \in IntgPds : rcb[b] = NewBlock(k, ds, p)
      BY DEF Init, Engineered
    <3> QED BY <3>1 DEF NewBlock, Holder
  <2> QED BY <2>1 DEF Init, Abstract!Init, Opened
<1>2. IInv /\ [Next]_vars => [Abstract!Next]_abstract
  BY NextImplements
<1> QED
  BY <1>1, <1>2, Invariance, PTL DEF Spec, HolderSpec, Abstract!Spec, abstract, Holders, Ended

-----------------------------------------------------------------------------
(***************************************************************************)
(* What one step of the report engine may never do: break a lease,          *)
(* reconfigure a block in use, lose an entry or a resume point unseen.      *)
(* Each is a relation between a block and what a step makes of it; there is *)
(* one lemma for each operation, and one step of the last proof for each    *)
(* action.                                                                 *)
(***************************************************************************)

(***************************************************************************)
(* What reporting leaves alone.                                            *)
(***************************************************************************)

\* The attributes a client configures, and the one that shows the holder.
SameConfig(q, r) ==
    /\ q.datSet = r.datSet
    /\ q.confRev = r.confRev
    /\ q.intgPd = r.intgPd
    /\ q.ownerAttr = r.ownerAttr
    /\ "Owner" \in q.stray <=> "Owner" \in r.stray

\* A client that reads the block knows of a loss, or is about to be told.
Noticed(r) == r.overflowed \/ \E i \in DOMAIN r.out : r.out[i].ovfl

\* The ring new is the ring old without its first k entries, and with entries
\* numbered from next on at its end.
Shifted(old, new, k, next) ==
    /\ Len(old) - k <= Len(new)
    /\ \A i \in (k + 1) .. Len(old) : new[i - k] = old[i]
    /\ \A j \in (Len(old) - k + 1) .. Len(new) : new[j].id >= next

\* The ring of q is that of r, aged: what is gone was the oldest, made room
\* for in a full ring, and is noticed.
Aged(q, r) ==
    /\ r.nextEntry <= q.nextEntry
    /\ Noticed(r) => Noticed(q)
    /\ Len(q.buffer) <= BufferLen
    /\ \E k \in 0 .. Len(r.buffer) :
         /\ Shifted(r.buffer, q.buffer, k, r.nextEntry)
         /\ k > 0 => Len(q.buffer) = BufferLen /\ Noticed(q)

\* A ring nothing happens to has aged by nothing.
LEMMA AgedSame ==
    ASSUME NEW r \in Block, NEW q \in Block, Len(r.buffer) <= BufferLen,
           SameRing(q, r), Noticed(r) => Noticed(q)
    PROVE  Aged(q, r)
<1>1. r.nextEntry \in Nat /\ Len(r.buffer) \in Nat
  BY DEF Block
<1>2. Shifted(r.buffer, q.buffer, 0, r.nextEntry)
  BY <1>1 DEF Shifted, SameRing
<1>3. 0 \in 0 .. Len(r.buffer)
  BY <1>1
<1> QED
  BY <1>1, <1>2, <1>3 DEF Aged, SameRing

\* Ageing twice is ageing.
LEMMA AgedTransitive ==
    ASSUME NEW r \in Block, NEW q \in Block, NEW p \in Block, Aged(q, r), Aged(p, q)
    PROVE  Aged(p, r)
<1>1. PICK k \in 0 .. Len(r.buffer) :
        /\ Shifted(r.buffer, q.buffer, k, r.nextEntry)
        /\ k > 0 => Len(q.buffer) = BufferLen /\ Noticed(q)
  BY DEF Aged
<1>2. PICK l \in 0 .. Len(q.buffer) :
        /\ Shifted(q.buffer, p.buffer, l, q.nextEntry)
        /\ l > 0 => Len(p.buffer) = BufferLen /\ Noticed(p)
  BY DEF Aged
<1>3. /\ r.nextEntry <= q.nextEntry /\ q.nextEntry <= p.nextEntry
      /\ (Noticed(r) => Noticed(q)) /\ (Noticed(q) => Noticed(p))
      /\ Len(q.buffer) <= BufferLen /\ Len(p.buffer) <= BufferLen
  BY DEF Aged
<1>4. /\ r.buffer \in Seq(Entry) /\ q.buffer \in Seq(Entry) /\ p.buffer \in Seq(Entry)
      /\ r.nextEntry \in Nat /\ q.nextEntry \in Nat /\ p.nextEntry \in Nat
      /\ BufferLen \in Nat
  BY ReportBlockAssumption DEF Block
<1>5. Len(r.buffer) \in Nat /\ Len(q.buffer) \in Nat /\ Len(p.buffer) \in Nat
  BY <1>4
<1>6. \A j \in 1 .. Len(p.buffer) : p.buffer[j].id \in Nat
  BY <1>4, EntriesNumbered
<1> DEFINE m == IF k + l <= Len(r.buffer) THEN k + l ELSE Len(r.buffer)
<1>7. m \in 0 .. Len(r.buffer) /\ m <= k + l /\ (m < k + l => m = Len(r.buffer))
  BY <1>5
<1> HIDE DEF m
<1>8. Len(r.buffer) - m <= Len(p.buffer)
  BY <1>1, <1>2, <1>5, <1>7 DEF Shifted
<1>9. ASSUME NEW i \in (m + 1) .. Len(r.buffer)
      PROVE  p.buffer[i - m] = r.buffer[i]
  <2>1. /\ m = k + l /\ i \in (k + 1) .. Len(r.buffer)
        /\ i - k \in (l + 1) .. Len(q.buffer) /\ (i - k) - l = i - m
    BY <1>1, <1>5, <1>7 DEF Shifted
  <2>2. q.buffer[i - k] = r.buffer[i]
    BY <1>1, <2>1 DEF Shifted
  <2>3. p.buffer[(i - k) - l] = q.buffer[i - k]
    BY <1>2, <2>1 DEF Shifted
  <2> QED BY <2>1, <2>2, <2>3
<1>10. ASSUME NEW j \in (Len(r.buffer) - m + 1) .. Len(p.buffer)
       PROVE  p.buffer[j].id >= r.nextEntry
  <2>1. j \in 1 .. Len(p.buffer) /\ p.buffer[j].id \in Nat
    BY <1>5, <1>6, <1>7
  <2>2. CASE j > Len(q.buffer) - l
    <3>1. j \in (Len(q.buffer) - l + 1) .. Len(p.buffer)
      BY <1>5, <2>1, <2>2
    <3>2. p.buffer[j].id >= q.nextEntry
      BY <1>2, <3>1 DEF Shifted
    <3> QED BY <1>3, <1>4, <2>1, <3>2
  <2>3. CASE ~(j > Len(q.buffer) - l)
    <3>1. /\ j + l \in (l + 1) .. Len(q.buffer) /\ (j + l) - l = j
          /\ j + l \in (Len(r.buffer) - k + 1) .. Len(q.buffer)
      BY SMTT(30), <1>1, <1>5, <1>7, <2>1, <2>3 DEF Shifted
    <3>2. p.buffer[(j + l) - l] = q.buffer[j + l]
      BY <1>2, <3>1 DEF Shifted
    <3>3. q.buffer[j + l].id >= r.nextEntry
      BY <1>1, <3>1 DEF Shifted
    <3> QED BY <3>1, <3>2, <3>3
  <2> QED BY <2>2, <2>3
<1>11. ASSUME m > 0
       PROVE  Len(p.buffer) = BufferLen /\ Noticed(p)
  <2>1. CASE l > 0
    BY <1>2, <2>1
  <2>2. CASE ~(l > 0)
    <3>1. l = 0 /\ k > 0
      BY <1>7, <1>11, <2>2
    <3>2. Len(q.buffer) <= Len(p.buffer)
      BY <1>2, <1>5, <3>1 DEF Shifted
    <3> QED BY <1>1, <1>3, <1>4, <1>5, <3>1, <3>2
  <2> QED BY <2>1, <2>2
<1>12. Shifted(r.buffer, p.buffer, m, r.nextEntry)
  BY <1>8, <1>9, <1>10 DEF Shifted
<1>13. r.nextEntry <= p.nextEntry
  BY <1>3, <1>4
<1> QED
  BY <1>3, <1>7, <1>11, <1>12, <1>13 DEF Aged

\* A younger entry pushed into a ring ages it (rcb.rs:518-524).
LEMMA PushedShifts ==
    ASSUME NEW buf \in Seq(Entry), NEW e \in Entry, Len(buf) <= BufferLen
    PROVE  \E k \in 0 .. Len(buf) :
             /\ Shifted(buf, Pushed(buf, e), k, e.id)
             /\ k > 0 => /\ Len(Pushed(buf, e)) = BufferLen
                         /\ Len(buf) >= BufferLen
<1> DEFINE q == Pushed(buf, e)
<1>1. BufferLen \in Nat \ {0} /\ Len(buf) \in Nat /\ e.id \in Nat
  BY ReportBlockAssumption DEF Entry
<1>2. CASE Len(buf) >= BufferLen
  <2>1. q = Append(Tail(buf), e) /\ buf # <<>>
    BY <1>1, <1>2 DEF Pushed
  <2>2. Tail(buf) \in Seq(Entry) /\ Len(Tail(buf)) = Len(buf) - 1
    BY <2>1
  <2>3. \A i \in 1 .. Len(buf) - 1 : Tail(buf)[i] = buf[i + 1]
    BY <2>1
  <2>4. /\ Len(q) = Len(buf) /\ q[Len(buf)] = e
        /\ \A i \in 1 .. Len(buf) - 1 : q[i] = buf[i + 1]
    BY <1>1, <2>1, <2>2, <2>3
  <2> HIDE DEF q
  <2>5. ASSUME NEW i \in (1 + 1) .. Len(buf)
        PROVE  q[i - 1] = buf[i]
    <3>1. i - 1 \in 1 .. Len(buf) - 1 /\ (i - 1) + 1 = i
      BY <1>1
    <3> QED BY <2>4, <3>1
  <2>6. \A j \in (Len(buf) - 1 + 1) .. Len(q) : j = Len(buf)
    BY <1>1, <2>4
  <2>7. Shifted(buf, q, 1, e.id)
    BY <1>1, <2>4, <2>5, <2>6 DEF Shifted
  <2>8. 1 \in 0 .. Len(buf) /\ Len(q) = BufferLen
    BY <1>1, <1>2, <2>4
  <2> QED BY <1>2, <2>7, <2>8 DEF q
<1>3. CASE ~(Len(buf) >= BufferLen)
  <2>1. q = Append(buf, e)
    BY <1>3 DEF Pushed
  <2>2. /\ Len(q) = Len(buf) + 1 /\ q[Len(buf) + 1] = e
        /\ \A i \in 1 .. Len(buf) : q[i] = buf[i]
    BY <2>1
  <2> HIDE DEF q
  <2>3. \A i \in (0 + 1) .. Len(buf) : q[i - 0] = buf[i]
    BY <1>1, <2>2
  <2>4. \A j \in (Len(buf) - 0 + 1) .. Len(q) : j = Len(buf) + 1
    BY <1>1, <2>2
  <2>5. Shifted(buf, q, 0, e.id)
    BY <1>1, <2>2, <2>3, <2>4 DEF Shifted
  <2>6. 0 \in 0 .. Len(buf)
    BY <1>1
  <2> QED BY <2>5, <2>6 DEF q
<1> QED BY <1>2, <1>3

\* Recording an entry ages the ring and says so (rcb.rs:503-524).
LEMMA RecordedAged ==
    ASSUME NEW r \in Block, NEW ms \in SUBSET Member, NEW i \in BOOLEAN, Ring(r)
    PROVE  LET q == Recorded(r, ms, i)
           IN  Aged(q, r) /\ SameConfig(q, r) /\ q.purge = r.purge
<1> DEFINE e   == [id |-> r.nextEntry, members |-> ms]
           buf == Pushed(r.buffer, e)
           ovf == r.overflowed \/ Len(r.buffer) >= BufferLen
           nxt == r.nextEntry + 1
           q   == Recorded(r, ms, i)
<1>1. /\ e \in Entry /\ e.id = r.nextEntry /\ r.buffer \in Seq(Entry)
      /\ r.nextEntry \in Nat /\ Len(r.buffer) \in Nat /\ Len(r.buffer) <= BufferLen
      /\ ovf \in BOOLEAN /\ r.overflowed \in BOOLEAN
  BY DEF Block, Entry, Ring
<1>2. PICK k \in 0 .. Len(r.buffer) :
        /\ Shifted(r.buffer, buf, k, r.nextEntry)
        /\ k > 0 => Len(buf) = BufferLen /\ Len(r.buffer) >= BufferLen
  <2> HIDE DEF e
  <2> QED BY <1>1, PushedShifts
<1>3. q \in Block /\ Ring(q)
  BY RecordedType, RecordedSound
<1>4. k > 0 => ovf
  BY <1>2
<1>5. r.overflowed => ovf
  OBVIOUS
<1> HIDE DEF buf, ovf
<1>6. CASE r.buffered /\ ~i
  <2>1. q = [r EXCEPT !.nextEntry = nxt, !.buffer = buf, !.overflowed = ovf]
    BY <1>6 DEF Recorded, Block, buf, ovf
  <2>2. /\ q.buffer = buf /\ q.nextEntry = r.nextEntry + 1
        /\ q.overflowed = ovf /\ q.out = r.out
        /\ SameConfig(q, r) /\ q.purge = r.purge
    BY <2>1 DEF Block, SameConfig
  <2> HIDE DEF q
  <2>3. (Noticed(r) => Noticed(q)) /\ (k > 0 => Noticed(q))
    BY <1>4, <1>5, <2>2 DEF Noticed
  <2>4. Aged(q, r)
    BY <1>1, <1>2, <1>3, <2>2, <2>3 DEF Aged, Ring
  <2> QED BY <2>2, <2>4 DEF q
<1>7. CASE ~(r.buffered /\ ~i)
  <2>1. q = [r EXCEPT !.nextEntry = nxt]
    BY <1>7 DEF Recorded, Block
  <2>2. /\ q.buffer = r.buffer /\ q.nextEntry = r.nextEntry + 1
        /\ q.overflowed = r.overflowed /\ q.out = r.out
        /\ SameConfig(q, r) /\ q.purge = r.purge
    BY <2>1 DEF Block, SameConfig
  <2> HIDE DEF q
  <2>3. Noticed(r) => Noticed(q)
    BY <2>2 DEF Noticed
  <2>4. Shifted(r.buffer, q.buffer, 0, r.nextEntry) /\ 0 \in 0 .. Len(r.buffer)
    BY <1>1, <2>2 DEF Shifted
  <2>5. Aged(q, r)
    BY <1>1, <2>2, <2>3, <2>4 DEF Aged
  <2> QED BY <2>2, <2>5 DEF q
<1> QED BY <1>6, <1>7

\* A report that is sent carries the notice the block was holding
\* (rcb.rs:526-549).
LEMMA SentAged ==
    ASSUME NEW r \in Block, NEW id \in Nat, NEW ms \in SUBSET Member, Ring(r)
    PROVE  LET q == Sent(r, id, ms)
           IN  Aged(q, r) /\ SameConfig(q, r) /\ q.purge = r.purge
<1> DEFINE report == [assoc |-> r.owner, seq |-> r.seq, id |-> id,
                      members |-> ms \cap MembersOf[r.datSet],
                      ovfl |-> r.overflowed]
           q == Sent(r, id, ms)
<1>1. q \in Block /\ SameRing(q, r)
  BY SentType, SentSound
<1>2. CASE r.owner = None
  BY <1>1, <1>2, AgedSame DEF Sent, SameConfig, Ring
<1>3. CASE r.owner # None
  <2>1. /\ q.out = Append(r.out, report) /\ SameConfig(q, r) /\ q.purge = r.purge
    BY <1>3 DEF Sent, Block, SameConfig
  <2>2. r.out \in Seq(Report) /\ report.ovfl = r.overflowed
    BY DEF Block
  <2> HIDE DEF report, q
  <2>3. /\ Len(r.out) + 1 \in DOMAIN q.out /\ q.out[Len(r.out) + 1] = report
        /\ \A i \in DOMAIN r.out : i \in DOMAIN q.out /\ q.out[i] = r.out[i]
    BY <2>1, <2>2
  <2>4. Noticed(r) => Noticed(q)
    BY <2>2, <2>3 DEF Noticed
  <2> QED BY <1>1, <2>1, <2>4, AgedSame DEF Ring, q
<1> QED BY <1>2, <1>3

\* A report that is built, recorded or not, ages the ring and says so
\* (rcb.rs:475-549).
LEMMA BuildAged ==
    ASSUME NEW r \in Block, NEW ms \in SUBSET Member, NEW i \in BOOLEAN, Ring(r)
    PROVE  LET q == Build(r, ms, i)
           IN  Aged(q, r) /\ SameConfig(q, r) /\ q.purge = r.purge
<1> DEFINE rec == Recorded(r, ms, i)
           q == Sent(rec, r.nextEntry, ms)
<1>1. CASE ms = {}
  BY <1>1, AgedSame DEF Build, SameConfig, SameRing, Ring
<1>2. CASE ms # {}
  <2>1. rec \in Block /\ Ring(rec)
    BY RecordedType, RecordedSound
  <2>2. Aged(rec, r) /\ SameConfig(rec, r) /\ rec.purge = r.purge
    BY RecordedAged
  <2>3. Build(r, ms, i) = q /\ r.nextEntry \in Nat
    BY <1>2 DEF Build, Block
  <2> HIDE DEF rec
  <2>4. q \in Block /\ Aged(q, rec) /\ SameConfig(q, rec) /\ q.purge = rec.purge
    BY <2>1, <2>3, SentType, SentAged
  <2> HIDE DEF q
  <2>5. Aged(q, r)
    BY <2>1, <2>2, <2>4, AgedTransitive
  <2> QED BY <2>2, <2>3, <2>4, <2>5 DEF SameConfig
<1> QED BY <1>1, <1>2

\* Reporting: the ring ages, and nothing a client configures changes.
Reported(q, r) == Aged(q, r) /\ SameConfig(q, r) /\ q.purge = r.purge

\* A field that is not part of it does not matter.
LEMMA ReportedFrom ==
    ASSUME NEW r \in Block, Ring(r), NEW x \in Block, SameRing(x, r),
           x.buffered = r.buffered, SameConfig(x, r), x.purge = r.purge,
           x.overflowed = r.overflowed, x.out = r.out,
           NEW ms \in SUBSET Member, NEW i \in BOOLEAN
    PROVE  /\ Reported(x, r)
           /\ Build(x, ms, i) \in Block
           /\ Reported(Build(x, ms, i), r)
<1> DEFINE q == Build(x, ms, i)
<1>1. Aged(x, r)
  BY AgedSame DEF Noticed, Ring
<1>2. Ring(x)
  BY RingSame
<1>3. q \in Block /\ Aged(q, x) /\ SameConfig(q, x) /\ q.purge = x.purge
  BY <1>2, BuildType, BuildAged
<1> HIDE DEF q
<1>4. Aged(q, r)
  BY <1>1, <1>3, AgedTransitive
<1> QED BY <1>1, <1>3, <1>4 DEF Reported, SameConfig, q

\* The answer to a general interrogation loses nothing (rcb.rs:435-445).
LEMMA InterrogatedReported ==
    ASSUME NEW r \in Block, NEW known, Ring(r)
    PROVE  Reported(Interrogated(r, known), r)
<1> DEFINE x == [r EXCEPT !.gi = FALSE]
<1>1. /\ x \in Block /\ SameRing(x, r) /\ SameConfig(x, r) /\ x.purge = r.purge
      /\ x.buffered = r.buffered /\ x.overflowed = r.overflowed /\ x.out = r.out
  BY DEF Block, SameRing, SameConfig
<1>2. MembersOf[r.datSet] \in SUBSET Member
  BY ReportBlockAssumption DEF Block
<1>3. \/ Interrogated(r, known) = r
      \/ Interrogated(r, known) = x
      \/ Interrogated(r, known) = Build(x, MembersOf[r.datSet], TRUE)
  BY DEF Interrogated
<1> HIDE DEF x
<1>4. Reported(x, r) /\ Reported(Build(x, MembersOf[r.datSet], TRUE), r)
  BY <1>1, <1>2, ReportedFrom
<1>5. Reported(r, r)
  BY AgedSame DEF Reported, SameConfig, SameRing, Ring
<1> QED BY <1>3, <1>4, <1>5

\* An integrity scan loses no entry unseen (rcb.rs:453-463).
LEMMA ScannedReported ==
    ASSUME NEW r \in Block, NEW known, NEW s \in Nat, Ring(r)
    PROVE  Reported(Scanned(r, known, s), r)
<1> DEFINE start == IntegrityStart(r, s)
           x == [r EXCEPT !.integrityDue = start]
<1>1. start \in Deadline
  BY IntegrityStartType
<1>2. MembersOf[r.datSet] \in SUBSET Member
  BY ReportBlockAssumption DEF Block
<1>3. \/ Scanned(r, known, s) = r
      \/ Scanned(r, known, s) = x
      \/ Scanned(r, known, s) = Build(x, MembersOf[r.datSet], FALSE)
  BY DEF Scanned
<1> HIDE DEF start
<1>4. /\ x \in Block /\ SameRing(x, r) /\ SameConfig(x, r) /\ x.purge = r.purge
      /\ x.buffered = r.buffered /\ x.overflowed = r.overflowed /\ x.out = r.out
  BY <1>1 DEF Block, SameRing, SameConfig
<1> HIDE DEF x
<1>5. Reported(x, r) /\ Reported(Build(x, MembersOf[r.datSet], FALSE), r)
  BY <1>2, <1>4, ReportedFrom
<1>6. Reported(r, r)
  BY AgedSame DEF Reported, SameConfig, SameRing, Ring
<1> QED BY <1>3, <1>5, <1>6

\* A window that closes loses no entry unseen (rcb.rs:464-469).
LEMMA FlushedReported ==
    ASSUME NEW r \in Block, NEW known, NEW s \in Nat, Ring(r)
    PROVE  Reported(Flushed(r, known, s), r)
<1> DEFINE x == [r EXCEPT !.due = Never, !.pending = {}]
<1>1. x \in Block
  BY DEF Block, Deadline
<1>2. /\ SameRing(x, r) /\ SameConfig(x, r) /\ x.purge = r.purge
      /\ x.buffered = r.buffered /\ x.overflowed = r.overflowed /\ x.out = r.out
  BY DEF Block, SameRing, SameConfig
<1>3. r.pending \in SUBSET Member
  BY DEF Block
<1>4. \/ Flushed(r, known, s) = r
      \/ Flushed(r, known, s) = Build(x, r.pending, FALSE)
  BY DEF Flushed
<1> HIDE DEF x
<1>5. Reported(Build(x, r.pending, FALSE), r)
  BY <1>1, <1>2, <1>3, ReportedFrom
<1>6. Reported(r, r)
  BY AgedSame DEF Reported, SameConfig, SameRing, Ring
<1> QED BY <1>4, <1>5, <1>6

\* Two reports in a row.
LEMMA ReportedTransitive ==
    ASSUME NEW r \in Block, NEW q \in Block, NEW p \in Block,
           Reported(q, r), Reported(p, q)
    PROVE  Reported(p, r)
BY AgedTransitive DEF Reported, SameConfig

\* emit_due as a whole (rcb.rs:430-469): the ring ages, or the client asked
\* for it to be purged.
LEMMA EmittedReported ==
    ASSUME NEW r \in Block, NEW known, NEW s \in Nat, Sound(r)
    PROVE  LET q == Emitted(r, known, s)
           IN  /\ SameConfig(q, r)
               /\ r.purge => ~q.purge
               /\ ~r.purge => Reported(q, r)
<1> DEFINE r1 == Interrogated(r, known)
           r2 == Purged(r1)
           r3 == Scanned(r2, known, s)
           r4 == Flushed(r3, known, s)
<1>1. r1 \in Block /\ Sound(r1) /\ Reported(r1, r)
  BY InterrogatedType, InterrogatedSound, InterrogatedReported DEF Sound
<1> HIDE DEF r1
<1>2. r2 \in Block /\ Sound(r2)
  BY <1>1, PurgedType, PurgedSound
<1>3. /\ SameConfig(r2, r1) /\ ~r2.purge
      /\ ~r1.purge => r2 = r1
  BY <1>1 DEF Purged, Block, SameConfig
<1> HIDE DEF r2
<1>4. r3 \in Block /\ Sound(r3) /\ Reported(r3, r2)
  BY <1>2, ScannedType, ScannedSound, ScannedReported DEF Sound
<1> HIDE DEF r3
<1>5. r4 \in Block /\ Reported(r4, r3)
  BY <1>4, FlushedType, FlushedReported DEF Sound
<1>6. Emitted(r, known, s) = r4
  BY DEF Emitted, r1, r2, r3
<1> HIDE DEF r4
<1>7. Reported(r4, r2)
  BY <1>2, <1>4, <1>5, ReportedTransitive
<1>8. SameConfig(r4, r) /\ ~r4.purge
  BY <1>1, <1>3, <1>7 DEF Reported, SameConfig
<1>9. ASSUME ~r.purge
      PROVE  Reported(r4, r)
  <2>1. r2 = r1
    BY <1>1, <1>3, <1>9 DEF Reported
  <2> QED BY <1>1, <1>5, <1>7, <2>1, ReportedTransitive
<1> QED BY <1>6, <1>8, <1>9

(***************************************************************************)
(* What a step may make of a block r, one relation for each property.      *)
(***************************************************************************)
AgesWell(q, r) ==
    \/ r.purge /\ ~q.purge
    \/ \E k \in 0 .. Len(r.buffer) :
         /\ Shifted(r.buffer, q.buffer, k, r.nextEntry)
         /\ k > 0 => Len(q.buffer) = BufferLen /\ Noticed(q)

\* What the step promises to replay, of what the block r keeps.
Exact(given, r) ==
    /\ \A i, j \in DOMAIN given : i < j => given[i].id < given[j].id
    /\ \/ given[1].ovfl
       \/ {given[i].id : i \in DOMAIN given} =
            {id \in {r.buffer[i].id : i \in DOMAIN r.buffer} : id > r.entryID}

Resumes(q, r) ==
    LET given == SubSeq(q.deferred, Len(r.deferred) + 1, Len(q.deferred))
    IN  given # <<>> => Exact(given, r)

KeepsLease(q, r) ==
    r.until # Never /\ q.reserved # r.reserved => r.until <= 0

ReconfiguresIdle(q, r) ==
    "RptEna" \notin r.stray /\ "RptEna" \notin q.stray =>
        /\ r.owner # None => q.datSet = r.datSet /\ q.intgPd = r.intgPd
        /\ q.confRev # r.confRev <=> q.datSet # r.datSet

Proper(q, r) ==
    AgesWell(q, r) /\ Resumes(q, r) /\ KeepsLease(q, r) /\ ReconfiguresIdle(q, r)

\* The two records of a claim agree, where the engine was the last to write.
Viewed(r) ==
    /\ "RptEna" \notin r.stray => (r.rptEna <=> r.owner # None)
    /\ "Owner" \notin r.stray => r.ownerAttr = Holder(r)

\* A ring that is left alone loses nothing.
LEMMA RingKept ==
    ASSUME NEW r \in Block, NEW q, SameRing(q, r)
    PROVE  AgesWell(q, r)
<1>1. r.buffer \in Seq(Entry) /\ Len(r.buffer) \in Nat
  BY DEF Block
<1>2. Shifted(r.buffer, q.buffer, 0, r.nextEntry) /\ 0 \in 0 .. Len(r.buffer)
  BY <1>1 DEF Shifted, SameRing
<1> QED BY <1>2 DEF AgesWell

\* A step that defers nothing promises nothing.
LEMMA NothingGiven ==
    ASSUME NEW r \in Block, NEW q, q.deferred = r.deferred \/ q.deferred = <<>>
    PROVE  Resumes(q, r)
<1>1. r.deferred \in Seq(Report) /\ Len(r.deferred) \in Nat
  BY DEF Block
<1>2. Len(q.deferred) \in Nat /\ Len(q.deferred) < Len(r.deferred) + 1
  BY <1>1
<1> DEFINE m == Len(r.deferred) + 1
           n == Len(q.deferred)
<1>3. m \in Int /\ n \in Int /\ n < m
  BY <1>1, <1>2
<1> HIDE DEF m, n
<1>4. SubSeq(q.deferred, m, n) = <<>>
  BY <1>3, SubSeqEmpty
<1> QED BY <1>4 DEF Resumes, m, n

\* What was appended is what is given.
LEMMA GivenIsAppended ==
    ASSUME NEW old \in Seq(Report), NEW more \in Seq(Report)
    PROVE  SubSeq(old \o more, Len(old) + 1, Len(old \o more)) = more
<1> DEFINE all == old \o more
           part == SubSeq(all, Len(old) + 1, Len(all))
<1>1. /\ all \in Seq(Report) /\ Len(all) = Len(old) + Len(more)
      /\ \A i \in 1 .. Len(more) : all[Len(old) + i] = more[i]
  OBVIOUS
<1>2. Len(old) \in Nat /\ Len(more) \in Nat
  OBVIOUS
<1> HIDE DEF all
<1>3. \A i \in (Len(old) + 1) .. Len(all) : all[i] \in Report
  BY <1>1, <1>2
<1>4. /\ part \in Seq(Report)
      /\ Len(part) = IF Len(old) + 1 <= Len(all) THEN Len(all) - (Len(old) + 1) + 1 ELSE 0
      /\ \A i \in 1 .. Len(all) - (Len(old) + 1) + 1 : part[i] = all[(Len(old) + 1) + i - 1]
  <2>1. Len(old) + 1 \in Int /\ Len(all) \in Int
    BY <1>1, <1>2
  <2> QED BY <1>3, <2>1, SubSeqProperties
<1> HIDE DEF part
<1>5. Len(part) = Len(more)
  BY <1>1, <1>2, <1>4
<1>6. ASSUME NEW i \in 1 .. Len(more)
      PROVE  part[i] = more[i]
  <2>1. i \in 1 .. Len(all) - (Len(old) + 1) + 1 /\ (Len(old) + 1) + i - 1 = Len(old) + i
    BY <1>1, <1>2
  <2> QED BY <1>1, <1>4, <2>1
<1>7. part = more
  BY <1>4, <1>5, <1>6, SeqEqual
<1> QED BY <1>7 DEF part, all

\* A replay is everything younger than the client's EntryID, or says that it
\* is not (rcb.rs:752-793).
LEMMA ReplayExact ==
    ASSUME NEW r \in Block, Ring(r), r.owner \in Assoc,
           Len(r.buffer) - ReplayStart(r) > 0
    PROVE  LET n == Len(r.buffer) - ReplayStart(r)
           IN  Exact([k \in 1 .. n |-> ReplayOf(r, k)], r)
<1> DEFINE start == ReplayStart(r)
           n == Len(r.buffer) - start
           replay == [k \in 1 .. n |-> ReplayOf(r, k)]
<1>1. /\ start \in 0 .. Len(r.buffer) /\ r.buffer \in Seq(Entry)
      /\ Len(r.buffer) \in Nat /\ n \in Nat /\ n > 0 /\ r.entryID \in Nat
      /\ r.overflowed \in BOOLEAN
  BY ReplayStartType DEF Block
<1>2. \A i \in 1 .. Len(r.buffer) : r.buffer[i].id \in Nat
  BY <1>1, EntriesNumbered
<1>3. DOMAIN replay = 1 .. n /\ DOMAIN r.buffer = 1 .. Len(r.buffer)
  BY <1>1
<1>4. \A k \in 1 .. n : /\ replay[k].id = r.buffer[start + k].id
                        /\ start + k \in 1 .. Len(r.buffer)
  BY <1>1 DEF ReplayOf
<1>5. replay[1].ovfl = (r.overflowed \/ ResumePointLost(r))
  BY <1>1 DEF ReplayOf
<1>6. \/ Position(r) = {} /\ start = 0
      \/ start \in 1 .. Len(r.buffer) /\ r.buffer[start].id = r.entryID
  BY DEF ReplayStart, Position
<1>7. Position(r) = {} => \A i \in 1 .. Len(r.buffer) : r.buffer[i].id # r.entryID
  BY DEF Position
<1> HIDE DEF replay, n, start
<1>8. \A i, j \in 1 .. n : i < j => replay[i].id < replay[j].id
  <2> TAKE i, j \in 1 .. n
  <2> HAVE i < j
  <2>1. start + i \in 1 .. Len(r.buffer) /\ start + j \in 1 .. Len(r.buffer) /\ start + i < start + j
    <3>1. start + i \in 1 .. Len(r.buffer) /\ start + j \in 1 .. Len(r.buffer)
      BY <1>4
    <3>2. start \in Nat /\ i \in Nat /\ j \in Nat
      BY <1>1
    <3>3. start + i < start + j
      BY <3>2
    <3> QED BY <3>1, <3>3
  <2> QED BY <1>4, <2>1 DEF Ring
<1>9. ASSUME ~replay[1].ovfl
      PROVE  {replay[i].id : i \in 1 .. n} =
               {id \in {r.buffer[i].id : i \in 1 .. Len(r.buffer)} : id > r.entryID}
  <2>1. \/ Position(r) = {} /\ start = 0 /\ r.entryID = 0
        \/ start \in 1 .. Len(r.buffer) /\ r.buffer[start].id = r.entryID
    BY <1>5, <1>6, <1>9 DEF ResumePointLost, NoEntry
  <2>2. ASSUME NEW i \in 1 .. Len(r.buffer)
        PROVE  r.buffer[i].id > r.entryID <=> i > start
    <3>1. CASE Position(r) = {} /\ start = 0 /\ r.entryID = 0
      BY <1>1, <1>2, <1>7, <3>1
    <3>2. CASE start \in 1 .. Len(r.buffer) /\ r.buffer[start].id = r.entryID
      <4>1. CASE i > start
        BY <1>2, <3>2, <4>1 DEF Ring
      <4>2. CASE i = start
        BY <1>2, <3>2, <4>2
      <4>3. CASE i < start
        <5>1. r.buffer[i].id < r.buffer[start].id
          BY <3>2, <4>3 DEF Ring
        <5> QED BY <1>1, <1>2, <3>2, <4>3, <5>1
      <4> QED BY <1>1, <4>1, <4>2, <4>3
    <3> QED BY <2>1, <3>1, <3>2
  <2>3. \A i \in 1 .. Len(r.buffer) : i > start =>
           /\ i - start \in 1 .. n /\ start + (i - start) = i
           /\ replay[i - start].id = r.buffer[i].id
    <3> TAKE i \in 1 .. Len(r.buffer)
    <3> HAVE i > start
    <3>1. i - start \in 1 .. n /\ start + (i - start) = i
      BY <1>1 DEF n
    <3> QED BY <1>4, <3>1
  <2>4. \A k \in 1 .. n : start + k > start
    BY <1>1
  <2> QED BY <1>4, <2>2, <2>3, <2>4
<1> QED BY <1>3, <1>8, <1>9 DEF Exact, replay, n, start

\* A step that leaves ring, replays, reservation and configuration alone.
LEMMA ProperKept ==
    ASSUME NEW r \in Block, NEW q, SameRing(q, r), q.deferred = r.deferred,
           q.reserved = r.reserved, q.datSet = r.datSet,
           q.confRev = r.confRev, q.intgPd = r.intgPd
    PROVE  Proper(q, r)
BY RingKept, NothingGiven DEF Proper, KeepsLease, ReconfiguresIdle

\* What the last critical section produced does not matter to the next step.
LEMMA ProperAfterQuiet ==
    ASSUME NEW r \in Block, NEW q, Proper(q, Quiet(r))
    PROVE  Proper(q, r)
<1> DEFINE x == Quiet(r)
<1>1. /\ x.purge = r.purge /\ x.buffer = r.buffer /\ x.nextEntry = r.nextEntry
      /\ x.deferred = r.deferred /\ x.entryID = r.entryID /\ x.until = r.until
      /\ x.reserved = r.reserved /\ x.owner = r.owner /\ x.datSet = r.datSet
      /\ x.intgPd = r.intgPd /\ x.confRev = r.confRev /\ x.stray = r.stray
  BY DEF Quiet, Block
<1> HIDE DEF x
<1>2. Proper(q, x)
  BY DEF x
<1>3. AgesWell(q, r)
  BY <1>1, <1>2 DEF Proper, AgesWell
<1>4. ASSUME NEW given, Exact(given, x)
      PROVE  Exact(given, r)
  BY <1>1, <1>4 DEF Exact
<1>5. Resumes(q, r)
  BY <1>1, <1>2, <1>4 DEF Proper, Resumes
<1> QED
  BY <1>1, <1>2, <1>3, <1>5 DEF Proper, KeepsLease, ReconfiguresIdle

\* A block no operation reaches.
LEMMA QuietStep ==
    ASSUME NEW r \in Block
    PROVE  Proper(Quiet(r), r) /\ (Viewed(r) => Viewed(Quiet(r)))
<1>1. /\ Undisturbed(Quiet(r), r) /\ SameConfig(Quiet(r), r)
  BY QuietUndisturbed DEF Quiet, Block, SameConfig
<1>2. Proper(Quiet(r), r)
  BY <1>1, ProperKept DEF Undisturbed, SameConfig, SameClaims
<1> QED
  BY <1>1, <1>2, SameHolder DEF Undisturbed, SameConfig, SameClaims, Viewed

\* GI, PurgeBuf and EntryID are the client's to write (rcb.rs:248-258, 299-304).
LEMMA SettingStep ==
    ASSUME NEW r \in Block, NEW on \in BOOLEAN, NEW n \in Nat,
           NEW q \in {[r EXCEPT !.gi = on], [r EXCEPT !.purge = on], [r EXCEPT !.entryID = n]}
    PROVE  Proper(q, r) /\ (Viewed(r) => Viewed(q))
<1>1. Undisturbed(q, r)
  BY SettingType
<1>2. SameConfig(q, r)
  BY DEF Block, SameConfig
<1>3. Proper(q, r)
  BY <1>1, <1>2, ProperKept DEF Undisturbed, SameConfig, SameClaims
<1> QED
  BY <1>1, <1>2, <1>3, SameHolder DEF Undisturbed, SameConfig, SameClaims, Viewed

\* IntgPd moves only in a block nobody has enabled (rcb.rs:282-287).
LEMMA IntgPdStep ==
    ASSUME NEW r \in Block, Claims(r), ~r.rptEna, NEW n \in Nat
    PROVE  LET q == [r EXCEPT !.intgPd = n]
           IN  Proper(q, r) /\ (Viewed(r) => Viewed(q))
<1> DEFINE q == [r EXCEPT !.intgPd = n]
<1>1. Undisturbed(q, r)
  BY SettingType
<1>2. /\ q.datSet = r.datSet /\ q.confRev = r.confRev /\ q.ownerAttr = r.ownerAttr
      /\ q.stray = r.stray /\ ("RptEna" \notin r.stray => r.owner = None)
  BY DEF Block, Claims
<1> HIDE DEF q
<1>3. AgesWell(q, r) /\ Resumes(q, r)
  BY <1>1, RingKept, NothingGiven DEF Undisturbed
<1>4. KeepsLease(q, r) /\ ReconfiguresIdle(q, r)
  BY <1>1, <1>2 DEF Undisturbed, SameClaims, KeepsLease, ReconfiguresIdle
<1> QED
  BY <1>1, <1>2, <1>3, <1>4, SameHolder DEF Proper, Undisturbed, SameClaims, Viewed, q

\* DatSet moves only in a block nobody has enabled, and ConfRev with it
\* (rcb.rs:282-298).
LEMMA RedirectedStep ==
    ASSUME NEW r \in Block, Claims(r), ~r.rptEna, NEW ds \in DataSet
    PROVE  LET q == Redirected(r, ds)
           IN  Proper(q, r) /\ (Viewed(r) => Viewed(q))
<1> DEFINE q == Redirected(r, ds)
<1>1. Undisturbed(q, r)
  BY RedirectedType
<1>2. /\ q.datSet = ds /\ q.intgPd = r.intgPd /\ q.ownerAttr = r.ownerAttr
      /\ q.stray = r.stray /\ ("RptEna" \notin r.stray => r.owner = None)
      /\ r.confRev \in Nat
      /\ q.confRev = IF ds = r.datSet THEN r.confRev ELSE (r.confRev + 1) % ConfRevMod
  BY DEF Redirected, Block, Claims
<1> HIDE DEF q
<1>3. (r.confRev + 1) % ConfRevMod # r.confRev
  <2>1. ConfRevMod \in Nat /\ ConfRevMod > 1
    BY ReportBlockAssumption
  <2> QED BY <1>2, <2>1
<1>4. AgesWell(q, r) /\ Resumes(q, r)
  BY <1>1, RingKept, NothingGiven DEF Undisturbed
<1>5. KeepsLease(q, r) /\ ReconfiguresIdle(q, r)
  BY <1>1, <1>2, <1>3 DEF Undisturbed, SameClaims, KeepsLease, ReconfiguresIdle
<1> QED
  BY <1>1, <1>2, <1>4, <1>5, SameHolder DEF Proper, Undisturbed, SameClaims, Viewed, q

\* Publishing Owner makes the attribute the holder (acsi.rs:1122-1140), unless
\* the store has refused the value; the configuration stays.
LEMMA PublishedShows ==
    ASSUME NEW r \in Block, NEW fits \in BOOLEAN
    PROVE  LET q == Published(r, fits)
           IN  /\ "Owner" \notin q.stray => q.ownerAttr = Holder(q)
               /\ q.datSet = r.datSet
               /\ q.confRev = r.confRev /\ q.intgPd = r.intgPd
               /\ q.overflowed = r.overflowed /\ q.entryID = r.entryID
<1> DEFINE h == Holder(r)
           with == r.stray \cup {"Owner"}
           less == r.stray \ {"Owner"}
           p == [r EXCEPT !.ownerAttr = h, !.stray = less]
           q == [r EXCEPT !.stray = with]
<1>1. Published(r, fits) = IF fits THEN p ELSE q
  BY DEF Published, Block
<1>2. "Owner" \in with
  OBVIOUS
<1> HIDE DEF with, less
<1>3. /\ p.ownerAttr = h /\ p.owner = r.owner /\ p.reserved = r.reserved
      /\ p.datSet = r.datSet /\ p.confRev = r.confRev /\ p.intgPd = r.intgPd
      /\ p.overflowed = r.overflowed /\ p.entryID = r.entryID
  BY DEF Block
<1>4. /\ q.stray = with
      /\ q.datSet = r.datSet /\ q.confRev = r.confRev /\ q.intgPd = r.intgPd
      /\ q.overflowed = r.overflowed /\ q.entryID = r.entryID
  BY DEF Block
<1> HIDE DEF p, q
<1> QED BY <1>1, <1>2, <1>3, <1>4 DEF Holder, h

\* A ring handed to its client: what is deferred is the replay of what the
\* client has not seen (rcb.rs:739-773).
LEMMA DrainedStep ==
    ASSUME NEW r \in Block, NEW known, r.owner \in Assoc, Ring(r)
    PROVE  LET q == Drained(r, known)
           IN  Resumes(q, r) /\ SameConfig(q, r)
<1> DEFINE n == Len(r.buffer) - ReplayStart(r)
           shown == n > 0 /\ r.datSet \in known
           replay == [k \in 1 .. n |-> ReplayOf(r, k)]
           q == Drained(r, known)
<1>1. SameConfig(q, r) /\ q.deferred = IF shown THEN r.deferred \o replay ELSE r.deferred
  BY DEF Drained, Block, SameConfig
<1>2. r.deferred \in Seq(Report) /\ replay \in Seq(Report)
  BY ReplayType DEF Block
<1>3. CASE ~shown
  BY <1>1, <1>3, NothingGiven
<1>4. CASE shown
  <2>1. Exact(replay, r)
    BY <1>4, ReplayExact
  <2> HIDE DEF replay, q
  <2>2. SubSeq(q.deferred, Len(r.deferred) + 1, Len(q.deferred)) = replay
    BY <1>1, <1>2, <1>4, GivenIsAppended
  <2>3. Resumes(q, r)
    BY <2>1, <2>2 DEF Resumes
  <2> QED BY <1>1, <2>3 DEF q
<1> QED BY <1>1, <1>3, <1>4

\* Enabling replays exactly what the client has not seen, and is shown
\* (rcb.rs:219-236).
LEMMA EnabledStep ==
    ASSUME NEW r \in Block, Ring(r), NEW known, NEW a \in Assoc, NEW s \in Nat
    PROVE  LET q == Enabled(r, known, a, s)
           IN  Proper(q, r) /\ Viewed(q)
<1> DEFINE start == IntegrityStart(r, s)
           left == r.stray \ {"RptEna"}
           on == [r EXCEPT !.owner = a, !.pending = {}, !.due = Never, !.seq = 0,
                           !.integrityDue = start, !.sqNum = 0, !.rptEna = TRUE,
                           !.stray = left]
           shown == Published(on, TRUE)
           q == Enabled(r, known, a, s)
<1>1. start \in Deadline /\ left \in SUBSET ClaimLeaves
  BY IntegrityStartType DEF Block
<1>2. q = Drained(shown, known)
  BY DEF Enabled, Block
<1>3. /\ q \in Block /\ q.owner = a /\ q.rptEna
      /\ q.reserved = r.reserved /\ SameRing(q, r)
  BY EnabledType
<1> HIDE DEF start, left
<1>4. on \in Block
  BY <1>1 DEF Block, Deadline
<1>5. /\ on.owner = a /\ on.reserved = r.reserved /\ on.buffered = r.buffered
      /\ on.datSet = r.datSet /\ on.confRev = r.confRev /\ on.intgPd = r.intgPd
      /\ on.overflowed = r.overflowed /\ on.entryID = r.entryID
      /\ on.deferred = r.deferred /\ SameRing(on, r)
  BY DEF Block, SameRing
<1> HIDE DEF on
<1>6. /\ shown \in Block /\ SameClaims(shown, on) /\ SameRing(shown, on)
      /\ shown.deferred = on.deferred
  BY <1>4, PublishedType
<1>7. /\ "Owner" \notin shown.stray => shown.ownerAttr = Holder(shown)
      /\ shown.datSet = on.datSet
      /\ shown.confRev = on.confRev /\ shown.intgPd = on.intgPd
      /\ shown.entryID = on.entryID
  BY <1>4, PublishedShows
<1> HIDE DEF shown, q
<1>8. Ring(shown) /\ shown.owner = a
  BY <1>5, <1>6, RingSame DEF SameClaims, SameRing
<1>9. Resumes(q, shown) /\ SameConfig(q, shown) /\ SameClaims(q, shown)
  BY <1>2, <1>6, <1>8, DrainedStep, DrainedType
<1>10. Resumes(q, r)
  <2>1. /\ shown.deferred = r.deferred /\ shown.buffer = r.buffer
        /\ shown.entryID = r.entryID
    BY <1>5, <1>6, <1>7 DEF SameRing
  <2> QED BY <1>9, <2>1 DEF Resumes, Exact
<1>11. AgesWell(q, r)
  BY <1>3, RingKept
<1>12. KeepsLease(q, r) /\ ReconfiguresIdle(q, r)
  BY <1>3, <1>5, <1>7, <1>9 DEF KeepsLease, ReconfiguresIdle, SameConfig
<1>13. a # None /\ Holder(q) = Holder(shown)
  BY <1>9, SameHolder, ReportBlockAssumption
<1>14. Viewed(q)
  BY <1>3, <1>7, <1>9, <1>13 DEF Viewed, SameConfig
<1> QED BY <1>10, <1>11, <1>12, <1>14 DEF Proper, q

\* Disabling loses no entry and no lease (rcb.rs:237-246), and is shown.
LEMMA DisabledStep ==
    ASSUME NEW r \in Block, NEW fits \in BOOLEAN
    PROVE  LET q == Disabled(r, fits)
           IN  Proper(q, r) /\ Viewed(q)
<1> DEFINE ena == IF fits THEN FALSE ELSE r.rptEna
           left == IF fits THEN r.stray \ {"RptEna"} ELSE r.stray \cup {"RptEna"}
           off == [r EXCEPT !.owner = None, !.integrityDue = Never, !.pending = {},
                            !.due = Never, !.rptEna = ena, !.stray = left]
           q == Disabled(r, fits)
<1>1. /\ ena \in BOOLEAN /\ left \in SUBSET ClaimLeaves
      /\ "RptEna" \notin left => ~ena
  BY DEF Block, ClaimLeaves
<1>2. q = Published(off, fits)
  BY DEF Disabled, Block
<1>3. q.reserved = r.reserved /\ q.owner = None /\ q.deferred = r.deferred /\ SameRing(q, r)
  BY DisabledType
<1> HIDE DEF ena, left
<1>4. off \in Block
  BY <1>1 DEF Block, Deadline
<1>5. /\ off.owner = None /\ off.datSet = r.datSet /\ off.confRev = r.confRev
      /\ off.intgPd = r.intgPd /\ off.rptEna = ena /\ off.stray = left
  BY DEF Block
<1> HIDE DEF off, q
<1>6. /\ q.datSet = r.datSet /\ q.confRev = r.confRev /\ q.intgPd = r.intgPd
      /\ q.rptEna = ena /\ ("RptEna" \in q.stray <=> "RptEna" \in left)
      /\ "Owner" \notin q.stray => q.ownerAttr = Holder(q)
  BY <1>2, <1>4, <1>5, PublishedShows, PublishedType DEF SameClaims
<1>7. Proper(q, r)
  BY <1>3, <1>6, ProperKept
<1>8. Viewed(q)
  BY <1>1, <1>3, <1>6 DEF Viewed
<1> QED BY <1>7, <1>8 DEF q

\* A reservation takes no lease from an association that has ended
\* (rcb.rs:262-276), and is shown.
LEMMA ReservedStep ==
    ASSUME NEW r, NEW O, NEW C, NEW S, BlockInv(r, O, C, S), O \cap C = {},
           NEW a \in Assoc, a \in O, MayReserve(r, a),
           NEW l \in Nat \cup {None}, NEW fits \in BOOLEAN
    PROVE  LET q == Reserved(r, a, l, fits)
           IN  Proper(q, r) /\ (Viewed(r) => Viewed(q))
<1> DEFINE resv == IF fits THEN TRUE ELSE r.resv
           mine == [r EXCEPT !.reserved = a, !.linger = l, !.until = Never,
                             !.resv = resv]
           q == Reserved(r, a, l, fits)
<1>1. r \in Block /\ resv \in BOOLEAN
  BY DEF BlockInv, Block
<1>2. q = Published(mine, fits)
  BY <1>1 DEF Reserved, Block
<1>3. /\ q.owner = r.owner /\ q.rptEna = r.rptEna /\ q.reserved = a
      /\ "RptEna" \in q.stray <=> "RptEna" \in r.stray
      /\ q.deferred = r.deferred /\ SameRing(q, r)
  BY <1>1, ReservedType
<1> HIDE DEF resv
<1>4. mine \in Block
  BY <1>1 DEF Block, Deadline
<1>5. /\ mine.datSet = r.datSet /\ mine.confRev = r.confRev
      /\ mine.intgPd = r.intgPd
  BY <1>1 DEF Block
<1> HIDE DEF mine, q
<1>6. /\ q.datSet = r.datSet /\ q.confRev = r.confRev /\ q.intgPd = r.intgPd
      /\ "Owner" \notin q.stray => q.ownerAttr = Holder(q)
  BY <1>2, <1>4, <1>5, PublishedShows
<1>7. r.until = Never
  BY DEF BlockInv, Claims, MayReserve, TakenByOther
<1>8. Proper(q, r)
  BY <1>1, <1>3, <1>6, <1>7, RingKept, NothingGiven
     DEF Proper, KeepsLease, ReconfiguresIdle
<1>9. Viewed(r) => Viewed(q)
  BY <1>3, <1>6 DEF Viewed
<1> QED BY <1>8, <1>9 DEF q

\* A release ends no lease of an association that has ended
\* (rcb.rs:277-280), and is shown.
LEMMA ReleasedStep ==
    ASSUME NEW r, NEW O, NEW C, NEW S, BlockInv(r, O, C, S), O \cap C = {},
           NEW a \in Assoc, a \in O, NEW fits \in BOOLEAN
    PROVE  LET q == Released(r, a, fits)
           IN  Proper(q, r) /\ (Viewed(r) => Viewed(q))
<1> DEFINE own == IF r.reserved = a
                    THEN [r EXCEPT !.reserved = None, !.linger = None, !.until = Never]
                    ELSE r
           resv == IF fits THEN FALSE ELSE r.resv
           free == [own EXCEPT !.resv = resv]
           q == Released(r, a, fits)
<1>1. r \in Block /\ resv \in BOOLEAN
  BY DEF BlockInv, Block
<1>2. own \in Block /\ own.resv = r.resv
  <2>1. [r EXCEPT !.reserved = None, !.linger = None, !.until = Never] \in Block
    BY <1>1 DEF Block, Deadline
  <2> QED BY SMTT(30), <1>1, <2>1 DEF Block
<1>3. /\ own.datSet = r.datSet /\ own.confRev = r.confRev
      /\ own.intgPd = r.intgPd
  BY <1>1 DEF Block
<1>4. q = Published(free, fits)
  BY <1>2 DEF Released
<1>5. /\ q.owner = r.owner /\ q.rptEna = r.rptEna
      /\ "RptEna" \in q.stray <=> "RptEna" \in r.stray
      /\ q.deferred = r.deferred /\ SameRing(q, r)
      /\ r.reserved # a => q.reserved = r.reserved
  BY <1>1, ReleasedType DEF SameClaims
<1> HIDE DEF resv, own
<1>6. free \in Block
  BY <1>1, <1>2 DEF Block
<1>7. /\ free.datSet = r.datSet /\ free.confRev = r.confRev
      /\ free.intgPd = r.intgPd
  BY <1>2, <1>3 DEF Block
<1> HIDE DEF free, q
<1>8. /\ q.datSet = r.datSet /\ q.confRev = r.confRev /\ q.intgPd = r.intgPd
      /\ "Owner" \notin q.stray => q.ownerAttr = Holder(q)
  BY <1>4, <1>6, <1>7, PublishedShows
<1>9. r.until # Never => r.reserved # a
  BY DEF BlockInv
<1>10. Proper(q, r)
  BY <1>1, <1>5, <1>8, <1>9, RingKept, NothingGiven
     DEF Proper, KeepsLease, ReconfiguresIdle
<1>11. Viewed(r) => Viewed(q)
  BY <1>5, <1>8 DEF Viewed
<1> QED BY <1>10, <1>11 DEF q

\* An association that ends takes nothing of a buffered block with it, ends no
\* other association's lease, and what it gives up is shown (rcb.rs:312-349,
\* acsi.rs:706-731).
LEMMA ClosedStep ==
    ASSUME NEW r, NEW O, NEW C, NEW S, BlockInv(r, O, C, S), O \cap C = {},
           NEW a \in Assoc, a \in O
    PROVE  LET q == Closed(r, a)
           IN  Proper(q, r) /\ (Viewed(r) => Viewed(q))
<1> DEFINE r1 == Quiet(r)
           r2 == Disowned(r1, a)
           r3 == Abandoned(r2, a)
           q  == Closed(r, a)
           p  == Published(r3, TRUE)
<1>1. /\ r \in Block /\ r1 \in Block /\ SameClaims(r1, r) /\ SameRing(r1, r)
      /\ r1.ownerAttr = r.ownerAttr /\ r1.datSet = r.datSet
      /\ r1.confRev = r.confRev /\ r1.intgPd = r.intgPd
      /\ r1.stray = r.stray /\ Ring(r)
  <2>1. r \in Block /\ Ring(r)
    BY DEF BlockInv, Sound
  <2>2. r1 \in Block /\ Undisturbed(r1, r)
    BY <2>1, QuietType, QuietUndisturbed
  <2>3. /\ r1.ownerAttr = r.ownerAttr /\ r1.datSet = r.datSet
        /\ r1.confRev = r.confRev /\ r1.intgPd = r.intgPd
        /\ r1.stray = r.stray
    BY <2>1 DEF Quiet, Block
  <2> QED BY <2>1, <2>2, <2>3 DEF Undisturbed
<1>2. /\ q \in Block /\ SameClaims(q, r3) /\ SameRing(q, r3) /\ q.deferred = r.deferred
  BY <1>1, ClosedType
<1>3. q = IF a \in {r.owner, r.reserved} THEN p ELSE r3
  BY DEF Closed
<1> HIDE DEF r1, q
<1>4. /\ r2 \in Block /\ r2.reserved = r1.reserved /\ r2.nextEntry = r1.nextEntry
      /\ r2.linger = r1.linger /\ r2.until = r1.until
      /\ r1.owner # a => r2 = r1
      /\ r1.owner = a =>
            /\ r2.owner = None /\ ~r2.rptEna
            /\ r2.buffer = IF r1.buffered THEN r1.buffer ELSE <<>>
  BY <1>1, DisownedType
<1>5. /\ r2.datSet = r1.datSet
      /\ r2.confRev = r1.confRev /\ r2.intgPd = r1.intgPd
  BY <1>1 DEF Disowned, Block
<1>6. SameRing(r2, r)
  BY <1>1, <1>4 DEF SameRing, SameClaims, Ring
<1> HIDE DEF r2
<1>7. /\ r3 \in Block /\ r3.owner = r2.owner /\ r3.rptEna = r2.rptEna
      /\ "RptEna" \in r3.stray <=> "RptEna" \in r2.stray
      /\ SameRing(r3, r2)
      /\ r2.reserved # a => r3 = r2
  BY <1>4, AbandonedType
<1>8. r3.datSet = r2.datSet /\ r3.confRev = r2.confRev /\ r3.intgPd = r2.intgPd
  BY <1>4 DEF Abandoned, Unreserved, Block
<1> HIDE DEF r3
<1>9. /\ p.datSet = r3.datSet /\ p.confRev = r3.confRev /\ p.intgPd = r3.intgPd
      /\ "Owner" \notin p.stray => p.ownerAttr = Holder(p)
  BY <1>7, PublishedShows
<1> HIDE DEF p
<1>10. q.datSet = r3.datSet /\ q.confRev = r3.confRev /\ q.intgPd = r3.intgPd
  BY <1>3, <1>9
<1>11. SameRing(q, r)
  BY <1>2, <1>6, <1>7 DEF SameRing
<1>12. r.until # Never => r.reserved # a
  BY DEF BlockInv
<1>13. KeepsLease(q, r)
  BY <1>1, <1>2, <1>4, <1>7, <1>12 DEF KeepsLease, SameClaims
<1>14. ReconfiguresIdle(q, r)
  BY <1>1, <1>5, <1>8, <1>10 DEF ReconfiguresIdle
<1>15. Proper(q, r)
  BY <1>1, <1>2, <1>11, <1>13, <1>14, RingKept, NothingGiven DEF Proper
<1>16. ASSUME Viewed(r)
       PROVE  Viewed(q)
  <2>1. "RptEna" \notin q.stray => (q.rptEna <=> q.owner # None)
    <3>1. CASE r.owner = a
      BY <1>1, <1>2, <1>4, <1>7, <3>1 DEF SameClaims
    <3>2. CASE r.owner # a
      BY <1>1, <1>2, <1>4, <1>7, <1>16, <3>2 DEF Viewed, SameClaims
    <3> QED BY <3>1, <3>2
  <2>2. CASE a \in {r.owner, r.reserved}
    BY <1>3, <1>9, <2>1, <2>2 DEF Viewed
  <2>3. CASE a \notin {r.owner, r.reserved}
    <3>1. q = r1
      BY <1>1, <1>3, <1>4, <1>7, <2>3 DEF SameClaims
    <3>2. Holder(r1) = Holder(r)
      BY <1>1, SameHolder
    <3> QED BY <1>1, <1>16, <2>1, <3>1, <3>2 DEF Viewed
  <2> QED BY <2>2, <2>3
<1> QED BY <1>15, <1>16 DEF q

\* A proper step that leaves the views in step.
Becomes(q, r) == Proper(q, r) /\ (Viewed(r) => Viewed(q))

\* A Write of the block as a structure (acsi.rs:1143-1157) takes no entry, no
\* lease and no replay, and marks what it parts.
LEMMA OverwrittenStep ==
    ASSUME NEW r \in Block, NEW w \in Structure, NEW n
    PROVE  Becomes(Overwritten(r, w, n), r)
<1> DEFINE q == Overwritten(r, w, n)
<1>1. /\ q.reserved = r.reserved /\ q.deferred = r.deferred /\ SameRing(q, r)
      /\ q.owner = r.owner /\ "RptEna" \in q.stray
      /\ "Owner" \notin q.stray => "Owner" \notin r.stray /\ q.ownerAttr = r.ownerAttr
  BY OverwrittenType
<1> HIDE DEF q
<1>2. Proper(q, r)
  BY <1>1, RingKept, NothingGiven DEF Proper, KeepsLease, ReconfiguresIdle
<1>3. Viewed(r) => Viewed(q)
  BY <1>1 DEF Viewed, Holder
<1> QED BY <1>2, <1>3 DEF q, Becomes

\* Emitting reports from a block x that stands for r in all that matters.
LEMMA EmittedFrom ==
    ASSUME NEW r \in Block, NEW x \in Block, Sound(x), SameRing(x, r),
           x.purge = r.purge, NEW known, NEW s \in Nat
    PROVE  LET q == Emitted(x, known, s)
           IN  AgesWell(q, r) /\ SameConfig(q, x)
<1> DEFINE q == Emitted(x, known, s)
<1>1. /\ SameConfig(q, x) /\ (x.purge => ~q.purge)
      /\ ~x.purge => Reported(q, x)
  BY EmittedReported
<1> HIDE DEF q
<1>2. CASE r.purge
  BY <1>1, <1>2 DEF AgesWell, q
<1>3. CASE ~r.purge
  <2>1. Aged(q, x)
    BY <1>1, <1>3 DEF Reported
  <2>2. AgesWell(q, r)
    BY <2>1 DEF Aged, AgesWell, SameRing
  <2> QED BY <1>1, <2>2 DEF q
<1>4. r.purge \in BOOLEAN
  BY DEF Block
<1> QED BY <1>2, <1>3, <1>4

\* A publish (acsi.rs:661-676) loses no entry unseen, and touches neither
\* leases nor configuration.
LEMMA CommittedStep ==
    ASSUME NEW r \in Block, Sound(r), NEW known, NEW D \in SUBSET Member, NEW s \in Nat
    PROVE  LET q == Committed(r, known, D, s)
           IN  Proper(q, r) /\ (Viewed(r) => Viewed(q))
<1> DEFINE r1 == Quiet(r)
           r2 == Gathered(r1, known, D, s)
           r3 == Emitted(r2, known, s)
           reports == r3.out \o r3.deferred
           q  == Committed(r, known, D, s)
<1>1. /\ r1 \in Block /\ Sound(r1) /\ SameRing(r1, r) /\ r1.purge = r.purge
      /\ SameConfig(r1, r)
  <2>1. r1 \in Block /\ Sound(r1) /\ SameRing(r1, r)
    BY QuietType, QuietUndisturbed, SoundSame DEF Undisturbed
  <2> QED BY <2>1 DEF Quiet, Block, SameConfig
<1>2. q \in Block /\ SameClaims(q, r) /\ q.deferred = <<>>
  BY CommittedType
<1>3. q = [r3 EXCEPT !.out = reports, !.deferred = <<>>]
  BY DEF Committed
<1> HIDE DEF r1, q
<1>4. r2 \in Block /\ Sound(r2)
  BY <1>1, GatheredType, GatheredSound
<1>5. SameRing(r2, r1) /\ r2.purge = r1.purge /\ SameConfig(r2, r1)
  BY <1>1 DEF Gathered, Block, SameRing, SameConfig
<1> HIDE DEF r2
<1>6. SameRing(r2, r) /\ r2.purge = r.purge /\ SameConfig(r2, r)
  BY <1>1, <1>5 DEF SameRing, SameConfig
<1>7. r3 \in Block /\ AgesWell(r3, r) /\ SameConfig(r3, r2)
  BY <1>4, <1>6, EmittedType, EmittedFrom
<1> HIDE DEF r3
<1>8. /\ q.buffer = r3.buffer /\ q.purge = r3.purge /\ q.overflowed = r3.overflowed
      /\ q.out = reports /\ SameConfig(q, r3)
  BY <1>3, <1>7 DEF Block, SameConfig
<1>9. Noticed(r3) => Noticed(q)
  <2>1. r3.out \in Seq(Report) /\ r3.deferred \in Seq(Report)
    BY <1>7 DEF Block
  <2> DEFINE old == r3.out
             more == r3.deferred
  <2>2. old \in Seq(Report) /\ more \in Seq(Report) /\ reports = old \o more
    BY <2>1
  <2> HIDE DEF old, more
  <2>3. \A i \in DOMAIN old : i \in DOMAIN (old \o more) /\ (old \o more)[i] = old[i]
    BY <2>2, ConcatProperties
  <2>4. \A i \in DOMAIN r3.out : i \in DOMAIN reports /\ reports[i] = r3.out[i]
    BY <2>2, <2>3 DEF old
  <2> HIDE DEF reports
  <2> QED BY <1>8, <2>4 DEF Noticed
<1> HIDE DEF reports
<1>10. AgesWell(q, r)
  BY <1>7, <1>8, <1>9 DEF AgesWell
<1>11. SameConfig(q, r)
  BY <1>6, <1>7, <1>8 DEF SameConfig
<1>12. Proper(q, r)
  BY <1>2, <1>10, <1>11, NothingGiven
     DEF Proper, KeepsLease, ReconfiguresIdle, SameClaims, SameConfig
<1>13. Viewed(r) => Viewed(q)
  BY <1>2, <1>11, SameHolder DEF Viewed, SameClaims, SameConfig
<1> QED BY <1>12, <1>13 DEF q

\* A poll (rcb.rs:351-377) ends a lease only when its time is up, however late
\* it reads the clock, loses no entry unseen, and what it frees is shown.
LEMMA TimedOutStep ==
    ASSUME NEW r, NEW O, NEW C, NEW S, BlockInv(r, O, C, S), O \cap C = {},
           NEW known, NEW s \in Nat
    PROVE  LET q == TimedOut(r, known, s)
           IN  Proper(q, r) /\ (Viewed(r) => Viewed(q))
<1> DEFINE r1 == Quiet(r)
           r2 == Expired(r1, s)
           q  == TimedOut(r, known, s)
<1>1. r \in Block /\ Sound(r)
  BY DEF BlockInv
<1>2. /\ r1 \in Block /\ Sound(r1) /\ SameRing(r1, r) /\ r1.purge = r.purge
      /\ SameConfig(r1, r) /\ SameClaims(r1, r) /\ r1.deferred = r.deferred
  <2>1. r1 \in Block /\ Sound(r1) /\ Undisturbed(r1, r)
    BY <1>1, QuietType, QuietUndisturbed, SoundSame DEF Undisturbed
  <2> QED BY <1>1, <2>1 DEF Quiet, Block, SameConfig, Undisturbed
<1>3. q \in Block /\ SameClaims(q, r2)
  BY <1>1, TimedOutType
<1>4. q = Emitted(r2, known, s)
  BY DEF TimedOut
<1> HIDE DEF r1, q
<1>5. r2 \in Block
  BY <1>2, ExpiredType
<1>6. /\ r2.buffered = r1.buffered /\ r2.owner = r1.owner /\ r2.rptEna = r1.rptEna
      /\ SameGathered(r2, r1) /\ SameRing(r2, r1) /\ r2.deferred = r1.deferred
      /\ r2.purge = r1.purge /\ r2.datSet = r1.datSet
      /\ r2.confRev = r1.confRev /\ r2.intgPd = r1.intgPd
      /\ \/ r2 = r1
         \/ /\ Passed(r1.until, s) /\ r2.reserved = None /\ r2.ownerAttr = None
            /\ "RptEna" \in r2.stray <=> "RptEna" \in r1.stray
  <2> DEFINE free == Unreserved(r1)
  <2>1. r2 = r1 \/ (r2 = free /\ Passed(r1.until, s))
    BY DEF Expired
  <2>2. "RptEna" \in free.stray <=> "RptEna" \in r1.stray
    BY <1>2, UnreservedType
  <2>3. /\ free.buffered = r1.buffered /\ free.owner = r1.owner
        /\ free.rptEna = r1.rptEna /\ free.deferred = r1.deferred
        /\ SameGathered(free, r1) /\ SameRing(free, r1)
        /\ free.purge = r1.purge /\ free.datSet = r1.datSet
        /\ free.confRev = r1.confRev /\ free.intgPd = r1.intgPd
        /\ free.reserved = None /\ free.ownerAttr = None
    BY <1>2 DEF Unreserved, Block, SameGathered, SameRing
  <2>4. SameGathered(r1, r1) /\ SameRing(r1, r1)
    BY DEF SameGathered, SameRing
  <2> HIDE DEF r2, free
  <2> QED BY <2>1, <2>2, <2>3, <2>4
<1> HIDE DEF r2
<1>7. Sound(r2)
  BY <1>2, <1>6, RingSame DEF Sound, Gathering, SameGathered
<1>8. SameRing(r2, r) /\ r2.purge = r.purge
  BY <1>2, <1>6 DEF SameRing
<1>9. /\ AgesWell(q, r) /\ SameConfig(q, r2) /\ q.deferred = r2.deferred
  BY <1>1, <1>4, <1>5, <1>7, <1>8, EmittedFrom, EmittedOwed
<1>10. Passed(r1.until, s) => r.until # Never /\ r.until <= 0
  <2>1. r1.until = r.until /\ r.until \in Int \cup {Never}
    BY <1>1, <1>2 DEF SameClaims, Block, Deadline
  <2> QED BY <2>1 DEF Passed
<1>11. KeepsLease(q, r)
  BY <1>2, <1>3, <1>6, <1>10 DEF KeepsLease, SameClaims
<1>12. ReconfiguresIdle(q, r)
  BY <1>2, <1>6, <1>9 DEF ReconfiguresIdle, SameConfig
<1>13. Resumes(q, r)
  BY <1>1, <1>2, <1>6, <1>9, NothingGiven
<1>14. ASSUME Viewed(r)
       PROVE  Viewed(q)
  <2>1. /\ Holder(q) = Holder(r2) /\ Holder(r1) = Holder(r)
        /\ q.rptEna = r.rptEna /\ q.owner = r.owner
        /\ "RptEna" \in q.stray <=> "RptEna" \in r.stray
        /\ q.ownerAttr = r2.ownerAttr /\ r1.ownerAttr = r.ownerAttr
        /\ "Owner" \in q.stray <=> "Owner" \in r2.stray
        /\ "Owner" \in r1.stray <=> "Owner" \in r.stray
    <3>1. Holder(q) = Holder(r2) /\ Holder(r1) = Holder(r)
      BY <1>2, <1>3, SameHolder
    <3>2. "RptEna" \in q.stray <=> "RptEna" \in r.stray
      BY <1>2, <1>3, <1>6 DEF SameClaims
    <3> QED BY <1>2, <1>3, <1>6, <1>9, <3>1, <3>2 DEF SameClaims, SameConfig
  <2>2. "Owner" \notin r2.stray => r2.ownerAttr = Holder(r2)
    <3>1. CASE r2 = r1
      BY <1>14, <2>1, <3>1 DEF Viewed
    <3>2. CASE Passed(r1.until, s) /\ r2.reserved = None /\ r2.ownerAttr = None
      <4>1. r.owner = None
        BY <1>10, <3>2 DEF BlockInv, Claims
      <4>2. r2.owner = None
        BY <1>2, <1>6, <4>1 DEF SameClaims
      <4> QED BY <3>2, <4>2 DEF Holder
    <3> QED BY <1>6, <3>1, <3>2
  <2> QED BY <1>14, <2>1, <2>2 DEF Viewed
<1> QED BY <1>9, <1>11, <1>12, <1>13, <1>14 DEF Proper, q

\* Time alone changes nothing but deadlines.
LEMMA LetTimePassStep ==
    ASSUME NEW r \in Block
    PROVE  LET q == LetTimePass(r)
           IN  Proper(q, r) /\ (Viewed(r) => Viewed(q))
<1> DEFINE u == Sooner(r.until)
           d == Sooner(r.due)
           i == Sooner(r.integrityDue)
           q == LetTimePass(r)
<1>1. /\ q.owner = r.owner /\ q.reserved = r.reserved /\ q.rptEna = r.rptEna
      /\ q.deferred = r.deferred /\ q.stray = r.stray /\ SameRing(q, r)
  BY LetTimePassType
<1>2. q = [r EXCEPT !.until = u, !.due = d, !.integrityDue = i, !.out = <<>>]
  BY DEF LetTimePass, Block
<1> HIDE DEF u, d, i
<1>3. SameConfig(q, r)
  BY <1>2 DEF Block, SameConfig
<1> HIDE DEF q
<1>4. Proper(q, r)
  BY <1>1, <1>3, ProperKept DEF SameConfig
<1>5. Viewed(r) => Viewed(q)
  BY <1>1, <1>3 DEF Viewed, SameConfig, Holder
<1> QED BY <1>4, <1>5 DEF q

(***************************************************************************)
(* Every step of the engine is proper, for every block.                    *)
(***************************************************************************)

\* What a Write request leaves alone is quiet.
LEMMA WriteBlockProper ==
    ASSUME IInv, NEW a \in Assoc, NEW b \in Blocks, NEW q, WriteBlock(a, b, q),
           Becomes(q, Quiet(rcb[b]))
    PROVE  \A c \in Blocks : Becomes(rcb'[c], rcb[c])
<1> SUFFICES ASSUME NEW c \in Blocks PROVE Becomes(rcb'[c], rcb[c])
  OBVIOUS
<1>1. rcb[c] \in Block
  BY DEF IInv, BlocksInv, BlockInv
<1>2. Proper(Quiet(rcb[c]), rcb[c]) /\ (Viewed(rcb[c]) => Viewed(Quiet(rcb[c])))
  BY <1>1, QuietStep
<1>3. rcb'[c] = IF c = b THEN q ELSE Quiet(rcb[c])
  BY DEF WriteBlock
<1>4. CASE c = b
  BY <1>1, <1>2, <1>3, <1>4, ProperAfterQuiet DEF Becomes
<1>5. CASE c # b
  BY <1>2, <1>3, <1>5 DEF Becomes
<1> QED BY <1>4, <1>5

\* Every variable a Write request names (acsi.rs:943-1120).
LEMMA WriteProper ==
    ASSUME IInv, NEW a \in Assoc, WriteRequest(a)
    PROVE  \A c \in Blocks : Becomes(rcb'[c], rcb[c])
<1> DEFINE Goal == \A c \in Blocks : Becomes(rcb'[c], rcb[c])
<1>1. \A b \in Blocks : rcb[b] \in Block
  BY DEF IInv, BlocksInv, BlockInv
<1>2. Opened \cap Ended = {}
  BY DEF Opened, Ended
<1>3. ASSUME NEW b \in Blocks, Serving(a)
      PROVE  LET r == Quiet(rcb[b])
             IN  /\ a \in Opened /\ r \in Block /\ SameClaims(r, rcb[b])
                 /\ BlockInv(r, Opened, Ended, Publishers \cup {a})
                 /\ Claims(r) /\ Ring(r)
  BY <1>3, BeforeWrite DEF BlockInv, Sound
<1>4. ASSUME rcb' = [b \in Blocks |-> Quiet(rcb[b])]
      PROVE  Goal
  BY <1>1, <1>4, QuietStep DEF Becomes
<1>5. ASSUME WriteRefused(a)
      PROVE  Goal
  BY <1>4, <1>5 DEF WriteRefused
<1>6. ASSUME NEW m \in Member, WriteValue(a, m)
      PROVE  Goal
  BY <1>4, <1>6 DEF WriteValue
<1>7. ASSUME NEW ds \in DataSet, CreateDataSet(a, ds) \/ DeleteDataSet(a, ds)
      PROVE  Goal
  BY <1>4, <1>7 DEF CreateDataSet, DeleteDataSet
<1>8. ASSUME NEW b \in Blocks, NEW s \in Clock, WriteRptEnaTrue(a, b, s)
      PROVE  Goal
  <2> DEFINE r == Quiet(rcb[b])
             q == Enabled(r, defined, a, s)
  <2>1. Serving(a) /\ WriteBlock(a, b, q) /\ s \in Nat
    BY <1>8 DEF WriteRptEnaTrue, WriteBlock, Clock
  <2>2. r \in Block /\ Ring(r)
    BY <1>3, <2>1
  <2>3. Becomes(q, r)
    <3> HIDE DEF r
    <3> QED BY <2>1, <2>2, EnabledStep DEF Becomes
  <2> HIDE DEF q
  <2> QED BY <2>1, <2>3, WriteBlockProper
<1>9. ASSUME NEW b \in Blocks, NEW fits \in Fits, WriteRptEnaFalse(a, b, fits)
      PROVE  Goal
  <2> DEFINE r == Quiet(rcb[b])
             q == Disabled(r, fits)
  <2>1. Serving(a) /\ WriteBlock(a, b, q) /\ fits \in BOOLEAN
    BY <1>9 DEF WriteRptEnaFalse, WriteBlock, Fits
  <2>2. r \in Block
    BY <1>3, <2>1
  <2>3. Becomes(q, r)
    <3> HIDE DEF r
    <3> QED BY <2>1, <2>2, DisabledStep DEF Becomes
  <2> HIDE DEF q
  <2> QED BY <2>1, <2>3, WriteBlockProper
<1>10. ASSUME NEW b \in Blocks, NEW fits \in Fits, WriteRelease(a, b, fits)
       PROVE  Goal
  <2> DEFINE r == Quiet(rcb[b])
             q == Released(r, a, fits)
  <2>1. Serving(a) /\ WriteBlock(a, b, q) /\ fits \in BOOLEAN
    BY <1>10 DEF WriteRelease, WriteBlock, Fits
  <2>2. a \in Opened /\ BlockInv(r, Opened, Ended, Publishers \cup {a})
    BY <1>3, <2>1
  <2>3. Becomes(q, r)
    <3> HIDE DEF r
    <3> QED BY <1>2, <2>1, <2>2, ReleasedStep DEF Becomes
  <2> HIDE DEF q
  <2> QED BY <2>1, <2>3, WriteBlockProper
<1>11. ASSUME NEW b \in Blocks, NEW fits \in Fits, NEW l \in Lingers \cup {None},
              WriteReservation(a, b, l, fits)
       PROVE  Goal
  <2> DEFINE r == Quiet(rcb[b])
             q == Reserved(r, a, l, fits)
  <2>1. /\ Serving(a) /\ WriteBlock(a, b, q) /\ MayReserve(rcb[b], a)
        /\ fits \in BOOLEAN /\ l \in Nat \cup {None}
    BY <1>11, ReportBlockAssumption DEF WriteReservation, WriteBlock, Fits
  <2>2. /\ a \in Opened /\ BlockInv(r, Opened, Ended, Publishers \cup {a})
        /\ SameClaims(r, rcb[b])
    BY <1>3, <2>1
  <2>3. MayReserve(r, a)
    BY <2>1, <2>2 DEF MayReserve, TakenByOther, SameClaims
  <2>4. Becomes(q, r)
    <3> HIDE DEF r
    <3> QED BY <1>2, <2>1, <2>2, <2>3, ReservedStep DEF Becomes
  <2> HIDE DEF q
  <2> QED BY <2>1, <2>4, WriteBlockProper
<1>12. ASSUME NEW b \in Blocks, NEW n \in Nat, NEW on \in BOOLEAN,
              WriteGI(a, b, on) \/ WritePurgeBuf(a, b, on) \/ WriteEntryID(a, b, n)
       PROVE  Goal
  <2> DEFINE r == Quiet(rcb[b])
  <2>1. PICK q \in {[r EXCEPT !.gi = on], [r EXCEPT !.purge = on],
                    [r EXCEPT !.entryID = n]} : WriteBlock(a, b, q)
    BY <1>12 DEF WriteGI, WritePurgeBuf, WriteEntryID
  <2>2. r \in Block
    BY <1>3, <2>1 DEF WriteBlock
  <2>3. Becomes(q, r)
    <3> HIDE DEF r
    <3> QED BY <2>2, SettingStep DEF Becomes
  <2> QED BY <2>1, <2>3, WriteBlockProper
<1>13. ASSUME NEW b \in Blocks, Serving(a), MayConfigure(rcb[b], a)
       PROVE  ~Quiet(rcb[b]).rptEna
  BY <1>3, <1>13 DEF MayConfigure, SameClaims
<1>14. ASSUME NEW b \in Blocks, NEW ds \in DataSet, WriteDatSet(a, b, ds)
       PROVE  Goal
  <2> DEFINE r == Quiet(rcb[b])
             q == Redirected(r, ds)
  <2>1. Serving(a) /\ WriteBlock(a, b, q) /\ MayConfigure(rcb[b], a)
    BY <1>14 DEF WriteDatSet, WriteBlock
  <2>2. r \in Block /\ Claims(r) /\ ~r.rptEna
    BY <1>3, <1>13, <2>1
  <2>3. Becomes(q, r)
    <3> HIDE DEF r
    <3> QED BY <2>2, RedirectedStep DEF Becomes
  <2> HIDE DEF q
  <2> QED BY <2>1, <2>3, WriteBlockProper
<1>15. ASSUME NEW b \in Blocks, NEW p \in IntgPds, WriteIntgPd(a, b, p)
       PROVE  Goal
  <2> DEFINE r == Quiet(rcb[b])
             q == [r EXCEPT !.intgPd = p]
  <2>1. Serving(a) /\ WriteBlock(a, b, q) /\ MayConfigure(rcb[b], a) /\ p \in Nat
    BY <1>15, ReportBlockAssumption DEF WriteIntgPd, WriteBlock
  <2>2. r \in Block /\ Claims(r) /\ ~r.rptEna
    BY <1>3, <1>13, <2>1
  <2>3. Becomes(q, r)
    <3> HIDE DEF r
    <3> QED BY <2>1, <2>2, IntgPdStep DEF Becomes
  <2> HIDE DEF q
  <2> QED BY <2>1, <2>3, WriteBlockProper
<1>16. EntryIDs \subseteq Nat
  BY DEF EntryIDs
<1> HIDE DEF Goal
<1>17. ASSUME NEW b \in Blocks, NEW on \in BOOLEAN, WriteGI(a, b, on) \/ WritePurgeBuf(a, b, on)
       PROVE  Goal
  <2>1. 0 \in Nat
    OBVIOUS
  <2> QED BY <1>12, <1>17, <2>1
<1>18. ASSUME NEW b \in Blocks, NEW n \in EntryIDs, WriteEntryID(a, b, n)
       PROVE  Goal
  <2>1. TRUE \in BOOLEAN /\ n \in Nat
    BY <1>16
  <2> QED BY <1>12, <1>18, <2>1
<1>19. ASSUME NEW b \in Blocks, NEW w \in Structures, NEW n \in Taken,
              WriteStructure(a, b, w, n)
       PROVE  Goal
  <2> DEFINE r == Quiet(rcb[b])
             q == Overwritten(r, w, n)
  <2>1. Serving(a) /\ WriteBlock(a, b, q) /\ w \in Structure
    BY <1>19, ReportEngineAssumption DEF WriteStructure, WriteBlock
  <2>2. r \in Block
    BY <1>3, <2>1
  <2>3. Becomes(q, r)
    <3> HIDE DEF r
    <3> QED BY <2>1, <2>2, OverwrittenStep
  <2> HIDE DEF q
  <2> QED BY <2>1, <2>3, WriteBlockProper DEF Goal
<1>20. Goal
  BY <1>5, <1>6, <1>7, <1>8, <1>9, <1>10, <1>11, <1>14, <1>15, <1>17, <1>18, <1>19
     DEF WriteRequest
<1> QED BY <1>20 DEF Goal

\* Every step of the engine.
LEMMA NextProper ==
    IInv /\ [Next]_vars => \A c \in Blocks : Becomes(rcb'[c], rcb[c])
<1> SUFFICES ASSUME IInv, [Next]_vars
             PROVE  \A c \in Blocks : Becomes(rcb'[c], rcb[c])
  OBVIOUS
<1>1. /\ \A b \in Blocks : /\ BlockInv(rcb[b], Opened, Ended, Publishers)
                           /\ rcb[b] \in Block /\ Sound(rcb[b])
      /\ dirty \subseteq Member /\ Clock \subseteq Nat
  BY DEF IInv, BlocksInv, BlockInv, Threads, Clock
<1>2. Opened \cap Ended = {}
  BY DEF Opened, Ended
<1>3. ASSUME NEW a \in Assoc, Open(a)
      PROVE  \A c \in Blocks : Becomes(rcb'[c], rcb[c])
  BY <1>1, <1>3, QuietStep DEF Open, Becomes
<1>4. ASSUME NEW a \in Assoc, Close(a)
      PROVE  \A c \in Blocks : Becomes(rcb'[c], rcb[c])
  <2>1. a \in Opened /\ \A c \in Blocks : rcb'[c] = Closed(rcb[c], a)
    BY <1>4 DEF Close, Opened
  <2> QED BY <1>1, <1>2, <2>1, ClosedStep DEF Becomes
<1>5. ASSUME NEW D \in SUBSET Member, NEW s \in Nat,
             rcb' = [b \in Blocks |-> Committed(rcb[b], defined, D, s)]
      PROVE  \A c \in Blocks : Becomes(rcb'[c], rcb[c])
  BY <1>1, <1>5, CommittedStep DEF Becomes
<1>6. ASSUME NEW a \in Assoc, NEW s \in Clock, Publish(a, s)
      PROVE  \A c \in Blocks : Becomes(rcb'[c], rcb[c])
  BY <1>1, <1>5, <1>6 DEF Publish
<1>7. ASSUME NEW D \in SUBSET Member, Transact(D)
      PROVE  \A c \in Blocks : Becomes(rcb'[c], rcb[c])
  <2>1. dirty \cup D \in SUBSET Member
    BY <1>1
  <2> QED BY <1>5, <1>7, <2>1 DEF Transact
<1>8. ASSUME NEW a \in Assoc, NEW s \in Clock, Poll(a, s)
      PROVE  \A c \in Blocks : Becomes(rcb'[c], rcb[c])
  <2>1. s \in Nat /\ \A c \in Blocks : rcb'[c] = TimedOut(rcb[c], defined, s)
    BY <1>1, <1>8 DEF Poll
  <2> QED BY <1>1, <1>2, <2>1, TimedOutStep DEF Becomes
<1>9. CASE Tick
  BY <1>1, <1>9, LetTimePassStep DEF Tick, Becomes
<1>10. CASE UNCHANGED vars
  <2>1. rcb' = rcb
    BY <1>10 DEF vars
  <2>2. \A c \in Blocks : Proper(rcb[c], rcb[c])
    BY <1>1, ProperKept DEF SameRing
  <2> QED BY <2>1, <2>2 DEF Becomes
<1> QED
  BY <1>3, <1>4, <1>6, <1>7, <1>8, <1>9, <1>10, WriteProper DEF Next

(***************************************************************************)
(* The theorems.                                                           *)
(***************************************************************************)

\* A reservation that lingers for an association that has ended is that
\* association's until its time is up (rcb.rs:260-281, 336-362), whatever
\* other clients write and however late a poll reads the clock.
THEOREM LeaseIsHonoured == Spec => LeaseHonoured
<1>1. IInv /\ [Next]_vars =>
        [\A b \in Blocks :
           LET r == rcb[b]
           IN  r.until # Never /\ rcb'[b].reserved # r.reserved => r.until <= 0]_vars
  BY NextProper DEF Becomes, Proper, KeepsLease
<1> QED BY <1>1, Invariance, PTL DEF Spec, LeaseHonoured

\* The data set and the integrity period of a block stay what they are while
\* the block is enabled, and ConfRev moves exactly when the data set does
\* (rcb.rs:282-298), misfit writes included, as long as RptEna is what the engine
\* made of it: a Write of the block as a structure (acsi.rs:1143-1157) ends that.
THEOREM ReconfiguredOnlyWhenIdle == Spec => ReconfiguredOnlyIdle
<1>1. IInv /\ [Next]_vars =>
        [\A b \in Blocks :
           LET r == rcb[b]
               q == rcb'[b]
           IN  "RptEna" \notin r.stray /\ "RptEna" \notin q.stray =>
                 /\ r.owner # None => q.datSet = r.datSet /\ q.intgPd = r.intgPd
                 /\ q.confRev # r.confRev <=> q.datSet # r.datSet]_vars
  BY NextProper DEF Becomes, Proper, ReconfiguresIdle
<1> QED BY <1>1, Invariance, PTL DEF Spec, ReconfiguredOnlyIdle

\* An entry leaves the ring only from its old end, because the ring is full,
\* and with a notice (rcb.rs:446-549), for every length of the ring.
THEOREM RingAgesWithNotice == Spec => AgesOnlyWithNotice
<1>1. IInv /\ [Next]_vars =>
        [\A b \in Blocks :
           LET r == rcb[b]
               q == rcb'[b]
               old == Len(r.buffer)
           IN  \/ r.purge /\ ~q.purge
               \/ \E k \in 0 .. old :
                    /\ old - k <= Len(q.buffer)
                    /\ \A i \in (k + 1) .. old : q.buffer[i - k] = r.buffer[i]
                    /\ \A j \in (old - k + 1) .. Len(q.buffer) :
                          q.buffer[j].id >= r.nextEntry
                    /\ k > 0 => /\ Len(q.buffer) = BufferLen
                                /\ \/ q.overflowed
                                   \/ \E i \in DOMAIN q.out : q.out[i].ovfl]_vars
  BY NextProper DEF Becomes, Proper, AgesWell, Shifted, Noticed
<1> QED BY <1>1, Invariance, PTL DEF Spec, AgesOnlyWithNotice

\* A client that resumes after an EntryID gets everything younger that the
\* block still has, in order, or is told with BufOvfl (rcb.rs:739-793).
THEOREM ResumingIsExact == Spec => ResumeIsExact
<1>1. IInv /\ [Next]_vars =>
        [\A b \in Blocks :
           LET r == rcb[b]
               had == Len(r.deferred)
               given == SubSeq(rcb'[b].deferred, had + 1, Len(rcb'[b].deferred))
           IN  given # <<>> =>
                 /\ \A i, j \in DOMAIN given : i < j => given[i].id < given[j].id
                 /\ \/ given[1].ovfl
                    \/ {given[i].id : i \in DOMAIN given} =
                         {id \in {r.buffer[i].id : i \in DOMAIN r.buffer} :
                              id > r.entryID}]_vars
  BY NextProper DEF Becomes, Proper, Resumes, Exact
<1> QED BY <1>1, Invariance, PTL DEF Spec, ResumeIsExact

\* However a buffered block is left and resumed, what a client misses it is
\* told of, at the old end of the ring and at the point it resumes from
\* (rcb.rs:446-549, 739-793).
THEOREM NothingIsMissedUnseen == Spec => NothingMissedUnseen
BY RingAgesWithNotice, ResumingIsExact, PTL DEF NothingMissedUnseen

\* The engine's record of a claim and the one clients read agree after every
\* request, expiry and end (rcb.rs:218-349, acsi.rs:722-731, 1104-1140), except
\* in the leaf a client has itself put out of step, by writing the block as a
\* structure (acsi.rs:1143-1157) or with a value the store refuses
\* (acsi.rs:1105-1106), and in that one until the engine next writes it.
THEOREM TwoViewsAlwaysAgree == Spec => []TwoViewsAgree
<1> DEFINE Views == \A b \in Blocks : Viewed(rcb[b])
<1>1. Init => Views
  <2> SUFFICES ASSUME Init, NEW b \in Blocks PROVE Viewed(rcb[b])
    OBVIOUS
  <2>1. PICK k \in Kinds, ds \in DataSet \ Deletable, p \in IntgPds :
          rcb[b] = NewBlock(k, ds, p)
    BY DEF Init, Engineered
  <2> QED BY <2>1 DEF NewBlock, Viewed, Holder
<1>2. Views /\ IInv /\ [Next]_vars => Views'
  <2> SUFFICES ASSUME Views, IInv, [Next]_vars, NEW b \in Blocks
               PROVE  Viewed(rcb'[b])
    BY DEF Viewed, Holder
  <2> QED BY NextProper DEF Becomes
<1>3. Views => TwoViewsAgree
  BY DEF Viewed, TwoViewsAgree, OneFactTwoViews, OwnerShown
<1> HIDE DEF Views
<1> QED BY <1>1, <1>2, <1>3, Invariance, PTL DEF Spec
=============================================================================
