---------------------------- MODULE ReportDelivery ----------------------------
(***************************************************************************)
(* A report on its way to the application: split into segments that fit    *)
(* what the peer accepts, sent, kept in the association's event queue,     *)
(* joined by the client's assembler and queued for the application.        *)
(*                                                                         *)
(* A member is a number of octets; an entry knows the report it was made   *)
(* for, so that what the application is handed can be compared with it.    *)
(***************************************************************************)
EXTENDS Integers, SequencesExt

CONSTANTS
    Subscribed,      \* the report control blocks the client has enabled
    Numbered,        \* those whose OptFlds ask for SqNum
    Templates,       \* the reports there are: the size of each member
    Header,          \* octets of a report besides its members
    SubHeader,       \* octets of SubSeqNum and MoreSegmentsFollow
    PeerPdus,        \* what a client may say it accepts
    SegmentFloor,    \* MIN_SEGMENT_BUDGET
    EventCap,        \* events the association keeps
    RunCap,          \* reports the assembler has in parts at a time
    EntryCap,        \* entries a joined report may have
    InboxCap,        \* items kept for the application
    MaxEmitted,      \* bound: reports made
    MaxReenabled     \* bound: times a client enables a block again

SqModulus == 256     \* SqNum of an unbuffered block; a buffered one counts further

ASSUME DeliveryAssumption ==
    /\ {EventCap, RunCap, EntryCap, InboxCap} \subseteq Nat \ {0}
    /\ {Header, SubHeader, SegmentFloor, MaxEmitted, MaxReenabled} \subseteq Nat
    /\ PeerPdus \subseteq Nat \ {0}
    /\ Numbered \subseteq Subscribed
    /\ \A t \in Templates : Len(t) > 0

VARIABLES
    peerPdu,     \* what the client said it accepts
    numbering,   \* per block, the next SqNum and how often it has been enabled
    transit,     \* what was sent and has not arrived
    arrivals,    \* the association's event queue
    runs,        \* the assembler's reports in parts
    inbox,       \* what waits for the application
    sentPast     \* history: reports made, handed over, and whether any was lost

deliveryVars == <<peerPdu, numbering, transit, arrivals, runs, inbox, sentPast>>

DeliveryInit ==
    /\ peerPdu \in PeerPdus
    /\ numbering = [b \in Subscribed |-> [sq |-> 0, epoch |-> 0]]
    /\ transit = <<>> /\ arrivals = <<>> /\ runs = <<>> /\ inbox = <<>>
    /\ sentPast = [made |-> 0, handed |-> 0, lost |-> FALSE]

-----------------------------------------------------------------------------
(* The server: segments.                                                   *)

SumOf(sizes) == FoldLeft(LAMBDA a, b : a + b, 0, sizes)
Budget == IF peerPdu > SegmentFloor THEN peerPdu ELSE SegmentFloor

Entries(t, from, to, serial, epoch) ==
    {[serial |-> serial, epoch |-> epoch, of |-> Len(t), index |-> i] : i \in from .. to}

\* One segment: the entries from start that fit, one whatever its size.
CountFrom(t, start) ==
    LET fits == {k \in 1 .. Len(t) - start + 1 :
                     k = 1 \/ Header + SubHeader + SumOf(SubSeq(t, start, start + k - 1)) <= Budget}
    IN  Max(fits)

\* Where the segments of a report begin.
Starts(t) ==
    FoldLeft(LAMBDA starts, i : IF i = Last(starts) + CountFrom(t, Last(starts)) THEN Append(starts, i) ELSE starts,
             <<1>>, [i \in 1 .. Len(t) |-> i])

Segments(t, key, serial, epoch) ==
    IF Header + SumOf(t) <= Budget
    THEN <<[key |-> key, segmented |-> FALSE, sub |-> 0, more |-> FALSE,
            size |-> Header + SumOf(t), entries |-> Entries(t, 1, Len(t), serial, epoch)]>>
    ELSE LET starts == Starts(t)
             end(i) == IF i < Len(starts) THEN starts[i + 1] - 1 ELSE Len(t)
         IN  [i \in 1 .. Len(starts) |->
                 [key |-> key, segmented |-> TRUE, sub |-> i - 1, more |-> i < Len(starts),
                  size |-> Header + SubHeader + SumOf(SubSeq(t, starts[i], end(i))),
                  entries |-> Entries(t, starts[i], end(i), serial, epoch)]]

\* A report is made, split and sent; a segment longer than what the peer
\* accepts is refused by the association, and nobody looks at the refusal.
EmitReport ==
    /\ sentPast.made < MaxEmitted
    /\ \E b \in Subscribed, t \in Templates :
        LET key  == [block |-> b, sq |-> IF b \in Numbered THEN numbering[b].sq ELSE SqModulus]
            segs == Segments(t, key, sentPast.made + 1, numbering[b].epoch)
        IN  /\ transit' = transit \o SelectSeq(segs, LAMBDA s : s.size <= peerPdu)
            /\ numbering' = [numbering EXCEPT ![b].sq = (@ + 1) % SqModulus]
            /\ sentPast' = [sentPast EXCEPT !.made = @ + 1,
                                            !.lost = @ \/ \E i \in 1 .. Len(segs) : segs[i].size > peerPdu]
    /\ UNCHANGED <<peerPdu, arrivals, runs, inbox>>

\* The block is disabled and enabled again on the same association: it counts
\* from zero, and the assembler keeps what it holds.
Reenable ==
    /\ \E b \in Subscribed :
        /\ numbering[b].epoch < MaxReenabled
        /\ numbering' = [numbering EXCEPT ![b] = [sq |-> 0, epoch |-> @.epoch + 1]]
    /\ UNCHANGED <<peerPdu, transit, arrivals, runs, inbox, sentPast>>

-----------------------------------------------------------------------------
(* The client's association: a bounded event queue that loses its oldest.  *)

Arrive ==
    /\ transit # <<>>
    /\ LET full == Len(arrivals) >= EventCap
       IN  /\ arrivals' = Append(IF full THEN Tail(arrivals) ELSE arrivals, Head(transit))
           /\ sentPast' = [sentPast EXCEPT !.lost = @ \/ full]
    /\ transit' = Tail(transit)
    /\ UNCHANGED <<peerPdu, numbering, runs, inbox>>

-----------------------------------------------------------------------------
(* The assembler: push, start, merge.                                      *)

\* c is the client: its runs, its inbox, what was handed over and lost.
SwapRemove(s, i) == IF i = Len(s) THEN SubSeq(s, 1, i - 1) ELSE [SubSeq(s, 1, Len(s) - 1) EXCEPT ![i] = Last(s)]

Hand(c, key, entries, joined) ==
    LET kept == IF Len(c.inbox) >= InboxCap THEN Tail(c.inbox) ELSE c.inbox
    IN  [c EXCEPT !.inbox = Append(kept, [key |-> key, entries |-> entries, joined |-> joined]), !.handed = @ + 1]

Lost(c) == [c EXCEPT !.lost = TRUE]

\* A segment that begins a run. One that says nothing follows is taken for a
\* whole report, whatever its number.
Start(c, s) ==
    IF ~s.more THEN Hand(c, s.key, s.entries, FALSE)
    ELSE IF s.sub # 0 \/ Cardinality(s.entries) > EntryCap THEN Lost(c)
    ELSE LET room == IF Len(c.runs) >= RunCap THEN [Lost(c) EXCEPT !.runs = Tail(@)] ELSE c
         IN  [room EXCEPT !.runs = Append(@, [key |-> s.key, next |-> 1, entries |-> s.entries])]

\* A segment that follows the last of its run.
Merge(c, i, s) ==
    LET run == [c.runs[i] EXCEPT !.entries = @ \cup s.entries, !.next = s.sub + 1]
    IN  IF Cardinality(run.entries) > EntryCap THEN [Lost(c) EXCEPT !.runs = SwapRemove(@, i)]
        ELSE IF s.more THEN [c EXCEPT !.runs[i] = run]
        ELSE Hand([c EXCEPT !.runs = SwapRemove(@, i)], s.key, run.entries, TRUE)

RunOf(c, s) == {i \in 1 .. Len(c.runs) : c.runs[i].key = s.key}

PushAny(c, s) ==
    IF ~s.segmented THEN Hand(c, s.key, s.entries, FALSE)
    ELSE IF RunOf(c, s) = {} THEN Start(c, s)
    ELSE Merge(c, Min(RunOf(c, s)), s)

\* A segment out of turn abandons its run, and may begin another.
Push(c, s) ==
    IF ~s.segmented THEN Hand(c, s.key, s.entries, FALSE)
    ELSE IF RunOf(c, s) = {} THEN Start(c, s)
    ELSE LET i == Min(RunOf(c, s))
         IN  IF s.sub # c.runs[i].next THEN Start([Lost(c) EXCEPT !.runs = SwapRemove(@, i)], s)
             ELSE Merge(c, i, s)

\* The client takes every event there is.
Drain ==
    /\ arrivals # <<>>
    /\ LET c == FoldLeft(Push, [runs |-> runs, inbox |-> inbox, handed |-> sentPast.handed, lost |-> sentPast.lost], arrivals)
       IN  /\ runs' = c.runs
           /\ inbox' = c.inbox
           /\ sentPast' = [sentPast EXCEPT !.handed = c.handed, !.lost = c.lost]
    /\ arrivals' = <<>>
    /\ UNCHANGED <<peerPdu, numbering, transit>>

NextReport ==
    /\ inbox # <<>>
    /\ inbox' = Tail(inbox)
    /\ UNCHANGED <<peerPdu, numbering, transit, arrivals, runs, sentPast>>

DeliveryNext == EmitReport \/ Reenable \/ Arrive \/ Drain \/ NextReport

-----------------------------------------------------------------------------
(* Properties.                                                             *)

\* Of one report, of one numbering, and all of it.
OfOne(entries) == \A e, f \in entries : e.serial = f.serial
OfOneNumbering(entries) == \A e, f \in entries : e.epoch = f.epoch
AllOf(entries) == \A e \in entries : 1 .. e.of \subseteq {f.index : f \in entries}

\* A report joined from segments has no hole in it, whatever was lost of it on
\* the way; it is made of two reports only where both go by one RptID and SqNum:
\* the block sends no SqNum, or began to count again in between.
JoinedWhole ==
    \A i \in 1 .. Len(inbox) :
        LET r == inbox[i]
        IN  r.joined => /\ OfOne(r.entries) => AllOf(r.entries)
                        /\ r.key.block \in Numbered /\ OfOneNumbering(r.entries) => OfOne(r.entries)

\* As long as nothing was refused, evicted or given up, all that is handed over
\* is whole, whether or not its block is numbered or began to count again;
\* everything made is handed over; and the assembler is left with nothing.
\* Once something was lost the last segment of a report may come alone, and is
\* handed over as it is (report.rs:402-406): no claim is made of it.
NothingLostNothingKept ==
    ~sentPast.lost =>
        /\ \A i \in 1 .. Len(inbox) : OfOne(inbox[i].entries) /\ AllOf(inbox[i].entries)
        /\ transit = <<>> /\ arrivals = <<>> => runs = <<>> /\ sentPast.handed = sentPast.made
=============================================================================
