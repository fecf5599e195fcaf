-------------------------------- MODULE SvLink -------------------------------
(***************************************************************************)
(* A merging unit and a subscriber of its stream, over an Ethernet that     *)
(* delays, loses, duplicates and reorders frames, and an application that  *)
(* knows the samples it is handed and the events it takes when it likes.   *)
(*                                                                         *)
(* A tick is the time of one frame.  The merging unit measures the samples *)
(* of each tick; one that is late for a tick loses them, and then takes    *)
(* its count from the time (set_smp_cnt).  It comes back from a crash at   *)
(* the top of a second, where an unsynchronised count begins.              *)
(***************************************************************************)
EXTENDS SvPublisher, SvSubscriber, FiniteSets

CONSTANTS
    Period,        \* samples after which the clock of the model comes round
    MaxDelay,      \* ticks a frame may spend on the network
    MaxInFlight,   \* bound: frames on the network
    Clocks,        \* what the merging unit's clock may say: smpSynch and gmIdentity
    Streams,       \* how the subscriber may be configured
    Strangers,     \* frames of others, and broken ones, that it receives
    BlockLayout    \* the layout the merging unit writes by

ASSUME SvLinkAssumption ==
    /\ {Period, MaxDelay, MaxInFlight} \subseteq Nat
    /\ Period % Wrap = 0 /\ Period > Wrap /\ Period % Asdus = 0
    /\ LayoutLen(BlockLayout) = SampleLen
    /\ None \notin Nat
    /\ \A s \in Streams :
           /\ s.mode \in SimulationModes
           /\ s.layout # None => \A i \in DOMAIN s.layout : s.layout[i].kind \in ChannelKinds
    /\ \A f \in Strangers : /\ f.addressed \in BOOLEAN /\ f.decodes \in BOOLEAN /\ f.sim \in BOOLEAN
                           /\ f.asdus \in Seq([ours : BOOLEAN, cnt : Nat, confRev : Nat, synch : Nat, refr : Nat,
                                               gm : Nat, block : Seq(Nat)])

VARIABLES
    unit,   \* the merging unit: its clock, whether it runs, is late, or has
            \* this tick's samples still to publish
    pub,    \* its publisher
    net,    \* frames under way, with the time they have left
    sub,    \* the subscriber
    app,    \* whether the application holds the stream to be live
    truth   \* history of what reached it: the number of the last sample, how many
            \* were measured since, and whether the holes before the samples
            \* just handed over were miscounted, or hidden

vars == <<unit, pub, net, sub, app, truth>>

\* The samples of a tick: what they measure is their number, less half of it.
Measured(n) == (n % Period) - (Period \div 2)
BlockOf(n) ==
    LET blank == ZeroBlock(SampleLen)
    IN  IF MayWrite(BlockLayout, blank, 1, Measured(n)) THEN Write(BlockLayout, blank, 1, Measured(n)) ELSE blank
NumberOf(block) == Value(BlockLayout, block, 1) + (Period \div 2)

Fresh == [last |-> None, sim |-> FALSE, since |-> 0, miscounted |-> FALSE, hidden |-> FALSE]

Init ==
    /\ unit = [clock |-> 0, up |-> TRUE, late |-> FALSE, due |-> TRUE]
    /\ pub = NewSvPublisher
    /\ net = {}
    /\ \E s \in Streams : sub = NewStream(s.mode, s.revision, s.layout)
    /\ app = FALSE
    /\ truth = Fresh

-----------------------------------------------------------------------------
(* The merging unit.                                                       *)

\* The driver of a merging unit: the time of the first sample, the samples.
PublishSamples ==
    /\ unit.up /\ unit.due
    /\ LET p == IF unit.late THEN SetSmpCnt(pub, unit.clock) ELSE pub
       IN  pub' = SvPublish(SetRefrTm(p, unit.clock), [i \in Positions |-> BlockOf(unit.clock + i - 1)])
    /\ unit' = [unit EXCEPT !.due = FALSE, !.late = FALSE]
    /\ UNCHANGED <<net, sub, app, truth>>

\* Bound: one tick in a row.
Miss ==
    /\ unit.up /\ unit.due /\ ~unit.late
    /\ unit' = [unit EXCEPT !.due = FALSE, !.late = TRUE]
    /\ UNCHANGED <<pub, net, sub, app, truth>>

\* The clock gains or loses its reference, or its grandmaster changes; bound:
\* in the first tick of a period.
ClockMoves ==
    /\ unit.up /\ unit.clock = 0
    /\ \E c \in Clocks \ {[synch |-> pub.synch, gm |-> pub.gm]} : pub' = SetGmIdentity(SetSmpSynch(pub, c.synch), c.gm)
    /\ UNCHANGED <<unit, net, sub, app, truth>>

Send ==
    /\ unit.up /\ pub.pending /\ Cardinality(net) < MaxInFlight
    /\ net' = net \cup {[frame |-> SvFrame(1, pub.frame), ttl |-> MaxDelay]}
    /\ pub' = SvCollected(pub)
    /\ UNCHANGED <<unit, sub, app, truth>>

Crash ==
    /\ unit.up
    /\ unit' = [unit EXCEPT !.up = FALSE, !.due = FALSE, !.late = FALSE]
    /\ pub' = NewSvPublisher
    /\ UNCHANGED <<net, sub, app, truth>>

Restart ==
    /\ ~unit.up /\ unit.clock % Wrap = 0
    /\ unit' = [unit EXCEPT !.up = TRUE, !.due = TRUE]
    /\ UNCHANGED <<pub, net, sub, app, truth>>

-----------------------------------------------------------------------------
(* The network and the subscribing side.                                   *)

\* The number a sample has in truth; a test set's is the one it claims.
TrueNumber(x) == IF x.sim THEN x.asdu.cnt ELSE NumberOf(x.asdu.block)

\* Of the samples measured since the last one handed over, up to number n, those
\* that are not among the k handed over now; none where they come again, or after
\* a later one: less than none.
Age(n) == ((unit.clock + Asdus - 1) - n) % Period
Hole(n, k) == truth.since - Age(n) - k

\* samples_lost does not grow by what is missing.
Miscounts(n, k, grown) == Hole(n, k) >= 0 /\ grown # Hole(n, k) % Wrap

\* A hole, or a sample handed over again, that comes to whole seconds does not
\* show in the counts, so the stream must have been stale.
Hides(n, wasStale) == Hole(n, 1) # 0 /\ Hole(n, 1) % Wrap = 0 /\ ~wasStale

\* The history after the subscriber took a frame and became s.  What a test set
\* has measured is not known.
HandedOver(s) ==
    LET start == IF s.simActive # sub.simActive THEN [truth EXCEPT !.last = None] ELSE truth
        first == s.given[1]
        final == s.given[Len(s.given)]
        n == TrueNumber(final)
        known == ~first.sim /\ start.last # None
    IN  IF s.given = <<>> THEN start
        ELSE [last |-> n, sim |-> final.sim,
              since |-> IF final.sim THEN 0 ELSE Age(n),
              miscounted |-> known /\ Miscounts(n, Len(s.given), (s.lost - sub.lost) % Wrap),
              hidden |-> known /\ Hides(TrueNumber(first), CheckStale(sub).stale)]

\* Samples come before events: the first one ever makes the stream live.
Hears(s) ==
    /\ sub' = [s EXCEPT !.given = <<>>]
    /\ app' = (app \/ (~sub.heard /\ s.heard))
    /\ truth' = HandedOver(s)

\* A frame is delivered once or again until the network has done with it.
Deliver(e) ==
    /\ e \in net
    /\ Hears(SvOnFrame(sub, e.frame))
    /\ UNCHANGED <<unit, pub, net>>

Lose(e) ==
    /\ e \in net
    /\ net' = net \ {e}
    /\ UNCHANGED <<unit, pub, sub, app, truth>>

Stray == \E f \in Strangers : Hears(SvOnFrame(sub, f)) /\ UNCHANGED <<unit, pub, net>>

Wake == sub.deadline = 0 /\ Hears(SvOnTimeout(sub)) /\ UNCHANGED <<unit, pub, net>>

\* The application takes what waits.  Told that events were dropped, it looks
\* at the state of the stream instead, as a supervision node does.
Believe(live, events) ==
    LET told == {i \in DOMAIN events : events[i] \in {"stale", "resumed"}}
    IN  IF told = {} THEN live ELSE events[CHOOSE i \in told : \A j \in told : j <= i] = "resumed"
Drain ==
    /\ sub.events # <<>>
    /\ app' = IF sub.dropped THEN StreamLive(sub) ELSE Believe(app, sub.events)
    /\ sub' = [sub EXCEPT !.events = <<>>, !.dropped = FALSE]
    /\ UNCHANGED <<unit, pub, net, truth>>

EndTest ==
    /\ sub.simActive
    /\ sub' = ResetSimulation(sub)
    /\ truth' = [truth EXCEPT !.last = None]
    /\ UNCHANGED <<unit, pub, net, app>>

Later(n) == IF n \in Nat /\ n > 0 THEN n - 1 ELSE n
\* Bound: more than a period ago the model remembers to a second.
Saturated(n) == IF n > Period THEN n - Wrap ELSE n

Tick ==
    /\ sub.deadline # 0
    /\ ~unit.due /\ ~pub.pending
    /\ \A e \in net : e.ttl > 0
    /\ unit' = [unit EXCEPT !.clock = (@ + Asdus) % Period, !.due = unit.up]
    /\ net' = {[e EXCEPT !.ttl = @ - 1] : e \in net}
    /\ sub' = [sub EXCEPT !.deadline = IF @ = None THEN @ ELSE Later(@)]
    /\ truth' = [truth EXCEPT !.since = Saturated(@ + Asdus)]
    /\ UNCHANGED <<pub, app>>

Next ==
    \/ PublishSamples \/ Miss \/ ClockMoves \/ Send \/ Crash \/ Restart
    \/ \E e \in net : Deliver(e) \/ Lose(e)
    \/ Stray \/ Wake \/ Drain \/ EndTest \/ Tick

Spec == Init /\ [][Next]_vars

-----------------------------------------------------------------------------
TypeOK ==
    /\ unit \in [clock : 0 .. Period - 1, up : BOOLEAN, late : BOOLEAN, due : BOOLEAN]
    /\ pub.cnt \in 0 .. Wrap - 1 /\ DOMAIN pub.frame = Positions
    /\ app \in BOOLEAN
    /\ sub.mode \in SimulationModes
    /\ sub.layout # None => \A i \in DOMAIN sub.layout : sub.layout[i].kind \in ChannelKinds
    /\ sub.lost \in 0 .. LostTop - 1
    /\ Len(sub.events) <= Capacity /\ \A i \in DOMAIN sub.events : sub.events[i] \in EventKinds

Frames == {e.frame.asdus : e \in net} \cup (IF pub.pending THEN {SvFrame(1, pub.frame).asdus} ELSE {})

\* Whatever patched or rebuilt it since it was published, a frame that waits
\* or is under way carries consecutive samples whole, each with the count of
\* its number, under one clock; one that waits, under the clock of now.
FramesWhole ==
    /\ \A f \in Frames : \A i \in DOMAIN f :
          LET n == NumberOf(f[1].block) + i - 1
          IN  /\ Channels(BlockLayout, f[i].block) = <<Measured(n), 0>>
              /\ f[i].cnt = (n % Period) % Wrap
              /\ f[i].synch = f[1].synch /\ f[i].gm = f[1].gm
    /\ pub.pending => \A i \in Positions : pub.frame[i].synch.value = pub.synch /\ pub.frame[i].gm = pub.gm

\* Over losses, late ticks, crashes, delays and takeovers samples_lost grows, at
\* each sample that is newer than the last, by as many as the merging unit
\* measured between the two and the subscriber was not handed, modulo the wrap
\* (subscriber.rs:505-515).  A sample that comes again, or after a later one, is
\* counted as most of a second, of which nothing is missing: no claim is made.
LossIsCounted == ~truth.miscounted

\* A sample that is not the next one, or comes again, never passes for it: where
\* the counts do not show it, over whole seconds, the stream went stale, and came
\* back, before the sample.
NoHiddenHole == ~truth.hidden

\* The application is told of every sample it does not get, by a count or by
\* the end of the stream.
LossIsShown == LossIsCounted /\ NoHiddenHole

\* With nothing left to drain, the application holds the stream to be live
\* exactly when the subscriber does, whatever its queue had to drop; and with
\* the timer served, not one that has been silent for a second.
BeliefIsBacked ==
    sub.events = <<>> =>
        /\ app <=> StreamLive(sub)
        /\ app /\ sub.deadline # 0 => truth.since < Wrap

\* The samples of one sequence all come from the test set that took over, or
\* all from the merging unit, whichever of their frames arrive in between.
TestIsExclusive == truth.last # None => (truth.sim <=> sub.simActive)

\* What the application takes its samples for, it can stand by: a stream that
\* lives, and one source.
StreamIsAsBelieved == TypeOK /\ BeliefIsBacked /\ TestIsExclusive

-----------------------------------------------------------------------------
(* What the theorems assume of a network and of those who configure it.    *)

\* The subscriber knows the stream's rate; losses are counted as they show.
SameStream == StreamWrap = Wrap /\ LostTop = Wrap

\* A sample that arrives is not older than a second, nor is the silence in
\* which a stream becomes stale.
Timely == (MaxDelay + StaleAfter) * Asdus <= Wrap /\ (MaxDelay + 1) * Asdus < Wrap

\* Nobody else sends what the subscriber takes for the merging unit's samples.
OneSource ==
    \A f \in Strangers : f.addressed /\ f.decodes /\ ~f.sim =>
        \A i \in DOMAIN f.asdus, s \in Streams : ~(f.asdus[i].ours /\ Expects(s, f.asdus[i]) /\ Fits(s, f.asdus[i]))

\* Octets spell what was written: a count in the field that is laid out for
\* the largest, a clock's state in a field that is no narrower than its own,
\* a measurement in its block.
Synchs == {0} \cup {c.synch : c \in Clocks}
Wide(u, v) == u = v \/ FieldWidth(u, 1) >= FieldWidth(v, 1)
Spelled ==
    /\ \A n \in 0 .. Wrap - 1 : Patched(NewField(Wrap - 1, 2), n).value = n
    /\ \A u, v \in Synchs : Wide(u, v) => Patched(NewField(u, 1), v).value = v
    /\ \A n \in 0 .. Period - 1 : NumberOf(BlockOf(n)) = n /\ Channels(BlockLayout, BlockOf(n)) = <<Measured(n), 0>>
=============================================================================
