----------------------------- MODULE SvSubscriber ----------------------------
(***************************************************************************)
(* The sampled-value subscriber (proto/sv/subscriber.rs) with one stream:  *)
(* a record, and what a frame, the timer and the application do to it.  A  *)
(* frame hands samples to the consumer at once, in `given`; what happened  *)
(* to the stream waits in a bounded queue, `events`.                       *)
(***************************************************************************)
EXTENDS SampleLayout

CONSTANTS
    None,
    SubRate,      \* StreamConfig::samples_per_second
    SubFieldTop,  \* counts of a 16-bit smpCnt
    StaleAfter,   \* stale_after_ms, in ticks
    Capacity,     \* events the queue holds
    LostTop       \* bound: samples_lost is kept modulo LostTop

ASSUME SvSubscriberAssumption ==
    /\ {SubRate, SubFieldTop, StaleAfter, Capacity, LostTop} \subseteq Nat \ {0}

StreamWrap == IF SubRate > SubFieldTop THEN SubFieldTop ELSE SubRate

SimulationModes == {"off", "preferred"}
EventKinds == {"gap", "sync", "grandmaster", "revision", "length", "ignored", "takeover", "stale", "resumed", "malformed"}

NewStream(mode, revision, layout) ==
    [mode |-> mode, revision |-> revision, layout |-> layout,
     last |-> None, confRev |-> None, synch |-> None, gm |-> None, lost |-> 0, heard |-> FALSE,
     simActive |-> FALSE, stale |-> FALSE, deadline |-> None,
     revReported |-> FALSE, simReported |-> FALSE, lenReported |-> FALSE,
     given |-> <<>>, events |-> <<>>, dropped |-> FALSE]

\* EventQueue::push: a full queue drops its oldest event, and counts it.
Report(s, kind) ==
    [s EXCEPT !.events = Append(IF Len(@) >= Capacity THEN Tail(@) ELSE @, kind),
              !.dropped = @ \/ Len(s.events) >= Capacity]

ReportOnce(s, kind, reported) == IF reported THEN s ELSE Report(s, kind)

\* SubscriptionStatus::from_sv: a stream that never spoke is not live either.
StreamLive(s) == s.heard /\ ~s.stale

CheckStale(s) ==
    IF s.deadline = 0 /\ ~s.stale THEN Report([s EXCEPT !.stale = TRUE, !.deadline = None], "stale") ELSE s

ResetSimulation(s) == [s EXCEPT !.simActive = FALSE, !.last = None]

SimulationAdmits(s, sim) == IF s.mode = "off" THEN ~sim ELSE sim \/ ~s.simActive

\* simulation_policy_admits: what it notes of a frame, admitted or not.
AfterSimulation(s, sim) ==
    CASE s.mode = "off" /\ ~sim -> [s EXCEPT !.simReported = FALSE]
      [] s.mode = "off" /\ sim -> [ReportOnce(s, "ignored", s.simReported) EXCEPT !.simReported = TRUE]
      [] s.mode = "preferred" /\ sim /\ ~s.simActive ->
             Report([s EXCEPT !.simActive = TRUE, !.last = None], "takeover")
      [] OTHER -> s

Expects(s, a) == s.revision \in {None, a.confRev}
Fits(s, a) == s.layout = None \/ LayoutFits(s.layout, a.block)

\* Samples that a count says are missing, the short way round.
Missing(s, a) == IF s.last = None THEN 0 ELSE ((a.cnt + StreamWrap) - ((s.last + 1) % StreamWrap)) % StreamWrap
Adjacent(s, a) == s.last = None \/ a.cnt = (s.last + 1) % StreamWrap

Counted(s, a) == IF Adjacent(s, a) THEN s ELSE Report([s EXCEPT !.lost = (@ + Missing(s, a)) % LostTop], "gap")
Clocked(s, a) == IF s.synch = a.synch THEN s ELSE [Report(s, "sync") EXCEPT !.synch = a.synch]
Mastered(s, a) == IF s.gm = a.gm THEN s ELSE [Report(s, "grandmaster") EXCEPT !.gm = a.gm]

\* Mutant: a stream that comes back is not reported.
ResumedSilent(s) == [s EXCEPT !.stale = FALSE]

Resumed(s) == IF s.stale THEN Report([s EXCEPT !.stale = FALSE], "resumed") ELSE s

\* Mutant: the timer is armed by the first sample and by no other.
RearmedOnce(s) == IF s.heard THEN s.deadline ELSE StaleAfter

Rearmed(s) == StaleAfter

\* accept: the facts about the stream in the order the code reports them.
Accepted(s, a, sim) ==
    LET t == Resumed(Mastered(Clocked(Counted([s EXCEPT !.revReported = FALSE, !.lenReported = FALSE], a), a), a))
    IN  [t EXCEPT !.confRev = a.confRev, !.last = a.cnt, !.heard = TRUE, !.deadline = Rearmed(s),
                  !.given = Append(@, [asdu |-> a, sim |-> sim])]

\* One ASDU of our stream; one of another svID is passed over.
OnAsdu(s, a, sim) ==
    LET t == AfterSimulation(s, sim)
    IN  CASE ~a.ours -> s
          [] a.ours /\ ~SimulationAdmits(s, sim) -> t
          [] a.ours /\ SimulationAdmits(s, sim) /\ ~Expects(t, a) -> [ReportOnce(t, "revision", t.revReported) EXCEPT !.revReported = TRUE]
          [] a.ours /\ SimulationAdmits(s, sim) /\ Expects(t, a) /\ ~Fits(t, a) ->
                 [ReportOnce(t, "length", t.lenReported) EXCEPT !.lenReported = TRUE, !.revReported = FALSE]
          [] OTHER -> Accepted(t, a, sim)

\* The ASDUs of a frame in turn, each by the stream the one before it left.
OnAsdus(s, f) ==
    LET after[n \in 0 .. Len(f.asdus)] == IF n = 0 THEN s ELSE OnAsdu(after[n - 1], f.asdus[n], f.sim)
    IN  after[Len(f.asdus)]

\* A frame of ours decodes as a whole before any of its ASDUs is looked at;
\* one that does not is reported when its address is readable and ours.
SvOnFrame(s, f) ==
    LET t == CheckStale([s EXCEPT !.given = <<>>])
    IN  CASE ~f.addressed -> t
          [] f.addressed /\ ~f.decodes -> Report(t, "malformed")
          [] OTHER -> OnAsdus(t, f)

SvOnTimeout(s) == CheckStale([s EXCEPT !.given = <<>>])

\* What a frame of a publisher is read as: SavPduView and AsduView.
Seen(confRev, asdu) ==
    [ours |-> TRUE, cnt |-> asdu.cnt.value, confRev |-> confRev, synch |-> asdu.synch.value,
     refr |-> asdu.refr, gm |-> asdu.gm, block |-> asdu.block]
SvFrame(confRev, asdus) ==
    [addressed |-> TRUE, decodes |-> TRUE, sim |-> FALSE, asdus |-> [i \in DOMAIN asdus |-> Seen(confRev, asdus[i])]]
=============================================================================
