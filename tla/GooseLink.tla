------------------------------ MODULE GooseLink ------------------------------
(***************************************************************************)
(* A GOOSE publisher and a subscriber over an Ethernet that delays, loses,   *)
(* duplicates and reorders frames, with an application at each end: one      *)
(* that changes the data set, crashes and comes back, and one that knows     *)
(* nothing but the subscriber's events.                                     *)
(*                                                                         *)
(* Both ends are driven by their deadlines: time does not pass while a       *)
(* timer is due or a frame is waiting to be collected.                      *)
(***************************************************************************)
EXTENDS GooseSubscriber, FiniteSets

CONSTANTS
    MaxDelay,      \* ticks a frame may spend on the network
    Boot,          \* ticks from a crash to the first frame
    Configs,       \* revision and ndsCom a publisher may be started with
    SimModes,      \* how the subscriber may be configured
    Expected,      \* revisions it may be configured with; None adopts one
    Toggles,       \* whether the publisher's simulation flag is ever changed
    MaxVersion,    \* bound: publications and restarts
    MaxInFlight    \* bound: frames on the network

ASSUME GooseLinkAssumption ==
    /\ {MaxDelay, Boot, MaxVersion, MaxInFlight} \subseteq Nat
    /\ Configs \subseteq ConfRevs \X BOOLEAN
    /\ SimModes \subseteq Modes
    /\ Expected \subseteq ConfRevs \cup {None}
    /\ Toggles \in BOOLEAN
    /\ None \notin Frame

VARIABLES
    pub,     \* the publisher
    boot,    \* ticks until it has restarted
    net,     \* frames on their way, with the copies and the time they have left
    sub,     \* the subscriber
    app,     \* what the receiving application believes: the values, if valid
    lost     \* frames in a row that never came, since the last one accepted

vars == <<pub, boot, net, sub, app, lost>>

InFlight == [frame : Frame, copies : 1 .. 2, heard : BOOLEAN, ttl : 0 .. MaxDelay]

Belief == [valid : BOOLEAN, version : Nat]
Invalid == [valid |-> FALSE, version |-> 0]

Init ==
    /\ \E c \in Configs : pub = NewPublisher(1, c[1], c[2])
    /\ boot = 0
    /\ net = {}
    /\ \E mode \in SimModes, rev \in Expected : sub = NewSubscriber(mode, rev)
    /\ app = Invalid
    /\ lost = 0

\* An application that goes by the events alone: by the last of them that says
\* anything about the values.
Telling == {"state", "expired", "takeover"}

Heard(belief, e) ==
    IF e.kind = "state" THEN [valid |-> TRUE, version |-> e.version]
                        ELSE [belief EXCEPT !.valid = FALSE]

Believe(belief, events) ==
    LET told == {i \in DOMAIN events : events[i].kind \in Telling}
    IN  IF told = {} THEN belief
        ELSE Heard(belief, events[CHOOSE i \in told : \A j \in told : j <= i])

More(n) == IF n = 2 THEN n ELSE n + 1

(***************************************************************************)
(* The publishing side.                                                    *)
(***************************************************************************)
Running == boot = 0

\* A frame that is overwritten before it is collected is never sent.
Replaced == IF pub.frame = None THEN lost ELSE More(lost)

ChangeState ==
    /\ Running
    /\ pub.version < MaxVersion
    /\ pub' = Publish(pub, pub.version + 1)
    /\ lost' = Replaced
    /\ UNCHANGED <<boot, net, sub, app>>

Repeat ==
    /\ Running /\ pub.next = 0
    /\ pub' = OnTimeout(pub)
    /\ lost' = Replaced
    /\ UNCHANGED <<boot, net, sub, app>>

Toggle ==
    /\ Running /\ Toggles
    /\ pub' = SetSimulation(pub, ~pub.sim)
    /\ UNCHANGED <<boot, net, sub, app, lost>>

Transmit ==
    /\ Running /\ pub.frame # None
    /\ Cardinality(net) < MaxInFlight
    /\ \E copies \in 1 .. 2 :
          net' = net \cup {[frame |-> pub.frame, copies |-> copies,
                            heard |-> FALSE, ttl |-> MaxDelay]}
    /\ pub' = Collected(pub)
    /\ UNCHANGED <<boot, sub, app, lost>>

\* The publisher restarts with the values it then has, perhaps under another
\* configuration.  What it had not sent is gone.
Crash ==
    /\ Running
    /\ pub.version < MaxVersion
    /\ \E c \in Configs : pub' = NewPublisher(pub.version + 1, c[1], c[2])
    /\ boot' = Boot
    /\ lost' = 2
    /\ UNCHANGED <<net, sub, app>>

(***************************************************************************)
(* The network and the subscribing side.                                   *)
(***************************************************************************)
Deliver(e) ==
    /\ e \in net
    /\ sub' = OnFrame(sub, e.frame)
    /\ app' = Believe(app, sub'.out)
    /\ net' = (net \ {e}) \cup
                 (IF e.copies = 2 THEN {[e EXCEPT !.copies = 1, !.heard = TRUE]}
                                  ELSE {})
    /\ lost' = IF Accepts(sub') THEN 0 ELSE IF e.heard THEN lost ELSE More(lost)
    /\ UNCHANGED <<pub, boot>>

Lose(e) ==
    /\ e \in net
    /\ net' = net \ {e}
    /\ lost' = IF e.heard THEN lost ELSE More(lost)
    /\ UNCHANGED <<pub, boot, sub, app>>

Wake ==
    /\ Live(sub) /\ sub.last.expires = 0
    /\ sub' = CheckExpiry(Quieted(sub))
    /\ app' = Believe(app, sub'.out)
    /\ UNCHANGED <<pub, boot, net, lost>>

\* The application ends a test, and trusts nothing until it hears again.
EndTest ==
    /\ sub' = ResetSimulation(Quieted(sub))
    /\ app' = [app EXCEPT !.valid = FALSE]
    /\ UNCHANGED <<pub, boot, net, lost>>

Less(n) == IF n = 0 THEN 0 ELSE n - 1

Tick ==
    /\ Running => pub.next > 0 /\ pub.frame = None
    /\ Live(sub) => sub.last.expires > 0
    /\ \A e \in net : e.ttl > 0
    /\ boot' = Less(boot)
    /\ pub' = [pub EXCEPT !.next = Less(@)]
    /\ net' = {[e EXCEPT !.ttl = @ - 1] : e \in net}
    /\ sub' = IF sub.last = None THEN Quieted(sub)
              ELSE [Quieted(sub) EXCEPT !.last.expires = Less(@)]
    /\ UNCHANGED <<app, lost>>

Next ==
    \/ ChangeState \/ Repeat \/ Toggle \/ Transmit \/ Crash
    \/ \E e \in net : Deliver(e) \/ Lose(e)
    \/ Wake \/ EndTest \/ Tick

Spec == Init /\ [][Next]_vars

\* Time passes and both ends meet their deadlines; of infinitely many frames
\* the network loses some, but not all.
Fairness ==
    /\ WF_vars(Tick) /\ WF_vars(Repeat) /\ WF_vars(Transmit) /\ WF_vars(Wake)
    /\ SF_vars(\E e \in net : Deliver(e))

FairSpec == Spec /\ Fairness

-----------------------------------------------------------------------------
TypeOK ==
    /\ pub \in Publisher
    /\ boot \in 0 .. Boot
    /\ net \subseteq InFlight
    /\ sub \in Subscriber
    /\ app \in Belief
    /\ lost \in 0 .. 2

\* The application believes its values valid exactly while the subscriber has
\* a live state, although the subscriber tells it by events only, and forgets
\* states for other reasons than their age (subscriber.rs:325-400).
BeliefIsBacked == app.valid <=> Live(sub)

\* Both ends, the network and the application stay in their types, and the
\* application and its subscriber of one mind.
BeliefIsRight == TypeOK /\ BeliefIsBacked

\* What the application holds while it believes it is what the last accepted
\* frame carried: a retransmission never carries other values than the state
\* it is taken for, and a new state is never one the application has seen
\* already or an older one (subscriber.rs:478-511).
StatesInOrder ==
    [][sub' # sub => \A i \in DOMAIN sub'.out :
         LET e == sub'.out[i]
             told == Believe(app, SubSeq(sub'.out, 1, i - 1))
         IN  /\ e.kind = "retransmission" =>
                  told.valid /\ told.version = e.version
             /\ e.kind = "state" /\ told.valid => told.version < e.version]_vars

\* A subscription whose publisher is running expires only when frames were
\* lost: timeAllowedtoLive covers the wait for the next frame, at every point
\* of the curve (publisher.rs:33-52).
ExpiresForALoss ==
    [][Running /\ ~sub.expired /\ sub'.expired => lost > 0]_vars

\* Once a test set is followed no frame of the real publisher gets through
\* until the application ends the test.
TestIsExclusive ==
    [][\A e \in net : Deliver(e) /\ sub.simulated /\ Accepts(sub') => e.frame.sim]_vars

\* Only frames of the source that is followed get through, and only forward.
OnlyTheNextState == StatesInOrder /\ TestIsExclusive

\* The subscriber comes to believe what the publisher has, however often the
\* network loses frames, if it may follow the publisher at all.
Followed ==
    /\ sub.mode = "off" => ~pub.sim
    /\ sub.mode = "preferred" => pub.sim \/ ~sub.simulated
    /\ sub.confRev \in {None, pub.confRev}

CatchesUp == <>[]Followed => []<>(app.valid /\ app.version = pub.version)
=============================================================================
