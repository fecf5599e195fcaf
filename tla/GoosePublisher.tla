--------------------------- MODULE GoosePublisher ---------------------------
(***************************************************************************)
(* The GOOSE publisher (src/src/proto/goose/publisher.rs): one record, and   *)
(* the operations an application drives it with.  The time to the next       *)
(* transmission is kept as what remains of it.                              *)
(*                                                                         *)
(* Data set values are told apart by the publication that made them, so     *)
(* that `version` stands for the encoded body of a frame.                   *)
(***************************************************************************)
EXTENDS Integers

CONSTANTS
    None,        \* "nothing": no frame, no state, no revision
    MinTime,     \* T1, the interval after a change of state
    MaxTime,     \* T0, the interval of the steady state
    TalFactor,   \* timeAllowedtoLive in intervals
    StTop,       \* largest stNum, 2^32 - 1
    SqTop,       \* largest sqNum, 2^32 - 1
    SentTop,     \* where the count of transmissions of a state saturates
    ConfRevs     \* configuration revisions a publisher may be engineered with

ASSUME GoosePublisherAssumption ==
    /\ {MinTime, MaxTime, TalFactor} \subseteq Nat
    /\ {StTop, SqTop, SentTop} \subseteq Nat \ {0}
    /\ ConfRevs \subseteq Nat
    /\ None \notin Nat

(***************************************************************************)
(* The retransmission curve.                                               *)
(***************************************************************************)
Shortest == IF MinTime = 0 THEN 1 ELSE MinTime
Longest  == IF MaxTime < Shortest THEN Shortest ELSE MaxTime

\* The interval after the n-th transmission of a state: T1 twice, doubling
\* from there on, and T0 once that is reached.
IntervalAfter(n) ==
    LET doubled == Shortest * 2^(n - 1)
    IN  IF n <= 1 THEN Shortest
        ELSE IF n > 31 \/ doubled >= Longest THEN Longest ELSE doubled

\* Mutant: timeAllowedtoLive is the interval itself.
TalAfterOne(n) == IntervalAfter(n)

TalAfter(n) == IntervalAfter(n) * (IF TalFactor = 0 THEN 1 ELSE TalFactor)

(***************************************************************************)
(* The publisher.                                                          *)
(***************************************************************************)
Frame == [st : 1 .. StTop, sq : 0 .. SqTop, tal : Nat, sim : BOOLEAN,
          confRev : ConfRevs, nds : BOOLEAN, version : Nat]

Publisher == [st : 1 .. StTop, sq : 0 .. SqTop, version : Nat, sim : BOOLEAN,
              confRev : ConfRevs, nds : BOOLEAN, sent : 0 .. SentTop,
              next : Nat, frame : Frame \cup {None}]

NewPublisher(version, confRev, nds) ==
    [st |-> 1, sq |-> 0, version |-> version, sim |-> FALSE,
     confRev |-> confRev, nds |-> nds, sent |-> 0, next |-> 0, frame |-> None]

\* Counters wrap to 1: 0 is an sqNum that marks a change, and no stNum.
Advanced(n, top) == IF n = top THEN 1 ELSE n + 1

\* The next frame replaces one that nobody has collected.
Build(p) ==
    [p EXCEPT !.frame = [st |-> p.st, sq |-> p.sq, tal |-> TalAfter(p.sent),
                         sim |-> p.sim, confRev |-> p.confRev, nds |-> p.nds,
                         version |-> p.version],
              !.sent = IF @ = SentTop THEN @ ELSE @ + 1,
              !.sq = Advanced(@, SqTop),
              !.next = IntervalAfter(p.sent)]

\* Mutant: new values under the number of the old ones.
PublishSame(p, version) ==
    Build([p EXCEPT !.version = version, !.sq = 0, !.sent = 0])

Publish(p, version) ==
    Build([p EXCEPT !.version = version, !.st = Advanced(@, StTop),
                    !.sq = 0, !.sent = 0])

OnTimeout(p) == IF p.next = 0 THEN Build(p) ELSE p

SetSimulation(p, on) == [p EXCEPT !.sim = on]

Collected(p) == [p EXCEPT !.frame = None]
=============================================================================
