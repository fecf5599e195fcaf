------------------------------ MODULE GooseProofs -----------------------------
(***************************************************************************)
(* Proofs about GooseLink, for every retransmission curve, every width of   *)
(* the counters, every network and every configuration of the two ends.     *)
(***************************************************************************)
EXTENDS GooseLink, FiniteSetTheorems, SequenceTheorems, TLAPS

USE DEF Modes

-----------------------------------------------------------------------------
(* The publisher *)

LEMMA PowerType ==
    ASSUME NEW n \in Nat
    PROVE  2^n \in Nat
<1>1. IsFiniteSet(1 .. n) /\ Cardinality(1 .. n) = n
  BY FS_Interval
<1>2. IsFiniteSet(SUBSET (1 .. n)) /\ Cardinality(SUBSET (1 .. n)) = 2^n
  BY <1>1, FS_SUBSET
<1> QED BY <1>2, FS_CardinalityType

LEMMA IntervalType ==
    ASSUME NEW n \in Nat
    PROVE  IntervalAfter(n) \in Nat /\ TalAfter(n) \in Nat
<1>1. Shortest \in Nat /\ Longest \in Nat
  BY GoosePublisherAssumption DEF Shortest, Longest
<1>2. IntervalAfter(n) \in Nat
  <2>1. CASE n <= 1
    BY <1>1, <2>1 DEF IntervalAfter
  <2>2. CASE ~(n <= 1)
    <3>1. n - 1 \in Nat
      BY <2>2
    <3>2. 2^(n - 1) \in Nat
      BY <3>1, PowerType
    <3>3. Shortest * 2^(n - 1) \in Nat
      BY <1>1, <3>2
    <3> QED BY <1>1, <3>3, <2>2 DEF IntervalAfter
  <2> QED BY <2>1, <2>2
<1>3. (IF TalFactor = 0 THEN 1 ELSE TalFactor) \in Nat
  BY GoosePublisherAssumption
<1>4. IntervalAfter(n) * (IF TalFactor = 0 THEN 1 ELSE TalFactor) \in Nat
  BY <1>2, <1>3
<1> QED BY <1>2, <1>4 DEF TalAfter

LEMMA AdvancedType ==
    ASSUME NEW top \in Nat \ {0}, NEW n \in 0 .. top
    PROVE  Advanced(n, top) \in 1 .. top
BY DEF Advanced

LEMMA BuildType ==
    ASSUME NEW p \in Publisher
    PROVE  Build(p) \in Publisher
<1> DEFINE frame == [st |-> p.st, sq |-> p.sq, tal |-> TalAfter(p.sent), sim |-> p.sim,
                     confRev |-> p.confRev, nds |-> p.nds, version |-> p.version]
           sent == IF p.sent = SentTop THEN p.sent ELSE p.sent + 1
           sq == Advanced(p.sq, SqTop)
           next == IntervalAfter(p.sent)
<1>1. /\ p.st \in 1 .. StTop /\ p.sq \in 0 .. SqTop /\ p.sim \in BOOLEAN /\ p.confRev \in ConfRevs
      /\ p.nds \in BOOLEAN /\ p.version \in Nat /\ p.sent \in 0 .. SentTop
  BY DEF Publisher
<1>2. p.sent \in Nat
  BY <1>1
<1>3. frame \in Frame
  <2>1. TalAfter(p.sent) \in Nat
    BY <1>2, IntervalType
  <2> QED BY <1>1, <2>1 DEF Frame
<1>4. sent \in 0 .. SentTop
  BY <1>1, GoosePublisherAssumption
<1>5. sq \in 0 .. SqTop
  <2>1. sq \in 1 .. SqTop
    BY <1>1, AdvancedType, GoosePublisherAssumption
  <2> HIDE DEF sq
  <2> QED BY <2>1
<1>6. next \in Nat
  BY <1>2, IntervalType
<1>7. Build(p) = [p EXCEPT !.frame = frame, !.sent = sent, !.sq = sq, !.next = next]
  BY DEF Build
<1> HIDE DEF frame, sent, sq, next
<1> QED BY <1>3, <1>4, <1>5, <1>6, <1>7 DEF Publisher

LEMMA NewPublisherType ==
    ASSUME NEW version \in Nat, NEW c \in Configs
    PROVE  NewPublisher(version, c[1], c[2]) \in Publisher
<1>1. c[1] \in ConfRevs /\ c[2] \in BOOLEAN
  BY GooseLinkAssumption
<1>2. 1 \in 1 .. StTop /\ 0 \in 0 .. SqTop /\ 0 \in 0 .. SentTop
  BY GoosePublisherAssumption
<1> QED BY <1>1, <1>2 DEF NewPublisher, Publisher

LEMMA PublishType ==
    ASSUME NEW p \in Publisher, NEW version \in Nat
    PROVE  Publish(p, version) \in Publisher
<1> DEFINE st == Advanced(p.st, StTop)
           q == [p EXCEPT !.version = version, !.st = st, !.sq = 0, !.sent = 0]
<1>1. st \in 1 .. StTop
  <2>1. p.st \in 0 .. StTop
    BY DEF Publisher
  <2> QED BY <2>1, AdvancedType, GoosePublisherAssumption
<1>2. 0 \in 0 .. SqTop /\ 0 \in 0 .. SentTop
  BY GoosePublisherAssumption
<1>3. Publish(p, version) = Build(q)
  BY DEF Publish
<1> HIDE DEF st
<1>4. q \in Publisher
  BY <1>1, <1>2 DEF Publisher
<1> QED BY <1>3, <1>4, BuildType

-----------------------------------------------------------------------------
(* What an application makes of the events *)

LEMMA BelieveNothing ==
    ASSUME NEW b
    PROVE  Believe(b, <<>>) = b
BY DEF Believe

\* A set of places of a sequence has a last one.
LEMMA LastPlace ==
    ASSUME NEW n \in Nat, NEW I, I \subseteq 1 .. n, I # {}
    PROVE  \E i \in I : \A j \in I : j <= i
<1> DEFINE T == {n - i : i \in I}
<1>1. T \subseteq Nat /\ T # {}
  <2>1. \A i \in I : n - i \in Nat
    OBVIOUS
  <2>2. T \subseteq Nat
    BY <2>1
  <2>3. T # {}
    <3>1. PICK i \in I : TRUE
      OBVIOUS
    <3>2. n - i \in T
      BY <3>1
    <3> QED BY <3>2
  <2> QED BY <2>2, <2>3
<1>2. \E R : IsWellFoundedOn(R, Nat) /\ \A a, b \in Nat : a < b => <<a, b>> \in R
  <2>1. \A a, b \in Nat : a < b => <<a, b>> \in OpToRel(<, Nat)
    BY Zenon DEF OpToRel
  <2> QED BY <2>1, NatLessThanWellFounded, Zenon
<1>3. PICK R : IsWellFoundedOn(R, Nat) /\ \A a, b \in Nat : a < b => <<a, b>> \in R
  BY <1>2
<1>4. IsWellFoundedOn(R, Nat)
  BY <1>3
<1> HIDE DEF T
<1>5. \E x \in T : \A y \in T : ~(<<y, x>> \in R)
  BY <1>1, <1>4, WFMin, Zenon
<1>6. PICK x \in T : \A y \in T : ~(<<y, x>> \in R)
  BY <1>5
<1>7. \A y \in T : ~(y < x)
  BY <1>1, <1>3, <1>6
<1>8. PICK i \in I : x = n - i
  BY <1>6 DEF T
<1>9. \A j \in I : j <= i
  <2> TAKE j \in I
  <2>1. n - j \in T /\ i \in Nat /\ j \in Nat
    BY DEF T
  <2> QED BY <1>7, <1>8, <2>1
<1> QED BY <1>9

LEMMA BelieveAppend ==
    ASSUME NEW b, NEW q \in Seq(Event), NEW ev \in Event
    PROVE  /\ ev.kind \in Telling => Believe(b, Append(q, ev)) = Heard(b, ev)
           /\ ev.kind \notin Telling => Believe(b, Append(q, ev)) = Believe(b, q)
<1> DEFINE r == Append(q, ev)
           n == Len(q)
           old == {i \in DOMAIN q : q[i].kind \in Telling}
           new == {i \in DOMAIN r : r[i].kind \in Telling}
           last(I) == CHOOSE i \in I : \A j \in I : j <= i
<1>1. n \in Nat /\ DOMAIN q = 1 .. n
  OBVIOUS
<1>2. /\ r \in Seq(Event) /\ Len(r) = n + 1
      /\ \A i \in 1 .. n : r[i] = q[i]
      /\ r[n + 1] = ev
  BY AppendProperties
<1>3. DOMAIN r = 1 .. n + 1
  BY <1>2
<1>4. Believe(b, q) = (IF old = {} THEN b ELSE Heard(b, q[last(old)]))
  BY DEF Believe
<1>5. Believe(b, r) = (IF new = {} THEN b ELSE Heard(b, r[last(new)]))
  BY DEF Believe
<1> HIDE DEF r, n
<1>6. CASE ev.kind \in Telling
  <2>1. n + 1 \in new /\ \A j \in new : j <= n + 1 /\ j \in Int
    BY <1>1, <1>2, <1>3, <1>6
  <2>2. last(new) = n + 1
    <3> HIDE DEF new
    <3>1. last(new) \in new /\ \A j \in new : j <= last(new)
      BY <2>1
    <3>2. last(new) <= n + 1 /\ n + 1 <= last(new) /\ last(new) \in Int
      BY <2>1, <3>1
    <3> HIDE DEF last
    <3> QED BY <3>2, <1>1
  <2>3. new # {}
    BY <2>1
  <2> QED BY <1>2, <1>5, <1>6, <2>2, <2>3 DEF r
<1>7. CASE ev.kind \notin Telling
  <2>1. new = old
    BY <1>1, <1>2, <1>3, <1>7
  <2>2. CASE old = {}
    BY <1>4, <1>5, <1>7, <2>1, <2>2 DEF r
  <2>3. CASE old # {}
    <3>1. \E i \in old : \A j \in old : j <= i
      <4>1. old \subseteq 1 .. n
        BY <1>1
      <4> HIDE DEF old
      <4> QED BY <1>1, <4>1, <2>3, LastPlace
    <3> HIDE DEF old
    <3>2. last(old) \in old
      BY <3>1
    <3> HIDE DEF last
    <3>3. r[last(old)] = q[last(old)]
      BY <3>2, <1>1, <1>2 DEF old
    <3> HIDE DEF new
    <3> QED BY <1>4, <1>5, <1>7, <2>1, <2>3, <3>3 DEF r
  <2> QED BY <2>2, <2>3
<1> QED BY <1>6, <1>7 DEF r

-----------------------------------------------------------------------------
(* The subscriber *)

\* The subscriber is of its type, and whoever believed b and hears its events
\* believes its values valid exactly if it is live.
Backed(b, s) ==
    /\ s \in Subscriber
    /\ Believe(b, s.out) \in Belief
    /\ Believe(b, s.out).valid <=> Live(s)

\* The same before a state is established: b is then whatever it will be told.
Typed(b, s) == s \in Subscriber /\ Believe(b, s.out) \in Belief

LEMMA HeardType ==
    ASSUME NEW b \in Belief, NEW ev \in Event
    PROVE  Heard(b, ev) \in Belief /\ (Heard(b, ev).valid <=> ev.kind = "state")
BY DEF Heard, Belief, Event

LEMMA EmitType ==
    ASSUME NEW b \in Belief, NEW s, Typed(b, s), NEW kind \in Events, NEW version \in Nat
    PROVE  /\ Typed(b, Emit(s, kind, version))
           /\ Live(Emit(s, kind, version)) = Live(s)
           /\ Emit(s, kind, version).last = s.last /\ Emit(s, kind, version).expired = s.expired
           /\ Emit(s, kind, version).nds = s.nds
           /\ kind \in Telling => (Believe(b, Emit(s, kind, version).out).valid <=> kind = "state")
           /\ kind \notin Telling => Believe(b, Emit(s, kind, version).out) = Believe(b, s.out)
<1> DEFINE ev == [kind |-> kind, version |-> version]
           x == [s EXCEPT !.out = Append(s.out, ev)]
<1>1. s \in Subscriber /\ s.out \in Seq(Event) /\ ev \in Event /\ ev.kind = kind
  BY DEF Typed, Subscriber, Event
<1>2. Append(s.out, ev) \in Seq(Event)
  BY <1>1, AppendProperties
<1>3. Emit(s, kind, version) = x
  BY DEF Emit
<1> HIDE DEF ev
<1>4. x \in Subscriber
  BY <1>1, <1>2 DEF Subscriber
<1>5. /\ x.last = s.last /\ x.expired = s.expired /\ x.nds = s.nds
      /\ x.out = Append(s.out, ev)
  BY <1>1 DEF Subscriber
<1> HIDE DEF x
<1>6. Live(x) = Live(s)
  BY <1>5 DEF Live
<1>7. kind \in Telling => Believe(b, x.out) = Heard(b, ev)
  <2>1. ev.kind \in Telling => Believe(b, Append(s.out, ev)) = Heard(b, ev)
    BY <1>1, BelieveAppend, Zenon
  <2> QED BY <1>1, <1>5, <2>1, Zenon
<1>8. kind \notin Telling => Believe(b, x.out) = Believe(b, s.out)
  <2>1. ev.kind \notin Telling => Believe(b, Append(s.out, ev)) = Believe(b, s.out)
    BY <1>1, BelieveAppend, Zenon
  <2> QED BY <1>1, <1>5, <2>1, Zenon
<1>9. Heard(b, ev) \in Belief /\ (Heard(b, ev).valid <=> kind = "state")
  BY <1>1, HeardType
<1>10. Believe(b, x.out) \in Belief
  BY <1>7, <1>8, <1>9 DEF Typed
<1> QED BY <1>3, <1>4, <1>5, <1>6, <1>7, <1>8, <1>9, <1>10 DEF Typed

\* What an operation sets besides the events.
LEMMA SetType ==
    ASSUME NEW b, NEW s, Typed(b, s)
    PROVE  /\ Typed(b, [s EXCEPT !.expired = TRUE])
           /\ Typed(b, [s EXCEPT !.simulated = TRUE]) /\ Typed(b, [s EXCEPT !.simulated = FALSE])
           /\ Typed(b, [s EXCEPT !.ignored = TRUE]) /\ Typed(b, [s EXCEPT !.ignored = FALSE])
           /\ Typed(b, [s EXCEPT !.misrevised = TRUE]) /\ Typed(b, [s EXCEPT !.misrevised = FALSE])
           /\ Typed(b, ForgetSource(s))
           /\ \A rev \in ConfRevs : Typed(b, [s EXCEPT !.confRev = rev])
<1>1. s \in Subscriber
  BY DEF Typed
<1>2. Typed(b, [s EXCEPT !.expired = TRUE])
  BY <1>1 DEF Typed, Subscriber
<1>3. Typed(b, [s EXCEPT !.simulated = TRUE]) /\ Typed(b, [s EXCEPT !.simulated = FALSE])
  BY <1>1 DEF Typed, Subscriber
<1>4. Typed(b, [s EXCEPT !.ignored = TRUE]) /\ Typed(b, [s EXCEPT !.ignored = FALSE])
  BY <1>1 DEF Typed, Subscriber
<1>5. Typed(b, [s EXCEPT !.misrevised = TRUE]) /\ Typed(b, [s EXCEPT !.misrevised = FALSE])
  BY <1>1 DEF Typed, Subscriber
<1>6. Typed(b, ForgetSource(s))
  BY <1>1 DEF Typed, Subscriber, ForgetSource
<1>7. \A rev \in ConfRevs : Typed(b, [s EXCEPT !.confRev = rev])
  BY <1>1 DEF Typed, Subscriber
<1> QED BY <1>2, <1>3, <1>4, <1>5, <1>6, <1>7

LEMMA QuietedBacked ==
    ASSUME NEW b \in Belief, NEW s \in Subscriber, b.valid <=> Live(s)
    PROVE  Backed(b, Quieted(s))
<1> DEFINE x == [s EXCEPT !.out = <<>>]
<1>1. x \in Subscriber
  BY EmptySeq DEF Subscriber
<1>2. x.last = s.last /\ x.expired = s.expired /\ x.out = <<>>
  BY DEF Subscriber
<1> HIDE DEF x
<1>3. Believe(b, x.out) = b
  BY <1>2, BelieveNothing
<1>4. Backed(b, x)
  BY <1>1, <1>2, <1>3 DEF Backed, Live
<1> QED BY <1>4 DEF Quieted, x

LEMMA CheckExpiryBacked ==
    ASSUME NEW b \in Belief, NEW s, Backed(b, s)
    PROVE  Backed(b, CheckExpiry(s))
<1>1. CASE ~(Live(s) /\ s.last.expires = 0)
  BY <1>1 DEF CheckExpiry
<1>2. CASE Live(s) /\ s.last.expires = 0
  <2> DEFINE t == [s EXCEPT !.expired = TRUE]
             x == Emit(t, "expired", 0)
  <2>1. Typed(b, t)
    BY SetType DEF Backed, Typed
  <2>2. t.expired
    BY DEF Backed, Subscriber
  <2> HIDE DEF t
  <2>3. "expired" \in Events /\ "expired" \in Telling
    BY DEF Events, Telling
  <2>4. /\ Typed(b, x) /\ Live(x) = Live(t)
        /\ ~Believe(b, x.out).valid
    <3>1. Believe(b, x.out).valid <=> "expired" = "state"
      BY <2>1, <2>3, EmitType
    <3> QED BY <2>1, <2>3, <3>1, EmitType
  <2>5. ~Live(t)
    BY <2>2 DEF Live
  <2>6. CheckExpiry(s) = x
    BY <1>2 DEF CheckExpiry, t
  <2> QED BY <2>4, <2>5, <2>6 DEF Backed, Typed
<1> QED BY <1>1, <1>2

LEMMA NotedBacked ==
    ASSUME NEW b \in Belief, NEW s, Backed(b, s), NEW t, Typed(b, t), t.out = s.out, Live(t) = Live(s),
           NEW kind \in {"ignored", "revision", "replay"}, NEW version \in Nat
    PROVE  Backed(b, t) /\ Backed(b, Emit(t, kind, version))
<1>1. Backed(b, t)
  BY DEF Backed, Typed
<1>2. kind \in Events /\ kind \notin Telling
  BY DEF Events, Telling
<1> QED BY <1>1, <1>2, EmitType DEF Backed, Typed

LEMMA AfterSimulationBacked ==
    ASSUME NEW b \in Belief, NEW s, Backed(b, s), NEW f \in Frame
    PROVE  Backed(b, AfterSimulation(s, f))
<1>1. s \in Subscriber /\ Typed(b, s)
  BY DEF Backed, Typed
<1>2. Backed(b, [s EXCEPT !.ignored = FALSE])
  <2>1. [s EXCEPT !.ignored = FALSE].out = s.out /\ Live([s EXCEPT !.ignored = FALSE]) = Live(s)
    BY <1>1 DEF Subscriber, Live
  <2>2. Typed(b, [s EXCEPT !.ignored = FALSE])
    BY <1>1, SetType
  <2> QED BY <2>1, <2>2, NotedBacked
<1>3. Backed(b, Emit([s EXCEPT !.ignored = TRUE], "ignored", 0))
  <2>1. [s EXCEPT !.ignored = TRUE].out = s.out /\ Live([s EXCEPT !.ignored = TRUE]) = Live(s)
    BY <1>1 DEF Subscriber, Live
  <2>2. Typed(b, [s EXCEPT !.ignored = TRUE])
    BY <1>1, SetType
  <2> QED BY <2>1, <2>2, NotedBacked
<1>4. Backed(b, Emit(ForgetSource([s EXCEPT !.simulated = TRUE]), "takeover", 0))
  <2> DEFINE u == [s EXCEPT !.simulated = TRUE]
             t == ForgetSource(u)
             x == Emit(t, "takeover", 0)
  <2>1. Typed(b, u)
    BY <1>1, SetType
  <2> HIDE DEF u
  <2>2. Typed(b, t) /\ t.last = None
    <3>1. Typed(b, t)
      BY <2>1, SetType, Zenon
    <3>2. u \in Subscriber
      BY <2>1 DEF Typed
    <3>3. t.last = None
      BY <3>2 DEF ForgetSource, Subscriber
    <3> QED BY <3>1, <3>3
  <2> HIDE DEF t
  <2>3. "takeover" \in Events /\ "takeover" \in Telling
    BY DEF Events, Telling
  <2>4. Believe(b, x.out).valid <=> "takeover" = "state"
    BY <2>2, <2>3, EmitType
  <2>5. Typed(b, x) /\ Live(x) = Live(t)
    BY <2>2, <2>3, EmitType
  <2>6. ~Live(t)
    BY <2>2 DEF Live
  <2> QED BY <2>4, <2>5, <2>6 DEF Backed, Typed, t, u
<1> QED BY <1>2, <1>3, <1>4 DEF AfterSimulation

LEMMA AfterRevisionBacked ==
    ASSUME NEW b \in Belief, NEW s, Backed(b, s), NEW f \in Frame
    PROVE  Backed(b, AfterRevision(s, f))
<1>1. s \in Subscriber /\ Typed(b, s) /\ f.confRev \in ConfRevs
  BY DEF Backed, Typed, Frame
<1>2. Backed(b, [s EXCEPT !.confRev = f.confRev])
  <2>1. [s EXCEPT !.confRev = f.confRev].out = s.out /\ Live([s EXCEPT !.confRev = f.confRev]) = Live(s)
    BY <1>1 DEF Subscriber, Live
  <2>2. Typed(b, [s EXCEPT !.confRev = f.confRev])
    BY <1>1, SetType
  <2> QED BY <2>1, <2>2, NotedBacked
<1>3. Backed(b, [s EXCEPT !.misrevised = FALSE])
  <2>1. [s EXCEPT !.misrevised = FALSE].out = s.out /\ Live([s EXCEPT !.misrevised = FALSE]) = Live(s)
    BY <1>1 DEF Subscriber, Live
  <2>2. Typed(b, [s EXCEPT !.misrevised = FALSE])
    BY <1>1, SetType
  <2> QED BY <2>1, <2>2, NotedBacked
<1>4. Backed(b, Emit([s EXCEPT !.misrevised = TRUE], "revision", 0))
  <2>1. [s EXCEPT !.misrevised = TRUE].out = s.out /\ Live([s EXCEPT !.misrevised = TRUE]) = Live(s)
    BY <1>1 DEF Subscriber, Live
  <2>2. Typed(b, [s EXCEPT !.misrevised = TRUE])
    BY <1>1, SetType
  <2> QED BY <2>1, <2>2, NotedBacked
<1> QED BY <1>2, <1>3, <1>4 DEF AfterRevision

\* A frame is accepted with an event after which b believes its values valid,
\* or with a repetition of a state b believes valid already.
LEMMA EstablishedBacked ==
    ASSUME NEW b \in Belief, NEW s, Typed(b, s), Believe(b, s.out).valid, NEW f \in Frame
    PROVE  Backed(b, Established(s, f))
<1> DEFINE last == [st |-> f.st, sq |-> f.sq, expires |-> f.tal]
           t == [s EXCEPT !.last = last, !.expired = FALSE, !.nds = f.nds]
<1>1. last \in Accepted /\ f.nds \in BOOLEAN
  BY DEF Frame, Accepted
<1>2. last # None
  BY <1>1, GooseSubscriberAssumption
<1> HIDE DEF last
<1>3. s \in Subscriber
  BY DEF Typed
<1>4. t \in Subscriber
  BY <1>1, <1>3 DEF Subscriber
<1>5. t.last = last /\ ~t.expired /\ t.out = s.out
  BY <1>3 DEF Subscriber
<1> HIDE DEF t
<1>6. Typed(b, t) /\ Live(t) /\ Backed(b, t)
  BY <1>2, <1>4, <1>5 DEF Typed, Live, Backed
<1>7. "commissioning" \in Events /\ "commissioning" \notin Telling
  BY DEF Events, Telling
<1>8. Backed(b, Emit(t, "commissioning", 0))
  BY <1>6, <1>7, EmitType DEF Backed, Typed
<1> QED BY <1>6, <1>8 DEF Established, t, last

LEMMA JudgedBacked ==
    ASSUME NEW b \in Belief, NEW s, Backed(b, s), NEW f \in Frame
    PROVE  Backed(b, Judged(s, f))
<1>1. Typed(b, s) /\ f.version \in Nat
  BY DEF Backed, Typed, Frame
<1>2. Backed(b, Established(Emit(s, "state", f.version), f))
  <2>1. "state" \in Events /\ "state" \in Telling
    BY DEF Events, Telling
  <2>2. Typed(b, Emit(s, "state", f.version)) /\ Believe(b, Emit(s, "state", f.version).out).valid
    BY <1>1, <2>1, EmitType
  <2> QED BY <2>2, EstablishedBacked
<1>3. Retransmission(s, f) => Backed(b, Established(Emit(s, "retransmission", f.version), f))
  <2>1. "retransmission" \in Events /\ "retransmission" \notin Telling
    BY DEF Events, Telling
  <2>2. /\ Typed(b, Emit(s, "retransmission", f.version))
        /\ Believe(b, Emit(s, "retransmission", f.version).out) = Believe(b, s.out)
    BY <1>1, <2>1, EmitType
  <2> QED BY <2>2, EstablishedBacked DEF Retransmission, Backed
<1>4. Backed(b, Emit(s, "replay", f.version))
  BY <1>1, NotedBacked
<1> QED BY <1>2, <1>3, <1>4 DEF Judged

LEMMA OnFrameBacked ==
    ASSUME NEW b \in Belief, NEW s \in Subscriber, b.valid <=> Live(s), NEW f \in Frame
    PROVE  Backed(b, OnFrame(s, f))
<1> DEFINE s1 == CheckExpiry(Quieted(s))
           s2 == AfterSimulation(s1, f)
           s3 == AfterRevision(s2, f)
<1>1. Backed(b, s1)
  BY QuietedBacked, CheckExpiryBacked
<1> HIDE DEF s1
<1>2. Backed(b, s2)
  BY <1>1, AfterSimulationBacked
<1> HIDE DEF s2
<1>3. Backed(b, s3)
  BY <1>2, AfterRevisionBacked
<1> HIDE DEF s3
<1>4. Backed(b, Judged(s3, f))
  BY <1>3, JudgedBacked
<1> QED BY <1>2, <1>3, <1>4 DEF OnFrame, s1, s2, s3

-----------------------------------------------------------------------------
(* The system *)

\* A step of the network's frames: what is left of one is one of them.
LEMMA InFlightType ==
    ASSUME NEW e \in InFlight
    PROVE  /\ e.frame \in Frame
           /\ [e EXCEPT !.copies = 1, !.heard = TRUE] \in InFlight
           /\ e.ttl > 0 => [e EXCEPT !.ttl = @ - 1] \in InFlight
<1>1. MaxDelay \in Nat
  BY GooseLinkAssumption
<1>2. e.frame \in Frame /\ e.ttl \in 0 .. MaxDelay /\ 1 \in 1 .. 2
  BY DEF InFlight
<1>3. [e EXCEPT !.copies = 1, !.heard = TRUE] \in InFlight
  BY <1>2 DEF InFlight
<1>4. ASSUME e.ttl > 0
      PROVE  [e EXCEPT !.ttl = @ - 1] \in InFlight
  <2>1. e.ttl - 1 \in 0 .. MaxDelay
    BY <1>1, <1>2, <1>4
  <2> QED BY <2>1 DEF InFlight
<1> QED BY <1>2, <1>3, <1>4

\* One more frame that never came: the count stops at two.
LEMMA MoreType ==
    ASSUME NEW n \in 0 .. 2
    PROVE  More(n) \in 0 .. 2
BY DEF More

LEMMA LessType ==
    ASSUME NEW n \in Nat
    PROVE  Less(n) \in 0 .. n
BY DEF Less

LEMMA BeliefStarts ==
    ASSUME Init
    PROVE  BeliefIsRight
<1>1. pub \in Publisher
  <2>1. PICK c \in Configs : pub = NewPublisher(1, c[1], c[2])
    BY DEF Init
  <2> QED BY <2>1, NewPublisherType
<1>2. sub \in Subscriber /\ ~Live(sub)
  <2>1. PICK mode \in SimModes, rev \in Expected : sub = NewSubscriber(mode, rev)
    BY DEF Init
  <2>2. mode \in {"off", "preferred"} /\ rev \in ConfRevs \cup {None}
    BY GooseLinkAssumption
  <2>3. NewSubscriber(mode, rev) \in Subscriber
    BY <2>2, EmptySeq DEF NewSubscriber, Subscriber
  <2>4. NewSubscriber(mode, rev).last = None
    BY DEF NewSubscriber
  <2> QED BY <2>1, <2>3, <2>4 DEF Live
<1>3. app \in Belief /\ ~app.valid
  BY DEF Init, Belief, Invalid
<1>4. boot \in 0 .. Boot /\ net \subseteq InFlight /\ lost \in 0 .. 2
  BY GooseLinkAssumption DEF Init
<1> QED BY <1>1, <1>2, <1>3, <1>4 DEF BeliefIsRight, TypeOK, BeliefIsBacked

\* What the publisher does leaves the other end alone.
LEMMA PublisherKeepsBelief ==
    ASSUME BeliefIsRight, ChangeState \/ Repeat \/ Toggle \/ Transmit \/ Crash
    PROVE  BeliefIsRight'
<1>1. /\ pub \in Publisher /\ pub.version \in Nat /\ boot \in 0 .. Boot
      /\ net \subseteq InFlight /\ lost \in 0 .. 2
  BY DEF BeliefIsRight, TypeOK, Publisher
<1>2. sub' = sub /\ app' = app
  BY DEF ChangeState, Repeat, Toggle, Transmit, Crash
<1>3. sub' \in Subscriber /\ app' \in Belief /\ BeliefIsBacked'
  BY <1>2 DEF BeliefIsRight, TypeOK, BeliefIsBacked
<1>4. Replaced \in 0 .. 2
  BY <1>1, MoreType DEF Replaced
<1> SUFFICES pub' \in Publisher /\ boot' \in 0 .. Boot /\ net' \subseteq InFlight /\ lost' \in 0 .. 2
  BY <1>3 DEF BeliefIsRight, TypeOK
<1>5. CASE ChangeState
  <2>1. pub.version + 1 \in Nat
    BY <1>1
  <2>2. Publish(pub, pub.version + 1) \in Publisher
    BY <1>1, <2>1, PublishType
  <2> QED BY <1>1, <1>4, <1>5, <2>2 DEF ChangeState
<1>6. CASE Repeat
  <2>1. OnTimeout(pub) \in Publisher
    BY <1>1, BuildType DEF OnTimeout
  <2> QED BY <1>1, <1>4, <1>6, <2>1 DEF Repeat
<1>7. CASE Toggle
  <2>1. SetSimulation(pub, ~pub.sim) \in Publisher
    BY <1>1 DEF SetSimulation, Publisher
  <2> QED BY <1>1, <1>7, <2>1 DEF Toggle
<1>8. CASE Transmit
  <2>1. pub.frame \in Frame /\ MaxDelay \in 0 .. MaxDelay
    BY <1>1, <1>8, GooseLinkAssumption DEF Transmit, Publisher
  <2>2. \A copies \in 1 .. 2 : [frame |-> pub.frame, copies |-> copies,
                                heard |-> FALSE, ttl |-> MaxDelay] \in InFlight
    BY <2>1 DEF InFlight
  <2>3. net' \subseteq InFlight
    BY <1>1, <1>8, <2>2 DEF Transmit
  <2>4. Collected(pub) \in Publisher
    BY <1>1 DEF Collected, Publisher
  <2> QED BY <1>1, <1>8, <2>3, <2>4 DEF Transmit
<1>9. CASE Crash
  <2>1. pub.version + 1 \in Nat
    BY <1>1
  <2>2. PICK c \in Configs : pub' = NewPublisher(pub.version + 1, c[1], c[2])
    BY <1>9 DEF Crash
  <2>3. pub' \in Publisher
    BY <2>1, <2>2, NewPublisherType
  <2>4. boot' \in 0 .. Boot
    BY <1>9, GooseLinkAssumption DEF Crash
  <2> QED BY <1>1, <1>9, <2>3, <2>4 DEF Crash
<1> QED BY <1>5, <1>6, <1>7, <1>8, <1>9

\* Frames that come, and frames that never do.
LEMMA NetworkKeepsBelief ==
    ASSUME BeliefIsRight, NEW e \in net, Deliver(e) \/ Lose(e)
    PROVE  BeliefIsRight'
<1>1. /\ pub \in Publisher /\ boot \in 0 .. Boot /\ net \subseteq InFlight /\ lost \in 0 .. 2
      /\ sub \in Subscriber /\ app \in Belief /\ (app.valid <=> Live(sub))
  BY DEF BeliefIsRight, TypeOK, BeliefIsBacked
<1>2. e \in InFlight /\ More(lost) \in 0 .. 2
  BY <1>1, MoreType
<1>3. CASE Deliver(e)
  <2>1. Backed(app, OnFrame(sub, e.frame))
    <3>1. e.frame \in Frame
      BY <1>2, InFlightType
    <3> QED BY <1>1, <3>1, OnFrameBacked
  <2>2. sub' = OnFrame(sub, e.frame) /\ app' = Believe(app, sub'.out)
    BY <1>3 DEF Deliver
  <2>3. sub' \in Subscriber /\ app' \in Belief /\ (app'.valid <=> Live(sub'))
    BY <2>1, <2>2 DEF Backed
  <2>4. net' \subseteq InFlight
    BY <1>1, <1>2, <1>3, InFlightType DEF Deliver
  <2>5. lost' \in 0 .. 2 /\ pub' = pub /\ boot' = boot
    BY <1>1, <1>2, <1>3 DEF Deliver
  <2>6. Live(sub)' <=> Live(sub')
    BY DEF Live
  <2> QED BY <1>1, <2>3, <2>4, <2>5, <2>6 DEF BeliefIsRight, TypeOK, BeliefIsBacked
<1>4. CASE Lose(e)
  <2>1. /\ net' \subseteq InFlight /\ lost' \in 0 .. 2
        /\ pub' = pub /\ boot' = boot /\ sub' = sub /\ app' = app
    BY <1>1, <1>2, <1>4 DEF Lose
  <2> QED BY <1>1, <2>1 DEF BeliefIsRight, TypeOK, BeliefIsBacked
<1> QED BY <1>3, <1>4

\* The state that is live ages, and the application ends a test.
LEMMA SubscriberKeepsBelief ==
    ASSUME BeliefIsRight, Wake \/ EndTest
    PROVE  BeliefIsRight'
<1>1. /\ pub \in Publisher /\ boot \in 0 .. Boot /\ net \subseteq InFlight /\ lost \in 0 .. 2
      /\ sub \in Subscriber /\ app \in Belief /\ (app.valid <=> Live(sub))
  BY DEF BeliefIsRight, TypeOK, BeliefIsBacked
<1>2. Backed(app, Quieted(sub))
  BY <1>1, QuietedBacked
<1>3. pub' = pub /\ boot' = boot /\ net' = net /\ lost' = lost
  BY DEF Wake, EndTest
<1> SUFFICES sub' \in Subscriber /\ app' \in Belief /\ (app'.valid <=> Live(sub'))
  BY <1>1, <1>3 DEF BeliefIsRight, TypeOK, BeliefIsBacked, Live
<1>4. CASE Wake
  <2>1. Backed(app, CheckExpiry(Quieted(sub)))
    BY <1>1, <1>2, CheckExpiryBacked
  <2> QED BY <1>4, <2>1 DEF Wake, Backed
<1>5. CASE EndTest
  <2> DEFINE q == Quieted(sub)
             u == [q EXCEPT !.simulated = FALSE]
  <2>1. Typed(app, q)
    BY <1>2 DEF Backed, Typed
  <2> HIDE DEF q
  <2>2. Typed(app, u)
    BY <2>1, SetType
  <2> HIDE DEF u
  <2>3. Typed(app, ForgetSource(u))
    BY <2>2, SetType, Zenon
  <2>4. u \in Subscriber /\ ForgetSource(u) \in Subscriber
    BY <2>2, <2>3 DEF Typed
  <2>5. ForgetSource(u).last = None
    BY <2>4 DEF ForgetSource, Subscriber
  <2>6. sub' = ForgetSource(u)
    BY <1>5 DEF EndTest, ResetSimulation, u, q
  <2>7. app' \in Belief /\ ~app'.valid
    BY <1>1, <1>5 DEF EndTest, Belief
  <2> QED BY <2>4, <2>5, <2>6, <2>7 DEF Live
<1> QED BY <1>4, <1>5

LEMMA TimeKeepsBelief ==
    ASSUME BeliefIsRight, Tick
    PROVE  BeliefIsRight'
<1>1. /\ pub \in Publisher /\ boot \in 0 .. Boot /\ net \subseteq InFlight /\ lost \in 0 .. 2
      /\ sub \in Subscriber /\ app \in Belief /\ (app.valid <=> Live(sub))
  BY DEF BeliefIsRight, TypeOK, BeliefIsBacked
<1>2. boot' \in 0 .. Boot
  <2>1. boot \in Nat /\ Less(boot) \in 0 .. boot
    BY <1>1, LessType
  <2> QED BY <1>1, <2>1, GooseLinkAssumption DEF Tick
<1>3. pub' \in Publisher
  <2>1. pub.next \in Nat
    BY <1>1 DEF Publisher
  <2>2. Less(pub.next) \in Nat
    BY <2>1, LessType
  <2>3. pub' = [pub EXCEPT !.next = Less(pub.next)]
    BY DEF Tick
  <2> QED BY <1>1, <2>2, <2>3 DEF Publisher
<1>4. net' \subseteq InFlight
  BY <1>1, InFlightType DEF Tick
<1>5. app' = app /\ lost' = lost
  BY DEF Tick
<1>6. sub' \in Subscriber /\ (Live(sub') <=> Live(sub))
  <2> DEFINE q == Quieted(sub)
  <2>1. q \in Subscriber /\ q.last = sub.last /\ q.expired = sub.expired
    BY <1>1, EmptySeq DEF Quieted, Subscriber
  <2>2. CASE sub.last = None
    BY <2>1, <2>2 DEF Tick, Live
  <2>3. CASE sub.last # None
    <3> DEFINE last == [q.last EXCEPT !.expires = Less(q.last.expires)]
    <3>1. q.last \in Accepted /\ q.last.expires \in Nat
      BY <1>1, <2>1, <2>3 DEF Subscriber, Accepted
    <3>2. Less(q.last.expires) \in Nat
      BY <3>1, LessType
    <3>3. last \in Accepted
      BY <3>1, <3>2 DEF Accepted
    <3>4. last # None
      BY <3>3, GooseSubscriberAssumption
    <3>5. sub' = [q EXCEPT !.last = last]
      BY <2>3 DEF Tick
    <3> HIDE DEF q, last
    <3>6. sub' \in Subscriber /\ sub'.last = last /\ sub'.expired = q.expired
      BY <2>1, <3>3, <3>5 DEF Subscriber
    <3> QED BY <2>1, <2>3, <3>4, <3>6 DEF Live
  <2> QED BY <2>2, <2>3
<1>7. Live(sub)' <=> Live(sub')
  BY DEF Live
<1> QED BY <1>1, <1>2, <1>3, <1>4, <1>5, <1>6, <1>7 DEF BeliefIsRight, TypeOK, BeliefIsBacked

\* Both ends, the network and the application stay in their types, and the
\* application believes its values valid exactly while the subscriber has a
\* live state (subscriber.rs:325-400): whatever is lost, duplicated, reordered
\* or replayed, however the publisher crashes and comes back, whoever takes
\* over, and for every curve and every width of the counters.
THEOREM BeliefIsAlwaysRight == Spec => []BeliefIsRight
<1>1. Init => BeliefIsRight
  BY BeliefStarts
<1>2. BeliefIsRight /\ [Next]_vars => BeliefIsRight'
  <2> SUFFICES ASSUME BeliefIsRight, [Next]_vars
               PROVE  BeliefIsRight'
    OBVIOUS
  <2>1. CASE ChangeState \/ Repeat \/ Toggle \/ Transmit \/ Crash
    BY <2>1, PublisherKeepsBelief
  <2>2. CASE \E e \in net : Deliver(e) \/ Lose(e)
    BY <2>2, NetworkKeepsBelief
  <2>3. CASE Wake \/ EndTest
    BY <2>3, SubscriberKeepsBelief
  <2>4. CASE Tick
    BY <2>4, TimeKeepsBelief
  <2>5. CASE UNCHANGED vars
    BY <2>5 DEF vars, BeliefIsRight, TypeOK, BeliefIsBacked, Live
  <2> QED BY <2>1, <2>2, <2>3, <2>4, <2>5 DEF Next
<1> QED BY <1>1, <1>2, PTL DEF Spec

-----------------------------------------------------------------------------
(* What the events say, in their order *)

\* What the code's events promise one who believes `told` when `e` comes.
FitsIn(told, e) ==
    /\ e.kind = "retransmission" => told.valid /\ told.version = e.version
    /\ e.kind = "state" /\ told.valid => told.version < e.version

EventsFit(b, q) == \A i \in DOMAIN q : FitsIn(Believe(b, SubSeq(q, 1, i - 1)), q[i])

Accepting == {"state", "retransmission"}

LEMMA EventsFitAppend ==
    ASSUME NEW b, NEW q \in Seq(Event), NEW ev \in Event,
           EventsFit(b, q), FitsIn(Believe(b, q), ev)
    PROVE  EventsFit(b, Append(q, ev))
<1> DEFINE r == Append(q, ev)
           n == Len(q)
<1>1. /\ n \in Nat /\ DOMAIN q = 1 .. n
      /\ r \in Seq(Event) /\ DOMAIN r = 1 .. n + 1
      /\ \A i \in 1 .. n : r[i] = q[i]
      /\ r[n + 1] = ev
  BY AppendProperties
<1> SUFFICES ASSUME NEW i \in 1 .. n + 1
             PROVE  FitsIn(Believe(b, SubSeq(r, 1, i - 1)), r[i])
  BY <1>1 DEF EventsFit
<1> HIDE DEF r, n
<1>2. SubSeq(r, 1, i - 1) = SubSeq(q, 1, i - 1)
  <2>1. i \in Nat /\ i - 1 \in Int /\ i - 1 <= n
    BY <1>1
  <2>2. \A j \in 1 .. i - 1 : j \in 1 .. n /\ r[j] = q[j] /\ q[j] \in Event /\ r[j] \in Event
    <3> TAKE j \in 1 .. i - 1
    <3>1. j \in 1 .. n
      BY <1>1, <2>1
    <3>2. q[j] \in Event
      BY <1>1, <3>1
    <3> QED BY <1>1, <3>1, <3>2
  <2> DEFINE x == SubSeq(r, 1, i - 1)
             y == SubSeq(q, 1, i - 1)
             k == IF 1 <= i - 1 THEN i - 1 - 1 + 1 ELSE 0
  <2>3. x \in Seq(Event) /\ Len(x) = k /\ \A j \in 1 .. i - 1 - 1 + 1 : x[j] = r[1 + j - 1]
    BY <2>1, <2>2, SubSeqProperties
  <2>4. y \in Seq(Event) /\ Len(y) = k /\ \A j \in 1 .. i - 1 - 1 + 1 : y[j] = q[1 + j - 1]
    BY <2>1, <2>2, SubSeqProperties
  <2> HIDE DEF x, y
  <2>5. \A j \in 1 .. k : x[j] = y[j]
    <3> TAKE j \in 1 .. k
    <3>1. j \in 1 .. i - 1 /\ j \in 1 .. i - 1 - 1 + 1 /\ 1 + j - 1 = j
      BY <2>1
    <3> QED BY <2>2, <2>3, <2>4, <3>1
  <2>6. x = y
    <3> HIDE DEF k
    <3> QED BY <2>3, <2>4, <2>5, SeqEqual
  <2> QED BY <2>6 DEF x, y
<1>3. CASE i \in 1 .. n
  BY <1>1, <1>2, <1>3 DEF EventsFit
<1>4. CASE i = n + 1
  <2>1. i - 1 = n
    BY <1>1, <1>4
  <2>2. SubSeq(q, 1, n) = q
    BY SubSeqFull DEF n
  <2> QED BY <1>1, <1>2, <1>4, <2>1, <2>2
<1> QED BY <1>1, <1>3, <1>4

\* An event more.
LEMMA EmitSays ==
    ASSUME NEW b, NEW s \in Subscriber, NEW kind \in Events, NEW version \in Nat
    PROVE  /\ Accepts(Emit(s, kind, version)) <=> Accepts(s) \/ kind \in Accepting
           /\ EventsFit(b, s.out) /\ FitsIn(Believe(b, s.out), [kind |-> kind, version |-> version])
              => EventsFit(b, Emit(s, kind, version).out)
           /\ Emit(s, kind, version).mode = s.mode
           /\ Emit(s, kind, version).simulated = s.simulated
<1> DEFINE ev == [kind |-> kind, version |-> version]
           x == [s EXCEPT !.out = Append(s.out, ev)]
           r == Append(s.out, ev)
           n == Len(s.out)
<1>1. s.out \in Seq(Event) /\ ev \in Event /\ ev.kind = kind
  BY DEF Subscriber, Event
<1>2. Emit(s, kind, version) = x /\ x.out = r /\ x.mode = s.mode /\ x.simulated = s.simulated
  BY DEF Emit, Subscriber
<1>3. /\ n \in Nat /\ DOMAIN s.out = 1 .. n
      /\ DOMAIN r = 1 .. n + 1
      /\ \A i \in 1 .. n : r[i] = s.out[i]
      /\ r[n + 1] = ev
  BY <1>1, AppendProperties
<1>4. Accepts(x) <=> Accepts(s) \/ kind \in Accepting
  <2> HIDE DEF ev, r, n, x
  <2>1. Accepts(x) <=> \E i \in 1 .. n + 1 : r[i].kind \in Accepting
    BY <1>2, <1>3 DEF Accepts, Accepting
  <2>2. Accepts(s) <=> \E i \in 1 .. n : s.out[i].kind \in Accepting
    BY <1>3 DEF Accepts, Accepting
  <2>3. \A i \in 1 .. n + 1 : i \in 1 .. n \/ i = n + 1
    BY <1>3
  <2>4. n + 1 \in 1 .. n + 1 /\ \A i \in 1 .. n : i \in 1 .. n + 1
    BY <1>3
  <2> QED BY <1>1, <1>3, <2>1, <2>2, <2>3, <2>4
<1>5. EventsFit(b, s.out) /\ FitsIn(Believe(b, s.out), ev) => EventsFit(b, r)
  BY <1>1, EventsFitAppend
<1> HIDE DEF ev, r, x
<1> QED BY <1>2, <1>4, <1>5 DEF ev

\* Without an accepted frame there is nothing to fit.
LEMMA NothingAccepted ==
    ASSUME NEW b, NEW s, ~Accepts(s)
    PROVE  EventsFit(b, s.out)
BY DEF Accepts, EventsFit, FitsIn

\* What the subscriber has become before it judges a frame, or refuses it: it
\* has accepted nothing, and is live only with the state it had, of which its
\* listener has heard nothing new.
Unjudged(b, s, t) ==
    /\ Typed(b, t) /\ ~Accepts(t)
    /\ t.mode = s.mode
    /\ s.simulated => t.simulated
    /\ t.simulated => s.simulated \/ s.mode = "preferred"
    /\ Live(t) => Live(s) /\ t.last = s.last /\ Believe(b, t.out) = b
    /\ t.expired => s.expired \/ (Live(s) /\ s.last.expires = 0)

LEMMA UnjudgedEmit ==
    ASSUME NEW b \in Belief, NEW s, NEW t, Unjudged(b, s, t),
           NEW kind \in Events \ Accepting, NEW version \in Nat, kind \in Telling => ~Live(t)
    PROVE  Unjudged(b, s, Emit(t, kind, version))
<1> DEFINE x == Emit(t, kind, version)
<1>1. Typed(b, t) /\ t \in Subscriber /\ kind \in Events /\ kind \notin Accepting
  BY DEF Unjudged, Typed
<1>2. Typed(b, x) /\ Live(x) = Live(t) /\ x.last = t.last /\ x.expired = t.expired
  BY <1>1, EmitType
<1>3. kind \notin Telling => Believe(b, x.out) = Believe(b, t.out)
  BY <1>1, EmitType
<1>4. /\ Accepts(x) <=> Accepts(t) \/ kind \in Accepting
      /\ x.mode = t.mode /\ x.simulated = t.simulated
  BY <1>1, EmitSays
<1> HIDE DEF x
<1>5. Unjudged(b, s, x)
  BY <1>1, <1>2, <1>3, <1>4 DEF Unjudged
<1> QED BY <1>5 DEF x

LEMMA UnjudgedSet ==
    ASSUME NEW b, NEW s, NEW t, Unjudged(b, s, t)
    PROVE  /\ Unjudged(b, s, [t EXCEPT !.ignored = TRUE]) /\ Unjudged(b, s, [t EXCEPT !.ignored = FALSE])
           /\ Unjudged(b, s, [t EXCEPT !.misrevised = TRUE]) /\ Unjudged(b, s, [t EXCEPT !.misrevised = FALSE])
           /\ \A rev \in ConfRevs : Unjudged(b, s, [t EXCEPT !.confRev = rev])
           /\ s.mode = "preferred" => Unjudged(b, s, [t EXCEPT !.simulated = TRUE])
<1>1. Typed(b, t) /\ t \in Subscriber
  BY DEF Unjudged, Typed
<1> DEFINE Same(u) == /\ u.out = t.out /\ u.mode = t.mode /\ u.last = t.last /\ u.expired = t.expired
                      /\ u.simulated = t.simulated
<1>2. ASSUME NEW u, Typed(b, u), Same(u)
      PROVE  Unjudged(b, s, u)
  BY <1>2 DEF Unjudged, Accepts, Live
<1>3. Unjudged(b, s, [t EXCEPT !.ignored = TRUE]) /\ Unjudged(b, s, [t EXCEPT !.ignored = FALSE])
  <2>1. Same([t EXCEPT !.ignored = TRUE]) /\ Same([t EXCEPT !.ignored = FALSE])
    BY <1>1 DEF Subscriber
  <2> HIDE DEF Same
  <2>2. Typed(b, [t EXCEPT !.ignored = TRUE]) /\ Typed(b, [t EXCEPT !.ignored = FALSE])
    BY <1>1, SetType
  <2> QED BY <1>2, <2>1, <2>2
<1>4. Unjudged(b, s, [t EXCEPT !.misrevised = TRUE]) /\ Unjudged(b, s, [t EXCEPT !.misrevised = FALSE])
  <2>1. Same([t EXCEPT !.misrevised = TRUE]) /\ Same([t EXCEPT !.misrevised = FALSE])
    BY <1>1 DEF Subscriber
  <2> HIDE DEF Same
  <2>2. Typed(b, [t EXCEPT !.misrevised = TRUE]) /\ Typed(b, [t EXCEPT !.misrevised = FALSE])
    BY <1>1, SetType
  <2> QED BY <1>2, <2>1, <2>2
<1>5. ASSUME NEW rev \in ConfRevs
      PROVE  Unjudged(b, s, [t EXCEPT !.confRev = rev])
  <2>1. Same([t EXCEPT !.confRev = rev])
    BY <1>1 DEF Subscriber
  <2> HIDE DEF Same
  <2>2. Typed(b, [t EXCEPT !.confRev = rev])
    BY <1>1, SetType
  <2> QED BY <1>2, <2>1, <2>2
<1>6. ASSUME s.mode = "preferred"
      PROVE  Unjudged(b, s, [t EXCEPT !.simulated = TRUE])
  <2> DEFINE u == [t EXCEPT !.simulated = TRUE]
  <2>1. /\ u.out = t.out /\ u.mode = t.mode /\ u.last = t.last /\ u.expired = t.expired
        /\ u.simulated
    BY <1>1 DEF Subscriber
  <2>2. Typed(b, u)
    BY <1>1, SetType
  <2> HIDE DEF u
  <2>3. Unjudged(b, s, u)
    BY <1>6, <2>1, <2>2 DEF Unjudged, Accepts, Live
  <2> QED BY <2>3 DEF u
<1> QED BY <1>3, <1>4, <1>5, <1>6

\* A subscriber that forgets its source is not live, nor expired.
LEMMA UnjudgedForgets ==
    ASSUME NEW b, NEW s, NEW t, Unjudged(b, s, t)
    PROVE  Unjudged(b, s, ForgetSource(t)) /\ ~Live(ForgetSource(t))
<1>1. Typed(b, t) /\ t \in Subscriber
  BY DEF Unjudged, Typed
<1> DEFINE u == ForgetSource(t)
<1>2. /\ u.out = t.out /\ u.mode = t.mode /\ u.last = None /\ ~u.expired
      /\ u.simulated = t.simulated
  BY <1>1 DEF ForgetSource, Subscriber
<1>3. Typed(b, u)
  BY <1>1, SetType, Zenon
<1> HIDE DEF u
<1>4. Unjudged(b, s, u) /\ ~Live(u)
  BY <1>2, <1>3 DEF Unjudged, Accepts, Live
<1> QED BY <1>4 DEF u

LEMMA QuietedUnjudged ==
    ASSUME NEW b \in Belief, NEW s \in Subscriber
    PROVE  /\ Unjudged(b, s, Quieted(s)) /\ Quieted(s).last = s.last
           /\ Quieted(s).expired = s.expired
<1> DEFINE x == [s EXCEPT !.out = <<>>]
<1>1. x \in Subscriber
  BY EmptySeq DEF Subscriber
<1>2. /\ x.last = s.last /\ x.expired = s.expired /\ x.out = <<>>
      /\ x.mode = s.mode /\ x.simulated = s.simulated
  BY DEF Subscriber
<1> HIDE DEF x
<1>3. Believe(b, x.out) = b
  BY <1>2, BelieveNothing
<1>4. ~Accepts(x)
  BY <1>2 DEF Accepts
<1>5. Unjudged(b, s, x)
  BY <1>1, <1>2, <1>3, <1>4 DEF Unjudged, Typed, Live
<1> QED BY <1>2, <1>5 DEF Quieted, x

LEMMA CheckExpiryUnjudged ==
    ASSUME NEW b \in Belief, NEW s \in Subscriber
    PROVE  Unjudged(b, s, CheckExpiry(Quieted(s)))
<1> DEFINE q == Quieted(s)
<1>1. Unjudged(b, s, q) /\ q.last = s.last /\ q.expired = s.expired
  BY QuietedUnjudged
<1> HIDE DEF q
<1>2. CASE ~(Live(q) /\ q.last.expires = 0)
  BY <1>1, <1>2 DEF CheckExpiry, q
<1>3. CASE Live(q) /\ q.last.expires = 0
  <2> DEFINE t == [q EXCEPT !.expired = TRUE]
  <2>1. Typed(b, q) /\ q \in Subscriber
    BY <1>1 DEF Unjudged, Typed
  <2>2. /\ t.out = q.out /\ t.mode = q.mode /\ t.last = q.last /\ t.expired
        /\ t.simulated = q.simulated
    BY <2>1 DEF Subscriber
  <2>3. Typed(b, t)
    BY <2>1, SetType
  <2> HIDE DEF t
  <2>4. Live(s) /\ s.last.expires = 0
    BY <1>1, <1>3 DEF Live
  <2>5. Unjudged(b, s, t) /\ ~Live(t)
    BY <1>1, <2>2, <2>3, <2>4 DEF Unjudged, Accepts, Live
  <2>6. "expired" \in Events \ Accepting
    BY DEF Events, Accepting
  <2>7. Unjudged(b, s, Emit(t, "expired", 0))
    BY <2>5, <2>6, UnjudgedEmit
  <2> QED BY <1>3, <2>7 DEF CheckExpiry, t, q
<1> QED BY <1>2, <1>3

LEMMA AfterSimulationUnjudged ==
    ASSUME NEW b \in Belief, NEW s, NEW t, Unjudged(b, s, t), NEW f \in Frame
    PROVE  Unjudged(b, s, AfterSimulation(t, f))
<1>1. Unjudged(b, s, [t EXCEPT !.ignored = FALSE])
  BY UnjudgedSet
<1>2. Unjudged(b, s, Emit([t EXCEPT !.ignored = TRUE], "ignored", 0))
  <2>1. "ignored" \in Events \ Accepting /\ "ignored" \notin Telling
    BY DEF Events, Accepting, Telling
  <2>2. Unjudged(b, s, [t EXCEPT !.ignored = TRUE])
    BY UnjudgedSet
  <2> QED BY <2>1, <2>2, UnjudgedEmit
<1>3. t.mode = "preferred" =>
        Unjudged(b, s, Emit(ForgetSource([t EXCEPT !.simulated = TRUE]), "takeover", 0))
  <2> SUFFICES ASSUME t.mode = "preferred"
               PROVE  Unjudged(b, s, Emit(ForgetSource([t EXCEPT !.simulated = TRUE]), "takeover", 0))
    OBVIOUS
  <2> DEFINE u == [t EXCEPT !.simulated = TRUE]
  <2>0. s.mode = "preferred"
    BY DEF Unjudged
  <2>1. Unjudged(b, s, u)
    BY <2>0, UnjudgedSet
  <2> HIDE DEF u
  <2> DEFINE v == ForgetSource(u)
  <2>2. Unjudged(b, s, v) /\ ~Live(v)
    BY <2>1, UnjudgedForgets
  <2> HIDE DEF v
  <2>3. "takeover" \in Events \ Accepting
    BY DEF Events, Accepting
  <2>4. Unjudged(b, s, Emit(v, "takeover", 0))
    BY <2>2, <2>3, UnjudgedEmit
  <2> QED BY <2>4 DEF u, v
<1> QED BY <1>1, <1>2, <1>3 DEF AfterSimulation

LEMMA AfterRevisionUnjudged ==
    ASSUME NEW b \in Belief, NEW s, NEW t, Unjudged(b, s, t), NEW f \in Frame
    PROVE  Unjudged(b, s, AfterRevision(t, f))
<1>1. f.confRev \in ConfRevs
  BY DEF Frame
<1>2. /\ Unjudged(b, s, [t EXCEPT !.confRev = f.confRev])
      /\ Unjudged(b, s, [t EXCEPT !.misrevised = FALSE])
      /\ Unjudged(b, s, [t EXCEPT !.misrevised = TRUE])
  BY <1>1, UnjudgedSet
<1>3. Unjudged(b, s, Emit([t EXCEPT !.misrevised = TRUE], "revision", 0))
  <2>1. "revision" \in Events \ Accepting /\ "revision" \notin Telling
    BY DEF Events, Accepting, Telling
  <2> QED BY <1>2, <2>1, UnjudgedEmit
<1> QED BY <1>2, <1>3 DEF AfterRevision

\* The longest time a frame allows to live.
TalTop == Longest * (IF TalFactor = 0 THEN 1 ELSE TalFactor)

\* Assumed of the states published: fewer than a stNum has numbers, so that
\* neither end sees it wrap.
NoWrap == MaxVersion \in Nat \ {0} /\ MaxVersion + Window <= StTop

\* Assumed of a restart: it takes longer than a frame sent before it may be under
\* way and then be believed.
RestartsSlowly == Boot > MaxDelay + TalTop

\* A frame of a publisher whose versions are `d` ahead of its stNums.
Made(f, d) == f.version = f.st + d /\ f.st <= MaxVersion

\* What is live and believed is of such a publisher, too.
Tells(b, s, d) == Live(s) => b.version = s.last.st + d /\ s.last.st <= MaxVersion

Matches(b, s, f) == \E d \in Int : Made(f, d) /\ Tells(b, s, d)

\* The subscriber after a frame, accepted or not.
Judgement(b, s, f, t) ==
    /\ t.mode = s.mode
    /\ t.simulated => s.simulated \/ s.mode = "preferred"
    /\ t.expired => s.expired \/ (Live(s) /\ s.last.expires = 0)
    /\ Accepts(t) => /\ t.last = [st |-> f.st, sq |-> f.sq, expires |-> f.tal] /\ ~t.expired
                     /\ s.mode = "preferred" /\ s.simulated => f.sim
    /\ ~Accepts(t) /\ Live(t) => Live(s) /\ t.last = s.last /\ Believe(b, t.out) = b
    /\ NoWrap /\ Matches(b, s, f) =>
          /\ EventsFit(b, t.out)
          /\ Accepts(t) => Believe(b, t.out).version = f.version

LEMMA UnjudgedJudgement ==
    ASSUME NEW b, NEW s, NEW f, NEW t, Unjudged(b, s, t)
    PROVE  Judgement(b, s, f, t)
BY NothingAccepted DEF Unjudged, Judgement

LEMMA EstablishedSays ==
    ASSUME NEW b \in Belief, NEW y, Typed(b, y), NEW f \in Frame, Accepts(y)
    PROVE  LET z == Established(y, f)
           IN  /\ z.last = [st |-> f.st, sq |-> f.sq, expires |-> f.tal] /\ ~z.expired
               /\ z.mode = y.mode /\ z.simulated = y.simulated
               /\ Accepts(z) /\ Believe(b, z.out) = Believe(b, y.out)
               /\ EventsFit(b, y.out) => EventsFit(b, z.out)
<1> DEFINE last == [st |-> f.st, sq |-> f.sq, expires |-> f.tal]
           t == [y EXCEPT !.last = last, !.expired = FALSE, !.nds = f.nds]
           z == Emit(t, "commissioning", 0)
<1>1. last \in Accepted /\ f.nds \in BOOLEAN
  BY DEF Frame, Accepted
<1> HIDE DEF last
<1>2. y \in Subscriber
  BY DEF Typed
<1>3. t \in Subscriber
  BY <1>1, <1>2 DEF Subscriber
<1>4. /\ t.last = last /\ ~t.expired /\ t.out = y.out
      /\ t.mode = y.mode /\ t.simulated = y.simulated
  BY <1>2 DEF Subscriber
<1> HIDE DEF t
<1>5. Typed(b, t) /\ Accepts(t)
  BY <1>3, <1>4 DEF Typed, Accepts
<1>6. "commissioning" \in Events /\ "commissioning" \notin Telling
  BY DEF Events, Telling
<1>7. /\ z.last = t.last /\ z.expired = t.expired
      /\ Believe(b, z.out) = Believe(b, t.out)
  BY <1>5, <1>6, EmitType
<1>8. /\ Accepts(z) /\ z.mode = t.mode /\ z.simulated = t.simulated
      /\ EventsFit(b, t.out) => EventsFit(b, z.out)
  <2>1. FitsIn(Believe(b, t.out), [kind |-> "commissioning", version |-> 0])
    BY DEF FitsIn
  <2> QED BY <1>3, <1>5, <1>6, <2>1, EmitSays
<1> HIDE DEF z
<1>9. Established(y, f) \in {t, z}
  BY DEF Established, t, z, last
<1> QED BY <1>4, <1>5, <1>7, <1>8, <1>9 DEF last

\* A frame that is judged fits what was heard before: a new state is a later
\* one, and a repetition is of what is believed.
LEMMA JudgedFits ==
    ASSUME NEW b \in Belief, NEW s \in Subscriber, NEW t, Unjudged(b, s, t), Backed(b, t), NEW f \in Frame,
           NoWrap, Matches(b, s, f)
    PROVE  /\ NewState(t, f) => FitsIn(Believe(b, t.out), [kind |-> "state", version |-> f.version])
           /\ Retransmission(t, f) =>
                /\ FitsIn(Believe(b, t.out), [kind |-> "retransmission", version |-> f.version])
                /\ Believe(b, t.out).version = f.version
<1>1. PICK d \in Int : Made(f, d) /\ Tells(b, s, d)
  BY DEF Matches
<1>2. Live(t) => /\ Believe(b, t.out) = b /\ b.version = t.last.st + d
                 /\ t.last.st <= MaxVersion /\ t.last.st \in Nat /\ b.valid
  <2> SUFFICES ASSUME Live(t)
               PROVE  /\ Believe(b, t.out) = b /\ b.version = t.last.st + d
                      /\ t.last.st <= MaxVersion /\ t.last.st \in Nat /\ b.valid
    OBVIOUS
  <2>1. Live(s) /\ t.last = s.last /\ Believe(b, t.out) = b
    BY DEF Unjudged
  <2>2. t \in Subscriber /\ t.last \in Accepted
    BY DEF Backed, Live, Subscriber
  <2>3. t.last.st \in Nat
    BY <2>2, GoosePublisherAssumption DEF Accepted
  <2>4. b.valid
    BY <2>1 DEF Backed
  <2> QED BY <1>1, <2>1, <2>3, <2>4 DEF Tells
<1>3. ~Live(t) => ~Believe(b, t.out).valid
  BY DEF Backed
<1>4. f.version = f.st + d /\ f.st \in Nat /\ f.st <= MaxVersion /\ f.version \in Nat
  BY <1>1, GoosePublisherAssumption DEF Made, Frame
<1>5. ASSUME NewState(t, f), Live(t)
      PROVE  b.version < f.version
  <2>1. t.last.st \in Nat /\ ~Wrapped(t.last.st, f.st, StTop)
    <3>1. StTop \in Nat /\ Window \in Nat /\ MaxVersion \in Nat /\ MaxVersion <= StTop - Window
      BY GoosePublisherAssumption, GooseSubscriberAssumption DEF NoWrap
    <3> QED BY <1>2, <1>5, <3>1 DEF Wrapped
  <2>2. f.st > t.last.st
    BY <1>5, <2>1 DEF NewState
  <2> QED BY <1>2, <1>4, <1>5, <2>1, <2>2
<1>6. NewState(t, f) => FitsIn(Believe(b, t.out), [kind |-> "state", version |-> f.version])
  BY <1>2, <1>3, <1>5 DEF FitsIn
<1>7. ASSUME Retransmission(t, f)
      PROVE  /\ FitsIn(Believe(b, t.out), [kind |-> "retransmission", version |-> f.version])
             /\ Believe(b, t.out).version = f.version
  <2>1. Live(t) /\ f.st = t.last.st
    BY <1>7 DEF Retransmission
  <2> QED BY <1>2, <1>4, <2>1 DEF FitsIn
<1> QED BY <1>6, <1>7

LEMMA JudgedJudgement ==
    ASSUME NEW b \in Belief, NEW s \in Subscriber, NEW t, Unjudged(b, s, t), Backed(b, t), NEW f \in Frame,
           s.mode = "preferred" /\ s.simulated => f.sim
    PROVE  Judgement(b, s, f, Judged(t, f))
<1>1. Typed(b, t) /\ t \in Subscriber /\ f.version \in Nat
  BY DEF Backed, Typed, Frame
<1>2. ASSUME NEW kind \in Accepting,
             NoWrap /\ Matches(b, s, f) =>
                /\ FitsIn(Believe(b, t.out), [kind |-> kind, version |-> f.version])
                /\ kind = "retransmission" => Believe(b, t.out).version = f.version
      PROVE  Judgement(b, s, f, Established(Emit(t, kind, f.version), f))
  <2> DEFINE y == Emit(t, kind, f.version)
             z == Established(y, f)
  <2>1. kind \in Events /\ (kind \in Telling <=> kind = "state") /\ (kind = "state" \/ kind = "retransmission")
    BY DEF Events, Telling, Accepting
  <2>2. Typed(b, y) /\ (kind \notin Telling => Believe(b, y.out) = Believe(b, t.out))
    BY <1>1, <2>1, EmitType
  <2>3. kind \in Telling => Believe(b, y.out).version = f.version
    <3> DEFINE ev == [kind |-> kind, version |-> f.version]
    <3>1. t.out \in Seq(Event) /\ ev \in Event /\ ev.kind = kind /\ ev.version = f.version
      BY <1>1, <2>1 DEF Subscriber, Event
    <3>2. y.out = Append(t.out, ev)
      BY <1>1 DEF Emit, Subscriber
    <3> HIDE DEF y, ev
    <3>3. ev.kind \in Telling => Believe(b, Append(t.out, ev)) = Heard(b, ev)
      BY <3>1, BelieveAppend, Zenon
    <3>4. kind = "state" => Heard(b, ev).version = f.version
      BY <3>1 DEF Heard
    <3> QED BY <2>1, <3>1, <3>2, <3>3, <3>4
  <2>4. /\ Accepts(y) /\ y.mode = t.mode /\ y.simulated = t.simulated
        /\ NoWrap /\ Matches(b, s, f) => EventsFit(b, y.out)
    <3>1. EventsFit(b, t.out)
      BY NothingAccepted DEF Unjudged
    <3> QED BY <1>1, <1>2, <2>1, <3>1, EmitSays
  <2> HIDE DEF y
  <2>5. /\ z.last = [st |-> f.st, sq |-> f.sq, expires |-> f.tal] /\ ~z.expired
        /\ z.mode = y.mode /\ z.simulated = y.simulated
        /\ Accepts(z) /\ Believe(b, z.out) = Believe(b, y.out)
        /\ EventsFit(b, y.out) => EventsFit(b, z.out)
    BY <2>2, <2>4, EstablishedSays
  <2> HIDE DEF z
  <2>6. /\ t.mode = s.mode /\ (t.simulated => s.simulated \/ s.mode = "preferred")
    BY DEF Unjudged
  <2>7. Judgement(b, s, f, z)
    BY <1>2, <2>1, <2>2, <2>3, <2>4, <2>5, <2>6 DEF Judgement
  <2> QED BY <2>7 DEF z, y
<1>3. NewState(t, f) => Judgement(b, s, f, Established(Emit(t, "state", f.version), f))
  <2>1. NewState(t, f) /\ NoWrap /\ Matches(b, s, f) =>
          FitsIn(Believe(b, t.out), [kind |-> "state", version |-> f.version])
    BY JudgedFits
  <2> QED BY <1>2, <2>1 DEF Accepting
<1>4. Retransmission(t, f) => Judgement(b, s, f, Established(Emit(t, "retransmission", f.version), f))
  <2>1. Retransmission(t, f) /\ NoWrap /\ Matches(b, s, f) =>
          /\ FitsIn(Believe(b, t.out), [kind |-> "retransmission", version |-> f.version])
          /\ Believe(b, t.out).version = f.version
    BY JudgedFits
  <2> QED BY <1>2, <2>1 DEF Accepting
<1>5. Judgement(b, s, f, Emit(t, "replay", f.version))
  <2>1. "replay" \in Events \ Accepting /\ "replay" \notin Telling
    BY DEF Events, Accepting, Telling
  <2>2. Unjudged(b, s, Emit(t, "replay", f.version))
    BY <1>1, <2>1, UnjudgedEmit
  <2> QED BY <2>2, UnjudgedJudgement
<1> QED BY <1>3, <1>4, <1>5 DEF Judged

LEMMA OnFrameJudgement ==
    ASSUME NEW b \in Belief, NEW s \in Subscriber, b.valid <=> Live(s), NEW f \in Frame
    PROVE  Judgement(b, s, f, OnFrame(s, f))
<1> DEFINE s1 == CheckExpiry(Quieted(s))
           s2 == AfterSimulation(s1, f)
           s3 == AfterRevision(s2, f)
<1>1. Backed(b, s1) /\ Unjudged(b, s, s1)
  BY QuietedBacked, CheckExpiryBacked, CheckExpiryUnjudged
<1> HIDE DEF s1
<1>2. Backed(b, s2) /\ Unjudged(b, s, s2)
  BY <1>1, AfterSimulationBacked, AfterSimulationUnjudged
<1> HIDE DEF s2
<1>3. Backed(b, s3) /\ Unjudged(b, s, s3)
  BY <1>2, AfterRevisionBacked, AfterRevisionUnjudged
<1> HIDE DEF s3
<1>4. SimulationAdmits(s1, f) => (s.mode = "preferred" /\ s.simulated => f.sim)
  BY <1>1 DEF SimulationAdmits, Unjudged
<1>5. SimulationAdmits(s1, f) => Judgement(b, s, f, Judged(s3, f))
  BY <1>3, <1>4, JudgedJudgement
<1>6. Judgement(b, s, f, s2) /\ Judgement(b, s, f, s3)
  BY <1>2, <1>3, UnjudgedJudgement
<1> QED BY <1>5, <1>6 DEF OnFrame, s1, s2, s3

-----------------------------------------------------------------------------
(* The invariants *)

\* Only one that prefers simulation ever follows a test set.
Policy == sub.simulated => sub.mode = "preferred"

\* No frame allows more than the longest time, and while a publisher restarts
\* what it sent before runs out.
Cleared ==
    /\ \A e \in net : e.frame.tal <= TalTop
    /\ pub.frame # None => Running /\ pub.frame.tal <= TalTop
    /\ Live(sub) => sub.last.expires <= TalTop
    /\ ~Running => /\ \A e \in net : e.ttl + (Boot - boot) <= MaxDelay
                   /\ Live(sub) => sub.last.expires + (Boot - boot) <= MaxDelay + TalTop

\* All that is under way, live and believed is of one start of the publisher:
\* of the one that runs, or of the last before it.
OneStart(d) == (\A e \in net : Made(e.frame, d)) /\ Tells(app, sub, d)

Ahead == pub.version - pub.st

Numbered ==
    /\ pub.st <= pub.version /\ pub.version <= MaxVersion
    /\ pub.frame # None => Made(pub.frame, Ahead)
    /\ Running => OneStart(Ahead)
    /\ ~Running => \E d \in Int : OneStart(d)

\* Assumed of the network and the curve: a frame is delayed by less than the
\* shortest interval, and allows the double of the interval to the next.
Timely == MaxDelay < Shortest /\ TalFactor >= 2

\* A frame allows enough for the next one to come, of which either comes
\* before the other is built or is a change of state.
Allows(f) == 2 * Shortest <= f.tal /\ pub.next + MaxDelay < f.tal

\* While no frame has been lost since the last one accepted, the next comes
\* before what is live expires: it is under way, built, or to be built.
NextComes ==
    \/ \E e \in net : ~e.heard /\ e.ttl < sub.last.expires
    \/ pub.frame # None /\ MaxDelay < sub.last.expires
    \/ pub.next + MaxDelay < sub.last.expires

Covered ==
    Running =>
        /\ \A e \in net : e.ttl + Shortest <= MaxDelay + pub.next /\ Allows(e.frame)
        /\ pub.frame # None => Shortest <= pub.next /\ Allows(pub.frame)
        /\ lost = 0 /\ Live(sub) => NextComes

-----------------------------------------------------------------------------
(* What each step is to the invariants *)

LEMMA PowerPositive ==
    ASSUME NEW n \in Nat
    PROVE  2^n \in Nat \ {0}
<1>1. IsFiniteSet(1 .. n) /\ Cardinality(1 .. n) = n
  BY FS_Interval
<1>2. IsFiniteSet(SUBSET (1 .. n)) /\ Cardinality(SUBSET (1 .. n)) = 2^n
  BY <1>1, FS_SUBSET
<1>3. {} \in SUBSET (1 .. n)
  OBVIOUS
<1>4. Cardinality(SUBSET (1 .. n)) # 0
  BY <1>2, <1>3, FS_EmptySet
<1> QED BY <1>2, <1>4, FS_CardinalityType

\* The curve stays between its ends, and so does what a frame allows.
LEMMA CurveBounds ==
    ASSUME NEW n \in Nat
    PROVE  /\ Shortest \in Nat \ {0} /\ Longest \in Nat /\ TalTop \in Nat
           /\ IntervalAfter(n) \in Nat /\ TalAfter(n) \in Nat
           /\ Shortest <= IntervalAfter(n) /\ TalAfter(n) <= TalTop
           /\ n = 0 => IntervalAfter(n) = Shortest
           /\ TalFactor >= 2 => 2 * IntervalAfter(n) <= TalAfter(n)
<1> DEFINE i == IntervalAfter(n)
           factor == IF TalFactor = 0 THEN 1 ELSE TalFactor
<1>1. Shortest \in Nat \ {0} /\ Longest \in Nat /\ Shortest <= Longest
  <2>1. MinTime \in Nat /\ MaxTime \in Nat
    BY GoosePublisherAssumption
  <2>2. Shortest \in Nat \ {0}
    BY <2>1 DEF Shortest
  <2> QED BY <2>1, <2>2 DEF Longest
<1>2. i \in Nat /\ TalAfter(n) \in Nat
  BY IntervalType
<1>3. Shortest <= i /\ i <= Longest
  <2>1. CASE n <= 1
    BY <1>1, <2>1 DEF IntervalAfter
  <2>2. CASE ~(n <= 1)
    <3> DEFINE k == 2^(n - 1)
    <3>1. k \in Nat \ {0}
      BY <2>2, PowerPositive, n - 1 \in Nat
    <3> HIDE DEF k
    <3>2. Shortest * k \in Nat /\ Shortest <= Shortest * k
      BY <1>1, <3>1
    <3>3. i = IF n > 31 \/ Shortest * k >= Longest THEN Longest ELSE Shortest * k
      BY <2>2 DEF IntervalAfter, k
    <3> QED BY <1>1, <3>2, <3>3
  <2> QED BY <2>1, <2>2
<1>4. factor \in Nat /\ (TalFactor >= 2 => factor >= 2)
  BY GoosePublisherAssumption
<1>5. TalAfter(n) = i * factor /\ TalTop = Longest * factor
  BY DEF TalAfter, TalTop
<1>6. n = 0 => i = Shortest
  BY DEF IntervalAfter
<1> HIDE DEF i, factor
<1>7. i * factor <= Longest * factor /\ Longest * factor \in Nat
  BY <1>1, <1>2, <1>3, <1>4
<1>8. factor >= 2 => 2 * i <= i * factor
  BY <1>2, <1>4
<1> QED BY <1>1, <1>2, <1>3, <1>4, <1>5, <1>6, <1>7, <1>8 DEF i

LEMMA BuildSays ==
    ASSUME NEW p \in Publisher
    PROVE  LET q == Build(p)
           IN  /\ q.st = p.st /\ q.version = p.version
               /\ q.frame # None /\ q.frame.st = p.st /\ q.frame.version = p.version
               /\ q.frame.tal = TalAfter(p.sent) /\ q.next = IntervalAfter(p.sent)
               /\ p.sent \in Nat
<1> DEFINE frame == [st |-> p.st, sq |-> p.sq, tal |-> TalAfter(p.sent), sim |-> p.sim,
                     confRev |-> p.confRev, nds |-> p.nds, version |-> p.version]
           sent == IF p.sent = SentTop THEN p.sent ELSE p.sent + 1
           sq == Advanced(p.sq, SqTop)
           next == IntervalAfter(p.sent)
           q == [p EXCEPT !.frame = frame, !.sent = sent, !.sq = sq, !.next = next]
<1>1. /\ p.st \in 1 .. StTop /\ p.sq \in 0 .. SqTop /\ p.sim \in BOOLEAN /\ p.confRev \in ConfRevs
      /\ p.nds \in BOOLEAN /\ p.version \in Nat /\ p.sent \in 0 .. SentTop
  BY DEF Publisher
<1>2. p.sent \in Nat
  BY <1>1
<1>3. frame \in Frame
  <2>1. TalAfter(p.sent) \in Nat
    BY <1>2, IntervalType
  <2> QED BY <1>1, <2>1 DEF Frame
<1>4. frame # None
  BY <1>3, GooseLinkAssumption
<1>5. Build(p) = q
  BY DEF Build
<1>6. frame.st = p.st /\ frame.version = p.version /\ frame.tal = TalAfter(p.sent)
  OBVIOUS
<1> HIDE DEF frame, sent, sq, next
<1>7. q.st = p.st /\ q.version = p.version /\ q.frame = frame /\ q.next = next
  BY DEF Publisher
<1> HIDE DEF q
<1> QED BY <1>2, <1>4, <1>5, <1>6, <1>7 DEF next

\* A change of state is the first frame of the next stNum.
LEMMA PublishSays ==
    ASSUME NEW p \in Publisher, NEW version \in Nat
    PROVE  LET q == Publish(p, version)
           IN  /\ q.st = Advanced(p.st, StTop) /\ q.version = version
               /\ q.frame # None /\ q.frame.st = q.st /\ q.frame.version = version
               /\ q.frame.tal = TalAfter(0) /\ q.next = IntervalAfter(0)
<1> DEFINE st == Advanced(p.st, StTop)
           q == [p EXCEPT !.version = version, !.st = st, !.sq = 0, !.sent = 0]
<1>1. st \in 1 .. StTop
  <2>1. p.st \in 0 .. StTop
    BY DEF Publisher
  <2> QED BY <2>1, AdvancedType, GoosePublisherAssumption
<1>2. 0 \in 0 .. SqTop /\ 0 \in 0 .. SentTop
  BY GoosePublisherAssumption
<1>3. Publish(p, version) = Build(q)
  BY DEF Publish
<1> HIDE DEF st
<1>4. q \in Publisher /\ q.st = st /\ q.version = version /\ q.sent = 0
  BY <1>1, <1>2 DEF Publisher
<1> HIDE DEF q
<1>5. /\ Build(q).st = q.st /\ Build(q).version = q.version
      /\ Build(q).frame # None /\ Build(q).frame.st = q.st /\ Build(q).frame.version = q.version
      /\ Build(q).frame.tal = TalAfter(q.sent) /\ Build(q).next = IntervalAfter(q.sent)
  BY <1>4, BuildSays
<1> QED BY <1>3, <1>4, <1>5 DEF st

LEMMA Typing ==
    ASSUME BeliefIsRight
    PROVE  /\ pub \in Publisher /\ boot \in 0 .. Boot /\ net \subseteq InFlight /\ lost \in 0 .. 2
           /\ sub \in Subscriber /\ app \in Belief /\ (app.valid <=> Live(sub))
           /\ pub.st \in Nat /\ pub.version \in Nat /\ pub.next \in Nat
           /\ pub.frame # None => pub.frame \in Frame /\ pub.frame.tal \in Nat
           /\ boot \in Nat /\ Boot \in Nat /\ MaxDelay \in Nat
           /\ \A e \in net : e.frame \in Frame /\ e.frame.tal \in Nat /\ e.ttl \in Nat /\ e.ttl <= MaxDelay
           /\ Live(sub) => sub.last \in Accepted /\ sub.last.expires \in Nat
           /\ Shortest \in Nat \ {0} /\ TalTop \in Nat
<1>1. /\ pub \in Publisher /\ boot \in 0 .. Boot /\ net \subseteq InFlight /\ lost \in 0 .. 2
      /\ sub \in Subscriber /\ app \in Belief /\ (app.valid <=> Live(sub))
  BY DEF BeliefIsRight, TypeOK, BeliefIsBacked
<1>2. Boot \in Nat /\ MaxDelay \in Nat
  BY GooseLinkAssumption
<1>3. /\ pub.st \in Nat /\ pub.version \in Nat /\ pub.next \in Nat
      /\ pub.frame # None => pub.frame \in Frame /\ pub.frame.tal \in Nat
  BY <1>1, GoosePublisherAssumption DEF Publisher, Frame
<1>4. \A e \in net : e.frame \in Frame /\ e.frame.tal \in Nat /\ e.ttl \in Nat /\ e.ttl <= MaxDelay
  BY <1>1, <1>2 DEF InFlight, Frame
<1>5. Live(sub) => sub.last \in Accepted /\ sub.last.expires \in Nat
  BY <1>1 DEF Live, Subscriber, Accepted
<1>6. Shortest \in Nat \ {0} /\ TalTop \in Nat
  BY CurveBounds, 0 \in Nat
<1> QED BY <1>1, <1>2, <1>3, <1>4, <1>5, <1>6

LEMMA DeliverSays ==
    ASSUME BeliefIsRight, NEW e \in net, Deliver(e)
    PROVE  /\ Judgement(app, sub, e.frame, sub') /\ app' = Believe(app, sub'.out)
           /\ pub' = pub /\ boot' = boot
           /\ \A x \in net' : \E y \in net : x.frame = y.frame /\ x.ttl = y.ttl
           /\ \A y \in net : y # e => y \in net'
<1>1. Judgement(app, sub, e.frame, OnFrame(sub, e.frame))
  BY Typing, OnFrameJudgement
<1>2. \A x \in net' : \E y \in net : x.frame = y.frame /\ x.ttl = y.ttl
  <2>1. e \in InFlight
    BY Typing
  <2>2. [e EXCEPT !.copies = 1, !.heard = TRUE].frame = e.frame /\ [e EXCEPT !.copies = 1, !.heard = TRUE].ttl = e.ttl
    BY <2>1 DEF InFlight
  <2> QED BY <2>2 DEF Deliver
<1> QED BY <1>1, <1>2 DEF Deliver

LEMMA WakeSays ==
    ASSUME BeliefIsRight, Wake
    PROVE  /\ Unjudged(app, sub, sub') /\ app' = Believe(app, sub'.out)
           /\ pub' = pub /\ boot' = boot /\ net' = net /\ lost' = lost
BY Typing, CheckExpiryUnjudged DEF Wake

LEMMA EndTestSays ==
    ASSUME BeliefIsRight, EndTest
    PROVE  /\ ~Live(sub') /\ ~sub'.expired /\ ~sub'.simulated /\ sub'.out = <<>>
           /\ pub' = pub /\ boot' = boot /\ net' = net /\ lost' = lost
<1> DEFINE q == Quieted(sub)
           u == [q EXCEPT !.simulated = FALSE]
           v == [u EXCEPT !.last = None, !.expired = FALSE, !.nds = FALSE]
<1>1. q \in Subscriber /\ q.out = <<>>
  BY Typing, EmptySeq DEF Quieted, Subscriber
<1> HIDE DEF q
<1>2. u \in Subscriber /\ ~u.simulated /\ u.out = <<>>
  BY <1>1 DEF Subscriber
<1> HIDE DEF u
<1>3. v.last = None /\ ~v.expired /\ ~v.simulated /\ v.out = <<>>
  BY <1>2 DEF Subscriber
<1>4. sub' = v
  BY DEF EndTest, ResetSimulation, ForgetSource, u, q
<1> HIDE DEF v
<1> QED BY <1>3, <1>4 DEF Live, EndTest

LEMMA TickSays ==
    ASSUME BeliefIsRight, Tick
    PROVE  /\ sub'.expired = sub.expired /\ sub'.simulated = sub.simulated /\ sub'.mode = sub.mode
           /\ sub'.out = <<>> /\ (Live(sub') => Live(sub))
           /\ Live(sub) => /\ sub.last.expires > 0 /\ sub'.last.expires = sub.last.expires - 1
                           /\ sub'.last.st = sub.last.st
           /\ app' = app /\ lost' = lost /\ boot' = Less(boot)
           /\ pub'.st = pub.st /\ pub'.version = pub.version /\ pub'.frame = pub.frame
           /\ pub'.next = Less(pub.next)
           /\ Running => pub.next > 0 /\ pub.frame = None
           /\ \A y \in net : y.ttl > 0
           /\ \A x \in net' : \E y \in net : x.frame = y.frame /\ x.ttl = y.ttl - 1
           /\ \A y \in net : \E x \in net' : x.heard = y.heard /\ x.ttl = y.ttl - 1
<1> DEFINE q == Quieted(sub)
<1>1. /\ q \in Subscriber /\ q.last = sub.last /\ q.expired = sub.expired /\ q.out = <<>>
      /\ q.simulated = sub.simulated /\ q.mode = sub.mode
  BY Typing, EmptySeq DEF Quieted, Subscriber
<1>2. sub' = IF sub.last = None THEN q ELSE [q EXCEPT !.last.expires = Less(@)]
  BY DEF Tick
<1> HIDE DEF q
<1>3. /\ sub'.expired = sub.expired /\ sub'.simulated = sub.simulated /\ sub'.mode = sub.mode
      /\ sub'.out = <<>> /\ (sub'.last = None <=> sub.last = None)
      /\ sub.last # None => /\ sub'.last.expires = Less(sub.last.expires)
                            /\ sub'.last.st = sub.last.st /\ sub.last.expires \in Nat
  <2>1. CASE sub.last = None
    BY <1>1, <1>2, <2>1
  <2>2. CASE sub.last # None
    <3> DEFINE last == [q.last EXCEPT !.expires = Less(q.last.expires)]
    <3>1. q.last \in Accepted /\ q.last.expires \in Nat
      BY <1>1, <2>2 DEF Subscriber, Accepted
    <3>2. last.expires = Less(q.last.expires) /\ last.st = q.last.st /\ last \in Accepted
      BY <3>1 DEF Accepted, Less
    <3>3. sub' = [q EXCEPT !.last = last]
      BY <1>2, <2>2
    <3> HIDE DEF last
    <3>4. /\ sub'.last = last /\ sub'.expired = q.expired /\ sub'.out = q.out
          /\ sub'.simulated = q.simulated /\ sub'.mode = q.mode
      BY <1>1, <3>3 DEF Subscriber
    <3>5. last # None
      BY <3>2, GooseSubscriberAssumption
    <3> QED BY <1>1, <2>2, <3>1, <3>2, <3>4, <3>5
  <2> QED BY <2>1, <2>2
<1>4. /\ Live(sub') => Live(sub)
      /\ Live(sub) => /\ sub.last.expires > 0 /\ sub'.last.expires = sub.last.expires - 1
                      /\ sub'.last.st = sub.last.st
  <2>1. Live(sub) => sub.last.expires > 0
    BY DEF Tick
  <2> QED BY <1>3, <2>1 DEF Live, Less
<1>5. /\ pub'.st = pub.st /\ pub'.version = pub.version /\ pub'.frame = pub.frame
      /\ pub'.next = Less(pub.next)
  BY Typing DEF Tick, Publisher
<1>6. \A y \in net : [y EXCEPT !.ttl = @ - 1].frame = y.frame /\ [y EXCEPT !.ttl = @ - 1].ttl = y.ttl - 1
                     /\ [y EXCEPT !.ttl = @ - 1].heard = y.heard
  BY Typing DEF InFlight
<1>7. net' = {[y EXCEPT !.ttl = @ - 1] : y \in net}
  BY DEF Tick
<1>8. /\ \A x \in net' : \E y \in net : x.frame = y.frame /\ x.ttl = y.ttl - 1
      /\ \A y \in net : \E x \in net' : x.heard = y.heard /\ x.ttl = y.ttl - 1
  BY <1>6, <1>7
<1>9. /\ app' = app /\ lost' = lost /\ boot' = Less(boot)
      /\ Running => pub.next > 0 /\ pub.frame = None
      /\ \A y \in net : y.ttl > 0
  BY DEF Tick
<1> QED BY <1>3, <1>4, <1>5, <1>8, <1>9

-----------------------------------------------------------------------------
(* The invariants hold *)

\* The publisher's steps leave the subscriber and the application alone.
LEMMA PublisherSays ==
    ASSUME ChangeState \/ Repeat \/ Toggle \/ Transmit \/ Crash
    PROVE  sub' = sub /\ app' = app /\ (Live(sub)' <=> Live(sub))
BY DEF ChangeState, Repeat, Toggle, Transmit, Crash, Live

LEMMA PolicyAlways == Spec => []Policy
<1>1. Init => Policy
  BY DEF Init, Policy, NewSubscriber
<1>2. BeliefIsRight /\ Policy /\ [Next]_vars => Policy'
  <2> SUFFICES ASSUME BeliefIsRight, Policy, [Next]_vars
               PROVE  Policy'
    OBVIOUS
  <2>1. CASE ChangeState \/ Repeat \/ Toggle \/ Transmit \/ Crash
    BY <2>1, PublisherSays DEF Policy
  <2>2. ASSUME NEW e \in net, Deliver(e)
        PROVE  Policy'
    BY <2>2, DeliverSays DEF Policy, Judgement
  <2>3. ASSUME NEW e \in net, Lose(e)
        PROVE  Policy'
    BY <2>3 DEF Policy, Lose
  <2>4. CASE Wake
    BY <2>4, WakeSays DEF Policy, Unjudged
  <2>5. CASE EndTest
    BY <2>5, EndTestSays DEF Policy
  <2>6. CASE Tick
    BY <2>6, TickSays DEF Policy
  <2>7. CASE UNCHANGED vars
    BY <2>7 DEF vars, Policy
  <2> QED BY <2>1, <2>2, <2>3, <2>4, <2>5, <2>6, <2>7 DEF Next
<1> QED BY <1>1, <1>2, BeliefIsAlwaysRight, PTL DEF Spec

\* What is live after a frame was live before it, or is that frame's.
LEMMA LiveAfterFrame ==
    ASSUME BeliefIsRight, NEW e \in net, Deliver(e), Live(sub')
    PROVE  \/ Accepts(sub') /\ sub'.last.expires = e.frame.tal /\ sub'.last.st = e.frame.st
           \/ ~Accepts(sub') /\ Live(sub) /\ sub'.last = sub.last /\ app' = app
<1>1. Judgement(app, sub, e.frame, sub') /\ app' = Believe(app, sub'.out)
  BY DeliverSays
<1>2. CASE Accepts(sub')
  <2>1. sub'.last = [st |-> e.frame.st, sq |-> e.frame.sq, expires |-> e.frame.tal]
    BY <1>1, <1>2, Zenon DEF Judgement
  <2>2. sub'.last.expires = e.frame.tal /\ sub'.last.st = e.frame.st
    BY <2>1
  <2> QED BY <1>2, <2>2
<1>3. CASE ~Accepts(sub')
  BY <1>1, <1>3, Zenon DEF Judgement
<1> QED BY <1>2, <1>3

LEMMA ClearedKept ==
    ASSUME BeliefIsRight, Cleared, [Next]_vars
    PROVE  Cleared'
<1> USE DEF Running
<1>0. /\ Live(sub)' <=> Live(sub')
      /\ boot \in Nat /\ Boot \in Nat /\ boot <= Boot /\ MaxDelay \in Nat /\ TalTop \in Nat
  BY Typing DEF Live
<1>1. CASE ChangeState \/ Repeat
  <2>1. pub'.frame.tal <= TalTop
    <3>1. CASE ChangeState
      <4>1. pub' = Publish(pub, pub.version + 1) /\ pub.version + 1 \in Nat
        BY <3>1, Typing DEF ChangeState
      <4>2. pub'.frame.tal = TalAfter(0)
        BY <4>1, Typing, PublishSays
      <4> QED BY <4>2, CurveBounds, 0 \in Nat
    <3>2. CASE Repeat
      <4>1. pub' = Build(pub)
        BY <3>2 DEF Repeat, OnTimeout
      <4>2. pub'.frame.tal = TalAfter(pub.sent) /\ pub.sent \in Nat
        BY <4>1, Typing, BuildSays
      <4> QED BY <4>2, CurveBounds
    <3> QED BY <1>1, <3>1, <3>2
  <2>2. boot' = boot /\ boot = 0 /\ net' = net /\ sub' = sub
    BY <1>1 DEF ChangeState, Repeat
  <2> QED BY <2>1, <2>2, <1>0 DEF Cleared
<1>2. CASE Toggle
  <2>1. pub'.frame = pub.frame
    BY <1>2, Typing DEF Toggle, SetSimulation, Publisher
  <2> QED BY <1>0, <1>2, <2>1 DEF Toggle, Cleared
<1>3. CASE Transmit
  <2>1. pub'.frame = None /\ boot = 0 /\ boot' = boot /\ sub' = sub
    BY <1>3, Typing DEF Transmit, Collected, Publisher
  <2>2. \A x \in net' : x \in net \/ x.frame = pub.frame
    BY <1>3 DEF Transmit
  <2>3. pub.frame.tal <= TalTop
    BY <1>3 DEF Transmit, Cleared
  <2> QED BY <1>0, <2>1, <2>2, <2>3 DEF Cleared
<1>4. CASE Crash
  <2>1. pub'.frame = None /\ boot' = Boot /\ sub' = sub /\ net' = net
    BY <1>4 DEF Crash, NewPublisher
  <2>2. \A x \in net : x.ttl + (Boot - Boot) <= MaxDelay
    BY Typing
  <2>3. Live(sub) => sub.last.expires + (Boot - Boot) <= MaxDelay + TalTop
    BY Typing DEF Cleared
  <2> QED BY <1>0, <2>1, <2>2, <2>3 DEF Cleared
<1>5. ASSUME NEW e \in net, Deliver(e)
      PROVE  Cleared'
  <2>1. /\ pub' = pub /\ boot' = boot
        /\ \A x \in net' : \E y \in net : x.frame = y.frame /\ x.ttl = y.ttl
    BY <1>5, DeliverSays
  <2>2. Live(sub') => \/ sub'.last.expires = e.frame.tal
                      \/ Live(sub) /\ sub'.last = sub.last
    BY <1>5, LiveAfterFrame
  <2>3. e.frame.tal <= TalTop /\ e.frame.tal \in Nat /\ e.ttl \in Nat
    BY Typing DEF Cleared
  <2>4. boot # 0 => e.frame.tal + (Boot - boot) <= MaxDelay + TalTop
    <3>1. boot # 0 => e.ttl + (Boot - boot) <= MaxDelay
      BY DEF Cleared
    <3> QED BY <1>0, <2>3, <3>1
  <2>5. Live(sub') => /\ sub'.last.expires <= TalTop
                      /\ boot # 0 => sub'.last.expires + (Boot - boot) <= MaxDelay + TalTop
    BY <2>2, <2>3, <2>4 DEF Cleared
  <2>6. \A x \in net' : x.frame.tal <= TalTop /\ (boot # 0 => x.ttl + (Boot - boot) <= MaxDelay)
    BY <2>1 DEF Cleared
  <2> QED BY <1>0, <2>1, <2>5, <2>6 DEF Cleared
<1>6. ASSUME NEW e \in net, Lose(e)
      PROVE  Cleared'
  BY <1>0, <1>6 DEF Lose, Cleared
<1>7. CASE Wake
  <2>1. Live(sub') => Live(sub) /\ sub'.last = sub.last
    BY <1>7, WakeSays DEF Unjudged
  <2> QED BY <1>0, <1>7, <2>1, WakeSays DEF Cleared
<1>8. CASE EndTest
  BY <1>0, <1>8, EndTestSays DEF Cleared
<1>9. CASE Tick
  <2>1. /\ Live(sub') => Live(sub) /\ sub'.last.expires = sub.last.expires - 1 /\ sub.last.expires \in Nat
        /\ \A x \in net' : \E y \in net : x.frame = y.frame /\ x.ttl = y.ttl - 1 /\ y.ttl \in Nat
        /\ pub'.frame = pub.frame /\ boot' = Less(boot) /\ (boot = 0 => pub.frame = None)
    BY <1>9, TickSays, Typing
  <2>2. boot' # 0 => boot # 0 /\ boot' = boot - 1
    BY <2>1, <1>0 DEF Less
  <2>3. \A x \in net' : x.frame.tal <= TalTop /\ (boot' # 0 => x.ttl + (Boot - boot') <= MaxDelay)
    <3> TAKE x \in net'
    <3>1. PICK y \in net : x.frame = y.frame /\ x.ttl = y.ttl - 1 /\ y.ttl \in Nat
      BY <2>1
    <3>2. y.frame.tal <= TalTop /\ (boot # 0 => y.ttl + (Boot - boot) <= MaxDelay)
      BY DEF Cleared
    <3> QED BY <1>0, <2>2, <3>1, <3>2
  <2>4. Live(sub') => /\ sub'.last.expires <= TalTop
                      /\ boot' # 0 => sub'.last.expires + (Boot - boot') <= MaxDelay + TalTop
    <3> SUFFICES ASSUME Live(sub')
                 PROVE  /\ sub'.last.expires <= TalTop
                        /\ boot' # 0 => sub'.last.expires + (Boot - boot') <= MaxDelay + TalTop
      OBVIOUS
    <3>1. sub.last.expires <= TalTop /\ (boot # 0 => sub.last.expires + (Boot - boot) <= MaxDelay + TalTop)
      BY <2>1 DEF Cleared
    <3> QED BY <1>0, <2>1, <2>2, <3>1
  <2>5. pub'.frame = None
    BY <2>1 DEF Cleared
  <2> QED BY <1>0, <2>3, <2>4, <2>5 DEF Cleared
<1>10. CASE UNCHANGED vars
  BY <1>0, <1>10 DEF vars, Cleared
<1> QED BY <1>1, <1>2, <1>3, <1>4, <1>5, <1>6, <1>7, <1>8, <1>9, <1>10 DEF Next

LEMMA ClearedAlways == Spec => []Cleared
<1>1. Init => Cleared
  BY DEF Init, Cleared, NewPublisher, NewSubscriber, Running, Live
<1>2. BeliefIsRight /\ Cleared /\ [Next]_vars => Cleared'
  BY ClearedKept
<1> QED BY <1>1, <1>2, BeliefIsAlwaysRight, PTL DEF Spec

\* When a publisher is back nothing is left of what it sent before.
LEMMA LastOfOld ==
    ASSUME BeliefIsRight, Cleared, RestartsSlowly, Tick, ~Running, Running'
    PROVE  net' = {} /\ ~Live(sub') /\ pub'.frame = None
<1>1. boot = 1
  <2>1. boot # 0 /\ Less(boot) = 0 /\ boot \in Nat
    BY TickSays, Typing DEF Running
  <2> QED BY <2>1 DEF Less
<1>2. net = {}
  <2> SUFFICES ASSUME NEW e \in net PROVE FALSE
    OBVIOUS
  <2>1. e.ttl > 0 /\ e.ttl \in Nat /\ e.ttl + (Boot - boot) <= MaxDelay
    BY TickSays, Typing DEF Cleared
  <2> QED BY <1>1, <2>1, Typing DEF RestartsSlowly
<1>3. ~Live(sub)
  <2> SUFFICES ASSUME Live(sub) PROVE FALSE
    OBVIOUS
  <2>1. sub.last.expires > 0 /\ sub.last.expires \in Nat /\ sub.last.expires + (Boot - boot) <= MaxDelay + TalTop
    BY TickSays, Typing DEF Cleared
  <2> QED BY <1>1, <2>1, Typing DEF RestartsSlowly
<1> QED BY <1>2, <1>3, TickSays DEF Cleared

\* What a step leaves under way and alive of a start is still of it.
LEMMA OneStartKept ==
    ASSUME NEW d \in Int, OneStart(d), \A x \in net' : \E y \in net : x.frame = y.frame,
           Tells(app', sub', d)
    PROVE  OneStart(d)'
<1>1. \A x \in net' : Made(x.frame, d)
  BY DEF OneStart
<1>2. Tells(app, sub, d)' <=> Tells(app', sub', d)
  BY DEF Tells, Live
<1> QED BY <1>1, <1>2 DEF OneStart, Made

LEMMA NumberedKept ==
    ASSUME NoWrap, RestartsSlowly, BeliefIsRight, Cleared, Numbered, [Next]_vars
    PROVE  Numbered'
<1>0. /\ pub.st \in Nat /\ pub.version \in Nat /\ Ahead \in Int
      /\ boot \in Nat /\ Boot \in Nat \ {0} /\ StTop \in Nat /\ MaxVersion \in Nat /\ MaxVersion <= StTop
  <2>1. Window \in Nat /\ StTop \in Nat /\ MaxVersion \in Nat
    BY GoosePublisherAssumption, GooseSubscriberAssumption, GooseLinkAssumption
  <2> QED BY <2>1, Typing DEF Ahead, NoWrap, RestartsSlowly
<1> DEFINE Stays == /\ pub'.st = pub.st /\ pub'.version = pub.version
                    /\ pub'.frame # None => pub'.frame = pub.frame
                    /\ Running' <=> Running
                    /\ \A x \in net' : \E y \in net : x.frame = y.frame
                    /\ \A d \in Int : OneStart(d) => Tells(app', sub', d)
<1>1. ASSUME Stays PROVE Numbered'
  <2>1. Ahead' = Ahead
    BY <1>1 DEF Ahead
  <2>2. \A d \in Int : OneStart(d) => OneStart(d)'
    BY <1>1, OneStartKept
  <2>3. Running => OneStart(Ahead)'
    <3> DEFINE d == Ahead
    <3>1. Running => OneStart(d)
      BY DEF Numbered
    <3>2. d \in Int
      BY <1>0
    <3> QED BY <2>2, <3>1, <3>2, <2>1 DEF OneStart, Ahead
  <2>4. ~Running => \E d \in Int : OneStart(d)'
    BY <2>2 DEF Numbered
  <2>5. pub'.frame # None => Made(pub'.frame, Ahead')
    BY <1>1, <2>1 DEF Numbered
  <2> QED BY <1>1, <2>1, <2>3, <2>4, <2>5 DEF Numbered, Made
<1> HIDE DEF Stays
<1>2. CASE ChangeState \/ Repeat
  <2>1. /\ pub'.frame.st = pub'.st /\ pub'.frame.version = pub'.version
        /\ pub'.version - pub'.st = Ahead /\ pub'.st \in Nat /\ pub'.version \in Nat
        /\ pub'.st <= pub'.version /\ pub'.version <= MaxVersion
    <3>1. CASE ChangeState
      <4>1. pub' = Publish(pub, pub.version + 1) /\ pub.version + 1 \in Nat /\ pub.version < MaxVersion
        BY <3>1, <1>0 DEF ChangeState
      <4>2. /\ pub'.st = Advanced(pub.st, StTop) /\ pub'.version = pub.version + 1
            /\ pub'.frame.st = pub'.st /\ pub'.frame.version = pub'.version
        BY <4>1, Typing, PublishSays
      <4>3. pub.st <= pub.version
        BY DEF Numbered
      <4>4. Advanced(pub.st, StTop) = pub.st + 1
        BY <1>0, <4>1, <4>3 DEF Advanced
      <4> QED BY <1>0, <4>1, <4>2, <4>3, <4>4 DEF Ahead
    <3>2. CASE Repeat
      <4>1. pub' = Build(pub)
        BY <3>2 DEF Repeat, OnTimeout
      <4>2. /\ pub'.st = pub.st /\ pub'.version = pub.version
            /\ pub'.frame.st = pub.st /\ pub'.frame.version = pub.version
        BY <4>1, Typing, BuildSays
      <4> QED BY <1>0, <4>2 DEF Numbered, Ahead
    <3> QED BY <1>2, <3>1, <3>2
  <2>2. Running /\ Running' /\ net' = net /\ sub' = sub /\ app' = app
    BY <1>2 DEF ChangeState, Repeat, Running
  <2>3. Ahead' = Ahead
    BY <2>1 DEF Ahead
  <2>4. OneStart(Ahead)'
    BY <2>2, <2>3 DEF Numbered, OneStart, Made, Tells, Live, Ahead
  <2>5. Made(pub'.frame, Ahead')
    BY <1>0, <2>1, <2>3 DEF Made
  <2> QED BY <2>1, <2>2, <2>4, <2>5 DEF Numbered, Made
<1>3. CASE Toggle
  <2>1. pub'.st = pub.st /\ pub'.version = pub.version /\ pub'.frame = pub.frame
    BY <1>3, Typing DEF Toggle, SetSimulation, Publisher
  <2>2. Stays
    BY <1>3, <2>1 DEF Toggle, Stays, OneStart, Running
  <2> QED BY <1>1, <2>2
<1>4. CASE Transmit
  <2>1. pub'.st = pub.st /\ pub'.version = pub.version /\ pub'.frame = None
    BY <1>4, Typing DEF Transmit, Collected, Publisher
  <2>2. Running /\ Running' /\ sub' = sub /\ app' = app /\ Ahead' = Ahead
    BY <1>4, <2>1 DEF Transmit, Running, Ahead
  <2>3. \A x \in net' : Made(x.frame, Ahead)
    <3>1. \A x \in net' : x \in net \/ x.frame = pub.frame
      BY <1>4 DEF Transmit
    <3> QED BY <1>4, <2>2, <3>1 DEF Transmit, Numbered, OneStart
  <2>4. OneStart(Ahead)'
    BY <2>2, <2>3 DEF Numbered, OneStart, Made, Tells, Live
  <2> QED BY <2>1, <2>2, <2>4 DEF Numbered
<1>5. CASE Crash
  <2>1. /\ pub'.st = 1 /\ pub'.version = pub.version + 1 /\ pub'.frame = None
        /\ boot' = Boot /\ sub' = sub /\ net' = net /\ app' = app /\ pub.version < MaxVersion /\ Running
    BY <1>5 DEF Crash, NewPublisher
  <2>2. OneStart(Ahead)
    BY <2>1 DEF Numbered
  <2>3. \E d \in Int : OneStart(d)'
    <3> DEFINE d == Ahead
    <3>1. d \in Int /\ OneStart(d) /\ Tells(app', sub', d)
      BY <1>0, <2>1, <2>2 DEF OneStart
    <3> HIDE DEF d
    <3> QED BY <2>1, <3>1, OneStartKept
  <2>4. ~Running'
    BY <1>0, <2>1 DEF Running
  <2> QED BY <1>0, <2>1, <2>3, <2>4 DEF Numbered
<1>6. ASSUME NEW e \in net, Deliver(e)
      PROVE  Numbered'
  <2>1. /\ Judgement(app, sub, e.frame, sub') /\ app' = Believe(app, sub'.out)
        /\ pub' = pub /\ boot' = boot
        /\ \A x \in net' : \E y \in net : x.frame = y.frame
    BY <1>6, DeliverSays
  <2>2. ASSUME NEW d \in Int, OneStart(d)
        PROVE  Tells(app', sub', d)
    <3>1. Made(e.frame, d) /\ Tells(app, sub, d)
      BY <2>2 DEF OneStart
    <3>2. Accepts(sub') => app'.version = e.frame.version
      BY <2>1, <3>1 DEF Judgement, Matches
    <3> QED BY <1>6, <3>1, <3>2, LiveAfterFrame DEF Tells, Made
  <2>3. Stays
    BY <2>1, <2>2 DEF Stays, Running
  <2> QED BY <1>1, <2>3
<1>7. ASSUME NEW e \in net, Lose(e)
      PROVE  Numbered'
  <2>1. Stays
    BY <1>7 DEF Lose, Stays, OneStart, Running
  <2> QED BY <1>1, <2>1
<1>8. CASE Wake
  <2>1. Live(sub') => Live(sub) /\ sub'.last = sub.last /\ app' = app
    BY <1>8, WakeSays DEF Unjudged
  <2>2. \A d \in Int : OneStart(d) => Tells(app', sub', d)
    BY <2>1 DEF OneStart, Tells
  <2>3. Stays
    BY <1>8, <2>2, WakeSays DEF Stays, Running
  <2> QED BY <1>1, <2>3
<1>9. CASE EndTest
  <2>1. Stays
    BY <1>9, EndTestSays DEF Stays, Running, Tells
  <2> QED BY <1>1, <2>1
<1>10. CASE Tick
  <2>1. CASE ~Running /\ Running'
    <3>1. net' = {} /\ ~Live(sub') /\ pub'.frame = None
      BY <1>10, <2>1, LastOfOld
    <3>2. OneStart(Ahead)'
      BY <3>1 DEF OneStart, Tells, Live
    <3> QED BY <1>10, <2>1, <3>1, <3>2, TickSays DEF Numbered
  <2>2. CASE ~(~Running /\ Running')
    <3>1. Running' <=> Running
      BY <1>0, <1>10, <2>2, TickSays DEF Running, Less
    <3>2. Live(sub') => Live(sub) /\ sub'.last.st = sub.last.st /\ app' = app
      BY <1>10, TickSays
    <3>3. \A d \in Int : OneStart(d) => Tells(app', sub', d)
      BY <3>2 DEF OneStart, Tells
    <3>4. Stays
      BY <1>10, <3>1, <3>3, TickSays DEF Stays
    <3> QED BY <1>1, <3>4
  <2> QED BY <2>1, <2>2
<1>11. CASE UNCHANGED vars
  <2>1. Stays
    BY <1>11 DEF vars, Stays, OneStart, Running
  <2> QED BY <1>1, <2>1
<1> QED BY <1>2, <1>3, <1>4, <1>5, <1>6, <1>7, <1>8, <1>9, <1>10, <1>11 DEF Next

LEMMA NumberedAlways ==
    ASSUME NoWrap, RestartsSlowly
    PROVE  Spec => []Numbered
<1>1. Init => Numbered
  <2> SUFFICES ASSUME Init PROVE Numbered
    OBVIOUS
  <2>1. pub.st = 1 /\ pub.version = 1 /\ pub.frame = None /\ net = {} /\ boot = 0
    BY DEF Init, NewPublisher
  <2>2. ~Live(sub)
    BY DEF Init, NewSubscriber, Live
  <2> QED BY <2>1, <2>2 DEF Numbered, OneStart, Tells, Running, NoWrap
<1>2. BeliefIsRight /\ Cleared /\ Numbered /\ [Next]_vars => Numbered'
  BY NumberedKept
<1> QED BY <1>1, <1>2, BeliefIsAlwaysRight, ClearedAlways, PTL DEF Spec

LEMMA CoveredKept ==
    ASSUME Timely, RestartsSlowly, BeliefIsRight, Cleared, Covered, [Next]_vars
    PROVE  Covered'
<1>0. /\ pub.next \in Nat /\ boot \in Nat /\ Boot \in Nat \ {0} /\ MaxDelay \in Nat /\ MaxDelay < Shortest
      /\ Shortest \in Nat \ {0} /\ lost \in Nat /\ lost \in 0 .. 2
      /\ \A e \in net : e.frame.tal \in Nat /\ e.ttl \in Nat /\ e.ttl <= MaxDelay
      /\ pub.frame # None => pub.frame.tal \in Nat
      /\ Live(sub) => sub.last.expires \in Nat
      /\ Live(sub)' <=> Live(sub')
  BY Typing DEF Timely, RestartsSlowly, Live
<1>1. Running => /\ \A e \in net : /\ e.ttl + Shortest <= MaxDelay + pub.next
                                   /\ 2 * Shortest <= e.frame.tal /\ pub.next + MaxDelay < e.frame.tal
                 /\ pub.frame # None => /\ Shortest <= pub.next
                                        /\ 2 * Shortest <= pub.frame.tal /\ pub.next + MaxDelay < pub.frame.tal
                 /\ lost = 0 /\ Live(sub) => NextComes
  BY DEF Covered, Allows
<1>2. ASSUME NEW n \in Nat, net' = net, sub' = sub, Running, Running',
             pub'.frame # None, pub'.frame.tal = TalAfter(n), pub'.next = IntervalAfter(n),
             n = 0 \/ net = {}, lost' = Replaced
      PROVE  Covered'
  <2>1. /\ Shortest <= pub'.next /\ pub'.next \in Nat /\ pub'.frame.tal \in Nat
        /\ 2 * pub'.next <= pub'.frame.tal /\ (n = 0 => pub'.next = Shortest)
    BY <1>2, CurveBounds DEF Timely
  <2>2. \A e \in net : /\ e.ttl + Shortest <= MaxDelay + pub'.next
                       /\ 2 * Shortest <= e.frame.tal /\ pub'.next + MaxDelay < e.frame.tal
    BY <1>0, <1>1, <1>2, <2>1
  <2>3. Shortest <= pub'.next /\ 2 * Shortest <= pub'.frame.tal /\ pub'.next + MaxDelay < pub'.frame.tal
    BY <1>0, <2>1
  <2>4. ASSUME lost' = 0, Live(sub)
        PROVE  NextComes'
    <3>1. lost = 0 /\ pub.frame = None
      BY <1>0, <1>2, <2>4 DEF Replaced, More
    <3>2. NextComes
      BY <1>1, <1>2, <2>4, <3>1
    <3>3. \/ \E e \in net : ~e.heard /\ e.ttl < sub.last.expires
          \/ MaxDelay < sub.last.expires
      BY <1>0, <2>4, <3>1, <3>2 DEF NextComes
    <3> QED BY <1>2, <3>3 DEF NextComes
  <2>5. lost' = 0 /\ Live(sub)' => NextComes'
    BY <1>0, <1>2, <2>4
  <2> QED BY <1>2, <2>2, <2>3, <2>5 DEF Covered, Allows
<1>3. CASE ChangeState
  <2>1. pub' = Publish(pub, pub.version + 1) /\ pub.version + 1 \in Nat
    BY <1>3, Typing DEF ChangeState
  <2>2. pub'.frame # None /\ pub'.frame.tal = TalAfter(0) /\ pub'.next = IntervalAfter(0)
    BY <2>1, Typing, PublishSays
  <2>3. net' = net /\ sub' = sub /\ Running /\ Running' /\ lost' = Replaced
    BY <1>3 DEF ChangeState, Running
  <2> QED BY <1>2, <2>2, <2>3, 0 \in Nat
<1>4. CASE Repeat
  <2>1. pub' = Build(pub) /\ pub.next = 0 /\ Running
    BY <1>4 DEF Repeat, OnTimeout
  <2>2. /\ pub'.frame # None /\ pub'.frame.tal = TalAfter(pub.sent) /\ pub'.next = IntervalAfter(pub.sent)
        /\ pub.sent \in Nat
    BY <2>1, Typing, BuildSays
  <2>3. net = {}
    <3> SUFFICES ASSUME NEW e \in net PROVE FALSE
      OBVIOUS
    <3> QED BY <1>0, <1>1, <2>1
  <2>4. net' = net /\ sub' = sub /\ Running' /\ lost' = Replaced
    BY <1>4 DEF Repeat, Running
  <2> QED BY <1>2, <2>1, <2>2, <2>3, <2>4
<1>5. CASE Toggle
  <2>1. pub'.next = pub.next /\ pub'.frame = pub.frame
    BY <1>5, Typing DEF Toggle, SetSimulation, Publisher
  <2> QED BY <1>0, <1>5, <2>1 DEF Toggle, Covered, Allows, NextComes, Running
<1>6. CASE Transmit
  <2>1. pub'.next = pub.next /\ pub'.frame = None /\ Running /\ pub.frame # None
    BY <1>6, Typing DEF Transmit, Collected, Publisher
  <2>2. /\ \A x \in net' : x \in net \/ (x.frame = pub.frame /\ x.ttl = MaxDelay)
        /\ net \subseteq net'
        /\ \E x \in net' : ~x.heard /\ x.ttl = MaxDelay
        /\ sub' = sub /\ lost' = lost
    <3>1. PICK copies \in 1 .. 2 : net' = net \cup {[frame |-> pub.frame, copies |-> copies,
                                                     heard |-> FALSE, ttl |-> MaxDelay]}
      BY <1>6 DEF Transmit
    <3> DEFINE x == [frame |-> pub.frame, copies |-> copies, heard |-> FALSE, ttl |-> MaxDelay]
    <3>2. x.frame = pub.frame /\ x.ttl = MaxDelay /\ ~x.heard /\ x \in net' /\ net' = net \cup {x}
      BY <3>1
    <3> HIDE DEF x
    <3> QED BY <1>6, <3>2 DEF Transmit
  <2>3. \A x \in net' : /\ x.ttl + Shortest <= MaxDelay + pub.next
                        /\ 2 * Shortest <= x.frame.tal /\ pub.next + MaxDelay < x.frame.tal
    BY <1>0, <1>1, <2>1, <2>2
  <2>4. ASSUME lost = 0, Live(sub)
        PROVE  NextComes'
    <3>1. NextComes
      BY <1>1, <2>1, <2>4
    <3> QED BY <2>1, <2>2, <3>1 DEF NextComes
  <2> QED BY <1>0, <2>1, <2>2, <2>3, <2>4 DEF Covered, Allows
<1>7. CASE Crash
  BY <1>0, <1>7 DEF Crash, Covered, Running
<1>8. ASSUME NEW e \in net, Deliver(e)
      PROVE  Covered'
  <2>1. /\ pub' = pub /\ boot' = boot
        /\ \A x \in net' : \E y \in net : x.frame = y.frame /\ x.ttl = y.ttl
        /\ \A y \in net : y # e => y \in net'
    BY <1>8, DeliverSays
  <2> SUFFICES ASSUME Running
               PROVE  /\ \A x \in net' : /\ x.ttl + Shortest <= MaxDelay + pub.next
                                         /\ 2 * Shortest <= x.frame.tal /\ pub.next + MaxDelay < x.frame.tal
                      /\ lost' = 0 /\ Live(sub') => NextComes'
    BY <1>0, <1>1, <2>1 DEF Covered, Allows, Running
  <2>2. \A x \in net' : /\ x.ttl + Shortest <= MaxDelay + pub.next
                        /\ 2 * Shortest <= x.frame.tal /\ pub.next + MaxDelay < x.frame.tal
    BY <1>1, <2>1
  <2>3. ASSUME lost' = 0, Live(sub')
        PROVE  NextComes'
    <3>1. CASE Accepts(sub')
      <4>1. sub'.last.expires = e.frame.tal
        BY <1>8, <2>3, <3>1, LiveAfterFrame
      <4> QED BY <1>1, <2>1, <4>1 DEF NextComes
    <3>2. CASE ~Accepts(sub')
      <4>1. Live(sub) /\ sub'.last = sub.last
        BY <1>8, <2>3, <3>2, LiveAfterFrame
      <4>2. e.heard /\ lost = 0
        BY <1>0, <1>8, <2>3, <3>2 DEF Deliver, More
      <4>3. NextComes
        BY <1>1, <4>1, <4>2
      <4> QED BY <2>1, <4>1, <4>2, <4>3 DEF NextComes
    <3> QED BY <3>1, <3>2
  <2> QED BY <2>2, <2>3
<1>9. ASSUME NEW e \in net, Lose(e)
      PROVE  Covered'
  <2>1. /\ pub' = pub /\ boot' = boot /\ sub' = sub /\ net' = net \ {e}
        /\ lost' = IF e.heard THEN lost ELSE More(lost)
    BY <1>9 DEF Lose
  <2>2. ASSUME Running, lost' = 0, Live(sub)
        PROVE  NextComes'
    <3>1. e.heard /\ lost = 0
      BY <1>0, <2>1, <2>2 DEF More
    <3>2. NextComes
      BY <1>1, <2>2, <3>1
    <3> QED BY <2>1, <3>1, <3>2 DEF NextComes
  <2> QED BY <1>0, <2>1, <2>2 DEF Covered, Allows, Running
<1>10. CASE Wake
  <2>1. Live(sub') => Live(sub) /\ sub'.last = sub.last
    BY <1>10, WakeSays DEF Unjudged
  <2> QED BY <1>0, <1>10, <2>1, WakeSays DEF Covered, Allows, NextComes, Running
<1>11. CASE EndTest
  BY <1>0, <1>11, EndTestSays DEF Covered, Allows, Running
<1>12. CASE Tick
  <2>1. CASE ~Running /\ Running'
    <3>1. net' = {} /\ ~Live(sub') /\ pub'.frame = None
      BY <1>12, <2>1, LastOfOld
    <3> QED BY <1>0, <3>1 DEF Covered
  <2>2. CASE Running
    <3>1. /\ pub.next > 0 /\ pub'.next = pub.next - 1 /\ pub'.frame = None /\ pub.frame = None /\ lost' = lost
          /\ \A x \in net' : \E y \in net : x.frame = y.frame /\ x.ttl = y.ttl - 1
          /\ \A y \in net : \E x \in net' : x.heard = y.heard /\ x.ttl = y.ttl - 1
          /\ Live(sub') => Live(sub)
          /\ Live(sub) => sub.last.expires > 0 /\ sub'.last.expires = sub.last.expires - 1
      BY <1>0, <1>12, <2>2, TickSays DEF Less
    <3>2. \A x \in net' : /\ x.ttl + Shortest <= MaxDelay + pub'.next
                          /\ 2 * Shortest <= x.frame.tal /\ pub'.next + MaxDelay < x.frame.tal
      BY <1>0, <1>1, <2>2, <3>1
    <3>3. ASSUME lost = 0, Live(sub')
          PROVE  NextComes'
      <4>1. NextComes /\ Live(sub)
        BY <1>1, <2>2, <3>1, <3>3
      <4>2. CASE pub.next + MaxDelay < sub.last.expires
        BY <1>0, <3>1, <4>1, <4>2 DEF NextComes
      <4>3. ASSUME NEW y \in net, ~y.heard, y.ttl < sub.last.expires
            PROVE  NextComes'
        <5>1. PICK x \in net' : x.heard = y.heard /\ x.ttl = y.ttl - 1
          BY <3>1
        <5>2. ~x.heard /\ x.ttl < sub'.last.expires
          BY <1>0, <3>1, <4>1, <4>3, <5>1
        <5> QED BY <5>2 DEF NextComes
      <4> QED BY <3>1, <4>1, <4>2, <4>3 DEF NextComes
    <3> QED BY <1>0, <3>1, <3>2, <3>3 DEF Covered, Allows
  <2>3. CASE ~Running'
    BY <2>3 DEF Covered
  <2> QED BY <2>1, <2>2, <2>3
<1>13. CASE UNCHANGED vars
  BY <1>0, <1>13 DEF vars, Covered, Allows, NextComes, Running
<1> QED BY <1>3, <1>4, <1>5, <1>6, <1>7, <1>8, <1>9, <1>10, <1>11, <1>12, <1>13 DEF Next

LEMMA CoveredAlways ==
    ASSUME Timely, RestartsSlowly
    PROVE  Spec => []Covered
<1>1. Init => Covered
  BY DEF Init, NewPublisher, NewSubscriber, Live, Covered
<1>2. BeliefIsRight /\ Cleared /\ Covered /\ [Next]_vars => Covered'
  BY CoveredKept
<1> QED BY <1>1, <1>2, BeliefIsAlwaysRight, ClearedAlways, PTL DEF Spec

(***************************************************************************)
(* The theorems                                                            *)
(***************************************************************************)

\* Once a test set is followed no frame of the real publisher gets through
\* until the application ends the test (subscriber.rs:325-400), whatever the
\* network and the publisher do.
THEOREM TestIsAlwaysExclusive == Spec => TestIsExclusive
<1>1. BeliefIsRight /\ Policy /\ [Next]_vars =>
        [\A e \in net : Deliver(e) /\ sub.simulated /\ Accepts(sub') => e.frame.sim]_vars
  BY DeliverSays DEF Judgement, Policy
<1> QED BY <1>1, BeliefIsAlwaysRight, PolicyAlways, PTL DEF Spec, TestIsExclusive

\* A new state is never one the application has seen already or an older one,
\* and a repetition carries the values it is taken for (subscriber.rs:478-511),
\* where a restart outlasts what was sent before it and stNum does not wrap.
THEOREM StatesAreAlwaysInOrder ==
    ASSUME NoWrap, RestartsSlowly
    PROVE  Spec => StatesInOrder
<1>1. BeliefIsRight /\ Numbered /\ [Next]_vars => (sub' # sub => EventsFit(app, sub'.out))
  <2> SUFFICES ASSUME BeliefIsRight, Numbered, [Next]_vars, sub' # sub
               PROVE  EventsFit(app, sub'.out)
    OBVIOUS
  <2>1. ASSUME NEW e \in net, Deliver(e)
        PROVE  EventsFit(app, sub'.out)
    <3>1. \E d \in Int : OneStart(d)
      BY Typing DEF Numbered, Ahead
    <3>2. Matches(app, sub, e.frame)
      BY <3>1 DEF OneStart, Matches
    <3> QED BY <2>1, <3>2, DeliverSays DEF Judgement
  <2>2. CASE Wake
    BY <2>2, WakeSays, NothingAccepted DEF Unjudged
  <2>3. CASE EndTest
    BY <2>3, EndTestSays DEF EventsFit
  <2>4. CASE Tick
    BY <2>4, TickSays DEF EventsFit
  <2> QED BY <2>1, <2>2, <2>3, <2>4, PublisherSays DEF Next, Lose, vars
<1>2. BeliefIsRight /\ Numbered /\ [Next]_vars =>
        [sub' # sub => \A i \in DOMAIN sub'.out :
           LET e == sub'.out[i]
               told == Believe(app, SubSeq(sub'.out, 1, i - 1))
           IN  /\ e.kind = "retransmission" =>
                    told.valid /\ told.version = e.version
               /\ e.kind = "state" /\ told.valid => told.version < e.version]_vars
  BY <1>1 DEF EventsFit, FitsIn
<1> QED BY <1>2, BeliefIsAlwaysRight, NumberedAlways, PTL DEF Spec, StatesInOrder

\* Only frames of the source that is followed get through, and only forward
\* (subscriber.rs:325-511).
THEOREM OnlyTheNextStateEver ==
    ASSUME NoWrap, RestartsSlowly
    PROVE  Spec => OnlyTheNextState
BY StatesAreAlwaysInOrder, TestIsAlwaysExclusive DEF OnlyTheNextState

\* A subscription whose publisher runs expires only when frames were lost: what
\* a frame allows covers the wait for the next (publisher.rs:33-52), at every
\* point of every curve, if a frame allows twice its interval and is delayed by
\* less than the shortest.
THEOREM ExpiryMeansLoss ==
    ASSUME Timely, RestartsSlowly
    PROVE  Spec => ExpiresForALoss
<1>1. BeliefIsRight /\ Covered /\ [Next]_vars =>
        [Running /\ ~sub.expired /\ sub'.expired => lost > 0]_vars
  <2> SUFFICES ASSUME BeliefIsRight, Covered, [Next]_vars, Running, ~sub.expired, sub'.expired
               PROVE  lost > 0
    OBVIOUS
  <2>1. Live(sub) /\ sub.last.expires = 0
    <3>1. ASSUME NEW e \in net, Deliver(e)
          PROVE  Live(sub) /\ sub.last.expires = 0
      BY <3>1, DeliverSays DEF Judgement
    <3>2. CASE Wake
      BY <3>2 DEF Wake
    <3> QED BY <3>1, <3>2, EndTestSays, TickSays, PublisherSays DEF Next, Lose, vars
  <2>2. lost # 0
    <3> SUFFICES ASSUME lost = 0 PROVE FALSE
      OBVIOUS
    <3>1. NextComes
      BY <2>1 DEF Covered
    <3> QED BY <2>1, <3>1, Typing DEF NextComes
  <2> QED BY <2>2, Typing
<1> QED BY <1>1, BeliefIsAlwaysRight, CoveredAlways, PTL DEF Spec, ExpiresForALoss
=============================================================================
