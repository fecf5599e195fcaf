------------------------------ MODULE SvProofs -------------------------------
(***************************************************************************)
(* What holds of every stream of sampled values: of any rate, any number   *)
(* of samples to the frame, any layout, delay, timer and queue, and any    *)
(* number of frames under way (SvLink).                                    *)
(*                                                                         *)
(* The invariant has two halves.  Sent is of the merging unit and of the   *)
(* network, and holds by itself: a frame that waits or is under way        *)
(* carries the samples of one tick, and what they measure tells their      *)
(* number, so that their age is the frame's.  Backing and Links are of the *)
(* subscriber: what waits in its queue brings the application to believe   *)
(* what is so, and its count, its last sample and its timer stand in step  *)
(* with what truly reached it.  That a stream cannot lose whole seconds    *)
(* unseen is arithmetic: the timer bounds the time since the last sample,  *)
(* and the delay the age of the next, by less than a second together.      *)
(*                                                                         *)
(* The hypotheses are those of SvLink.  Spelled is one on constants: that  *)
(* what is written into octets is what they spell, which takes powers, and *)
(* TLC evaluates it.                                                       *)
(***************************************************************************)
EXTENDS SvLink, SequenceTheorems, NaturalsInduction, WellFoundedInduction, TLAPS

-----------------------------------------------------------------------------
(* Numbers                                                                 *)

LEMMA LeastOf ==
    ASSUME NEW T, T \subseteq Nat, T # {}
    PROVE  \E k \in T : \A j \in T : k <= j
<1>1. \E R : IsWellFoundedOn(R, Nat) /\ \A m, n \in Nat : m < n => <<m, n>> \in R
  <2>1. \A m, n \in Nat : m < n => <<m, n>> \in OpToRel(<, Nat)
    BY Zenon DEF OpToRel
  <2> QED BY <2>1, NatLessThanWellFounded, Zenon
<1>2. PICK R : IsWellFoundedOn(R, Nat) /\ \A m, n \in Nat : m < n => <<m, n>> \in R
  BY <1>1
<1>3. IsWellFoundedOn(R, Nat)
  BY <1>2
<1>4. PICK k \in T : \A j \in T : ~(<<j, k>> \in R)
  <2>1. T \subseteq Nat /\ T # {}
    OBVIOUS
  <2>2. \E x \in T : \A y \in T : ~(<<y, x>> \in R)
    BY <1>3, <2>1, WFMin, Zenon
  <2> QED BY <2>2, Zenon
<1>5. \A j \in T : ~(j < k)
  BY <1>2, <1>4
<1> QED BY <1>5

LEMMA NumbersByInduction ==
    ASSUME NEW S, 0 \in S, \A n \in Nat : n \in S => n + 1 \in S
    PROVE  Nat \subseteq S
<1> SUFFICES ASSUME Nat \ S # {} PROVE FALSE
  OBVIOUS
<1>1. PICK n \in Nat \ S : \A m \in Nat \ S : n <= m
  BY LeastOf, Nat \ S \subseteq Nat
<1>2. n # 0 /\ n - 1 \in Nat
  BY <1>1
<1>3. n - 1 \in S /\ (n - 1) + 1 = n
  BY <1>1, <1>2
<1> QED BY <1>1, <1>2, <1>3

\* Division with remainder.
LEMMA Divided ==
    ASSUME NEW m \in Nat \ {0}, NEW a \in Int
    PROVE  \E q \in Int, r \in 0 .. m - 1 : a = m * q + r
<1> DEFINE S == {n \in Nat : \E q \in Int, r \in 0 .. m - 1 : n = m * q + r}
<1>1. 0 \in S
  <2>1. 0 = m * 0 + 0
    OBVIOUS
  <2> QED BY <2>1
<1>2. ASSUME NEW n \in Nat, n \in S PROVE n + 1 \in S
  <2>1. PICK q \in Int, r \in 0 .. m - 1 : n = m * q + r
    BY <1>2
  <2>2. PICK i \in Int, j \in 0 .. m - 1 : IF r + 1 < m THEN i = q /\ j = r + 1 ELSE i = q + 1 /\ j = 0
    OBVIOUS
  <2>3. m * (q + 1) = m * q + m
    OBVIOUS
  <2>4. n + 1 = m * i + j
    BY <2>1, <2>2, <2>3
  <2> QED BY <2>4
<1> HIDE DEF S
<1>3. Nat \subseteq S
  BY <1>1, <1>2, NumbersByInduction
<1>4. CASE a \in Nat
  BY <1>3, <1>4 DEF S
<1>5. CASE a \notin Nat
  <2>1. PICK q \in Int, r \in 0 .. m - 1 : -a = m * q + r
    BY <1>3, <1>5, -a \in Nat DEF S
  <2>2. PICK i \in Int : i = IF r = 0 THEN -q ELSE -q - 1
    OBVIOUS
  <2>5. PICK j \in 0 .. m - 1 : j = IF r = 0 THEN 0 ELSE m - r
    OBVIOUS
  <2>3. m * (-q) = -(m * q) /\ m * (-q - 1) = -(m * q) - m
    OBVIOUS
  <2>4. a = m * i + j
    <3>1. m * q \in Int
      OBVIOUS
    <3>2. m * i = IF r = 0 THEN -(m * q) ELSE -(m * q) - m
      BY <2>2, <2>3
    <3> QED BY <2>1, <2>5, <3>1, <3>2
  <2> QED BY <2>4
<1> QED BY <1>4, <1>5

LEMMA OneRemainder ==
    ASSUME NEW m \in Nat \ {0}, NEW q \in Int, NEW r \in 0 .. m - 1, NEW a, a = m * q + r
    PROVE  a % m = r
OBVIOUS

LEMMA Remainder ==
    ASSUME NEW m \in Nat \ {0}, NEW a \in Int
    PROVE  a % m \in 0 .. m - 1 /\ \E q \in Int : a = m * q + (a % m)
<1>1. PICK q \in Int, r \in 0 .. m - 1 : a = m * q + r
  BY Divided
<1>2. a % m = r
  BY <1>1, OneRemainder
<1>3. a = m * q + (a % m)
  BY <1>1, <1>2
<1>4. \E i \in Int : a = m * i + (a % m)
  BY <1>3
<1>5. a % m \in 0 .. m - 1
  OBVIOUS
<1> QED BY <1>4, <1>5

LEMMA SmallRemainder ==
    ASSUME NEW m \in Nat \ {0}, NEW a \in 0 .. m - 1
    PROVE  a % m = a
<1>1. a = m * 0 + a
  OBVIOUS
<1> QED BY <1>1, OneRemainder

LEMMA Shifted ==
    ASSUME NEW m \in Nat \ {0}, NEW a \in Int, NEW k \in Int
    PROVE  (a + m * k) % m = a % m
<1>1. PICK q \in Int : a = m * q + (a % m)
  BY Remainder
<1>2. a % m \in 0 .. m - 1
  BY Remainder
<1>3. PICK r \in 0 .. m - 1 : r = a % m
  BY <1>2
<1>4. m * (q + k) = m * q + m * k /\ m * k \in Int /\ m * q \in Int
  OBVIOUS
<1>5. a + m * k = m * (q + k) + r
  BY <1>1, <1>3, <1>4
<1>6. (a + m * k) % m = r
  BY <1>5, OneRemainder, q + k \in Int
<1> QED BY <1>3, <1>6

LEMMA RemainderSum ==
    ASSUME NEW m \in Nat \ {0}, NEW a \in Int, NEW b \in Int
    PROVE  ((a % m) + b) % m = (a + b) % m
<1>1. PICK q \in Int : a = m * q + (a % m)
  BY Remainder
<1>2. PICK r \in 0 .. m - 1 : r = a % m
  BY Remainder
<1>3. m * q \in Int /\ a + b = (r + b) + m * q
  BY <1>1, <1>2
<1>4. ((r + b) + m * q) % m = (r + b) % m
  BY Shifted, r + b \in Int
<1> QED BY <1>2, <1>3, <1>4

LEMMA RemainderDifference ==
    ASSUME NEW m \in Nat \ {0}, NEW a \in Int, NEW b \in Int
    PROVE  (a - (b % m)) % m = (a - b) % m
<1>1. PICK q \in Int : b = m * q + (b % m)
  BY Remainder
<1>2. PICK r \in 0 .. m - 1 : r = b % m
  BY Remainder
<1>0. m * q \in Int
  OBVIOUS
<1>3. a - r = (a - b) + m * q
  <2>1. PICK x \in Int : x = m * q
    BY <1>0
  <2>2. b = x + r
    BY <1>1, <1>2, <2>1
  <2> QED BY <2>1, <2>2
<1>4. ((a - b) + m * q) % m = (a - b) % m
  BY Shifted, a - b \in Int
<1>5. (a - r) % m = (a - b) % m
  BY <1>3, <1>4
<1> QED BY <1>2, <1>5

\* A clock that comes round with whole seconds tells the place in a second.
LEMMA RemainderOfMultiple ==
    ASSUME NEW m \in Nat \ {0}, NEW p \in Nat \ {0}, p % m = 0, NEW a \in Int
    PROVE  (a % p) % m = a % m
<1>1. PICK q \in Int : a = p * q + (a % p)
  BY Remainder
<1>2. PICK r \in 0 .. p - 1 : r = a % p
  BY Remainder
<1>3. PICK h \in Int : p = m * h
  <2>1. PICK h \in Int : p = m * h + (p % m)
    <3>1. p \in Int
      OBVIOUS
    <3> QED BY <3>1, Remainder, Zenon
  <2>2. m * h \in Int /\ p = m * h + 0
    BY <2>1
  <2> QED BY <2>2
<1>4. h * q \in Int /\ m * (h * q) = (m * h) * q
  OBVIOUS
<1>5. a = r + m * (h * q) /\ r \in Int
  BY <1>1, <1>2, <1>3, <1>4
<1>6. (r + m * (h * q)) % m = r % m
  BY <1>4, <1>5, Shifted
<1> QED BY <1>2, <1>5, <1>6

-----------------------------------------------------------------------------
(* What an application makes of the events                                 *)

Telling == {"stale", "resumed"}

\* A set of places of a sequence has a last one.
LEMMA LastPlace ==
    ASSUME NEW n \in Nat, NEW I, I \subseteq 1 .. n, I # {}
    PROVE  \E i \in I : \A j \in I : j <= i
<1> DEFINE T == {n - i : i \in I}
<1>1. T \subseteq Nat /\ T # {}
  <2>1. PICK i \in I : TRUE
    OBVIOUS
  <2>2. n - i \in T /\ \A j \in I : n - j \in Nat
    BY <2>1
  <2> QED BY <2>2
<1> HIDE DEF T
<1>2. PICK k \in T : \A j \in T : k <= j
  BY <1>1, LeastOf
<1>3. PICK i \in I : k = n - i
  BY <1>2 DEF T
<1>4. \A j \in I : n - j \in T
  BY DEF T
<1>5. \A j \in I : j <= i
  <2> TAKE j \in I
  <2>1. n - i <= n - j /\ i \in Nat /\ j \in Nat
    BY <1>2, <1>3, <1>4
  <2> QED BY <2>1
<1> QED BY <1>5

LEMMA BelieveNothing ==
    ASSUME NEW b, NEW q, \A i \in DOMAIN q : q[i] \notin Telling
    PROVE  Believe(b, q) = b
BY DEF Believe, Telling

LEMMA BelieveAppend ==
    ASSUME NEW b, NEW S, NEW q \in Seq(S), NEW ev \in S
    PROVE  Believe(b, Append(q, ev)) <=> IF ev \in Telling THEN ev = "resumed" ELSE Believe(b, q)
<1> DEFINE r == Append(q, ev)
           n == Len(q)
           old == {i \in DOMAIN q : q[i] \in Telling}
           new == {i \in DOMAIN r : r[i] \in Telling}
           last(I) == CHOOSE i \in I : \A j \in I : j <= i
<1>1. n \in Nat /\ DOMAIN q = 1 .. n
  OBVIOUS
<1>2. /\ r \in Seq(S) /\ Len(r) = n + 1
      /\ \A i \in 1 .. n : r[i] = q[i]
      /\ r[n + 1] = ev
  BY AppendProperties
<1>3. DOMAIN r = 1 .. n + 1
  BY <1>2
<1>4. Believe(b, q) = (IF old = {} THEN b ELSE q[last(old)] = "resumed")
  BY DEF Believe, Telling
<1>5. Believe(b, r) = (IF new = {} THEN b ELSE r[last(new)] = "resumed")
  BY DEF Believe, Telling
<1> HIDE DEF r, n
<1>6. CASE ev \in Telling
  <2>1. n + 1 \in new /\ \A j \in new : j <= n + 1 /\ j \in Int
    BY <1>1, <1>2, <1>3, <1>6
  <2>2. last(new) = n + 1
    <3> HIDE DEF new
    <3>1. last(new) \in new /\ \A j \in new : j <= last(new)
      BY <2>1
    <3>2. last(new) <= n + 1 /\ n + 1 <= last(new) /\ last(new) \in Int
      BY <2>1, <3>1
    <3> HIDE DEF last
    <3> QED BY <3>2, <1>1
  <2>3. new # {}
    BY <2>1
  <2> HIDE DEF new, last
  <2> QED BY <1>2, <1>5, <1>6, <2>2, <2>3 DEF r
<1>7. CASE ev \notin Telling
  <2>1. new = old
    BY <1>1, <1>2, <1>3, <1>7
  <2>2. CASE old = {}
    BY <1>4, <1>5, <1>7, <2>1, <2>2 DEF r
  <2>3. CASE old # {}
    <3>1. \E i \in old : \A j \in old : j <= i
      <4>1. old \subseteq 1 .. n
        BY <1>1
      <4> HIDE DEF old
      <4> QED BY <1>1, <4>1, <2>3, LastPlace
    <3> HIDE DEF old
    <3>2. last(old) \in old
      BY <3>1
    <3> HIDE DEF last
    <3>3. r[last(old)] = q[last(old)]
      BY <3>2, <1>1, <1>2 DEF old
    <3> HIDE DEF new
    <3> QED BY <1>4, <1>5, <1>7, <2>1, <2>3, <3>3 DEF r
  <2> QED BY <2>2, <2>3
<1> QED BY <1>6, <1>7 DEF r

-----------------------------------------------------------------------------
(* The subscriber                                                          *)

IsShape(s) ==
    s = [mode |-> s.mode, revision |-> s.revision, layout |-> s.layout,
         last |-> s.last, confRev |-> s.confRev, synch |-> s.synch, gm |-> s.gm, lost |-> s.lost, heard |-> s.heard,
         simActive |-> s.simActive, stale |-> s.stale, deadline |-> s.deadline,
         revReported |-> s.revReported, simReported |-> s.simReported, lenReported |-> s.lenReported,
         given |-> s.given, events |-> s.events, dropped |-> s.dropped]

\* What holds of a subscriber between two operations.
IsStream(s) ==
    /\ IsShape(s) /\ s.mode \in SimulationModes
    /\ s.last \in Nat \cup {None} /\ s.lost \in 0 .. LostTop - 1
    /\ s.heard \in BOOLEAN /\ s.simActive \in BOOLEAN /\ s.stale \in BOOLEAN /\ s.dropped \in BOOLEAN
    /\ s.deadline \in {None} \cup 0 .. StaleAfter
    /\ s.events \in Seq(EventKinds) /\ Len(s.events) <= Capacity
    /\ s.mode = "off" => ~s.simActive
    /\ ~s.heard => s.last = None /\ s.deadline = None /\ ~s.stale
    /\ s.heard /\ ~s.stale => s.deadline # None

\* One who believed b when the queue was empty, and hears what waits in it,
\* believes in the stream exactly if it lives.
Backed(b, s) ==
    /\ s.dropped => s.events # <<>>
    /\ s.dropped \/ (StreamLive(s) <=> Believe(b, s.events))
    /\ ~s.heard => ~b /\ \A i \in DOMAIN s.events : s.events[i] \notin Telling

Sound(b, s) == IsStream(s) /\ Backed(b, s)

\* What an operation that only takes notice leaves alone.
Configured(s, t) == t.mode = s.mode /\ t.revision = s.revision /\ t.layout = s.layout
Alike(s, t) ==
    /\ Configured(s, t)
    /\ t.last = s.last /\ t.lost = s.lost /\ t.heard = s.heard /\ t.simActive = s.simActive
    /\ t.stale = s.stale /\ t.deadline = s.deadline /\ t.given = s.given

LEMMA SubscriberConstants ==
    /\ SubRate \in Nat \ {0} /\ SubFieldTop \in Nat \ {0} /\ StaleAfter \in Nat \ {0}
    /\ Capacity \in Nat \ {0} /\ LostTop \in Nat \ {0} /\ StreamWrap \in Nat \ {0}
    /\ None \notin Nat
BY SvSubscriberAssumption, SvLinkAssumption DEF StreamWrap

LEMMA AlikeIsSound ==
    ASSUME NEW b, NEW s, Sound(b, s), NEW t, IsShape(t), Alike(s, t), t.events = s.events, t.dropped = s.dropped
    PROVE  Sound(b, t)
BY DEF Sound, IsStream, Backed, Alike, Configured, StreamLive

LEMMA ReportIs ==
    ASSUME NEW s, IsShape(s), NEW k
    PROVE  /\ IsShape(Report(s, k)) /\ Alike(s, Report(s, k))
           /\ Report(s, k).events = Append(IF Len(s.events) >= Capacity THEN Tail(s.events) ELSE s.events, k)
           /\ Report(s, k).dropped = (s.dropped \/ Len(s.events) >= Capacity)
<1>1. IsShape(Report(s, k))
  <2>1. PICK x, y : Report(s, k) = [s EXCEPT !.events = x, !.dropped = y]
    BY DEF Report
  <2>2. Report(s, k) = [[s EXCEPT !.events = x] EXCEPT !.dropped = y]
    BY <2>1 DEF IsShape
  <2>3. IsShape([s EXCEPT !.events = x])
    BY DEF IsShape
  <2>4. \A u : IsShape(u) => IsShape([u EXCEPT !.dropped = y])
    BY DEF IsShape
  <2> QED BY <2>2, <2>3, <2>4
<1>2. Alike(s, Report(s, k))
  BY DEF IsShape, Report, Alike, Configured
<1>3. Report(s, k).events = Append(IF Len(s.events) >= Capacity THEN Tail(s.events) ELSE s.events, k)
  BY DEF IsShape, Report
<1>4. Report(s, k).dropped = (s.dropped \/ Len(s.events) >= Capacity)
  BY DEF IsShape, Report
<1> QED BY <1>1, <1>2, <1>3, <1>4

\* A queue that was told one more.
LEMMA QueueTold ==
    ASSUME NEW s, IsShape(s), s.events \in Seq(EventKinds), Len(s.events) <= Capacity, NEW k \in EventKinds
    PROVE  LET q == Report(s, k).events
           IN  /\ q \in Seq(EventKinds) /\ Len(q) <= Capacity /\ q # <<>>
               /\ \A i \in DOMAIN q : q[i] = k \/ \E j \in DOMAIN s.events : q[i] = s.events[j]
               /\ Len(s.events) < Capacity => q = Append(s.events, k)
<1> DEFINE p == IF Len(s.events) >= Capacity THEN Tail(s.events) ELSE s.events
<1>1. Report(s, k).events = Append(p, k)
  BY ReportIs
<1>2. Len(s.events) \in Nat /\ Capacity \in Nat \ {0}
  BY SubscriberConstants
<1>3. p \in Seq(EventKinds) /\ Len(p) < Capacity /\ \A i \in DOMAIN p : \E j \in DOMAIN s.events : p[i] = s.events[j]
  <2>1. CASE Len(s.events) >= Capacity
    <3>1. s.events # <<>>
      BY <1>2, <2>1, EmptySeq
    <3>2. /\ Tail(s.events) \in Seq(EventKinds) /\ Len(Tail(s.events)) = Len(s.events) - 1
          /\ \A i \in 1 .. Len(Tail(s.events)) : Tail(s.events)[i] = s.events[i + 1]
      BY <3>1, HeadTailProperties
    <3>3. DOMAIN Tail(s.events) = 1 .. Len(s.events) - 1 /\ DOMAIN s.events = 1 .. Len(s.events)
      BY <3>2
    <3>4. \A i \in DOMAIN Tail(s.events) : i + 1 \in DOMAIN s.events
      BY <1>2, <3>3
    <3> QED BY <1>2, <2>1, <3>2, <3>3, <3>4
  <2>2. CASE ~(Len(s.events) >= Capacity)
    BY <1>2, <2>2
  <2> QED BY <2>1, <2>2
<1> HIDE DEF p
<1>4. /\ Append(p, k) \in Seq(EventKinds) /\ Len(Append(p, k)) = Len(p) + 1 /\ Append(p, k) # <<>>
      /\ \A i \in DOMAIN Append(p, k) : Append(p, k)[i] = k \/ \E j \in DOMAIN p : Append(p, k)[i] = p[j]
  <2>1. /\ Append(p, k) \in Seq(EventKinds) /\ Len(Append(p, k)) = Len(p) + 1
        /\ \A i \in 1 .. Len(p) : Append(p, k)[i] = p[i]
        /\ Append(p, k)[Len(p) + 1] = k
    BY <1>3, AppendProperties
  <2>2. Len(p) \in Nat /\ DOMAIN p = 1 .. Len(p) /\ DOMAIN Append(p, k) = 1 .. Len(p) + 1
    BY <1>3, <2>1
  <2> QED BY <2>1, <2>2, EmptySeq
<1>5. Len(Append(p, k)) <= Capacity
  BY <1>2, <1>3, <1>4
<1>6. Len(s.events) < Capacity => p = s.events
  BY <1>2 DEF p
<1> QED BY <1>1, <1>3, <1>4, <1>5, <1>6

\* An event that says nothing of whether the stream lives.
LEMMA ReportSound ==
    ASSUME NEW b, NEW s, Sound(b, s), NEW k \in EventKinds \ Telling
    PROVE  Sound(b, Report(s, k)) /\ Alike(s, Report(s, k))
<1> DEFINE t == Report(s, k)
<1>1. IsShape(t) /\ Alike(s, t) /\ t.dropped = (s.dropped \/ Len(s.events) >= Capacity)
  BY ReportIs DEF Sound, IsStream
<1>2. /\ t.events \in Seq(EventKinds) /\ Len(t.events) <= Capacity /\ t.events # <<>>
      /\ \A i \in DOMAIN t.events : t.events[i] = k \/ \E j \in DOMAIN s.events : t.events[i] = s.events[j]
      /\ Len(s.events) < Capacity => t.events = Append(s.events, k)
  BY QueueTold DEF Sound, IsStream
<1> HIDE DEF t
<1>3. IsStream(t)
  <2>1. t.dropped \in BOOLEAN
    BY <1>1
  <2> QED BY <1>1, <1>2, <2>1 DEF Sound, IsStream, Alike, Configured
<1>4. ~t.heard => ~b /\ \A i \in DOMAIN t.events : t.events[i] \notin Telling
  BY <1>1, <1>2 DEF Sound, Backed, Alike
<1>5. t.dropped \/ (StreamLive(t) <=> Believe(b, t.events))
  <2>1. CASE s.dropped \/ Len(s.events) >= Capacity
    BY <1>1, <2>1
  <2>2. CASE ~s.dropped /\ ~(Len(s.events) >= Capacity)
    <3>1. s.events \in Seq(EventKinds) /\ Len(s.events) \in Nat /\ Capacity \in Nat
      BY SubscriberConstants DEF Sound, IsStream
    <3>2. t.events = Append(s.events, k)
      BY <1>2, <2>2, <3>1
    <3>3. Believe(b, t.events) <=> Believe(b, s.events)
      BY <3>1, <3>2, BelieveAppend
    <3>4. StreamLive(t) <=> StreamLive(s)
      BY <1>1 DEF StreamLive, Alike
    <3> QED BY <2>2, <3>3, <3>4 DEF Sound, Backed
  <2> QED BY <2>1, <2>2
<1>6. Sound(b, t)
  BY <1>2, <1>3, <1>4, <1>5 DEF Sound, Backed
<1> QED BY <1>1, <1>6 DEF t

LEMMA ReportOnceSound ==
    ASSUME NEW b, NEW s, Sound(b, s), NEW k \in EventKinds \ Telling, NEW reported
    PROVE  Sound(b, ReportOnce(s, k, reported)) /\ Alike(s, ReportOnce(s, k, reported))
<1>1. Alike(s, s)
  BY DEF Alike, Configured
<1>2. ReportOnce(s, k, reported) \in {s, Report(s, k)}
  BY DEF ReportOnce
<1> QED BY <1>1, <1>2, ReportSound

\* The flags and what the subscriber last saw of a clock do not matter to it.
LEMMA NoteSound ==
    ASSUME NEW b, NEW s, Sound(b, s), NEW x, NEW y,
           NEW t, \/ t = [s EXCEPT !.revReported = x] \/ t = [s EXCEPT !.simReported = x]
                  \/ t = [s EXCEPT !.synch = x] \/ t = [s EXCEPT !.gm = x]
                  \/ t = [s EXCEPT !.revReported = x, !.lenReported = y]
                  \/ t = [s EXCEPT !.lenReported = x, !.revReported = y]
    PROVE  Sound(b, t) /\ Alike(s, t)
<1>1. IsShape(s)
  BY DEF Sound, IsStream
<1>2. IsShape(t)
  BY <1>1 DEF IsShape
<1>3. Alike(s, t)
  BY <1>1 DEF IsShape, Alike, Configured
<1>4. t.events = s.events /\ t.dropped = s.dropped
  BY <1>1 DEF IsShape
<1> QED BY <1>2, <1>3, <1>4, AlikeIsSound

LEMMA AlikeAlike ==
    ASSUME NEW s, NEW t, NEW u, Alike(s, t), Alike(t, u)
    PROVE  Alike(s, u)
BY DEF Alike, Configured

\* A stream whose liveness changes is told of it, and no earlier event counts.
LEMMA ReportTells ==
    ASSUME NEW b, NEW s, Sound(b, s), s.heard, NEW k \in Telling, NEW live \in BOOLEAN, live <=> k = "resumed",
           NEW t, t = Report(s, k)
    PROVE  t.dropped \/ (live <=> Believe(b, t.events))
<1>1. t.dropped = (s.dropped \/ Len(s.events) >= Capacity)
  BY ReportIs DEF Sound, IsStream
<1>2. k \in EventKinds
  BY DEF Telling, EventKinds
<1>3. CASE ~s.dropped /\ ~(Len(s.events) >= Capacity)
  <2>1. s.events \in Seq(EventKinds) /\ Len(s.events) \in Nat /\ Capacity \in Nat
    BY SubscriberConstants DEF Sound, IsStream
  <2>2. t.events = Append(s.events, k)
    BY <1>2, <1>3, <2>1, QueueTold DEF Sound, IsStream
  <2>3. Believe(b, t.events) <=> k = "resumed"
    <3>1. Believe(b, Append(s.events, k)) <=> k = "resumed"
      BY <1>2, <2>1, BelieveAppend
    <3> QED BY <2>2, <3>1, Zenon
  <2> QED BY <2>3
<1> QED BY <1>1, <1>3

\* check_stale: the end of the time to live.
LEMMA CheckStaleSound ==
    ASSUME NEW b, NEW s, Sound(b, s)
    PROVE  LET t == CheckStale(s)
           IN  /\ Sound(b, t) /\ Configured(s, t)
               /\ t.last = s.last /\ t.lost = s.lost /\ t.heard = s.heard /\ t.simActive = s.simActive /\ t.given = s.given
               /\ \/ t.stale = s.stale /\ t.deadline = s.deadline /\ ~(s.deadline = 0 /\ ~s.stale)
                  \/ t.stale /\ t.deadline = None
               /\ ~t.stale => t.deadline # 0
<1> DEFINE t == CheckStale(s)
<1>1. CASE ~(s.deadline = 0 /\ ~s.stale)
  <2>1. t = s
    BY <1>1 DEF CheckStale
  <2> HIDE DEF t
  <2>2. Sound(b, t) /\ Configured(s, t)
    BY <2>1 DEF Configured
  <2>3. ~t.stale => t.deadline # 0
    BY <1>1, <2>1
  <2> QED BY <1>1, <2>1, <2>2, <2>3 DEF t
<1>2. CASE s.deadline = 0 /\ ~s.stale
  <2> DEFINE e == [s EXCEPT !.stale = TRUE, !.deadline = None]
  <2>1. t = Report(e, "stale") /\ IsShape(s)
    BY <1>2 DEF CheckStale, Sound, IsStream
  <2>2. IsShape(e)
    <3>1. e = [[s EXCEPT !.stale = TRUE] EXCEPT !.deadline = None]
      OBVIOUS
    <3>2. \A x : IsShape([s EXCEPT !.stale = x])
      BY <2>1 DEF IsShape
    <3>3. \A u : IsShape(u) => IsShape([u EXCEPT !.deadline = None])
      BY DEF IsShape
    <3> HIDE DEF e
    <3> QED BY <3>1, <3>2, <3>3
  <2>3. /\ e.events = s.events /\ e.dropped = s.dropped /\ e.stale = TRUE /\ e.deadline = None
        /\ Configured(s, e) /\ e.last = s.last /\ e.lost = s.lost /\ e.heard = s.heard
        /\ e.simActive = s.simActive /\ e.given = s.given
    BY <2>1 DEF IsShape, Configured
  <2> HIDE DEF e
  <2>4. s.heard
    BY <1>2, SubscriberConstants DEF Sound, IsStream
  <2>5. /\ IsShape(t) /\ Alike(e, t) /\ t.dropped = (s.dropped \/ Len(s.events) >= Capacity)
    BY <2>1, <2>2, <2>3, ReportIs
  <2>6. /\ t.events \in Seq(EventKinds) /\ Len(t.events) <= Capacity /\ t.events # <<>>
    <3>1. "stale" \in EventKinds
      BY DEF EventKinds
    <3> QED BY <2>1, <2>2, <2>3, <3>1, QueueTold DEF Sound, IsStream
  <2>7. t.dropped \/ ~Believe(b, t.events)
    <3> DEFINE r == Report(s, "stale")
    <3>1. r.dropped \/ (FALSE <=> Believe(b, r.events))
      BY <2>4, ReportTells DEF Telling
    <3>2. (r.dropped <=> t.dropped) /\ r.events = t.events
      <4>1. r.dropped = (s.dropped \/ Len(s.events) >= Capacity)
        BY <2>1, ReportIs
      <4>2. /\ r.events = Append(IF Len(s.events) >= Capacity THEN Tail(s.events) ELSE s.events, "stale")
            /\ t.events = Append(IF Len(e.events) >= Capacity THEN Tail(e.events) ELSE e.events, "stale")
        BY <2>1, <2>2, ReportIs
      <4> HIDE DEF r, t
      <4> QED BY <2>3, <2>5, <4>1, <4>2
    <3> HIDE DEF r, t
    <3> QED BY <3>1, <3>2
  <2> HIDE DEF t
  <2>8. /\ Configured(s, t) /\ t.last = s.last /\ t.lost = s.lost /\ t.heard = s.heard
        /\ t.simActive = s.simActive /\ t.given = s.given /\ t.stale = TRUE /\ t.deadline = None
    BY <2>3, <2>5 DEF Alike, Configured
  <2>9. IsStream(t)
    <3>1. t.dropped \in BOOLEAN
      BY <2>5
    <3> QED BY <2>4, <2>5, <2>6, <2>8, <3>1 DEF Sound, IsStream, Configured
  <2>10. Backed(b, t)
    BY <2>4, <2>6, <2>7, <2>8 DEF Backed, StreamLive
  <2>11. None # 0
    BY SubscriberConstants
  <2> QED BY <2>8, <2>9, <2>10, <2>11 DEF Sound, t
<1> QED BY <1>1, <1>2

\* simulation_policy_admits: a test set takes over, or nothing of note happens.
Takes(s, sim) == s.mode = "preferred" /\ sim /\ ~s.simActive
LastSeen(s, sim) == IF Takes(s, sim) THEN None ELSE s.last

LEMMA AfterSimulationSound ==
    ASSUME NEW b, NEW s, Sound(b, s), NEW sim \in BOOLEAN, NEW t, t = AfterSimulation(s, sim)
    PROVE  /\ Sound(b, t) /\ Configured(s, t)
           /\ t.heard = s.heard /\ t.stale = s.stale /\ t.deadline = s.deadline /\ t.given = s.given /\ t.lost = s.lost
           /\ t.simActive <=> (s.simActive \/ Takes(s, sim))
           /\ t.last = LastSeen(s, sim)
<1>0. IsShape(s) /\ s.mode \in SimulationModes /\ s.simActive \in BOOLEAN
  BY DEF Sound, IsStream
<1>1. CASE s.mode = "off" /\ ~sim
  <2>1. PICK x : x = FALSE
    OBVIOUS
  <2>2. t = [s EXCEPT !.simReported = x]
    BY <1>1, <2>1 DEF AfterSimulation
  <2>3. Sound(b, t) /\ Alike(s, t)
    BY <2>2, NoteSound
  <2> QED BY <1>1, <2>3 DEF Alike, Configured, Takes, LastSeen
<1>2. CASE s.mode = "off" /\ sim
  <2>1. t = [ReportOnce(s, "ignored", s.simReported) EXCEPT !.simReported = TRUE]
    BY <1>2 DEF AfterSimulation
  <2>2. PICK u : u = ReportOnce(s, "ignored", s.simReported)
    OBVIOUS
  <2>3. Sound(b, u) /\ Alike(s, u)
    BY <2>2, ReportOnceSound DEF EventKinds, Telling
  <2>6. PICK x : x = TRUE
    OBVIOUS
  <2>4. t = [u EXCEPT !.simReported = x]
    BY <2>1, <2>2, <2>6
  <2>5. Sound(b, t) /\ Alike(u, t)
    BY <2>3, <2>4, NoteSound
  <2> QED BY <1>2, <2>3, <2>5 DEF Alike, Configured, Takes, LastSeen
<1>3. CASE Takes(s, sim)
  <2> DEFINE u == [[s EXCEPT !.simActive = TRUE] EXCEPT !.last = None]
  <2>1. t = Report(u, "takeover")
    BY <1>3 DEF AfterSimulation, Takes
  <2>2. IsShape(u)
    <3>1. \A x : IsShape([s EXCEPT !.simActive = x])
      BY <1>0 DEF IsShape
    <3>2. \A y : IsShape(y) => IsShape([y EXCEPT !.last = None])
      BY DEF IsShape
    <3> QED BY <3>1, <3>2
  <2>3. /\ Configured(s, u) /\ u.heard = s.heard /\ u.stale = s.stale /\ u.deadline = s.deadline /\ u.given = s.given
        /\ u.lost = s.lost /\ u.simActive = TRUE /\ u.last = None /\ u.events = s.events /\ u.dropped = s.dropped
    BY <1>0 DEF IsShape, Configured
  <2> HIDE DEF u
  <2>4. Sound(b, u)
    BY <1>3, <2>2, <2>3 DEF Sound, IsStream, Backed, StreamLive, Configured, Takes
  <2>5. Sound(b, t) /\ Alike(u, t)
    BY <2>1, <2>4, ReportSound DEF EventKinds, Telling
  <2> QED BY <1>3, <2>3, <2>5 DEF Alike, Configured, LastSeen
<1>4. CASE ~(s.mode = "off") /\ ~Takes(s, sim)
  <2>1. t = s
    BY <1>0, <1>4 DEF AfterSimulation, Takes, SimulationModes
  <2> QED BY <1>4, <2>1 DEF Configured, LastSeen
<1> QED BY <1>1, <1>2, <1>3, <1>4

\* What a count adds to the samples that were lost.
More(lost, last, cnt) == IF last = None THEN lost ELSE (lost + (cnt - last - 1)) % Wrap

LEMMA WrapPositive == Wrap \in Nat \ {0} /\ Rate \in Nat \ {0} /\ Asdus \in Nat \ {0}
BY SvPublisherAssumption DEF Wrap

LEMMA CountedSound ==
    ASSUME SameStream, NEW b, NEW s, Sound(b, s), NEW a, a.cnt \in Nat, NEW t, t = Counted(s, a)
    PROVE  /\ Sound(b, t) /\ Configured(s, t) /\ t.last = s.last /\ t.heard = s.heard /\ t.simActive = s.simActive
           /\ t.stale = s.stale /\ t.deadline = s.deadline /\ t.given = s.given
           /\ t.lost = More(s.lost, s.last, a.cnt)
<1>0. /\ IsShape(s) /\ s.lost \in 0 .. Wrap - 1 /\ s.last \in Nat \cup {None} /\ Wrap \in Nat \ {0}
      /\ StreamWrap = Wrap /\ LostTop = Wrap
  BY WrapPositive DEF Sound, IsStream, SameStream
<1>1. CASE s.last = None
  <2>1. t = s
    BY <1>1 DEF Counted, Adjacent
  <2> QED BY <1>1, <2>1 DEF More, Configured
<1>2. CASE s.last # None /\ a.cnt = (s.last + 1) % StreamWrap
  <2>1. t = s
    BY <1>2 DEF Counted, Adjacent
  <2>2. PICK x \in Int : x = s.lost - s.last - 1
    BY <1>0, <1>2
  <2>3. PICK y \in Int : y = s.last + 1
    BY <1>0, <1>2
  <2>4. ((y % Wrap) + x) % Wrap = (y + x) % Wrap
    BY <1>0, RemainderSum
  <2>5. a.cnt = y % Wrap
    BY <1>0, <1>2, <2>3
  <2>6. s.lost + (a.cnt - s.last - 1) = a.cnt + x /\ y + x = s.lost
    BY <1>0, <1>2, <2>2, <2>3
  <2>7. s.lost % Wrap = s.lost
    BY <1>0, SmallRemainder
  <2>8. (s.lost + (a.cnt - s.last - 1)) % Wrap = s.lost
    BY <2>4, <2>5, <2>6, <2>7
  <2> QED BY <1>2, <2>1, <2>8 DEF More, Configured
<1>3. CASE s.last # None /\ a.cnt # (s.last + 1) % StreamWrap
  <2>0. PICK lost : lost = (s.lost + Missing(s, a)) % LostTop
    OBVIOUS
  <2>1. t = Report([s EXCEPT !.lost = lost], "gap")
    BY <1>3, <2>0 DEF Counted, Adjacent
  <2>2. PICK x \in Int : x = a.cnt + Wrap
    BY <1>0
  <2>3. PICK y \in Int : y = s.last + 1
    BY <1>0, <1>3
  <2>4. Missing(s, a) = (x - (y % Wrap)) % Wrap
    BY <1>0, <1>3, <2>2, <2>3 DEF Missing
  <2>5. (x - (y % Wrap)) % Wrap = (x - y) % Wrap
    BY <1>0, RemainderDifference
  <2>6. PICK z \in Int : z = x - y
    OBVIOUS
  <2>7. ((z % Wrap) + s.lost) % Wrap = (z + s.lost) % Wrap
    <3>1. s.lost \in Int
      BY <1>0
    <3> QED BY <1>0, <3>1, RemainderSum
  <2>8. lost = ((z % Wrap) + s.lost) % Wrap
    <3>1. z % Wrap \in Int
      BY <1>0, Remainder
    <3>2. Missing(s, a) = z % Wrap
      BY <2>4, <2>5, <2>6
    <3>3. s.lost + (z % Wrap) = (z % Wrap) + s.lost
      BY <1>0, <3>1
    <3> QED BY <1>0, <2>0, <3>2, <3>3
  <2>9. PICK w \in Int : w = s.lost + (a.cnt - s.last - 1)
    BY <1>0, <1>3
  <2>10. z + s.lost = w + Wrap * 1
    BY <1>0, <1>3, <2>2, <2>3, <2>6, <2>9
  <2>11. (w + Wrap * 1) % Wrap = w % Wrap
    <3>1. 1 \in Int
      OBVIOUS
    <3> QED BY <1>0, <3>1, Shifted
  <2>12. lost = w % Wrap
    BY <2>7, <2>8, <2>10, <2>11
  <2>13. lost \in 0 .. LostTop - 1
    BY <1>0, <2>12, Remainder
  <2> DEFINE u == [s EXCEPT !.lost = lost]
  <2>14. IsShape(u)
    BY <1>0 DEF IsShape
  <2>15. /\ Configured(s, u) /\ u.heard = s.heard /\ u.stale = s.stale /\ u.deadline = s.deadline /\ u.given = s.given
         /\ u.lost = lost /\ u.simActive = s.simActive /\ u.last = s.last /\ u.events = s.events /\ u.dropped = s.dropped
    BY <1>0 DEF IsShape, Configured
  <2>16. t = Report(u, "gap")
    BY <2>1
  <2> HIDE DEF u
  <2>17. Sound(b, u)
    BY <2>13, <2>14, <2>15 DEF Sound, IsStream, Backed, StreamLive, Configured
  <2>18. Sound(b, t) /\ Alike(u, t)
    BY <2>16, <2>17, ReportSound DEF EventKinds, Telling
  <2>19. t.lost = More(s.lost, s.last, a.cnt)
    BY <1>3, <2>9, <2>12, <2>15, <2>18 DEF More, Alike
  <2> QED BY <2>15, <2>18, <2>19 DEF Alike, Configured
<1> QED BY <1>1, <1>2, <1>3

LEMMA ClockedSound ==
    ASSUME NEW b, NEW s, Sound(b, s), NEW a, NEW t, t \in {Clocked(s, a), Mastered(s, a)}
    PROVE  Sound(b, t) /\ Alike(s, t)
<1>1. Alike(s, s)
  BY DEF Alike, Configured
<1>2. ASSUME NEW k \in {"sync", "grandmaster"}
      PROVE  Sound(b, Report(s, k)) /\ Alike(s, Report(s, k))
  BY ReportSound DEF EventKinds, Telling
<1>3. CASE t = s
  BY <1>1, <1>3
<1>4. CASE t = [Report(s, "sync") EXCEPT !.synch = a.synch]
  <2>1. PICK u : u = Report(s, "sync")
    OBVIOUS
  <2>2. Sound(b, u) /\ Alike(s, u) /\ t = [u EXCEPT !.synch = a.synch]
    BY <1>2, <1>4, <2>1
  <2>3. Sound(b, t) /\ Alike(u, t)
    BY <2>2, NoteSound
  <2> QED BY <2>2, <2>3, AlikeAlike
<1>5. CASE t = [Report(s, "grandmaster") EXCEPT !.gm = a.gm]
  <2>1. PICK u : u = Report(s, "grandmaster")
    OBVIOUS
  <2>2. Sound(b, u) /\ Alike(s, u) /\ t = [u EXCEPT !.gm = a.gm]
    BY <1>2, <1>5, <2>1
  <2>3. Sound(b, t) /\ Alike(u, t)
    BY <2>2, NoteSound
  <2> QED BY <2>2, <2>3, AlikeAlike
<1> QED BY <1>3, <1>4, <1>5 DEF Clocked, Mastered

\* A stream that comes back says so.
LEMMA ResumedSound ==
    ASSUME NEW b, NEW s, Sound(b, s), NEW t, t = Resumed(s)
    PROVE  /\ IsShape(t) /\ Configured(s, t) /\ t.last = s.last /\ t.lost = s.lost /\ t.heard = s.heard
           /\ t.simActive = s.simActive /\ t.deadline = s.deadline /\ t.given = s.given
           /\ ~t.stale
           /\ t.events \in Seq(EventKinds) /\ Len(t.events) <= Capacity
           /\ t.dropped \in BOOLEAN /\ (t.dropped => t.events # <<>>)
           /\ s.heard => t.dropped \/ Believe(b, t.events)
           /\ ~s.heard => t = s
<1>1. CASE ~s.stale
  <2>1. t = s
    BY <1>1 DEF Resumed
  <2> QED BY <1>1, <2>1 DEF Sound, IsStream, Backed, Configured, StreamLive
<1>2. CASE s.stale
  <2> DEFINE e == [s EXCEPT !.stale = FALSE]
  <2>1. t = Report(e, "resumed") /\ IsShape(s)
    BY <1>2 DEF Resumed, Sound, IsStream
  <2>2. IsShape(e)
    <3>1. \A x : IsShape([s EXCEPT !.stale = x])
      BY <2>1 DEF IsShape
    <3> QED BY <3>1
  <2>3. /\ e.events = s.events /\ e.dropped = s.dropped /\ ~e.stale /\ e.deadline = s.deadline
        /\ Configured(s, e) /\ e.last = s.last /\ e.lost = s.lost /\ e.heard = s.heard
        /\ e.simActive = s.simActive /\ e.given = s.given
    BY <2>1 DEF IsShape, Configured
  <2> HIDE DEF e
  <2>4. s.heard
    BY <1>2 DEF Sound, IsStream
  <2>5. /\ IsShape(t) /\ Alike(e, t) /\ t.dropped = (s.dropped \/ Len(s.events) >= Capacity)
    BY <2>1, <2>2, <2>3, ReportIs
  <2>6. /\ t.events \in Seq(EventKinds) /\ Len(t.events) <= Capacity /\ t.events # <<>>
    <3>1. "resumed" \in EventKinds
      BY DEF EventKinds
    <3> QED BY <2>1, <2>2, <2>3, <3>1, QueueTold DEF Sound, IsStream
  <2>7. t.dropped \/ Believe(b, t.events)
    <3> DEFINE r == Report(s, "resumed")
    <3>1. r.dropped \/ (TRUE <=> Believe(b, r.events))
      BY <2>4, ReportTells DEF Telling
    <3>2. (r.dropped <=> t.dropped) /\ r.events = t.events
      <4>1. r.dropped = (s.dropped \/ Len(s.events) >= Capacity)
        BY <2>1, ReportIs
      <4>2. /\ r.events = Append(IF Len(s.events) >= Capacity THEN Tail(s.events) ELSE s.events, "resumed")
            /\ t.events = Append(IF Len(e.events) >= Capacity THEN Tail(e.events) ELSE e.events, "resumed")
        BY <2>1, <2>2, ReportIs
      <4> HIDE DEF r
      <4> QED BY <2>3, <2>5, <4>1, <4>2
    <3> HIDE DEF r
    <3> QED BY <3>1, <3>2
  <2>8. t.dropped \in BOOLEAN
    BY <2>5
  <2> QED BY <2>3, <2>4, <2>5, <2>6, <2>7, <2>8 DEF Alike, Configured
<1> QED BY <1>1, <1>2

\* accept: the stream lives, and the sample that was counted is handed over.
LEMMA AcceptedSound ==
    ASSUME SameStream, NEW b \in BOOLEAN, NEW s, Sound(b, s), NEW a, a.cnt \in Nat, NEW sim, NEW r, r = Accepted(s, a, sim)
    PROVE  /\ Sound(b \/ ~s.heard, r) /\ Configured(s, r)
           /\ r.last = a.cnt /\ r.heard /\ r.simActive = s.simActive /\ ~r.stale /\ r.deadline = StaleAfter
           /\ r.given = Append(s.given, [asdu |-> a, sim |-> sim])
           /\ r.lost = More(s.lost, s.last, a.cnt)
<1>1. PICK x : x = FALSE
  OBVIOUS
<1>2. PICK q : q = [s EXCEPT !.revReported = x, !.lenReported = x]
  OBVIOUS
<1>3. Sound(b, q) /\ Alike(s, q)
  BY <1>2, NoteSound
<1>4. PICK u : u = Counted(q, a)
  OBVIOUS
<1>5. /\ Sound(b, u) /\ Configured(q, u) /\ u.last = q.last /\ u.heard = q.heard /\ u.simActive = q.simActive
      /\ u.stale = q.stale /\ u.deadline = q.deadline /\ u.given = q.given
      /\ u.lost = More(q.lost, q.last, a.cnt)
  BY <1>3, <1>4, CountedSound
<1>6. PICK v : v = Clocked(u, a)
  OBVIOUS
<1>7. Sound(b, v) /\ Alike(u, v)
  BY <1>5, <1>6, ClockedSound
<1>8. PICK w : w = Mastered(v, a)
  OBVIOUS
<1>9. Sound(b, w) /\ Alike(v, w)
  BY <1>7, <1>8, ClockedSound
<1>10. PICK t : t = Resumed(w)
  OBVIOUS
<1>11. /\ IsShape(t) /\ Configured(w, t) /\ t.last = w.last /\ t.lost = w.lost /\ t.heard = w.heard
       /\ t.simActive = w.simActive /\ t.deadline = w.deadline /\ t.given = w.given
       /\ ~t.stale
       /\ t.events \in Seq(EventKinds) /\ Len(t.events) <= Capacity
       /\ t.dropped \in BOOLEAN /\ (t.dropped => t.events # <<>>)
       /\ w.heard => t.dropped \/ Believe(b, t.events)
       /\ ~w.heard => t = w
  BY <1>9, <1>10, ResumedSound
<1>12. /\ Configured(s, t) /\ t.heard = s.heard /\ t.simActive = s.simActive /\ t.given = s.given
       /\ t.lost = More(s.lost, s.last, a.cnt) /\ w.heard = s.heard
  BY <1>3, <1>5, <1>7, <1>9, <1>11 DEF Alike, Configured
<1>13. r = [t EXCEPT !.confRev = a.confRev, !.last = a.cnt, !.heard = TRUE, !.deadline = StaleAfter,
                     !.given = Append(s.given, [asdu |-> a, sim |-> sim])]
  <2>1. Accepted(s, a, sim) = [t EXCEPT !.confRev = a.confRev, !.last = a.cnt, !.heard = TRUE, !.deadline = StaleAfter,
                                        !.given = Append(t.given, [asdu |-> a, sim |-> sim])]
    BY <1>1, <1>2, <1>4, <1>6, <1>8, <1>10 DEF Accepted, Rearmed
  <2> QED BY <1>12, <2>1
<1> DEFINE g == Append(s.given, [asdu |-> a, sim |-> sim])
           t1 == [t EXCEPT !.confRev = a.confRev]
           t2 == [t1 EXCEPT !.last = a.cnt]
           t3 == [t2 EXCEPT !.heard = TRUE]
           t4 == [t3 EXCEPT !.deadline = StaleAfter]
           t5 == [t4 EXCEPT !.given = g]
<1>14. IsShape(r) /\ r.events = t.events /\ r.dropped = t.dropped /\ r.stale = t.stale /\ Configured(t, r)
       /\ r.simActive = t.simActive /\ r.lost = t.lost /\ r.last = a.cnt /\ r.heard /\ r.deadline = StaleAfter
       /\ r.given = g
  <2> HIDE DEF g
  <2>1. r = t5
    BY <1>11, <1>13 DEF IsShape, g
  <2>2. IsShape(t1)
    BY <1>11 DEF IsShape
  <2> HIDE DEF t1
  <2>3. IsShape(t2)
    BY <2>2 DEF IsShape
  <2> HIDE DEF t2
  <2>4. IsShape(t3)
    <3>1. \A y : IsShape([t2 EXCEPT !.heard = y])
      BY <2>3 DEF IsShape
    <3> QED BY <3>1
  <2> HIDE DEF t3
  <2>5. IsShape(t4)
    BY <2>4 DEF IsShape
  <2> HIDE DEF t4
  <2>6. IsShape(t5)
    BY <2>5 DEF IsShape
  <2>7. t5.events = t.events /\ t5.dropped = t.dropped /\ t5.stale = t.stale /\ Configured(t, t5)
        /\ t5.simActive = t.simActive /\ t5.lost = t.lost /\ t5.last = a.cnt /\ t5.heard /\ t5.deadline = StaleAfter
        /\ t5.given = g
    BY <1>11, <2>2, <2>3, <2>4, <2>5 DEF t1, t2, t3, t4, IsShape, Configured
  <2> HIDE DEF t5
  <2> QED BY <2>1, <2>6, <2>7
<1>15. r.lost \in 0 .. LostTop - 1
  BY <1>3, <1>5, <1>7, <1>9, <1>12, <1>14, <1>11 DEF Sound, IsStream, Alike
<1>16. IsStream(r)
  <2>1. r.heard = TRUE
    BY <1>13, <1>11 DEF IsShape
  <2>2. r.stale = FALSE
    BY <1>9, <1>10, <1>11, <1>14 DEF Sound, IsStream, Resumed
  <2>3. s.mode \in SimulationModes /\ s.simActive \in BOOLEAN /\ (s.mode = "off" => ~s.simActive)
    BY DEF Sound, IsStream
  <2>4. r.mode = s.mode /\ r.simActive = s.simActive
    BY <1>12, <1>14 DEF Configured
  <2>5. r.deadline \in {None} \cup 0 .. StaleAfter /\ r.deadline # None
    BY <1>14, SubscriberConstants
  <2> QED BY <1>11, <1>14, <1>15, <2>1, <2>2, <2>3, <2>4, <2>5 DEF IsStream
<1>17. Backed(b \/ ~s.heard, r)
  <2>1. CASE s.heard
    <3>1. (b \/ ~s.heard) = b
      BY <2>1
    <3>2. r.dropped \/ (StreamLive(r) <=> Believe(b, r.events))
      BY <1>11, <1>12, <1>14, <2>1 DEF StreamLive
    <3> QED BY <1>11, <1>14, <3>1, <3>2 DEF Backed
  <2>2. CASE ~s.heard
    <3>1. t = w /\ ~w.heard
      BY <1>11, <1>12, <2>2
    <3>2. \A i \in DOMAIN r.events : r.events[i] \notin Telling
      BY <1>9, <1>14, <3>1 DEF Sound, Backed
    <3>3. Believe(b \/ ~s.heard, r.events) = (b \/ ~s.heard)
      BY <3>2, BelieveNothing
    <3>4. Believe(b \/ ~s.heard, r.events)
      BY <2>2, <3>3
    <3>5. StreamLive(r)
      BY <1>11, <1>14 DEF StreamLive
    <3> QED BY <1>11, <1>14, <3>4, <3>5 DEF Backed
  <2> QED BY <2>1, <2>2
<1>18. Configured(s, r)
  BY <1>12, <1>14 DEF Configured
<1> QED BY <1>11, <1>12, <1>14, <1>16, <1>17, <1>18 DEF Sound

\* One ASDU is passed over, whatever it was noted for, or it is accepted.
Passed(b, s, a, sim, r) ==
    /\ Sound(b, r) /\ Configured(s, r)
    /\ r.heard = s.heard /\ r.stale = s.stale /\ r.deadline = s.deadline /\ r.given = s.given /\ r.lost = s.lost
    /\ r.simActive <=> (s.simActive \/ (a.ours /\ Takes(s, sim)))
    /\ r.last = IF a.ours THEN LastSeen(s, sim) ELSE s.last
TakenIn(b, s, a, sim, r) ==
    /\ a.ours /\ Expects(s, a) /\ Fits(s, a)
    /\ Sound(b \/ ~s.heard, r) /\ Configured(s, r)
    /\ r.last = a.cnt /\ r.heard /\ ~r.stale /\ r.deadline = StaleAfter
    /\ r.simActive <=> sim
    /\ r.simActive <=> (s.simActive \/ Takes(s, sim))
    /\ r.given = Append(s.given, [asdu |-> a, sim |-> sim])
    /\ r.lost = More(s.lost, LastSeen(s, sim), a.cnt)

LEMMA OnAsduSound ==
    ASSUME SameStream, NEW b \in BOOLEAN, NEW s, Sound(b, s), NEW a, a.cnt \in Nat, a.ours \in BOOLEAN,
           NEW sim \in BOOLEAN, NEW r, r = OnAsdu(s, a, sim)
    PROVE  Passed(b, s, a, sim, r) \/ TakenIn(b, s, a, sim, r)
<1>0. PICK t : t = AfterSimulation(s, sim)
  OBVIOUS
<1>1. /\ Sound(b, t) /\ Configured(s, t)
      /\ t.heard = s.heard /\ t.stale = s.stale /\ t.deadline = s.deadline /\ t.given = s.given /\ t.lost = s.lost
      /\ t.simActive <=> (s.simActive \/ Takes(s, sim))
      /\ t.last = LastSeen(s, sim)
  BY <1>0, AfterSimulationSound
<1>2. CASE ~a.ours
  <2>1. r = s
    BY <1>2 DEF OnAsdu
  <2> QED BY <1>2, <2>1 DEF Passed, Configured
<1>3. CASE a.ours /\ ~SimulationAdmits(s, sim)
  <2>1. r = t
    BY <1>0, <1>3 DEF OnAsdu
  <2> QED BY <1>1, <1>3, <2>1 DEF Passed
<1>4. CASE a.ours /\ SimulationAdmits(s, sim) /\ ~Expects(t, a)
  <2>1. r = [ReportOnce(t, "revision", t.revReported) EXCEPT !.revReported = TRUE]
    BY <1>0, <1>4 DEF OnAsdu
  <2>2. PICK u : u = ReportOnce(t, "revision", t.revReported)
    OBVIOUS
  <2>3. Sound(b, u) /\ Alike(t, u)
    BY <1>1, <2>2, ReportOnceSound DEF EventKinds, Telling
  <2>4. PICK x : x = TRUE
    OBVIOUS
  <2>5. r = [u EXCEPT !.revReported = x]
    BY <2>1, <2>2, <2>4
  <2>6. Sound(b, r) /\ Alike(u, r)
    BY <2>3, <2>5, NoteSound
  <2> QED BY <1>1, <1>4, <2>3, <2>6 DEF Passed, Alike, Configured
<1>5. CASE a.ours /\ SimulationAdmits(s, sim) /\ Expects(t, a) /\ ~Fits(t, a)
  <2>1. r = [ReportOnce(t, "length", t.lenReported) EXCEPT !.lenReported = TRUE, !.revReported = FALSE]
    BY <1>0, <1>5 DEF OnAsdu
  <2>2. PICK u : u = ReportOnce(t, "length", t.lenReported)
    OBVIOUS
  <2>3. Sound(b, u) /\ Alike(t, u)
    BY <1>1, <2>2, ReportOnceSound DEF EventKinds, Telling
  <2>4. PICK x, y : x = TRUE /\ y = FALSE
    OBVIOUS
  <2>5. r = [u EXCEPT !.lenReported = x, !.revReported = y]
    BY <2>1, <2>2, <2>4
  <2>6. Sound(b, r) /\ Alike(u, r)
    BY <2>3, <2>5, NoteSound
  <2> QED BY <1>1, <1>5, <2>3, <2>6 DEF Passed, Alike, Configured
<1>6. CASE a.ours /\ SimulationAdmits(s, sim) /\ Expects(t, a) /\ Fits(t, a)
  <2>1. r = Accepted(t, a, sim)
    BY <1>0, <1>6 DEF OnAsdu
  <2>2. /\ Sound(b \/ ~t.heard, r) /\ Configured(t, r)
        /\ r.last = a.cnt /\ r.heard /\ r.simActive = t.simActive /\ ~r.stale /\ r.deadline = StaleAfter
        /\ r.given = Append(t.given, [asdu |-> a, sim |-> sim])
        /\ r.lost = More(t.lost, t.last, a.cnt)
    BY <1>1, <2>1, AcceptedSound
  <2>3. Expects(s, a) /\ Fits(s, a)
    BY <1>1, <1>6 DEF Expects, Fits, Configured
  <2>4. r.simActive <=> (s.simActive \/ Takes(s, sim))
    BY <1>1, <2>2
  <2>5. (s.simActive \/ Takes(s, sim)) <=> sim
    BY <1>6 DEF Takes, SimulationAdmits, Sound, IsStream, SimulationModes
  <2>6. Sound(b \/ ~s.heard, r)
    BY <1>1, <2>2
  <2>7. Configured(s, r) /\ r.given = Append(s.given, [asdu |-> a, sim |-> sim])
        /\ r.lost = More(s.lost, LastSeen(s, sim), a.cnt)
    BY <1>1, <2>2 DEF Configured
  <2> QED BY <1>6, <2>2, <2>3, <2>4, <2>5, <2>6, <2>7 DEF TakenIn
<1> QED BY <1>2, <1>3, <1>4, <1>5, <1>6

-----------------------------------------------------------------------------
(* A frame                                                                 *)

IsFrame(f) ==
    /\ f.sim \in BOOLEAN
    /\ Len(f.asdus) \in Nat /\ DOMAIN f.asdus = 1 .. Len(f.asdus)
    /\ \A i \in DOMAIN f.asdus : f.asdus[i].ours \in BOOLEAN /\ f.asdus[i].cnt \in Nat

\* What the consumer may be handed of a frame.
Handed(s, f) ==
    {[asdu |-> f.asdus[i], sim |-> f.sim] :
        i \in {j \in DOMAIN f.asdus : f.asdus[j].ours /\ Expects(s, f.asdus[j]) /\ Fits(s, f.asdus[j])}}

\* The count that the first sample handed over was compared with.
Base(s, u) == IF u.simActive <=> s.simActive THEN s.last ELSE None
From(base, g) == IF base = None THEN g[1].asdu.cnt - 1 ELSE base
Final(g) == g[Len(g)]

\* The stream s, some way into the frame f, has become u.
InFrame(b, s, f, u) ==
    /\ Sound(b \/ (u.heard /\ ~s.heard), u) /\ Configured(s, u)
    /\ (u.simActive <=> s.simActive) \/ (u.simActive /\ Takes(s, f.sim))
    /\ u.given \in Seq(Handed(s, f))
    /\ u.given = <<>> =>
           u.last = Base(s, u) /\ u.lost = s.lost /\ u.heard = s.heard /\ u.stale = s.stale /\ u.deadline = s.deadline
    /\ u.given # <<>> =>
           /\ u.last = Final(u.given).asdu.cnt /\ u.heard /\ ~u.stale /\ u.deadline = StaleAfter
           /\ u.simActive <=> f.sim
           /\ u.lost = (s.lost + (u.last - From(Base(s, u), u.given) - Len(u.given))) % Wrap

LEMMA PassedInFrame ==
    ASSUME NEW b \in BOOLEAN, NEW s, Sound(b, s), NEW f, IsFrame(f), NEW u, InFrame(b, s, f, u),
           NEW a, NEW r, Passed(b \/ (u.heard /\ ~s.heard), u, a, f.sim, r)
    PROVE  InFrame(b, s, f, r)
<1>1. r.given = u.given /\ r.heard = u.heard /\ r.stale = u.stale /\ r.deadline = u.deadline /\ r.lost = u.lost
  BY DEF Passed
<1>2. Sound(b \/ (r.heard /\ ~s.heard), r) /\ Configured(s, r)
  BY <1>1 DEF Passed, InFrame, Configured
<1>3. CASE a.ours /\ Takes(u, f.sim)
  <2>1. ~u.simActive /\ f.sim /\ Takes(s, f.sim) /\ ~s.simActive
    BY <1>3 DEF Takes, InFrame, Configured
  <2>2. u.given = <<>>
    BY <2>1 DEF InFrame
  <2>3. r.simActive /\ r.last = None
    BY <1>3 DEF Passed, LastSeen
  <2>4. Base(s, r) = None
    BY <2>1, <2>3 DEF Base
  <2> QED BY <1>1, <1>2, <2>1, <2>2, <2>3, <2>4 DEF InFrame
<1>4. CASE ~(a.ours /\ Takes(u, f.sim))
  <2>1. (r.simActive <=> u.simActive) /\ r.last = u.last
    BY <1>4 DEF Passed, LastSeen
  <2>2. Base(s, r) = Base(s, u)
    BY <2>1 DEF Base
  <2> QED BY <1>1, <1>2, <2>1, <2>2 DEF InFrame
<1> QED BY <1>3, <1>4

LEMMA TakenInFrame ==
    ASSUME NEW b \in BOOLEAN, NEW s, Sound(b, s), LostTop = Wrap, NEW f, IsFrame(f), NEW u, InFrame(b, s, f, u),
           NEW i \in DOMAIN f.asdus, NEW r, TakenIn(b \/ (u.heard /\ ~s.heard), u, f.asdus[i], f.sim, r)
    PROVE  InFrame(b, s, f, r)
<1> DEFINE a == f.asdus[i]
           e == [asdu |-> a, sim |-> f.sim]
<1>0. a.cnt \in Nat /\ None \notin Nat /\ Wrap \in Nat \ {0}
  BY SubscriberConstants, WrapPositive DEF IsFrame
<1>1. e \in Handed(s, f)
  BY DEF Handed, TakenIn, InFrame, Configured, Expects, Fits
<1>2. Sound(b \/ (r.heard /\ ~s.heard), r) /\ Configured(s, r)
  <2>1. (b \/ (u.heard /\ ~s.heard) \/ ~u.heard) <=> (b \/ (r.heard /\ ~s.heard))
    <3>1. u.given = <<>> => u.heard = s.heard
      BY DEF InFrame
    <3>2. u.given # <<>> => u.heard
      BY DEF InFrame
    <3> QED BY <3>1, <3>2 DEF TakenIn
  <2> QED BY <2>1 DEF TakenIn, InFrame, Configured
<1>3. /\ r.given = Append(u.given, e) /\ r.last = a.cnt /\ r.heard /\ ~r.stale /\ r.deadline = StaleAfter
      /\ r.simActive <=> f.sim
      /\ r.simActive <=> (u.simActive \/ Takes(u, f.sim))
      /\ r.lost = More(u.lost, LastSeen(u, f.sim), a.cnt)
  BY DEF TakenIn
<1>4. u.given \in Seq(Handed(s, f))
  BY DEF InFrame
<1> HIDE DEF e
<1>5. /\ r.given \in Seq(Handed(s, f)) /\ Len(r.given) = Len(u.given) + 1 /\ r.given # <<>> /\ Len(u.given) \in Nat
      /\ Final(r.given) = e
      /\ u.given = <<>> => r.given[1] = e
      /\ u.given # <<>> => r.given[1] = u.given[1]
  BY <1>1, <1>3, <1>4, AppendProperties, EmptySeq DEF Final
<1>6. e.asdu.cnt = a.cnt
  BY DEF e
<1>7. (r.simActive <=> s.simActive) \/ (r.simActive /\ Takes(s, f.sim))
  BY <1>3 DEF InFrame, Takes, Configured
<1>8. s.lost \in 0 .. Wrap - 1 /\ s.last \in Nat \cup {None}
  BY DEF Sound, IsStream
<1>9. Base(s, r) \in Nat \cup {None}
  BY <1>8 DEF Base
<1>10. CASE u.given = <<>>
  <2>1. LastSeen(u, f.sim) = Base(s, r)
    <3>1. CASE Takes(u, f.sim)
      <4>1. r.simActive /\ ~s.simActive
        BY <1>3, <3>1 DEF Takes, InFrame
      <4> QED BY <3>1, <4>1 DEF LastSeen, Base
    <3>2. CASE ~Takes(u, f.sim)
      <4>1. r.simActive <=> u.simActive
        BY <1>3, <3>2
      <4> QED BY <1>10, <3>2, <4>1 DEF LastSeen, Base, InFrame
    <3> QED BY <3>1, <3>2
  <2>2. r.lost = More(s.lost, Base(s, r), a.cnt)
    BY <1>3, <1>10, <2>1 DEF InFrame
  <2>3. CASE Base(s, r) = None
    <3>1. From(Base(s, r), r.given) = a.cnt - 1
      BY <1>5, <1>6, <1>10, <2>3 DEF From
    <3>2. Len(r.given) = 1
      BY <1>5, <1>10, EmptySeq
    <3>3. s.lost + (a.cnt - (a.cnt - 1) - 1) = s.lost
      BY <1>0, <1>8
    <3>4. s.lost % Wrap = s.lost
      BY <1>0, <1>8, SmallRemainder
    <3>5. r.lost = s.lost
      BY <2>2, <2>3 DEF More
    <3>6. r.lost = (s.lost + (r.last - From(Base(s, r), r.given) - Len(r.given))) % Wrap
      BY <1>3, <3>1, <3>2, <3>3, <3>4, <3>5
    <3> QED BY <1>2, <1>3, <1>5, <1>6, <1>7, <3>6 DEF InFrame
  <2>4. CASE Base(s, r) # None
    <3>1. From(Base(s, r), r.given) = Base(s, r)
      BY <2>4 DEF From
    <3>2. Len(r.given) = 1
      BY <1>5, <1>10, EmptySeq
    <3>3. r.lost = (s.lost + (r.last - From(Base(s, r), r.given) - Len(r.given))) % Wrap
      BY <1>3, <2>2, <2>4, <3>1, <3>2 DEF More
    <3> QED BY <1>2, <1>3, <1>5, <1>6, <1>7, <3>3 DEF InFrame
  <2> QED BY <2>3, <2>4
<1>11. CASE u.given # <<>>
  <2>1. /\ u.last = Final(u.given).asdu.cnt /\ (u.simActive <=> f.sim)
        /\ u.lost = (s.lost + (u.last - From(Base(s, u), u.given) - Len(u.given))) % Wrap
    BY <1>11 DEF InFrame
  <2>2. ~Takes(u, f.sim) /\ (r.simActive <=> u.simActive)
    BY <1>3, <2>1 DEF Takes
  <2>3. Base(s, r) = Base(s, u) /\ LastSeen(u, f.sim) = u.last
    BY <2>2 DEF Base, LastSeen
  <2>4. u.given[1] \in Handed(s, f) /\ Final(u.given) \in Handed(s, f)
    <3>1. 1 \in 1 .. Len(u.given) /\ Len(u.given) \in 1 .. Len(u.given)
      BY <1>4, <1>5, <1>11, EmptySeq
    <3> QED BY <1>4, <3>1, ElementOfSeq DEF Final
  <2>5. \A h \in Handed(s, f) : h.asdu.cnt \in Nat
    BY DEF Handed, IsFrame
  <2>6. PICK from \in Int : from = From(Base(s, u), u.given)
    BY <1>9, <2>3, <2>4, <2>5 DEF From
  <2>7. From(Base(s, r), r.given) = from
    BY <1>5, <1>11, <2>3, <2>6 DEF From
  <2>8. u.last \in Nat
    BY <2>1, <2>4, <2>5
  <2>9. PICK x \in Int : x = s.lost + (u.last - from - Len(u.given))
    BY <1>5, <1>8, <2>8
  <2>10. PICK y \in Int : y = a.cnt - u.last - 1
    BY <1>0, <2>8
  <2>11. u.lost = x % Wrap
    BY <2>1, <2>6, <2>9
  <2>12. r.lost = ((x % Wrap) + y) % Wrap
    BY <1>0, <1>3, <2>3, <2>8, <2>10, <2>11 DEF More
  <2>13. ((x % Wrap) + y) % Wrap = (x + y) % Wrap
    BY <1>0, RemainderSum
  <2>14. x + y = s.lost + (a.cnt - from - Len(r.given))
    <3>1. PICK l \in Nat : l = Len(u.given)
      BY <1>5
    <3>2. PICK c \in Int, h \in Int, k \in Int : c = a.cnt /\ h = u.last /\ k = s.lost
      BY <1>0, <1>8, <2>8
    <3>3. x = k + (h - from - l) /\ y = c - h - 1 /\ Len(r.given) = l + 1
      BY <1>5, <2>9, <2>10, <3>1, <3>2
    <3>4. x + y = k + (c - from - (l + 1))
      BY <3>3
    <3> QED BY <3>2, <3>3, <3>4
  <2>15. r.lost = (s.lost + (r.last - From(Base(s, r), r.given) - Len(r.given))) % Wrap
    BY <1>3, <2>7, <2>12, <2>13, <2>14
  <2> QED BY <1>2, <1>3, <1>5, <1>6, <1>7, <2>15 DEF InFrame
<1> QED BY <1>10, <1>11

\* What a frame makes of the stream is one ASDU after another.
AsduRow(s, f, n, g) == g = [i \in 0 .. n |-> IF i = 0 THEN s ELSE OnAsdu(g[i - 1], f.asdus[i], f.sim)]

LEMMA AsdusInTurn ==
    ASSUME NEW s, NEW f
    PROVE  \A n \in Nat : \E g : AsduRow(s, f, n, g)
<1> DEFINE S == {n \in Nat : \E g : AsduRow(s, f, n, g)}
<1>1. 0 \in S
  <2> DEFINE g == [i \in 0 .. 0 |-> s]
  <2>1. g = [i \in 0 .. 0 |-> IF i = 0 THEN s ELSE OnAsdu(g[i - 1], f.asdus[i], f.sim)]
    OBVIOUS
  <2>2. AsduRow(s, f, 0, g)
    BY <2>1 DEF AsduRow
  <2> QED BY <2>2
<1>2. ASSUME NEW n \in Nat, n \in S PROVE n + 1 \in S
  <2>1. PICK h : AsduRow(s, f, n, h)
    BY <1>2
  <2>2. \A i \in 0 .. n : h[i] = IF i = 0 THEN s ELSE OnAsdu(h[i - 1], f.asdus[i], f.sim)
    BY <2>1 DEF AsduRow
  <2> DEFINE g == [i \in 0 .. n + 1 |-> IF i = n + 1 THEN OnAsdu(h[n], f.asdus[n + 1], f.sim) ELSE h[i]]
  <2>3. \A i \in 0 .. n + 1 : g[i] = IF i = 0 THEN s ELSE OnAsdu(g[i - 1], f.asdus[i], f.sim)
    <3> TAKE i \in 0 .. n + 1
    <3>1. CASE i = 0
      BY <2>2, <3>1
    <3>2. CASE i \in 1 .. n
      <4>1. i - 1 \in 0 .. n + 1 /\ i - 1 # n + 1 /\ i \in 0 .. n /\ i # n + 1 /\ i # 0
        BY <3>2
      <4>2. g[i] = h[i] /\ g[i - 1] = h[i - 1]
        BY <4>1
      <4> HIDE DEF g
      <4> QED BY <2>2, <4>1, <4>2
    <3>3. CASE i = n + 1
      <4>1. n \in 0 .. n + 1 /\ n # n + 1 /\ i - 1 = n /\ i # 0
        BY <3>3
      <4>2. g[i] = OnAsdu(h[n], f.asdus[n + 1], f.sim) /\ g[n] = h[n]
        BY <3>3, <4>1
      <4> HIDE DEF g
      <4> QED BY <3>3, <4>1, <4>2
    <3> QED BY <3>1, <3>2, <3>3
  <2>4. g = [i \in 0 .. n + 1 |-> IF i = 0 THEN s ELSE OnAsdu(g[i - 1], f.asdus[i], f.sim)]
    <3>1. g = [i \in 0 .. n + 1 |-> g[i]]
      OBVIOUS
    <3> HIDE DEF g
    <3>2. [i \in 0 .. n + 1 |-> g[i]] = [i \in 0 .. n + 1 |-> IF i = 0 THEN s ELSE OnAsdu(g[i - 1], f.asdus[i], f.sim)]
      BY <2>3
    <3> QED BY <3>1, <3>2
  <2>5. AsduRow(s, f, n + 1, g)
    BY <2>4 DEF AsduRow
  <2> HIDE DEF g
  <2> QED BY <2>5
<1> HIDE DEF S
<1>3. Nat \subseteq S
  BY <1>1, <1>2, NumbersByInduction
<1> QED BY <1>3 DEF S

LEMMA NothingGiven ==
    ASSUME NEW b \in BOOLEAN, NEW s, Sound(b, s), NEW f, NEW u, Sound(b, u), Configured(s, u), u.simActive <=> s.simActive,
           u.given = <<>>, u.last = s.last, u.lost = s.lost, u.heard = s.heard, u.stale = s.stale, u.deadline = s.deadline
    PROVE  InFrame(b, s, f, u)
<1>1. <<>> \in Seq(Handed(s, f))
  OBVIOUS
<1>2. (b \/ (u.heard /\ ~s.heard)) = b
  OBVIOUS
<1> QED BY <1>1, <1>2 DEF InFrame, Base

LEMMA OnAsdusSound ==
    ASSUME SameStream, NEW b \in BOOLEAN, NEW s, Sound(b, s), s.given = <<>>, NEW f, IsFrame(f), NEW r, r = OnAsdus(s, f)
    PROVE  InFrame(b, s, f, r)
<1> DEFINE n == Len(f.asdus)
           after == CHOOSE g : AsduRow(s, f, n, g)
<1>1. r = after[n]
  BY DEF OnAsdus, AsduRow
<1>2. n \in Nat /\ DOMAIN f.asdus = 1 .. n /\ f.sim \in BOOLEAN
  BY DEF IsFrame
<1>3. AsduRow(s, f, n, after)
  BY <1>2, AsdusInTurn
<1> HIDE DEF after, n
<1>4. after[0] = s /\ \A i \in 1 .. n : after[i] = OnAsdu(after[i - 1], f.asdus[i], f.sim)
  <2>1. after = [i \in 0 .. n |-> IF i = 0 THEN s ELSE OnAsdu(after[i - 1], f.asdus[i], f.sim)]
    BY <1>3 DEF AsduRow
  <2>2. 0 \in 0 .. n /\ \A i \in 1 .. n : i \in 0 .. n /\ i # 0
    BY <1>2
  <2> QED BY <2>1, <2>2
<1> DEFINE S == {i \in Nat : i <= n => InFrame(b, s, f, after[i])}
<1>5. 0 \in S
  <2>1. InFrame(b, s, f, s)
    BY NothingGiven DEF Configured
  <2> QED BY <1>4, <2>1
<1>6. ASSUME NEW i \in Nat, i \in S PROVE i + 1 \in S
  <2> SUFFICES ASSUME i + 1 <= n PROVE InFrame(b, s, f, after[i + 1])
    OBVIOUS
  <2>1. i <= n /\ i + 1 \in 1 .. n /\ (i + 1) - 1 = i
    BY <1>2
  <2> DEFINE u == after[i]
             v == after[i + 1]
             a == f.asdus[i + 1]
  <2>2. InFrame(b, s, f, u)
    BY <1>6, <2>1
  <2>3. v = OnAsdu(u, a, f.sim)
    BY <1>4, <2>1
  <2>4. a.cnt \in Nat /\ a.ours \in BOOLEAN /\ i + 1 \in DOMAIN f.asdus
    BY <1>2, <2>1 DEF IsFrame
  <2> HIDE DEF u, v
  <2>5. PICK c \in BOOLEAN : c = (b \/ (u.heard /\ ~s.heard))
    OBVIOUS
  <2>6. Sound(c, u)
    BY <2>2, <2>5 DEF InFrame
  <2>7. Passed(c, u, a, f.sim, v) \/ TakenIn(c, u, a, f.sim, v)
    BY <1>2, <2>3, <2>4, <2>6, OnAsduSound
  <2>8. CASE Passed(c, u, a, f.sim, v)
    BY <2>2, <2>5, <2>8, PassedInFrame DEF v
  <2>9. CASE TakenIn(c, u, a, f.sim, v)
    BY <2>2, <2>4, <2>5, <2>9, TakenInFrame DEF v, SameStream
  <2> QED BY <2>7, <2>8, <2>9 DEF v
<1> HIDE DEF S
<1>7. n \in S
  BY <1>2, <1>5, <1>6, NumbersByInduction
<1>8. n <= n
  BY <1>2
<1> QED BY <1>1, <1>7, <1>8 DEF S

\* Whatever frame arrives, the timer is looked at before it.
LEMMA SvOnFrameSound ==
    ASSUME SameStream, NEW b \in BOOLEAN, NEW s, Sound(b, s), s.given = <<>>, NEW f, f.addressed \in BOOLEAN, f.decodes \in BOOLEAN,
           IsFrame(f), NEW t, t = CheckStale(s), NEW r, r = SvOnFrame(s, f)
    PROVE  Sound(b, t) /\ InFrame(b, t, f, r) /\ (r.given # <<>> => f.addressed /\ f.decodes)
<1>1. [s EXCEPT !.given = <<>>] = s
  BY DEF Sound, IsStream, IsShape
<1>2. Sound(b, t) /\ Configured(s, t) /\ t.given = <<>>
  BY CheckStaleSound
<1>3. CASE ~f.addressed
  <2>1. r = t
    BY <1>1, <1>3 DEF SvOnFrame
  <2> QED BY <1>2, <2>1, NothingGiven DEF Configured
<1>4. CASE f.addressed /\ ~f.decodes
  <2>1. r = Report(t, "malformed")
    BY <1>1, <1>4 DEF SvOnFrame
  <2>2. Sound(b, r) /\ Alike(t, r)
    BY <1>2, <2>1, ReportSound DEF EventKinds, Telling
  <2>3. InFrame(b, t, f, r)
    BY <1>2, <2>2, NothingGiven DEF Alike
  <2> QED BY <1>2, <2>2, <2>3 DEF Alike
<1>5. CASE f.addressed /\ f.decodes
  <2>1. r = OnAsdus(t, f)
    BY <1>1, <1>5 DEF SvOnFrame
  <2> QED BY <1>2, <1>5, <2>1, OnAsdusSound
<1> QED BY <1>3, <1>4, <1>5

-----------------------------------------------------------------------------
(* The inductive invariant                                                 *)

Delay(e) == MaxDelay - e.ttl

\* Samples that were published when the clock stood at c and d ticks before:
\* what they measure tells their number, and their number their age and count.
Numbers(asdus, c, d) ==
    /\ DOMAIN asdus = Positions /\ Len(asdus) = Asdus
    /\ NumberOf(asdus[1].block) \in 0 .. Period - 1
    /\ \A i \in Positions :
          LET n == NumberOf(asdus[1].block) + i - 1
          IN  /\ asdus[i].block = BlockOf(n)
              /\ ((c + Asdus - 1) - n) % Period = d * Asdus + Asdus - i
              /\ asdus[i].cnt = n % Wrap
              /\ asdus[i].synch = asdus[1].synch /\ asdus[i].gm = asdus[1].gm /\ asdus[i].ours = TRUE

Nets ==
    \A e \in net :
        /\ e = [frame |-> e.frame, ttl |-> e.ttl]
        /\ e.ttl \in 0 .. MaxDelay
        /\ e.frame.addressed = TRUE /\ e.frame.decodes = TRUE /\ e.frame.sim = FALSE
        /\ Numbers(e.frame.asdus, unit.clock, Delay(e))

Backing ==
    /\ app \in BOOLEAN
    /\ Sound(app, sub) /\ sub.given = <<>>
    /\ \E s \in Streams : Configured(s, sub)

\* The history and the stream agree on the last sample, and on how long ago it
\* was as far as the timer tells; no hole was miscounted or hidden.
Links ==
    /\ truth = [last |-> truth.last, sim |-> truth.sim, since |-> truth.since,
                miscounted |-> truth.miscounted, hidden |-> truth.hidden]
    /\ truth.last = None <=> sub.last = None
    /\ truth.last # None => /\ truth.last \in Nat /\ sub.last % Wrap = truth.last % Wrap
                            /\ truth.sim \in BOOLEAN /\ (truth.sim <=> sub.simActive)
    /\ truth.miscounted = FALSE /\ truth.hidden = FALSE
    /\ truth.since \in 0 .. Period
    /\ sub.deadline # None => truth.since < (MaxDelay + 1 + StaleAfter - sub.deadline) * Asdus
    /\ truth.last # None /\ ~truth.sim => Age(truth.last) % Wrap = truth.since % Wrap

Machine == unit \in [clock : 0 .. Period - 1, up : BOOLEAN, late : BOOLEAN, due : BOOLEAN]

LEMMA LinkConstants ==
    /\ Period \in Nat \ {0} /\ Period % Wrap = 0 /\ Period > Wrap /\ Period % Asdus = 0
    /\ MaxDelay \in Nat /\ MaxInFlight \in Nat
    /\ Wrap \in Nat \ {0} /\ Asdus \in Nat \ {0} /\ StaleAfter \in Nat \ {0}
BY SvLinkAssumption, WrapPositive, SubscriberConstants

LEMMA Times ==
    ASSUME NEW m \in Nat, NEW x \in Int, NEW y \in Int, x <= y
    PROVE  x * m <= y * m /\ x * m \in Int /\ y * m \in Int
<1> DEFINE S == {n \in Nat : x * n <= y * n}
<1>1. 0 \in S
  OBVIOUS
<1>2. ASSUME NEW n \in Nat, n \in S PROVE n + 1 \in S
  <2>1. x * (n + 1) = x * n + x /\ y * (n + 1) = y * n + y /\ x * n \in Int /\ y * n \in Int
    OBVIOUS
  <2>2. x * n <= y * n
    BY <1>2
  <2>3. x * (n + 1) <= y * (n + 1)
    BY <2>1, <2>2
  <2> QED BY <2>3
<1> HIDE DEF S
<1>3. Nat \subseteq S
  BY <1>1, <1>2, NumbersByInduction
<1> QED BY <1>3 DEF S

LEMMA NoRemainder ==
    ASSUME NEW m \in Nat \ {0}, NEW x \in Int, -m < x, x < m, x % m = 0
    PROVE  x = 0
<1>1. CASE x >= 0
  <2>1. x \in 0 .. m - 1
    BY <1>1
  <2> QED BY <2>1, SmallRemainder
<1>2. CASE ~(x >= 0)
  <2>1. PICK y \in 0 .. m - 1 : y = x + m * 1
    BY <1>2
  <2>2. (x + m * 1) % m = x % m
    <3>1. 1 \in Int
      OBVIOUS
    <3> QED BY <3>1, Shifted
  <2>3. y = 0
    BY <2>1, <2>2, SmallRemainder
  <2> QED BY <2>1, <2>3
<1> QED BY <1>1, <1>2

\* Blocks come round with the clock.
LEMMA BlockOfPlace ==
    ASSUME NEW n \in Int
    PROVE  BlockOf(n) = BlockOf(n % Period) /\ Measured(n) = Measured(n % Period) /\ n % Period \in 0 .. Period - 1
<1>1. n % Period \in 0 .. Period - 1
  BY LinkConstants, Remainder
<1>2. (n % Period) % Period = n % Period
  BY <1>1, LinkConstants, SmallRemainder
<1>3. Measured(n) = Measured(n % Period)
  BY <1>2 DEF Measured
<1> QED BY <1>1, <1>3 DEF BlockOf

\* What the network carries: a sample's count is its number's, and its age
\* that of its frame.
LEMMA Numbered ==
    ASSUME Spelled, NEW asdus, NEW c \in Int, NEW d \in 0 .. MaxDelay, Numbers(asdus, c, d), NEW i \in Positions,
           NEW n, n = NumberOf(asdus[i].block)
    PROVE  /\ n \in Nat /\ asdus[i].cnt = n % Wrap /\ asdus[i].cnt \in Nat
           /\ ((c + Asdus - 1) - n) % Period = d * Asdus + Asdus - i
<1>0. Period \in Nat \ {0} /\ Wrap \in Nat \ {0} /\ Asdus \in Nat /\ Period % Wrap = 0
  BY LinkConstants
<1>1. PICK k \in Int : k = NumberOf(asdus[1].block) + i - 1
  BY DEF Numbers, Positions
<1>2. asdus[i].block = BlockOf(k) /\ ((c + Asdus - 1) - k) % Period = d * Asdus + Asdus - i /\ asdus[i].cnt = k % Wrap
  BY <1>1 DEF Numbers
<1>3. k % Period \in 0 .. Period - 1 /\ BlockOf(k) = BlockOf(k % Period)
  BY BlockOfPlace
<1>4. n = k % Period
  BY <1>2, <1>3 DEF Spelled
<1>5. n % Wrap = k % Wrap
  <2>1. (k % Period) % Wrap = k % Wrap
    BY <1>0, RemainderOfMultiple, Zenon
  <2> QED BY <1>4, <2>1
<1>6. PICK x \in Int : x = c + Asdus - 1
  BY <1>0
<1>7. (x - (k % Period)) % Period = (x - k) % Period
  BY <1>0, RemainderDifference
<1>8. k % Wrap \in Nat
  BY <1>0, Remainder
<1> QED BY <1>2, <1>3, <1>4, <1>5, <1>6, <1>7, <1>8

\* A hole of whole seconds does not go unnoticed while the stream lives.
LEMMA NothingHidden ==
    ASSUME Timely, Machine, Backing, Links, NEW n \in Int, NEW d \in 0 .. MaxDelay, NEW i \in Positions,
           Age(n) = d * Asdus + Asdus - i, truth.last # None
    PROVE  ~Hides(n, CheckStale(sub).stale)
<1> SUFFICES ASSUME Hole(n, 1) % Wrap = 0, ~CheckStale(sub).stale PROVE Hole(n, 1) = 0
  BY DEF Hides
<1>0. /\ Period \in Nat \ {0} /\ Wrap \in Nat \ {0} /\ Asdus \in Nat \ {0} /\ Period % Wrap = 0 /\ Period > Wrap
      /\ MaxDelay \in Nat /\ StaleAfter \in Nat \ {0} /\ None \notin Nat
  BY LinkConstants, SubscriberConstants
<1>1. truth.last \in Int /\ sub.last # None /\ truth.since \in Nat
  BY <1>0 DEF Links
<1>2. sub.deadline \in 1 .. StaleAfter
  <2>1. sub.heard
    BY <1>1 DEF Backing, Sound, IsStream
  <2>2. ~sub.stale /\ sub.deadline # 0
    <3>1. LET t == CheckStale(sub) IN (t.stale = sub.stale /\ ~(sub.deadline = 0 /\ ~sub.stale)) \/ t.stale
      BY CheckStaleSound DEF Backing
    <3> QED BY <3>1
  <2> QED BY <1>0, <2>1, <2>2 DEF Backing, Sound, IsStream
<1>3. truth.since < Wrap
  <2>1. truth.since < (MaxDelay + 1 + StaleAfter - sub.deadline) * Asdus
    BY <1>0, <1>2 DEF Links
  <2>2. PICK x \in Int, y \in Int : x = MaxDelay + 1 + StaleAfter - sub.deadline /\ y = MaxDelay + StaleAfter
    BY <1>0, <1>2
  <2>3. x <= y
    BY <1>0, <1>2, <2>2
  <2>4. x * Asdus <= y * Asdus /\ x * Asdus \in Int /\ y * Asdus \in Int
    BY <1>0, <2>3, Times
  <2>5. y * Asdus <= Wrap
    BY <2>2 DEF Timely
  <2> QED BY <1>0, <1>1, <2>1, <2>2, <2>4, <2>5
<1>5. Age(n) \in 0 .. Wrap - 2
  <2>1. d * Asdus <= MaxDelay * Asdus /\ d * Asdus \in Int /\ MaxDelay * Asdus \in Int
    BY <1>0, Times
  <2>2. (MaxDelay + 1) * Asdus = MaxDelay * Asdus + Asdus
    BY <1>0
  <2>3. (MaxDelay + 1) * Asdus < Wrap
    BY DEF Timely
  <2>4. i \in 1 .. Asdus
    BY DEF Positions
  <2>5. d * Asdus + Asdus - i <= Wrap - 2
    BY <1>0, <2>1, <2>2, <2>3, <2>4
  <2>6. 0 * Asdus <= d * Asdus /\ 0 * Asdus = 0
    BY <1>0, Times
  <2>7. d * Asdus + Asdus - i >= 0
    BY <1>0, <2>1, <2>4, <2>6
  <2> QED BY <1>0, <2>1, <2>4, <2>5, <2>7
<1>6. PICK h \in Int : h = Hole(n, 1)
  BY <1>1, <1>5 DEF Hole
<1>7. -Wrap < h /\ h < Wrap
  BY <1>0, <1>1, <1>3, <1>5, <1>6 DEF Hole
<1> QED BY <1>0, <1>6, <1>7, NoRemainder

LEMMA Congruent ==
    ASSUME NEW m \in Nat \ {0}, NEW a \in Int, NEW b \in Int, a % m = b % m
    PROVE  \E k \in Int : a = b + m * k /\ m * k \in Int
<1>1. PICK p \in Int : a = m * p + (a % m)
  BY Remainder
<1>2. PICK q \in Int : b = m * q + (b % m)
  BY Remainder
<1>3. PICK r \in Int : r = a % m
  BY Remainder
<1>4. m * (p - q) = m * p - m * q /\ m * p \in Int /\ m * q \in Int /\ m * (p - q) \in Int
  OBVIOUS
<1>5. a = b + m * (p - q)
  <2>1. PICK x \in Int, y \in Int : x = m * p /\ y = m * q
    BY <1>4
  <2>2. a = x + r /\ b = y + r /\ m * (p - q) = x - y
    BY <1>1, <1>2, <1>3, <1>4, <2>1
  <2> QED BY <2>2
<1>6. PICK k \in Int : k = p - q
  OBVIOUS
<1> QED BY <1>4, <1>5, <1>6

\* What is missing before a number, by the time that has passed, is what its
\* distance to the last number says, as far as a second tells.
LEMMA HoleOf ==
    ASSUME Machine, Links, NEW n \in Int, NEW k \in Int, truth.last # None, ~truth.sim
    PROVE  Hole(n, k) \in Int /\ Hole(n, k) % Wrap = ((n - truth.last) - k) % Wrap
<1>0. /\ Period \in Nat \ {0} /\ Wrap \in Nat \ {0} /\ Asdus \in Nat \ {0} /\ Period % Wrap = 0 /\ Period > Wrap
  BY LinkConstants
<1>1. truth.last \in Int /\ truth.since \in Int
  BY <1>0 DEF Links
<1>2. PICK l \in Int : l = truth.last
  BY <1>1
<1>6. PICK x \in Int : x = unit.clock + Asdus - 1
  BY <1>0 DEF Machine
<1>7. PICK a \in Int : a = (x - l) % Period
  <2>1. x - l \in Int
    OBVIOUS
  <2> QED BY <1>0, <2>1, Remainder
<1>8. PICK b \in Int : b = (x - n) % Period
  <2>1. x - n \in Int
    OBVIOUS
  <2> QED BY <1>0, <2>1, Remainder
<1>9. a = Age(truth.last) /\ b = Age(n)
  BY <1>2, <1>6, <1>7, <1>8 DEF Age
<1>10. PICK q \in Int : x - l = Period * q + a
  <2>1. PICK y \in Int : y = x - l
    OBVIOUS
  <2> QED BY <1>0, <1>7, <2>1, Remainder
<1>11. PICK p \in Int : x - n = Period * p + b
  <2>1. PICK y \in Int : y = x - n
    OBVIOUS
  <2> QED BY <1>0, <1>8, <2>1, Remainder
<1>12. PICK h \in Int : Period = Wrap * h
  <2>1. PICK h \in Int : Period = Wrap * h + (Period % Wrap)
    <3>1. Period \in Int
      BY <1>0
    <3> QED BY <1>0, <3>1, Remainder, Zenon
  <2>2. Wrap * h \in Int /\ Period = Wrap * h + 0
    BY <1>0, <2>1
  <2> QED BY <2>2
<1>13. PICK g \in Int : g = h * (q - p)
  OBVIOUS
<1>14. Wrap * g = Period * q - Period * p /\ Period * q \in Int /\ Period * p \in Int
  <2>1. Wrap * (h * (q - p)) = (Wrap * h) * (q - p)
    BY <1>0
  <2>2. Period * (q - p) = Period * q - Period * p
    BY <1>0
  <2> QED BY <1>0, <1>12, <1>13, <2>1, <2>2
<1>15. PICK y \in Int : y = a - b - k
  OBVIOUS
<1>16. (n - l) - k = y + Wrap * g
  <2>1. PICK u \in Int, v \in Int, w \in Int : u = Period * q /\ v = Period * p /\ w = Wrap * g
    BY <1>14
  <2>2. w = u - v /\ x - l = u + a /\ x - n = v + b
    BY <1>10, <1>11, <1>14, <2>1
  <2>3. (n - l) - k = y + w
    BY <1>15, <2>2
  <2> QED BY <2>1, <2>3
<1>17. PICK c \in Int : truth.since = a + Wrap * c /\ Wrap * c \in Int
  <2>1. truth.since % Wrap = a % Wrap
    BY <1>9 DEF Links
  <2> QED BY <1>0, <1>1, <2>1, Congruent
<1>18. Hole(n, k) = y + Wrap * c
  BY <1>8, <1>9, <1>15, <1>17 DEF Hole
<1>19. (y + Wrap * g) % Wrap = y % Wrap /\ (y + Wrap * c) % Wrap = y % Wrap
  BY <1>0, Shifted
<1> QED BY <1>2, <1>16, <1>17, <1>18, <1>19

\* What a remainder has grown by.
LEMMA Growth ==
    ASSUME NEW m \in Nat \ {0}, NEW o \in Int, NEW y \in Int
    PROVE  (((o + y) % m) - o) % m = y % m
<1>1. PICK x \in Int, z \in Int : x = o + y /\ z = 0 - o
  OBVIOUS
<1>2. ((x % m) + z) % m = (x + z) % m
  BY RemainderSum
<1>3. PICK w \in Int : w = x % m
  BY Remainder
<1>4. x + z = y /\ w + z = w - o
  BY <1>1
<1> QED BY <1>1, <1>2, <1>3, <1>4

LEMMA GivenTaken ==
    ASSUME NEW b, NEW s, Sound(b, s), NEW t, t = [s EXCEPT !.given = <<>>]
    PROVE  Sound(b, t) /\ t.given = <<>> /\ Configured(s, t) /\ t.last = s.last /\ t.lost = s.lost /\ t.heard = s.heard
           /\ t.simActive = s.simActive /\ t.stale = s.stale /\ t.deadline = s.deadline
<1>1. IsShape(s)
  BY DEF Sound, IsStream
<1>2. IsShape(t)
  BY <1>1 DEF IsShape
<1>3. /\ t.given = <<>> /\ Configured(s, t) /\ t.last = s.last /\ t.lost = s.lost /\ t.heard = s.heard
      /\ t.simActive = s.simActive /\ t.stale = s.stale /\ t.deadline = s.deadline
      /\ t.events = s.events /\ t.dropped = s.dropped
  BY <1>1 DEF IsShape, Configured
<1> QED BY <1>2, <1>3 DEF Sound, IsStream, Backed, StreamLive, Configured

\* The frame is one of the merging unit's, or says that it is a test.
Known(f) == f.sim \/ \E d \in 0 .. MaxDelay : Numbers(f.asdus, unit.clock, d)

\* What a sample's number is compared with and what its age may be.
LEMMA HandedIs ==
    ASSUME Spelled, Machine, NEW f, IsFrame(f), Known(f), NEW s, NEW h \in Handed(s, f)
    PROVE  /\ TrueNumber(h) \in Nat /\ h.asdu.cnt \in Nat /\ h.sim = f.sim
           /\ h.asdu.cnt % Wrap = TrueNumber(h) % Wrap
           /\ ~h.sim => \E d \in 0 .. MaxDelay, i \in Positions : Age(TrueNumber(h)) = d * Asdus + Asdus - i
<1>1. PICK i \in DOMAIN f.asdus : h = [asdu |-> f.asdus[i], sim |-> f.sim]
  BY DEF Handed
<1>2. h.asdu.cnt \in Nat /\ h.sim = f.sim /\ f.sim \in BOOLEAN
  BY <1>1 DEF IsFrame
<1>3. CASE f.sim
  BY <1>2, <1>3 DEF TrueNumber
<1>4. CASE ~f.sim
  <2>1. PICK d \in 0 .. MaxDelay : Numbers(f.asdus, unit.clock, d)
    BY <1>4 DEF Known
  <2>2. i \in Positions
    BY <2>1 DEF Numbers
  <2>3. PICK n : n = NumberOf(f.asdus[i].block)
    OBVIOUS
  <2>4. unit.clock \in Int
    BY LinkConstants DEF Machine
  <2>5. /\ n \in Nat /\ f.asdus[i].cnt = n % Wrap
        /\ ((unit.clock + Asdus - 1) - n) % Period = d * Asdus + Asdus - i
    BY <2>1, <2>2, <2>3, <2>4, Numbered
  <2>6. TrueNumber(h) = n
    BY <1>1, <1>4, <2>3 DEF TrueNumber
  <2>7. (n % Wrap) % Wrap = n % Wrap
    <3>1. n \in Int /\ Wrap \in Nat \ {0}
      BY <2>5, LinkConstants
    <3>2. PICK k \in 0 .. Wrap - 1 : k = n % Wrap
      BY <3>1, Remainder
    <3>3. k % Wrap = k
      BY <3>1, SmallRemainder
    <3> QED BY <3>2, <3>3
  <2>8. h.asdu.cnt % Wrap = n % Wrap
    BY <1>1, <2>5, <2>7
  <2>9. Age(n) = d * Asdus + Asdus - i
    BY <2>5 DEF Age
  <2> QED BY <1>2, <1>4, <2>1, <2>2, <2>5, <2>6, <2>8, <2>9
<1> QED BY <1>2, <1>3, <1>4

\* Nothing handed over: a test set may have taken the stream over.
LEMMA HearsNothing ==
    ASSUME Machine, Backing, Links, NEW t, t = CheckStale(sub), NEW f, NEW r, InFrame(app, t, f, r), r.given = <<>>,
           Hears(r), unit' = unit
    PROVE  Backing' /\ Links'
<1>1. /\ Sound(app, t) /\ Configured(sub, t) /\ t.last = sub.last /\ t.lost = sub.lost /\ t.heard = sub.heard
      /\ t.simActive = sub.simActive
      /\ t.deadline \in {sub.deadline, None}
  <2>1. Sound(app, sub)
    BY DEF Backing
  <2> QED BY <2>1, CheckStaleSound
<1>2. /\ Sound(app \/ (r.heard /\ ~t.heard), r) /\ Configured(t, r)
      /\ r.last = Base(t, r) /\ r.lost = t.lost /\ r.heard = t.heard /\ r.deadline = t.deadline
  BY DEF InFrame
<1>3. sub' = [r EXCEPT !.given = <<>>] /\ app' = (app \/ (~sub.heard /\ r.heard)) /\ truth' = HandedOver(r)
  BY DEF Hears
<1>4. Backing'
  <2>1. app' = (app \/ (r.heard /\ ~t.heard)) /\ app' \in BOOLEAN
    BY <1>1, <1>3 DEF Backing
  <2>2. Sound(app', sub') /\ sub'.given = <<>> /\ Configured(r, sub')
    BY <1>2, <1>3, <2>1, GivenTaken
  <2>3. \E s \in Streams : Configured(s, sub')
    BY <1>1, <1>2, <2>2 DEF Backing, Configured
  <2> QED BY <2>1, <2>2, <2>3 DEF Backing
<1>5. /\ sub'.last = r.last /\ sub'.lost = sub.lost /\ sub'.simActive = r.simActive /\ sub'.deadline \in {sub.deadline, None}
  BY <1>1, <1>2, <1>3, GivenTaken
<1>6. sub.simActive \in BOOLEAN /\ r.simActive \in BOOLEAN
  BY <1>2 DEF Backing, Sound, IsStream
<1>7. CASE r.simActive # sub.simActive
  <2>1. truth' = [truth EXCEPT !.last = None]
    BY <1>3, <1>7 DEF HandedOver
  <2>2. r.last = None
    BY <1>1, <1>2, <1>6, <1>7 DEF Base
  <2>3. truth'.last = None /\ truth'.miscounted = truth.miscounted /\ truth'.hidden = truth.hidden /\ truth'.since = truth.since
        /\ truth' = [last |-> truth'.last, sim |-> truth'.sim, since |-> truth'.since,
                     miscounted |-> truth'.miscounted, hidden |-> truth'.hidden]
    BY <2>1 DEF Links
  <2> QED BY <1>4, <1>5, <2>2, <2>3 DEF Links
<1>8. CASE r.simActive = sub.simActive
  <2>1. truth' = truth
    BY <1>3, <1>8 DEF HandedOver
  <2>2. r.last = sub.last
    BY <1>1, <1>2, <1>8 DEF Base
  <2>3. truth.last # None /\ ~truth.sim => (Age(truth.last))' % Wrap = truth.since % Wrap
    BY <2>1 DEF Links, Age
  <2> QED BY <1>4, <1>5, <1>8, <2>1, <2>2, <2>3 DEF Links
<1> QED BY <1>7, <1>8

LEMMA HearsSamples ==
    ASSUME SameStream, Timely, Spelled, Machine, Backing, Links, NEW t, t = CheckStale(sub), NEW f, IsFrame(f), Known(f),
           NEW r, InFrame(app, t, f, r), r.given # <<>>, Hears(r), unit' = unit
    PROVE  Backing' /\ Links'
<1>0. /\ Period \in Nat \ {0} /\ Wrap \in Nat \ {0} /\ Asdus \in Nat \ {0} /\ Period % Wrap = 0 /\ Period > Wrap
      /\ MaxDelay \in Nat /\ StaleAfter \in Nat \ {0} /\ None \notin Nat /\ LostTop = Wrap
  BY LinkConstants, SubscriberConstants DEF SameStream
<1>1. /\ Sound(app, t) /\ Configured(sub, t) /\ t.last = sub.last /\ t.lost = sub.lost /\ t.heard = sub.heard
      /\ t.simActive = sub.simActive
  <2>1. Sound(app, sub)
    BY DEF Backing
  <2> QED BY <2>1, CheckStaleSound
<1>2. /\ Sound(app \/ (r.heard /\ ~t.heard), r) /\ Configured(t, r)
      /\ r.given \in Seq(Handed(t, f))
      /\ r.last = Final(r.given).asdu.cnt /\ r.deadline = StaleAfter
      /\ r.simActive <=> f.sim
      /\ r.lost = (t.lost + (r.last - From(Base(t, r), r.given) - Len(r.given))) % Wrap
  BY DEF InFrame
<1>3. sub' = [r EXCEPT !.given = <<>>] /\ app' = (app \/ (~sub.heard /\ r.heard)) /\ truth' = HandedOver(r)
  BY DEF Hears
<1>4. Backing'
  <2>1. app' = (app \/ (r.heard /\ ~t.heard)) /\ app' \in BOOLEAN
    BY <1>1, <1>3 DEF Backing
  <2>2. Sound(app', sub') /\ sub'.given = <<>> /\ Configured(r, sub')
    BY <1>2, <1>3, <2>1, GivenTaken
  <2>3. \E s \in Streams : Configured(s, sub')
    BY <1>1, <1>2, <2>2 DEF Backing, Configured
  <2> QED BY <2>1, <2>2, <2>3 DEF Backing
<1>5. /\ sub'.last = r.last /\ sub'.lost = r.lost /\ sub'.simActive = r.simActive /\ sub'.deadline = StaleAfter
  BY <1>2, <1>3, GivenTaken
<1>6. sub.simActive \in BOOLEAN /\ r.simActive \in BOOLEAN /\ sub.lost \in 0 .. Wrap - 1
  BY <1>0, <1>2 DEF Backing, Sound, IsStream
<1> DEFINE first == r.given[1]
           final == r.given[Len(r.given)]
           start == IF r.simActive # sub.simActive THEN [truth EXCEPT !.last = None] ELSE truth
           n == TrueNumber(final)
           known == ~first.sim /\ start.last # None
<1>7. first \in Handed(t, f) /\ final \in Handed(t, f) /\ Len(r.given) \in Nat
  <2>1. 1 \in 1 .. Len(r.given) /\ Len(r.given) \in 1 .. Len(r.given) /\ Len(r.given) \in Nat
    BY <1>2, EmptySeq
  <2> QED BY <1>2, <2>1, ElementOfSeq
<1>8. /\ TrueNumber(first) \in Nat /\ first.asdu.cnt \in Nat /\ first.sim = f.sim
      /\ first.asdu.cnt % Wrap = TrueNumber(first) % Wrap
      /\ ~first.sim => \E d \in 0 .. MaxDelay, i \in Positions : Age(TrueNumber(first)) = d * Asdus + Asdus - i
  BY <1>7, HandedIs
<1>9. /\ n \in Nat /\ final.asdu.cnt \in Nat /\ final.sim = f.sim
      /\ final.asdu.cnt % Wrap = n % Wrap
      /\ ~final.sim => \E d \in 0 .. MaxDelay, i \in Positions : Age(n) = d * Asdus + Asdus - i
  BY <1>7, HandedIs
<1>10. truth' = [last |-> n, sim |-> final.sim,
                 since |-> IF final.sim THEN 0 ELSE Age(n),
                 miscounted |-> known /\ Miscounts(n, Len(r.given), (r.lost - sub.lost) % Wrap),
                 hidden |-> known /\ Hides(TrueNumber(first), CheckStale(sub).stale)]
  BY <1>3 DEF HandedOver
<1>11. start.last # None => /\ start.last = truth.last /\ Base(t, r) = sub.last /\ truth.last # None
                            /\ r.simActive = sub.simActive /\ sub.last # None
  <2>1. CASE r.simActive # sub.simActive
    BY <2>1 DEF Links
  <2>2. CASE r.simActive = sub.simActive
    <3>1. start = truth
      BY <2>2
    <3>2. Base(t, r) = sub.last
      BY <1>1, <1>6, <2>2 DEF Base
    <3> HIDE DEF start
    <3> QED BY <2>2, <3>1, <3>2 DEF Links
  <2> QED BY <2>1, <2>2
<1>12. final.asdu.cnt = r.last
  BY <1>2 DEF Final
<1> HIDE DEF first, final, start, n, known
<1>13. ASSUME known PROVE truth.last # None /\ ~truth.sim
  <2>1. ~sub.simActive
    BY <1>2, <1>8, <1>11, <1>13 DEF known
  <2> QED BY <1>11, <1>13, <2>1 DEF Links, known
<1>14. ~truth'.miscounted
  <2> SUFFICES ASSUME known PROVE (r.lost - sub.lost) % Wrap = Hole(n, Len(r.given)) % Wrap
    BY <1>10 DEF Miscounts
  <2>1. PICK k \in Int : r.last = n + Wrap * k /\ Wrap * k \in Int
    <3>1. r.last \in Int /\ n \in Int /\ r.last % Wrap = n % Wrap
      BY <1>9, <1>12
    <3> QED BY <1>0, <3>1, Congruent
  <2>2. sub.last # None /\ From(Base(t, r), r.given) = sub.last
    BY <1>11 DEF known, From
  <2>3. PICK l \in Int : sub.last = truth.last + Wrap * l /\ Wrap * l \in Int
    <3>1. truth.last \in Int /\ sub.last % Wrap = truth.last % Wrap
      BY <1>13 DEF Links
    <3>2. sub.last \in Int
      BY <2>2 DEF Backing, Sound, IsStream
    <3> QED BY <1>0, <3>1, <3>2, Congruent
  <2>4. PICK c \in Int, m \in Int, g \in Int, o \in Int : c = truth.last /\ m = n /\ g = Len(r.given) /\ o = sub.lost
    <3>1. truth.last \in Int
      BY <1>13 DEF Links
    <3> QED BY <1>0, <1>6, <1>7, <1>9, <3>1
  <2>5. PICK x \in Int : x = (m - c) - g
    OBVIOUS
  <2>6. PICK y \in Int : y = x + Wrap * (k - l)
    BY <1>0
  <2>7. r.last - sub.last - Len(r.given) = y
    <3>1. PICK u \in Int, v \in Int : u = Wrap * k /\ v = Wrap * l
      BY <2>1, <2>3
    <3>2. Wrap * (k - l) = u - v
      BY <1>0, <3>1
    <3>3. r.last = m + u /\ sub.last = c + v
      BY <2>1, <2>3, <2>4, <3>1
    <3>4. (m + u) - (c + v) - g = ((m - c) - g) + (u - v)
      OBVIOUS
    <3> QED BY <2>4, <2>5, <2>6, <3>2, <3>3, <3>4
  <2>8. r.lost = (o + y) % Wrap
    BY <1>1, <1>2, <2>2, <2>4, <2>7
  <2>9. (r.lost - sub.lost) % Wrap = y % Wrap
    <3>1. (((o + y) % Wrap) - o) % Wrap = y % Wrap
      BY <1>0, Growth
    <3> QED BY <2>4, <2>8, <3>1
  <2>10. y % Wrap = x % Wrap
    <3>1. k - l \in Int
      OBVIOUS
    <3> QED BY <1>0, <2>6, <3>1, Shifted
  <2>11. Hole(m, g) % Wrap = ((m - c) - g) % Wrap
    BY <1>13, <2>4, HoleOf
  <2> QED BY <2>4, <2>5, <2>9, <2>10, <2>11
<1>15. ~truth'.hidden
  <2> SUFFICES ASSUME known PROVE ~Hides(TrueNumber(first), CheckStale(sub).stale)
    BY <1>10
  <2>1. PICK d \in 0 .. MaxDelay, i \in Positions : Age(TrueNumber(first)) = d * Asdus + Asdus - i
    BY <1>8 DEF known
  <2> QED BY <1>8, <1>13, <2>1, NothingHidden
<1>16. truth'.since \in 0 .. Period /\ truth'.since < (MaxDelay + 1 + StaleAfter - sub'.deadline) * Asdus
  <2>1. MaxDelay + 1 + StaleAfter - sub'.deadline = MaxDelay + 1
    BY <1>0, <1>5
  <2>2. (MaxDelay + 1) * Asdus = MaxDelay * Asdus + Asdus
    BY <1>0
  <2>3. 0 * Asdus <= MaxDelay * Asdus /\ 0 * Asdus = 0 /\ MaxDelay * Asdus \in Int
    BY <1>0, Times
  <2>4. CASE final.sim
    <3>1. truth'.since = 0
      BY <1>10, <2>4
    <3> QED BY <1>0, <2>1, <2>2, <2>3, <3>1
  <2>5. CASE ~final.sim
    <3>1. truth'.since = Age(n)
      BY <1>10, <2>5
    <3>2. PICK d \in 0 .. MaxDelay, i \in Positions : Age(n) = d * Asdus + Asdus - i
      BY <1>9, <2>5
    <3>3. d * Asdus <= MaxDelay * Asdus /\ d * Asdus \in Int
      BY <1>0, Times
    <3>4. i \in 1 .. Asdus
      BY <3>2 DEF Positions
    <3>5. Age(n) \in 0 .. Period - 1
      <4>1. PICK x \in Int : x = (unit.clock + Asdus - 1) - n
        BY <1>0, <1>9 DEF Machine
      <4> QED BY <1>0, <4>1, Remainder DEF Age
    <3>6. d * Asdus + Asdus - i < (MaxDelay + 1) * Asdus
      BY <1>0, <2>2, <2>3, <3>3, <3>4
    <3> QED BY <1>0, <2>1, <3>1, <3>2, <3>5, <3>6
  <2> QED BY <2>4, <2>5
<1>17. truth'.last # None /\ ~truth'.sim => (Age(truth.last))' % Wrap = truth'.since % Wrap
  BY <1>10 DEF Age
<1>18. n # None /\ r.last # None
  <2>1. \A x \in Nat : x # None
    BY <1>0
  <2> QED BY <1>9, <1>12, <2>1
<1>19. /\ truth' = [last |-> truth'.last, sim |-> truth'.sim, since |-> truth'.since,
                    miscounted |-> truth'.miscounted, hidden |-> truth'.hidden]
       /\ truth'.last = n /\ (truth'.sim <=> final.sim)
       /\ truth'.sim \in BOOLEAN /\ truth'.miscounted \in BOOLEAN /\ truth'.hidden \in BOOLEAN
  BY <1>9, <1>10 DEF IsFrame, known, Miscounts, Hides
<1>20. sub'.last % Wrap = truth'.last % Wrap /\ (truth'.sim <=> sub'.simActive)
  BY <1>2, <1>5, <1>9, <1>12, <1>19
<1>21. Links'
  <2>1. truth'.miscounted = FALSE /\ truth'.hidden = FALSE
    BY <1>14, <1>15, <1>19
  <2> QED BY <1>5, <1>9, <1>16, <1>17, <1>18, <1>19, <1>20, <2>1 DEF Links
<1> QED BY <1>4, <1>21

-----------------------------------------------------------------------------
(* The publisher                                                           *)

LEMMA LenOfRow ==
    ASSUME NEW n \in Nat, NEW g, g = [i \in 1 .. n |-> g[i]]
    PROVE  Len(g) = n
<1> DEFINE S == {g[i] : i \in 1 .. n}
<1>1. g \in [1 .. n -> S]
  <2>1. \A i \in 1 .. n : g[i] \in S
    OBVIOUS
  <2> HIDE DEF S
  <2> QED BY <2>1
<1>2. g \in Seq(S)
  BY <1>1, SeqDef
<1>3. Len(g) \in Nat /\ DOMAIN g = 1 .. Len(g) /\ DOMAIN g = 1 .. n
  BY <1>1, <1>2, LenProperties
<1>4. \A k \in Nat : k \in 1 .. Len(g) <=> k \in 1 .. n
  BY <1>3
<1>5. ~(Len(g) < n) /\ ~(n < Len(g))
  <2>1. n \in 1 .. n => n \in 1 .. Len(g)
    BY <1>4
  <2>2. Len(g) \in 1 .. Len(g) => Len(g) \in 1 .. n
    BY <1>3, <1>4
  <2> QED BY <1>3, <2>1, <2>2
<1> QED BY <1>3, <1>5

LEMMA BlockLen ==
    ASSUME NEW n
    PROVE  Len(BlockOf(n)) = SampleLen
<1>0. SampleLen \in Nat
  BY SvPublisherAssumption
<1> DEFINE blank == ZeroBlock(SampleLen)
           written == Write(BlockLayout, blank, 1, Measured(n))
<1>1. DOMAIN blank = 1 .. SampleLen /\ blank = [o \in 1 .. SampleLen |-> blank[o]]
  BY DEF ZeroBlock
<1> HIDE DEF blank
<1>2. written = [o \in 1 .. SampleLen |-> written[o]]
  BY <1>1, Zenon DEF Write
<1>3. Len(blank) = SampleLen
  BY <1>0, <1>1, LenOfRow
<1> HIDE DEF written
<1>4. Len(written) = SampleLen
  BY <1>0, <1>2, LenOfRow
<1>5. BlockOf(n) \in {blank, written}
  BY Zenon DEF BlockOf, blank, written
<1> QED BY <1>3, <1>4, <1>5

IsField(x) == x = [len |-> x.len, value |-> x.value]
IsAsdu(x) == x = [cnt |-> x.cnt, synch |-> x.synch, refr |-> x.refr, gm |-> x.gm, block |-> x.block]

\* One ASDU of the frame of publisher p, whose field of smpSynch was made for u.
Laid(p, u, x) ==
    /\ IsAsdu(x)
    /\ IsField(x.cnt) /\ x.cnt.len = FieldWidth(Wrap - 1, 2) /\ x.cnt.value \in 0 .. Wrap - 1
    /\ x.synch = Patched(NewField(u, 1), p.synch)
    /\ x.gm = p.gm

Framed(p) ==
    /\ p = [cnt |-> p.cnt, synch |-> p.synch, refr |-> p.refr, gm |-> p.gm, pending |-> p.pending, frame |-> p.frame]
    /\ p.cnt \in 0 .. Wrap - 1 /\ p.synch \in Synchs /\ p.pending \in BOOLEAN
    /\ DOMAIN p.frame = Positions
    /\ \E u \in Synchs : Wide(u, p.synch) /\ \A i \in Positions : Laid(p, u, p.frame[i])

\* The frame carries the samples of a tick that began when the clock stood at c.
Carries(p, c) ==
    /\ NumberOf(p.frame[1].block) \in 0 .. Period - 1
    /\ \A i \in Positions :
          LET n == NumberOf(p.frame[1].block) + i - 1
          IN  /\ p.frame[i].block = BlockOf(n)
              /\ ((c + Asdus - 1) - n) % Period = Asdus - i
              /\ p.frame[i].cnt.value = n % Wrap

Pubs ==
    /\ Framed(pub)
    /\ unit.up => unit.late \/ pub.cnt = (IF unit.due THEN unit.clock ELSE unit.clock + Asdus) % Wrap
    /\ ~unit.up => pub.cnt = 0 /\ ~unit.due /\ ~unit.late /\ ~pub.pending
    /\ pub.pending => ~unit.due /\ Carries(pub, unit.clock)

\* A field of the length that a count's field has takes every count.
LEMMA PatchedCount ==
    ASSUME Spelled, NEW x, IsField(x), x.len = FieldWidth(Wrap - 1, 2), NEW v \in 0 .. Wrap - 1, NEW y, y = Patched(x, v)
    PROVE  IsField(y) /\ y.len = x.len /\ y.value = v
<1>1. PICK z : z = v % Octet ^ x.len
  BY Zenon
<1>2. y = [x EXCEPT !.value = z]
  BY <1>1, Zenon DEF Patched
<1> DEFINE w == NewField(Wrap - 1, 2)
<1>3. w.len = x.len /\ w = [len |-> x.len, value |-> Wrap - 1]
  BY DEF NewField
<1> HIDE DEF w
<1>4. Patched(w, v) = [w EXCEPT !.value = z]
  BY <1>1, <1>3, Zenon DEF Patched
<1>5. Patched(w, v).value = v
  BY Zenon DEF Spelled, w
<1>6. z = v
  BY <1>3, <1>4, <1>5
<1> QED BY <1>2, <1>6 DEF IsField

LEMMA PatchedAgain ==
    ASSUME NEW u, NEW old, NEW new
    PROVE  /\ Patched(NewField(u, 1), new).len = FieldWidth(u, 1)
           /\ Patched(Patched(NewField(u, 1), old), new) = Patched(NewField(u, 1), new)
<1> DEFINE w == NewField(u, 1)
           x == Patched(w, old)
<1>1. w = [len |-> FieldWidth(u, 1), value |-> u]
  BY Zenon DEF NewField
<1>2. PICK y : y = old % Octet ^ w.len
  BY Zenon
<1>3. PICK z : z = new % Octet ^ w.len
  BY Zenon
<1>4. x = [w EXCEPT !.value = y]
  BY <1>2, Zenon DEF Patched
<1>5. Patched(w, new) = [w EXCEPT !.value = z]
  BY <1>3, Zenon DEF Patched
<1> HIDE DEF w, x
<1>6. x.len = w.len
  BY <1>1, <1>4
<1>7. Patched(x, new) = [x EXCEPT !.value = z]
  BY <1>3, <1>6, Zenon DEF Patched
<1>8. Patched(x, new) = Patched(w, new) /\ Patched(w, new).len = w.len
  BY <1>1, <1>4, <1>5, <1>7
<1>9. w.len = FieldWidth(u, 1)
  BY <1>1
<1> QED BY <1>8, <1>9 DEF w, x

\* The clock's state is what it was set to, and a new field spells it.
LEMMA SynchSpelled ==
    ASSUME Spelled, NEW u \in Synchs, NEW v \in Synchs
    PROVE  /\ Wide(u, v) => Patched(NewField(u, 1), v).value = v
           /\ Wide(v, v) /\ NewField(v, 1) = Patched(NewField(v, 1), v)
<1>1. Wide(u, v) => Patched(NewField(u, 1), v).value = v
  BY Zenon DEF Spelled
<1>2. Wide(v, v)
  BY Zenon DEF Wide
<1>3. Patched(NewField(v, 1), v).value = v
  BY <1>2, Zenon DEF Spelled
<1>4. NewField(v, 1) = [len |-> FieldWidth(v, 1), value |-> v]
  BY Zenon DEF NewField
<1>5. PICK z : z = v % Octet ^ NewField(v, 1).len
  BY Zenon
<1>6. Patched(NewField(v, 1), v) = [NewField(v, 1) EXCEPT !.value = z]
  BY <1>5, Zenon DEF Patched
<1>7. z = v
  BY <1>3, <1>4, <1>6
<1>8. NewField(v, 1) = Patched(NewField(v, 1), v)
  BY <1>4, <1>6, <1>7
<1> QED BY <1>1, <1>2, <1>8

LEMMA SeenIs ==
    ASSUME NEW a, NEW x, a = Seen(1, x)
    PROVE  a.ours = TRUE /\ a.block = x.block /\ a.cnt = x.cnt.value /\ a.synch = x.synch.value /\ a.gm = x.gm
<1>1. PICK o : o = TRUE
  OBVIOUS
<1>2. a = [ours |-> o, cnt |-> x.cnt.value, confRev |-> 1, synch |-> x.synch.value, refr |-> x.refr, gm |-> x.gm, block |-> x.block]
  BY <1>1, Zenon DEF Seen
<1>3. a.ours = o /\ a.block = x.block /\ a.cnt = x.cnt.value /\ a.synch = x.synch.value /\ a.gm = x.gm
  BY <1>2
<1> QED BY <1>1, <1>3

\* A frame that leaves carries its samples.
LEMMA FrameNumbers ==
    ASSUME Spelled, NEW p, Framed(p), NEW c \in Int, Carries(p, c)
    PROVE  Numbers(SvFrame(1, p.frame).asdus, c, 0)
<1> DEFINE asdus == SvFrame(1, p.frame).asdus
<1>0. Asdus \in Nat \ {0}
  BY LinkConstants
<1>1. DOMAIN p.frame = Positions
  BY DEF Framed
<1>2. asdus = [i \in Positions |-> Seen(1, p.frame[i])]
  BY <1>1 DEF SvFrame
<1>3. \A i \in Positions : asdus[i] = Seen(1, p.frame[i])
  BY <1>2
<1>4. Len(asdus) = Asdus /\ DOMAIN asdus = Positions
  <2>1. asdus = [i \in 1 .. Asdus |-> asdus[i]]
    BY <1>2 DEF Positions
  <2> HIDE DEF asdus
  <2> QED BY <1>0, <1>2, <2>1, LenOfRow
<1>5. PICK u \in Synchs : Wide(u, p.synch) /\ \A i \in Positions : Laid(p, u, p.frame[i])
  BY DEF Framed
<1>6. \A i \in Positions : p.frame[i].synch.value = p.synch /\ p.frame[i].gm = p.gm
  <2>1. Patched(NewField(u, 1), p.synch).value = p.synch
    BY <1>5, SynchSpelled DEF Framed
  <2> QED BY <1>5, <2>1 DEF Laid
<1> HIDE DEF asdus
<1>7. \A i \in Positions : /\ asdus[i].block = p.frame[i].block /\ asdus[i].cnt = p.frame[i].cnt.value
                           /\ asdus[i].synch = p.synch /\ asdus[i].gm = p.gm /\ asdus[i].ours = TRUE
  <2> TAKE i \in Positions
  <2>1. PICK a : a = asdus[i]
    OBVIOUS
  <2>2. a = Seen(1, p.frame[i])
    BY <1>3, <2>1
  <2>3. a.ours = TRUE /\ a.block = p.frame[i].block /\ a.cnt = p.frame[i].cnt.value
        /\ a.synch = p.frame[i].synch.value /\ a.gm = p.frame[i].gm
    BY <2>2, SeenIs
  <2> QED BY <1>6, <2>1, <2>3
<1>8. 1 \in Positions
  BY <1>0 DEF Positions
<1>9. \A i \in Positions : 0 * Asdus + Asdus - i = Asdus - i
  BY <1>0 DEF Positions
<1> QED BY <1>4, <1>7, <1>8, <1>9 DEF Numbers, Carries, asdus

\* What a frame carries is kept.
Kept(p, q) ==
    /\ q.cnt = p.cnt /\ q.pending = p.pending
    /\ \A i \in Positions : q.frame[i].block = p.frame[i].block /\ q.frame[i].cnt.value = p.frame[i].cnt.value

LEMMA KeptCarries ==
    ASSUME NEW p, NEW q, Kept(p, q), NEW c, Carries(p, c)
    PROVE  Carries(q, c)
<1>1. 1 \in Positions
  BY LinkConstants DEF Positions
<1> QED BY <1>1 DEF Kept, Carries

LEMMA SetRefrTmFramed ==
    ASSUME NEW p, Framed(p), NEW t, NEW q, q = SetRefrTm(p, t)
    PROVE  Framed(q) /\ Kept(p, q)
<1>1. PICK v : v = [i \in Positions |-> t + ((i - 1) * Unit) \div Rate]
  BY Zenon
<1> DEFINE g == [i \in Positions |-> [p.frame[i] EXCEPT !.refr = v[i]]]
<1>2. q = [p EXCEPT !.refr = t, !.frame = g]
  <2>1. \A i \in Positions : v[i] = t + ((i - 1) * Unit) \div Rate
    BY <1>1, Zenon
  <2>2. g = [i \in Positions |-> [p.frame[i] EXCEPT !.refr = t + ((i - 1) * Unit) \div Rate]]
    BY <2>1, Zenon
  <2> HIDE DEF g
  <2> QED BY <2>2, Zenon DEF SetRefrTm
<1>3. \A i \in Positions : g[i] = [p.frame[i] EXCEPT !.refr = v[i]]
  OBVIOUS
<1>4. DOMAIN g = Positions
  OBVIOUS
<1> HIDE DEF g
<1>5. /\ q = [cnt |-> q.cnt, synch |-> q.synch, refr |-> q.refr, gm |-> q.gm, pending |-> q.pending, frame |-> q.frame]
      /\ q.cnt = p.cnt /\ q.synch = p.synch /\ q.gm = p.gm /\ q.pending = p.pending /\ q.frame = g
  BY <1>2 DEF Framed
<1>6. PICK u \in Synchs : Wide(u, p.synch) /\ \A i \in Positions : Laid(p, u, p.frame[i])
  BY DEF Framed
<1>7. \A i \in Positions : /\ Laid(q, u, g[i]) /\ g[i].block = p.frame[i].block /\ g[i].cnt = p.frame[i].cnt
  BY <1>3, <1>5, <1>6 DEF Laid, IsAsdu
<1> QED BY <1>4, <1>5, <1>6, <1>7 DEF Framed, Kept

LEMMA SetGmIdentityFramed ==
    ASSUME NEW p, Framed(p), NEW gm, NEW q, q = SetGmIdentity(p, gm)
    PROVE  Framed(q) /\ Kept(p, q)
<1> DEFINE g == [i \in Positions |-> [p.frame[i] EXCEPT !.gm = gm]]
<1>1. q = [p EXCEPT !.gm = gm, !.frame = g]
  BY DEF SetGmIdentity
<1>2. DOMAIN g = Positions /\ \A i \in Positions : g[i] = [p.frame[i] EXCEPT !.gm = gm]
  OBVIOUS
<1> HIDE DEF g
<1>3. /\ q = [cnt |-> q.cnt, synch |-> q.synch, refr |-> q.refr, gm |-> q.gm, pending |-> q.pending, frame |-> q.frame]
      /\ q.cnt = p.cnt /\ q.synch = p.synch /\ q.gm = gm /\ q.pending = p.pending /\ q.frame = g
  BY <1>1 DEF Framed
<1>4. PICK u \in Synchs : Wide(u, p.synch) /\ \A i \in Positions : Laid(p, u, p.frame[i])
  BY DEF Framed
<1>5. ASSUME NEW i \in Positions
      PROVE  Laid(q, u, g[i]) /\ g[i].block = p.frame[i].block /\ g[i].cnt = p.frame[i].cnt
  <2>1. PICK x : x = p.frame[i]
    OBVIOUS
  <2>2. Laid(p, u, x) /\ g[i] = [x EXCEPT !.gm = gm]
    BY <1>2, <1>4, <2>1
  <2> QED BY <1>3, <2>1, <2>2 DEF Laid, IsAsdu
<1> QED BY <1>2, <1>3, <1>4, <1>5 DEF Framed, Kept

LEMMA SetSmpCntFramed ==
    ASSUME NEW p, Framed(p), NEW cnt \in Int, NEW q, q = SetSmpCnt(p, cnt)
    PROVE  Framed(q) /\ q.cnt = cnt % Wrap
<1>1. cnt % Wrap \in 0 .. Wrap - 1
  BY LinkConstants, Remainder
<1>2. q = [p EXCEPT !.cnt = cnt % Wrap]
  BY DEF SetSmpCnt
<1>3. /\ q = [cnt |-> q.cnt, synch |-> q.synch, refr |-> q.refr, gm |-> q.gm, pending |-> q.pending, frame |-> q.frame]
      /\ q.cnt = cnt % Wrap /\ q.synch = p.synch /\ q.gm = p.gm /\ q.pending = p.pending /\ q.frame = p.frame
  BY <1>2 DEF Framed
<1> QED BY <1>1, <1>3 DEF Framed, Laid

LEMMA SvCollectedFramed ==
    ASSUME NEW p, Framed(p), NEW q, q = SvCollected(p)
    PROVE  Framed(q) /\ ~q.pending /\ q.cnt = p.cnt
<1>1. PICK x : x = FALSE
  OBVIOUS
<1>2. q = [p EXCEPT !.pending = x]
  BY <1>1 DEF SvCollected
<1>3. /\ q = [cnt |-> q.cnt, synch |-> q.synch, refr |-> q.refr, gm |-> q.gm, pending |-> q.pending, frame |-> q.frame]
      /\ q.cnt = p.cnt /\ q.synch = p.synch /\ q.gm = p.gm /\ q.pending = x /\ q.frame = p.frame
  BY <1>2 DEF Framed
<1> QED BY <1>1, <1>3 DEF Framed, Laid

\* The template: every field as it is laid out.
LEMMA TemplateIs ==
    ASSUME NEW synch, NEW refr, NEW gm, NEW i \in Positions, NEW x, x = Template(synch, refr, gm)[i]
    PROVE  /\ IsAsdu(x) /\ x.cnt = NewField(Wrap - 1, 2) /\ x.synch = NewField(synch, 1) /\ x.gm = gm
           /\ IsField(x.cnt) /\ x.cnt.len = FieldWidth(Wrap - 1, 2)
<1>1. PICK c, y, z : c = NewField(Wrap - 1, 2) /\ y = NewField(synch, 1) /\ z = ZeroBlock(SampleLen)
  OBVIOUS
<1>2. x = [cnt |-> c, synch |-> y, refr |-> refr, gm |-> gm, block |-> z]
  BY <1>1 DEF Template
<1>3. IsField(c) /\ c.len = FieldWidth(Wrap - 1, 2)
  BY <1>1 DEF NewField, IsField
<1> QED BY <1>1, <1>2, <1>3 DEF IsAsdu

LEMMA NewSvPublisherFramed ==
    ASSUME Spelled, NEW p, p = NewSvPublisher
    PROVE  Framed(p) /\ p.cnt = 0 /\ ~p.pending
<1>0. Wrap \in Nat \ {0} /\ Asdus \in Nat \ {0} /\ 0 \in Synchs
  BY LinkConstants DEF Synchs
<1>1. PICK no : no = FALSE
  OBVIOUS
<1> DEFINE g == [i \in Positions |-> [Template(0, 0, 0)[i] EXCEPT !.cnt = Patched(@, (i - 1) % Wrap)]]
<1>2. p = [cnt |-> 0, synch |-> 0, refr |-> 0, gm |-> 0, pending |-> no, frame |-> g]
  BY <1>1, Zenon DEF NewSvPublisher
<1>3. DOMAIN g = Positions
  BY Zenon
<1>4. ASSUME NEW i \in Positions PROVE Laid(p, 0, g[i])
  <2>1. PICK x : x = Template(0, 0, 0)[i]
    OBVIOUS
  <2>2. PICK n : n = (i - 1) % Wrap
    OBVIOUS
  <2>3. n \in 0 .. Wrap - 1
    <3>1. i - 1 \in Int
      BY <1>0 DEF Positions
    <3> QED BY <1>0, <2>2, <3>1, Remainder
  <2>4. PICK y : y = Patched(x.cnt, n)
    OBVIOUS
  <2>5. /\ IsAsdu(x) /\ x.synch = NewField(0, 1) /\ x.gm = 0
        /\ IsField(x.cnt) /\ x.cnt.len = FieldWidth(Wrap - 1, 2)
    BY <2>1, TemplateIs
  <2>6. IsField(y) /\ y.len = x.cnt.len /\ y.value = n
    BY <2>3, <2>4, <2>5, PatchedCount
  <2>7. g[i] = [x EXCEPT !.cnt = y]
    BY <2>1, <2>2, <2>4, Zenon
  <2> HIDE DEF g
  <2>8. x.synch = Patched(NewField(0, 1), 0)
    BY <1>0, <2>5, SynchSpelled
  <2>9. p.synch = 0 /\ p.gm = 0
    BY <1>2
  <2> QED BY <2>3, <2>5, <2>6, <2>7, <2>8, <2>9 DEF Laid, IsAsdu
<1>5. Wide(0, 0)
  BY <1>0, SynchSpelled
<1> HIDE DEF g
<1>6. /\ p = [cnt |-> p.cnt, synch |-> p.synch, refr |-> p.refr, gm |-> p.gm, pending |-> p.pending, frame |-> p.frame]
      /\ p.cnt = 0 /\ p.synch = 0 /\ p.pending = no /\ p.frame = g
  BY <1>2
<1>7. \E u \in Synchs : Wide(u, p.synch) /\ \A i \in Positions : Laid(p, u, p.frame[i])
  BY <1>0, <1>4, <1>5, <1>6
<1>8. p.pending \in BOOLEAN /\ ~p.pending /\ p.cnt \in 0 .. Wrap - 1 /\ p.synch \in Synchs
  <2>1. p.pending \in BOOLEAN /\ ~p.pending
    <3>1. p.pending = no
      BY <1>6
    <3> QED BY <1>1, <3>1
  <2>2. 0 \in 0 .. Wrap - 1
    BY <1>0
  <2>3. p.cnt = 0 /\ p.synch = 0
    BY <1>6
  <2> QED BY <1>0, <2>1, <2>2, <2>3
<1> QED BY <1>3, <1>6, <1>7, <1>8 DEF Framed

\* A frame that is built again carries what it did.
LEMMA RebuiltFramed ==
    ASSUME Spelled, NEW p, Framed(p), NEW synch \in Synchs, NEW q, q = Rebuilt([p EXCEPT !.synch = synch])
    PROVE  Framed(q) /\ Kept(p, q)
<1>0. Wrap \in Nat \ {0} /\ Asdus \in Nat \ {0}
  BY LinkConstants
<1>1. PICK o : o = [p EXCEPT !.synch = synch]
  OBVIOUS
<1>2. /\ o = [cnt |-> o.cnt, synch |-> o.synch, refr |-> o.refr, gm |-> o.gm, pending |-> o.pending, frame |-> o.frame]
      /\ o.cnt = p.cnt /\ o.synch = synch /\ o.gm = p.gm /\ o.pending = p.pending /\ o.frame = p.frame
  BY <1>1 DEF Framed
<1> DEFINE g == [i \in Positions |->
                    [Template(o.synch, o.refr, o.gm)[i] EXCEPT !.cnt = Patched(@, o.frame[i].cnt.value), !.block = o.frame[i].block]]
<1>3. q = [o EXCEPT !.frame = g]
  <2>1. Rebuilt(o) = [o EXCEPT !.frame = g]
    BY DEF Rebuilt
  <2> HIDE DEF g
  <2> QED BY <1>1, <2>1
<1>4. DOMAIN g = Positions
  BY Zenon
<1>5. PICK u \in Synchs : Wide(u, p.synch) /\ \A i \in Positions : Laid(p, u, p.frame[i])
  BY DEF Framed
<1>6. q.synch = synch /\ q.gm = p.gm /\ q.cnt = p.cnt /\ q.pending = p.pending /\ q.frame = g
      /\ q = [cnt |-> q.cnt, synch |-> q.synch, refr |-> q.refr, gm |-> q.gm, pending |-> q.pending, frame |-> q.frame]
  <2> HIDE DEF g
  <2> QED BY <1>2, <1>3
<1>7. ASSUME NEW i \in Positions
      PROVE  Laid(q, synch, g[i]) /\ g[i].block = p.frame[i].block /\ g[i].cnt.value = p.frame[i].cnt.value
  <2>1. PICK x : x = Template(o.synch, o.refr, o.gm)[i]
    OBVIOUS
  <2>2. PICK n, z : n = o.frame[i].cnt.value /\ z = o.frame[i].block
    OBVIOUS
  <2>3. n \in 0 .. Wrap - 1 /\ n = p.frame[i].cnt.value /\ z = p.frame[i].block
    BY <1>2, <1>5, <2>2 DEF Laid
  <2>4. PICK y : y = Patched(x.cnt, n)
    OBVIOUS
  <2>5. /\ IsAsdu(x) /\ x.synch = NewField(synch, 1) /\ x.gm = p.gm
        /\ IsField(x.cnt) /\ x.cnt.len = FieldWidth(Wrap - 1, 2)
    BY <1>2, <2>1, TemplateIs
  <2>6. IsField(y) /\ y.len = x.cnt.len /\ y.value = n
    BY <2>3, <2>4, <2>5, PatchedCount
  <2>7. g[i] = [x EXCEPT !.cnt = y, !.block = z]
    BY <2>1, <2>2, <2>4, Zenon
  <2> HIDE DEF g
  <2>8. x.synch = Patched(NewField(synch, 1), synch)
    BY <2>5, SynchSpelled
  <2>9. g[i] = [cnt |-> y, synch |-> x.synch, refr |-> x.refr, gm |-> x.gm, block |-> z]
    BY <2>5, <2>7 DEF IsAsdu
  <2> QED BY <1>6, <2>3, <2>5, <2>6, <2>8, <2>9 DEF Laid, IsAsdu
<1>8. Wide(synch, synch)
  BY SynchSpelled
<1> HIDE DEF g
<1>9. p.cnt \in 0 .. Wrap - 1 /\ p.pending \in BOOLEAN
  BY DEF Framed
<1> QED BY <1>4, <1>6, <1>7, <1>8, <1>9 DEF Framed, Kept

LEMMA SetSmpSynchFramed ==
    ASSUME Spelled, NEW p, Framed(p), NEW synch \in Synchs, NEW q, q = SetSmpSynch(p, synch)
    PROVE  Framed(q) /\ Kept(p, q)
<1>1. PICK u \in Synchs : Wide(u, p.synch) /\ \A i \in Positions : Laid(p, u, p.frame[i])
  BY DEF Framed
<1>2. CASE ~(\A i \in Positions : p.frame[i].synch.len >= FieldWidth(synch, 1))
  <2>1. q = Rebuilt([p EXCEPT !.synch = synch])
    BY <1>2, Zenon DEF SetSmpSynch
  <2> QED BY <2>1, RebuiltFramed
<1>3. CASE \A i \in Positions : p.frame[i].synch.len >= FieldWidth(synch, 1)
  <2>0. 1 \in Positions
    BY LinkConstants DEF Positions
  <2> DEFINE o == [p EXCEPT !.synch = synch]
  <2>2. /\ o = [cnt |-> o.cnt, synch |-> o.synch, refr |-> o.refr, gm |-> o.gm, pending |-> o.pending, frame |-> o.frame]
        /\ o.cnt = p.cnt /\ o.synch = synch /\ o.gm = p.gm /\ o.pending = p.pending /\ o.frame = p.frame
    BY DEF Framed
  <2> DEFINE g == [i \in Positions |-> [p.frame[i] EXCEPT !.synch = Patched(@, synch)]]
  <2>3. q = [o EXCEPT !.frame = g]
    BY <1>3 DEF SetSmpSynch
  <2> HIDE DEF o
  <2>4. DOMAIN g = Positions
    BY Zenon
  <2>5. q.synch = synch /\ q.gm = p.gm /\ q.cnt = p.cnt /\ q.pending = p.pending /\ q.frame = g
        /\ q = [cnt |-> q.cnt, synch |-> q.synch, refr |-> q.refr, gm |-> q.gm, pending |-> q.pending, frame |-> q.frame]
    <3> HIDE DEF g
    <3> QED BY <2>2, <2>3
  <2>6. ASSUME NEW i \in Positions
        PROVE  Laid(q, u, g[i]) /\ g[i].block = p.frame[i].block /\ g[i].cnt = p.frame[i].cnt
    <3>1. PICK x : x = p.frame[i]
      OBVIOUS
    <3>2. Laid(p, u, x)
      BY <1>1, <3>1
    <3>3. PICK y : y = Patched(x.synch, synch)
      OBVIOUS
    <3>4. g[i] = [x EXCEPT !.synch = y]
      BY <2>2, <3>1, <3>3, Zenon
    <3> HIDE DEF g
    <3>5. y = Patched(NewField(u, 1), synch)
      BY <3>2, <3>3, PatchedAgain DEF Laid
    <3> QED BY <2>5, <3>1, <3>2, <3>4, <3>5 DEF Laid, IsAsdu
  <2> HIDE DEF g
  <2>7. Wide(u, synch)
    <3>1. p.frame[1].synch.len = FieldWidth(u, 1)
      BY <1>1, <2>0, PatchedAgain DEF Laid
    <3> QED BY <1>3, <2>0, <3>1 DEF Wide
  <2>8. p.cnt \in 0 .. Wrap - 1 /\ p.pending \in BOOLEAN
    BY DEF Framed
  <2> QED BY <2>4, <2>5, <2>6, <2>7, <2>8 DEF Framed, Kept
<1> QED BY <1>2, <1>3

\* A period holds whole frames.
LEMMA AsdusFit == Asdus <= Period
<1>0. Asdus \in Nat \ {0} /\ Period \in Nat \ {0} /\ Period % Asdus = 0
  BY LinkConstants
<1>1. CASE Period \in 0 .. Asdus - 1
  BY <1>0, <1>1, SmallRemainder
<1> QED BY <1>0, <1>1

\* publish: the counts go on from the clock's, and what the blocks measure is
\* the time.
LEMMA SvPublishFramed ==
    ASSUME Spelled, NEW p, Framed(p), NEW c \in 0 .. Period - 1, p.cnt = c % Wrap,
           NEW blocks, blocks = [i \in Positions |-> BlockOf(c + i - 1)], NEW q, q = SvPublish(p, blocks)
    PROVE  Framed(q) /\ q.pending /\ q.cnt = (c + Asdus) % Wrap /\ Carries(q, c)
<1>0. Wrap \in Nat \ {0} /\ Asdus \in Nat \ {0} /\ Period \in Nat \ {0} /\ c \in Int /\ Period > Wrap
  BY LinkConstants
<1>1. DOMAIN blocks = Positions /\ \A i \in Positions : blocks[i] = BlockOf(c + i - 1)
  OBVIOUS
<1>2. MayPublish(blocks)
  <2>1. blocks = [i \in 1 .. Asdus |-> blocks[i]]
    BY DEF Positions
  <2>2. Len(blocks) = Asdus
    BY <1>0, <2>1, LenOfRow
  <2>3. \A i \in Positions : Len(blocks[i]) = SampleLen
    BY <1>1, BlockLen
  <2> QED BY <1>1, <2>2, <2>3 DEF MayPublish
<1>3. \A k \in Int : ((p.cnt + k) % Wrap) = (c + k) % Wrap /\ (c + k) % Wrap \in 0 .. Wrap - 1
  <2> TAKE k \in Int
  <2>1. ((c % Wrap) + k) % Wrap = (c + k) % Wrap
    BY <1>0, RemainderSum
  <2>2. c + k \in Int
    BY <1>0
  <2>3. (c + k) % Wrap \in 0 .. Wrap - 1
    BY <1>0, <2>2, Remainder
  <2> QED BY <2>1, <2>3
<1>4. PICK yes : yes = TRUE
  OBVIOUS
<1> DEFINE g == [i \in Positions |-> [p.frame[i] EXCEPT !.cnt = Patched(@, CountOf(p, i)), !.block = blocks[i]]]
<1>5. q = [p EXCEPT !.frame = g, !.cnt = CountOf(p, Asdus + 1), !.pending = yes]
  BY <1>2, <1>4, Zenon DEF SvPublish
<1>6. DOMAIN g = Positions
  BY Zenon
<1>7. CountOf(p, Asdus + 1) = (c + Asdus) % Wrap
  <2>1. CountOf(p, Asdus + 1) = (p.cnt + ((Asdus + 1) - 1)) % Wrap
    BY DEF CountOf
  <2>2. (Asdus + 1) - 1 = Asdus /\ Asdus \in Int
    BY <1>0
  <2> QED BY <1>3, <2>1, <2>2
<1>8. PICK u \in Synchs : Wide(u, p.synch) /\ \A i \in Positions : Laid(p, u, p.frame[i])
  BY DEF Framed
<1>9. /\ q = [cnt |-> q.cnt, synch |-> q.synch, refr |-> q.refr, gm |-> q.gm, pending |-> q.pending, frame |-> q.frame]
      /\ q.cnt = (c + Asdus) % Wrap /\ q.synch = p.synch /\ q.gm = p.gm /\ q.pending = yes /\ q.frame = g
  <2> HIDE DEF g
  <2> QED BY <1>5, <1>7 DEF Framed
<1>10. ASSUME NEW i \in Positions
       PROVE  Laid(q, u, g[i]) /\ g[i].block = BlockOf(c + i - 1) /\ g[i].cnt.value = (c + i - 1) % Wrap
  <2>1. PICK x : x = p.frame[i]
    OBVIOUS
  <2>2. Laid(p, u, x)
    BY <1>8, <2>1
  <2>3. PICK y, z : y = Patched(x.cnt, CountOf(p, i)) /\ z = blocks[i]
    OBVIOUS
  <2>4. g[i] = [x EXCEPT !.cnt = y, !.block = z]
    BY <2>1, <2>3, Zenon
  <2> HIDE DEF g
  <2>5. CountOf(p, i) = (c + (i - 1)) % Wrap /\ CountOf(p, i) \in 0 .. Wrap - 1
    <3>1. PICK k \in Int : k = i - 1
      BY <1>0 DEF Positions
    <3>2. CountOf(p, i) = (p.cnt + k) % Wrap
      BY <3>1 DEF CountOf
    <3> QED BY <1>3, <3>1, <3>2
  <2>6. IsField(y) /\ y.len = x.cnt.len /\ y.value = CountOf(p, i)
    BY <2>2, <2>3, <2>5, PatchedCount DEF Laid
  <2>7. g[i].cnt = y /\ g[i].block = z
    BY <2>2, <2>4 DEF Laid, IsAsdu
  <2> QED BY <1>1, <1>9, <2>2, <2>3, <2>4, <2>5, <2>6, <2>7 DEF Laid, IsAsdu
<1> HIDE DEF g
<1>11. Framed(q)
  <2>1. q.cnt \in 0 .. Wrap - 1
    BY <1>0, <1>3, <1>9
  <2>2. q.pending \in BOOLEAN
    <3>1. q.pending = yes
      BY <1>9
    <3> QED BY <1>4, <3>1
  <2>3. p.synch \in Synchs
    BY DEF Framed
  <2> QED BY <1>6, <1>8, <1>9, <1>10, <2>1, <2>2, <2>3 DEF Framed
<1>12. Carries(q, c)
  <2>1. 1 \in Positions /\ c + 1 - 1 = c
    BY <1>0 DEF Positions
  <2>2. NumberOf(g[1].block) = c
    <3>1. g[1].block = BlockOf(c)
      BY <1>10, <2>1
    <3> QED BY <3>1 DEF Spelled
  <2>3. ASSUME NEW i \in Positions PROVE ((c + Asdus - 1) - (c + i - 1)) % Period = Asdus - i
    <3>1. i \in 1 .. Asdus
      BY DEF Positions
    <3>2. (c + Asdus - 1) - (c + i - 1) = Asdus - i
      BY <1>0, <3>1
    <3>3. Asdus - i \in 0 .. Period - 1
      <4>1. Asdus <= Period
        BY <1>0, AsdusFit
      <4> QED BY <1>0, <3>1, <4>1
    <3>4. (Asdus - i) % Period = Asdus - i
      BY <1>0, <3>3, SmallRemainder
    <3> QED BY <3>2, <3>4
  <2> QED BY <1>9, <1>10, <2>2, <2>3 DEF Carries
<1>13. q.pending
  <2>1. q.pending = yes
    BY <1>9
  <2> QED BY <1>4, <2>1
<1> QED BY <1>9, <1>11, <1>12, <1>13

-----------------------------------------------------------------------------
(* The steps                                                               *)

\* The merging unit and the network; and with them, the subscriber.
Sent == Machine /\ Pubs /\ Nets
Invariant == Sent /\ Backing /\ Links

LEMMA SameSide ==
    ASSUME Backing, Links, UNCHANGED <<sub, app, truth>>, unit'.clock = unit.clock
    PROVE  Backing' /\ Links'
<1>1. (Age(truth.last))' = Age(truth.last)
  <2>1. truth' = truth /\ unit'.clock = unit.clock
    OBVIOUS
  <2>2. (Age(truth.last))' = ((unit'.clock + Asdus - 1) - truth'.last) % Period
    BY DEF Age
  <2> QED BY <2>1, <2>2, Zenon DEF Age
<1>2. sub' = sub /\ app' = app /\ truth' = truth
  OBVIOUS
<1>3. Backing'
  BY <1>2 DEF Backing
<1>4. Links'
  BY <1>1, <1>2 DEF Links
<1> QED BY <1>3, <1>4

LEMMA SameNet ==
    ASSUME Nets, net' \subseteq net, unit'.clock = unit.clock
    PROVE  Nets'
BY DEF Nets, Delay

LEMMA PublishSent ==
    ASSUME Spelled, Sent, PublishSamples
    PROVE  Sent' /\ unit'.clock = unit.clock /\ UNCHANGED <<sub, app, truth>>
<1>0. /\ unit.clock \in 0 .. Period - 1 /\ unit.up /\ unit.due /\ unit.clock \in Int
      /\ Period \in Nat \ {0} /\ Asdus \in Nat \ {0} /\ Wrap \in Nat \ {0}
  BY LinkConstants DEF Sent, Machine, PublishSamples
<1>1. PICK p : p = IF unit.late THEN SetSmpCnt(pub, unit.clock) ELSE pub
  OBVIOUS
<1>2. Framed(p) /\ p.cnt = unit.clock % Wrap
  <2>1. CASE unit.late
    BY <1>0, <1>1, <2>1, SetSmpCntFramed DEF Sent, Pubs
  <2>2. CASE ~unit.late
    BY <1>0, <1>1, <2>2 DEF Sent, Pubs
  <2> QED BY <2>1, <2>2
<1>3. PICK q : q = SetRefrTm(p, unit.clock)
  OBVIOUS
<1>4. Framed(q) /\ q.cnt = unit.clock % Wrap
  BY <1>2, <1>3, SetRefrTmFramed DEF Kept
<1>5. PICK blocks : blocks = [i \in Positions |-> BlockOf(unit.clock + i - 1)]
  OBVIOUS
<1>6. pub' = SvPublish(q, blocks)
  BY <1>1, <1>3, <1>5, Zenon DEF PublishSamples
<1>7. Framed(pub') /\ pub'.pending /\ pub'.cnt = (unit.clock + Asdus) % Wrap /\ Carries(pub', unit.clock)
  <2>1. PICK c \in 0 .. Period - 1 : c = unit.clock
    BY <1>0
  <2>2. PICK r : r = SvPublish(q, blocks)
    OBVIOUS
  <2>3. blocks = [i \in Positions |-> BlockOf(c + i - 1)]
    BY <1>5, <2>1, Zenon
  <2>4. q.cnt = c % Wrap
    BY <1>4, <2>1
  <2>5. Framed(r) /\ r.pending /\ r.cnt = (c + Asdus) % Wrap /\ Carries(r, c)
    BY <1>4, <2>2, <2>3, <2>4, SvPublishFramed
  <2> QED BY <1>6, <2>1, <2>2, <2>5
<1>8. PICK no : no = FALSE
  OBVIOUS
<1>9. unit' = [unit EXCEPT !.due = no, !.late = no]
  BY <1>8 DEF PublishSamples
<1>10. Machine' /\ unit'.clock = unit.clock /\ unit'.due = no /\ unit'.late = no /\ unit'.up = unit.up
  <2>1. no \in BOOLEAN
    BY <1>8
  <2> QED BY <1>9, <2>1 DEF Sent, Machine
<1>11. ~unit'.due /\ ~unit'.late /\ unit'.up
  BY <1>0, <1>8, <1>10
<1>12. Pubs'
  BY <1>7, <1>10, <1>11 DEF Pubs
<1>13. Nets' /\ UNCHANGED <<sub, app, truth>>
  <2>1. net' = net /\ UNCHANGED <<sub, app, truth>>
    BY DEF PublishSamples
  <2> QED BY <1>10, <2>1, SameNet DEF Sent
<1> QED BY <1>10, <1>12, <1>13 DEF Sent

LEMMA MissSent ==
    ASSUME Sent, Miss
    PROVE  Sent' /\ unit'.clock = unit.clock /\ UNCHANGED <<sub, app, truth>>
<1>1. PICK no, yes : no = FALSE /\ yes = TRUE
  OBVIOUS
<1>2. unit' = [unit EXCEPT !.due = no, !.late = yes] /\ unit.up /\ unit.due
  BY <1>1 DEF Miss
<1>3. Machine' /\ unit'.clock = unit.clock /\ unit'.due = no /\ unit'.late = yes /\ unit'.up = unit.up
  <2>1. no \in BOOLEAN /\ yes \in BOOLEAN
    BY <1>1
  <2> QED BY <1>2, <2>1 DEF Sent, Machine
<1>4. ~unit'.due /\ unit'.late /\ unit'.up
  BY <1>1, <1>2, <1>3
<1>5. pub' = pub /\ net' = net /\ UNCHANGED <<sub, app, truth>>
  BY DEF Miss
<1>6. ~pub.pending
  BY <1>2 DEF Sent, Pubs
<1>7. Pubs'
  BY <1>4, <1>5, <1>6 DEF Sent, Pubs
<1> QED BY <1>3, <1>5, <1>7, SameNet DEF Sent

LEMMA ClockMovesSent ==
    ASSUME Spelled, Sent, ClockMoves
    PROVE  Sent' /\ unit'.clock = unit.clock /\ UNCHANGED <<sub, app, truth>>
<1>1. PICK c \in Clocks : pub' = SetGmIdentity(SetSmpSynch(pub, c.synch), c.gm)
  BY DEF ClockMoves
<1>2. c.synch \in Synchs
  BY DEF Synchs
<1>3. PICK p : p = SetSmpSynch(pub, c.synch)
  OBVIOUS
<1>4. Framed(p) /\ Kept(pub, p)
  BY <1>2, <1>3, SetSmpSynchFramed DEF Sent, Pubs
<1>5. Framed(pub') /\ Kept(p, pub')
  BY <1>1, <1>3, <1>4, SetGmIdentityFramed
<1>6. UNCHANGED <<unit, net, sub, app, truth>>
  BY DEF ClockMoves
<1>7. Pubs'
  <2>1. Carries(pub, unit.clock) => Carries(p, unit.clock)
    BY <1>4, KeptCarries
  <2>2. Carries(p, unit.clock) => Carries(pub', unit.clock)
    BY <1>5, KeptCarries
  <2>3. pub'.cnt = pub.cnt /\ pub'.pending = pub.pending
    BY <1>4, <1>5 DEF Kept
  <2> QED BY <1>5, <1>6, <2>1, <2>2, <2>3 DEF Sent, Pubs
<1>8. Machine'
  BY <1>6 DEF Sent, Machine
<1> QED BY <1>6, <1>7, <1>8, SameNet DEF Sent

LEMMA SvFrameIs ==
    ASSUME NEW asdus, NEW f, f = SvFrame(1, asdus)
    PROVE  f.addressed = TRUE /\ f.decodes = TRUE /\ f.sim = FALSE
<1>1. PICK no, yes : no = FALSE /\ yes = TRUE
  OBVIOUS
<1>2. PICK g : g = [i \in DOMAIN asdus |-> Seen(1, asdus[i])]
  OBVIOUS
<1>3. f = [addressed |-> yes, decodes |-> yes, sim |-> no, asdus |-> g]
  BY <1>1, <1>2, Zenon DEF SvFrame
<1>4. f.addressed = yes /\ f.decodes = yes /\ f.sim = no
  BY <1>3
<1> QED BY <1>1, <1>4

LEMMA SendSent ==
    ASSUME Spelled, Sent, Send
    PROVE  Sent' /\ unit'.clock = unit.clock /\ UNCHANGED <<sub, app, truth>>
<1>0. /\ unit.clock \in Int /\ MaxDelay \in Nat
  BY LinkConstants DEF Sent, Machine
<1>1. unit' = unit /\ UNCHANGED <<sub, app, truth>> /\ pub' = SvCollected(pub) /\ pub.pending /\ unit.up
  BY DEF Send
<1>2. PICK e : e = [frame |-> SvFrame(1, pub.frame), ttl |-> MaxDelay]
  OBVIOUS
<1>3. net' = net \cup {e}
  BY <1>2 DEF Send
<1>4. e.frame = SvFrame(1, pub.frame) /\ e.ttl = MaxDelay /\ e = [frame |-> e.frame, ttl |-> e.ttl]
  BY <1>2
<1>5. e.frame.addressed = TRUE /\ e.frame.decodes = TRUE /\ e.frame.sim = FALSE
  BY <1>4, SvFrameIs
<1>6. Numbers(e.frame.asdus, unit.clock, 0)
  BY <1>0, <1>1, <1>4, FrameNumbers DEF Sent, Pubs
<1>7. Delay(e) = 0
  BY <1>0, <1>4 DEF Delay
<1>8. Nets'
  BY <1>0, <1>1, <1>3, <1>4, <1>5, <1>6, <1>7 DEF Sent, Nets, Delay
<1>9. Pubs'
  <2>1. Framed(pub') /\ ~pub'.pending /\ pub'.cnt = pub.cnt
    BY <1>1, SvCollectedFramed DEF Sent, Pubs
  <2> QED BY <1>1, <2>1 DEF Sent, Pubs
<1>10. Machine'
  BY <1>1 DEF Sent, Machine
<1> QED BY <1>1, <1>8, <1>9, <1>10 DEF Sent

LEMMA CrashSent ==
    ASSUME Spelled, Sent, Crash
    PROVE  Sent' /\ unit'.clock = unit.clock /\ UNCHANGED <<sub, app, truth>>
<1>1. PICK no : no = FALSE
  OBVIOUS
<1>2. unit' = [unit EXCEPT !.up = no, !.due = no, !.late = no]
  BY <1>1 DEF Crash
<1>3. Machine' /\ unit'.clock = unit.clock /\ unit'.due = no /\ unit'.late = no /\ unit'.up = no
  <2>1. no \in BOOLEAN
    BY <1>1
  <2> QED BY <1>2, <2>1 DEF Sent, Machine
<1>4. ~unit'.due /\ ~unit'.late /\ ~unit'.up
  BY <1>1, <1>3
<1>5. pub' = NewSvPublisher /\ net' = net /\ UNCHANGED <<sub, app, truth>>
  BY DEF Crash
<1>6. Pubs'
  BY <1>4, <1>5, NewSvPublisherFramed DEF Pubs
<1> QED BY <1>3, <1>5, <1>6, SameNet DEF Sent

LEMMA RestartSent ==
    ASSUME Sent, Restart
    PROVE  Sent' /\ unit'.clock = unit.clock /\ UNCHANGED <<sub, app, truth>>
<1>1. PICK yes : yes = TRUE
  OBVIOUS
<1>2. unit' = [unit EXCEPT !.up = yes, !.due = yes] /\ ~unit.up /\ unit.clock % Wrap = 0
  BY <1>1 DEF Restart
<1>3. Machine' /\ unit'.clock = unit.clock /\ unit'.due = yes /\ unit'.late = unit.late /\ unit'.up = yes
  <2>1. yes \in BOOLEAN
    BY <1>1
  <2> QED BY <1>2, <2>1 DEF Sent, Machine
<1>4. unit'.due /\ unit'.up
  BY <1>1, <1>3
<1>5. pub' = pub /\ net' = net /\ UNCHANGED <<sub, app, truth>>
  BY DEF Restart
<1>6. Pubs'
  BY <1>2, <1>3, <1>4, <1>5 DEF Sent, Pubs
<1> QED BY <1>3, <1>5, <1>6, SameNet DEF Sent

LEMMA LoseSent ==
    ASSUME Sent, NEW e \in net, Lose(e)
    PROVE  Sent' /\ unit'.clock = unit.clock /\ UNCHANGED <<sub, app, truth>>
<1>1. unit' = unit /\ pub' = pub /\ net' \subseteq net /\ UNCHANGED <<sub, app, truth>>
  BY DEF Lose
<1>2. Machine' /\ Pubs'
  BY <1>1 DEF Sent, Machine, Pubs
<1> QED BY <1>1, <1>2, SameNet DEF Sent

LEMMA HearsStep ==
    ASSUME SameStream, Timely, Spelled, Invariant, NEW t, t = CheckStale(sub), NEW f, IsFrame(f),
           NEW r, InFrame(app, t, f, r), r.given # <<>> => Known(f), Hears(r), UNCHANGED <<unit, pub, net>>
    PROVE  Invariant'
<1>1. Machine' /\ Pubs' /\ Nets'
  BY SameNet DEF Invariant, Sent, Machine, Pubs
<1>2. Backing' /\ Links'
  <2>1. CASE r.given = <<>>
    BY <2>1, HearsNothing DEF Invariant, Sent
  <2>2. CASE r.given # <<>>
    BY <2>2, HearsSamples DEF Invariant, Sent
  <2> QED BY <2>1, <2>2
<1> QED BY <1>1, <1>2 DEF Invariant, Sent

LEMMA DeliverStep ==
    ASSUME SameStream, Timely, Spelled, Invariant, NEW e \in net, Deliver(e)
    PROVE  Invariant'
<1> DEFINE f == e.frame
<1>0. Period \in Nat \ {0} /\ Wrap \in Nat \ {0} /\ Asdus \in Nat \ {0} /\ MaxDelay \in Nat
  BY LinkConstants
<1>1. /\ f.addressed = TRUE /\ f.decodes = TRUE /\ f.sim = FALSE
      /\ Numbers(f.asdus, unit.clock, Delay(e)) /\ e.ttl \in 0 .. MaxDelay
  BY DEF Invariant, Sent, Nets
<1>2. Delay(e) \in 0 .. MaxDelay /\ unit.clock \in Int
  BY <1>0, <1>1 DEF Delay, Invariant, Sent, Machine
<1> HIDE DEF f
<1>3. IsFrame(f) /\ Known(f)
  <2>1. PICK d \in 0 .. MaxDelay : Numbers(f.asdus, unit.clock, d)
    BY <1>1, <1>2
  <2>2. DOMAIN f.asdus = 1 .. Asdus /\ Len(f.asdus) = Asdus
    BY <2>1 DEF Numbers, Positions
  <2>3. \A i \in Positions : f.asdus[i].cnt \in Nat
    BY <1>2, <2>1, Numbered
  <2>4. \A i \in Positions : f.asdus[i].ours \in BOOLEAN
    BY <2>1 DEF Numbers
  <2> QED BY <1>0, <1>1, <2>1, <2>2, <2>3, <2>4 DEF IsFrame, Known, Positions
<1>4. PICK t, r : t = CheckStale(sub) /\ r = SvOnFrame(sub, f)
  OBVIOUS
<1>5. InFrame(app, t, f, r)
  <2>1. f.addressed \in BOOLEAN /\ f.decodes \in BOOLEAN
    BY <1>1
  <2> QED BY <1>3, <1>4, <2>1, SvOnFrameSound DEF Invariant, Backing
<1>6. Hears(r) /\ UNCHANGED <<unit, pub, net>>
  BY <1>4 DEF Deliver, f
<1> QED BY <1>3, <1>4, <1>5, <1>6, HearsStep

LEMMA StrayStep ==
    ASSUME SameStream, Timely, OneSource, Spelled, Invariant, Stray
    PROVE  Invariant'
<1>1. PICK f \in Strangers : Hears(SvOnFrame(sub, f)) /\ UNCHANGED <<unit, pub, net>>
  BY DEF Stray
<1>2. f.addressed \in BOOLEAN /\ f.decodes \in BOOLEAN /\ f.sim \in BOOLEAN
  BY SvLinkAssumption
<1>3. IsFrame(f)
  <2>1. f.asdus \in Seq([ours : BOOLEAN, cnt : Nat, confRev : Nat, synch : Nat, refr : Nat, gm : Nat, block : Seq(Nat)])
    BY SvLinkAssumption
  <2>2. Len(f.asdus) \in Nat /\ DOMAIN f.asdus = 1 .. Len(f.asdus)
    BY <2>1
  <2>3. \A i \in DOMAIN f.asdus :
            f.asdus[i] \in [ours : BOOLEAN, cnt : Nat, confRev : Nat, synch : Nat, refr : Nat, gm : Nat, block : Seq(Nat)]
    BY <2>1, <2>2, ElementOfSeq
  <2>4. \A i \in DOMAIN f.asdus : f.asdus[i].ours \in BOOLEAN /\ f.asdus[i].cnt \in Nat
    BY <2>3
  <2> QED BY <1>2, <2>2, <2>4 DEF IsFrame
<1>4. PICK t, r : t = CheckStale(sub) /\ r = SvOnFrame(sub, f)
  OBVIOUS
<1>5. InFrame(app, t, f, r) /\ (r.given # <<>> => f.addressed /\ f.decodes) /\ Sound(app, t) /\ Configured(sub, t)
  <2>1. Sound(app, sub) /\ sub.given = <<>> /\ app \in BOOLEAN
    BY DEF Invariant, Backing
  <2> QED BY <1>2, <1>3, <1>4, <2>1, SvOnFrameSound, CheckStaleSound
<1>6. r.given # <<>> => Known(f)
  <2> SUFFICES ASSUME r.given # <<>>, ~f.sim PROVE FALSE
    BY DEF Known
  <2>1. r.given \in Seq(Handed(t, f))
    BY <1>5 DEF InFrame
  <2>2. 1 \in 1 .. Len(r.given)
    BY <2>1, EmptySeq
  <2>3. r.given[1] \in Handed(t, f)
    BY <2>1, <2>2, ElementOfSeq
  <2>4. PICK i \in DOMAIN f.asdus : f.asdus[i].ours /\ Expects(t, f.asdus[i]) /\ Fits(t, f.asdus[i])
    BY <2>3 DEF Handed
  <2>5. PICK s \in Streams : Configured(s, sub)
    BY DEF Invariant, Backing
  <2>6. Expects(s, f.asdus[i]) /\ Fits(s, f.asdus[i])
    BY <1>5, <2>4, <2>5 DEF Configured, Expects, Fits
  <2> QED BY <1>5, <2>4, <2>6 DEF OneSource
<1>7. Hears(r)
  BY <1>1, <1>4
<1> QED BY <1>1, <1>3, <1>4, <1>5, <1>6, <1>7, HearsStep

LEMMA WakeStep ==
    ASSUME SameStream, Timely, Spelled, Invariant, Wake
    PROVE  Invariant'
<1>1. Sound(app, sub) /\ sub.given = <<>> /\ app \in BOOLEAN
  BY DEF Invariant, Backing
<1>2. PICK t : t = CheckStale(sub)
  OBVIOUS
<1>3. SvOnTimeout(sub) = t
  <2>1. [sub EXCEPT !.given = <<>>] = sub
    BY <1>1 DEF Sound, IsStream, IsShape
  <2> QED BY <1>2, <2>1 DEF SvOnTimeout
<1>4. Sound(app, t) /\ t.given = <<>>
  BY <1>1, <1>2, CheckStaleSound
<1>5. PICK no : no = FALSE
  OBVIOUS
<1>6. PICK f : f = [sim |-> no, asdus |-> <<>>]
  OBVIOUS
<1>7. IsFrame(f)
  <2>1. f.sim \in BOOLEAN
    BY <1>5, <1>6
  <2>2. f.asdus = <<>>
    BY <1>6
  <2>3. Len(f.asdus) = 0 /\ DOMAIN f.asdus = 1 .. 0
    BY <2>2
  <2> QED BY <2>1, <2>3 DEF IsFrame
<1>8. InFrame(app, t, f, t)
  BY <1>1, <1>4, NothingGiven DEF Configured
<1>9. Hears(t) /\ UNCHANGED <<unit, pub, net>>
  BY <1>3 DEF Wake
<1> QED BY <1>2, <1>4, <1>7, <1>8, <1>9, HearsStep

LEMMA EmptyQueue ==
    ASSUME NEW b, NEW s, s.events = <<>>
    PROVE  Believe(b, s.events) = b /\ s.events \in Seq(EventKinds) /\ Len(s.events) = 0 /\ DOMAIN s.events = {}
<1>1. DOMAIN s.events = {}
  OBVIOUS
<1>2. Believe(b, s.events) = b
  BY <1>1, BelieveNothing
<1> QED BY <1>1, <1>2

\* The application takes what waits, or looks where events were dropped.
LEMMA DrainStep ==
    ASSUME Invariant, Drain
    PROVE  Invariant'
<1>1. Sound(app, sub) /\ sub.given = <<>> /\ app \in BOOLEAN
  BY DEF Invariant, Backing
<1>2. PICK no : no = FALSE
  OBVIOUS
<1>3. sub' = [sub EXCEPT !.events = <<>>, !.dropped = no]
  BY <1>2 DEF Drain
<1>4. app' = IF sub.dropped THEN StreamLive(sub) ELSE Believe(app, sub.events)
  BY DEF Drain
<1>5. UNCHANGED <<unit, pub, net, truth>>
  BY DEF Drain
<1>6. /\ IsShape(sub') /\ sub'.events = <<>> /\ sub'.dropped = no
      /\ Configured(sub, sub') /\ sub'.last = sub.last /\ sub'.lost = sub.lost /\ sub'.heard = sub.heard
      /\ sub'.simActive = sub.simActive /\ sub'.stale = sub.stale /\ sub'.deadline = sub.deadline /\ sub'.given = sub.given
  <2> DEFINE u == [sub EXCEPT !.events = <<>>]
  <2>1. IsShape(sub)
    BY <1>1 DEF Sound, IsStream
  <2>2. IsShape(u)
    BY <2>1 DEF IsShape
  <2>3. sub' = [u EXCEPT !.dropped = no]
    BY <1>3, <2>1 DEF IsShape
  <2>4. /\ u.events = <<>> /\ Configured(sub, u) /\ u.last = sub.last /\ u.lost = sub.lost /\ u.heard = sub.heard
        /\ u.simActive = sub.simActive /\ u.stale = sub.stale /\ u.deadline = sub.deadline /\ u.given = sub.given
    BY <2>1 DEF IsShape, Configured
  <2> HIDE DEF u
  <2> QED BY <2>2, <2>3, <2>4 DEF IsShape, Configured
<1>7. /\ Believe(app', sub'.events) = app' /\ sub'.events \in Seq(EventKinds) /\ Len(sub'.events) = 0
      /\ DOMAIN sub'.events = {}
  BY <1>6, EmptyQueue
<1>8. IsStream(sub')
  <2>1. sub'.dropped \in BOOLEAN
    BY <1>2, <1>6
  <2>2. 0 <= Capacity
    BY SubscriberConstants
  <2> QED BY <1>1, <1>6, <1>7, <2>1, <2>2 DEF Sound, IsStream, Configured
<1>9. app' <=> StreamLive(sub)
  BY <1>1, <1>4 DEF Sound, Backed
<1>10. app' \in BOOLEAN
  <2>1. StreamLive(sub) \in BOOLEAN /\ Believe(app, sub.events) \in BOOLEAN
    BY <1>1, Zenon DEF StreamLive, Believe
  <2> QED BY <1>4, <2>1
<1>11. Backed(app', sub')
  <2>1. ~sub'.dropped
    BY <1>2, <1>6
  <2>2. StreamLive(sub') <=> StreamLive(sub)
    BY <1>6 DEF StreamLive
  <2>3. ~sub'.heard => ~app'
    BY <1>6, <1>9 DEF StreamLive
  <2> QED BY <1>7, <1>9, <2>1, <2>2, <2>3 DEF Backed
<1>12. Backing'
  <2>1. \E s \in Streams : Configured(s, sub')
    BY <1>6 DEF Invariant, Backing, Configured
  <2> QED BY <1>1, <1>6, <1>8, <1>10, <1>11, <2>1 DEF Backing, Sound
<1>13. Links'
  <2>1. (Age(truth.last))' = Age(truth.last)
    BY <1>5 DEF Age
  <2> QED BY <1>5, <1>6, <2>1 DEF Invariant, Links
<1>14. Machine' /\ Pubs' /\ Nets'
  BY <1>5, SameNet DEF Invariant, Sent, Machine, Pubs
<1> QED BY <1>12, <1>13, <1>14 DEF Invariant, Sent

LEMMA EndTestStep ==
    ASSUME Invariant, EndTest
    PROVE  Invariant'
<1>1. Sound(app, sub) /\ sub.given = <<>> /\ app \in BOOLEAN
  BY DEF Invariant, Backing
<1>2. PICK no : no = FALSE
  OBVIOUS
<1>3. sub' = [sub EXCEPT !.simActive = no, !.last = None]
  BY <1>2 DEF EndTest, ResetSimulation
<1>4. UNCHANGED <<unit, pub, net, app>> /\ truth' = [truth EXCEPT !.last = None]
  BY DEF EndTest
<1>5. /\ IsShape(sub') /\ sub'.events = sub.events /\ sub'.dropped = sub.dropped
      /\ Configured(sub, sub') /\ sub'.last = None /\ sub'.lost = sub.lost /\ sub'.heard = sub.heard
      /\ sub'.simActive = no /\ sub'.stale = sub.stale /\ sub'.deadline = sub.deadline /\ sub'.given = sub.given
  <2> DEFINE u == [sub EXCEPT !.simActive = no]
  <2>1. IsShape(sub)
    BY <1>1 DEF Sound, IsStream
  <2>2. IsShape(u)
    BY <2>1 DEF IsShape
  <2>3. sub' = [u EXCEPT !.last = None]
    BY <1>3, <2>1 DEF IsShape
  <2>4. /\ u.events = sub.events /\ u.dropped = sub.dropped /\ Configured(sub, u) /\ u.lost = sub.lost /\ u.heard = sub.heard
        /\ u.simActive = no /\ u.stale = sub.stale /\ u.deadline = sub.deadline /\ u.given = sub.given
    BY <2>1 DEF IsShape, Configured
  <2> HIDE DEF u
  <2> QED BY <2>2, <2>3, <2>4 DEF IsShape, Configured
<1>6. IsStream(sub')
  <2>1. sub'.simActive \in BOOLEAN /\ ~sub'.simActive
    BY <1>2, <1>5
  <2> QED BY <1>1, <1>5, <2>1 DEF Sound, IsStream, Configured
<1>7. Backed(app', sub')
  BY <1>1, <1>4, <1>5 DEF Sound, Backed, StreamLive
<1>8. Backing'
  <2>1. \E s \in Streams : Configured(s, sub')
    BY <1>5 DEF Invariant, Backing, Configured
  <2> QED BY <1>1, <1>4, <1>5, <1>6, <1>7, <2>1 DEF Backing, Sound
<1>9. Links'
  <2>1. truth'.last = None /\ truth'.miscounted = truth.miscounted /\ truth'.hidden = truth.hidden /\ truth'.since = truth.since
        /\ truth' = [last |-> truth'.last, sim |-> truth'.sim, since |-> truth'.since,
                     miscounted |-> truth'.miscounted, hidden |-> truth'.hidden]
    BY <1>4 DEF Invariant, Links
  <2> QED BY <1>5, <2>1 DEF Invariant, Links
<1>10. Machine' /\ Pubs' /\ Nets'
  BY <1>4, SameNet DEF Invariant, Sent, Machine, Pubs
<1> QED BY <1>8, <1>9, <1>10 DEF Invariant, Sent

\* A tick later the samples under way are older by a tick.
LEMMA NumbersLater ==
    ASSUME Timely, NEW asdus, NEW c \in Int, NEW d \in 0 .. MaxDelay, d < MaxDelay, Numbers(asdus, c, d)
    PROVE  Numbers(asdus, (c + Asdus) % Period, d + 1)
<1>0. Period \in Nat \ {0} /\ Wrap \in Nat \ {0} /\ Asdus \in Nat \ {0} /\ MaxDelay \in Nat /\ Period > Wrap
  BY LinkConstants
<1>1. PICK k \in Int : k = NumberOf(asdus[1].block)
  BY DEF Numbers
<1>2. ASSUME NEW i \in Positions
      PROVE  ((((c + Asdus) % Period) + Asdus - 1) - (k + i - 1)) % Period = (d + 1) * Asdus + Asdus - i
  <2>1. i \in 1 .. Asdus
    BY DEF Positions
  <2>2. PICK x \in Int : x = (c + Asdus - 1) - (k + i - 1)
    BY <1>0, <2>1
  <2>3. x % Period = d * Asdus + Asdus - i
    BY <1>1, <2>2 DEF Numbers
  <2>4. PICK y \in Int : y = Asdus - 1 - (k + i - 1)
    BY <1>0, <2>1
  <2>5. (((c + Asdus) % Period) + y) % Period = ((c + Asdus) + y) % Period
    <3>1. c + Asdus \in Int
      BY <1>0
    <3> QED BY <1>0, <3>1, RemainderSum
  <2>6. ((x % Period) + Asdus) % Period = (x + Asdus) % Period
    <3>1. Asdus \in Int
      BY <1>0
    <3> QED BY <1>0, <3>1, RemainderSum
  <2>7. PICK v \in Int : v = d * Asdus
    BY <1>0
  <2>8. (d + 1) * Asdus = v + Asdus
    BY <1>0, <2>7
  <2>9. (d + 1) * Asdus <= MaxDelay * Asdus /\ MaxDelay * Asdus \in Int /\ 0 * Asdus <= d * Asdus
    <3>1. d + 1 <= MaxDelay /\ 0 <= d
      BY <1>0
    <3> QED BY <1>0, <3>1, Times
  <2>10. (MaxDelay + 1) * Asdus = MaxDelay * Asdus + Asdus /\ (MaxDelay + 1) * Asdus < Wrap
    BY <1>0 DEF Timely
  <2>11. (v + Asdus - i) + Asdus \in 0 .. Period - 1
    BY <1>0, <2>1, <2>7, <2>8, <2>9, <2>10
  <2>12. ((v + Asdus - i) + Asdus) % Period = (v + Asdus - i) + Asdus
    BY <1>0, <2>11, SmallRemainder
  <2>13. (x + Asdus) % Period = (v + Asdus - i) + Asdus
    BY <2>3, <2>6, <2>7, <2>12
  <2>14. (c + Asdus) + y = x + Asdus
    BY <1>0, <2>1, <2>2, <2>4
  <2>15. PICK u \in 0 .. Period - 1 : u = (c + Asdus) % Period
    <3>1. c + Asdus \in Int
      BY <1>0
    <3> QED BY <1>0, <3>1, Remainder
  <2>16. (u + Asdus - 1) - (k + i - 1) = u + y
    BY <1>0, <2>1, <2>4
  <2>17. (u + y) % Period = (v + Asdus - i) + Asdus
    BY <2>5, <2>13, <2>14, <2>15
  <2>18. (v + Asdus - i) + Asdus = (d + 1) * Asdus + Asdus - i
    BY <1>0, <2>1, <2>7, <2>8
  <2> QED BY <2>15, <2>16, <2>17, <2>18
<1> QED BY <1>1, <1>2 DEF Numbers

LEMMA TickSent ==
    ASSUME Timely, Sent, Tick
    PROVE  Sent' /\ unit'.clock = (unit.clock + Asdus) % Period
<1>0. /\ Period \in Nat \ {0} /\ Wrap \in Nat \ {0} /\ Asdus \in Nat \ {0} /\ MaxDelay \in Nat /\ Period > Wrap
      /\ Period % Wrap = 0 /\ StaleAfter \in Nat \ {0}
  BY LinkConstants
<1>1. PICK c \in Int : c = unit.clock /\ c \in 0 .. Period - 1
  BY <1>0 DEF Sent, Machine
<1>2. PICK z \in 0 .. Period - 1 : z = (c + Asdus) % Period
  <2>1. c + Asdus \in Int
    BY <1>0
  <2> QED BY <1>0, <2>1, Remainder
<1>3. unit' = [unit EXCEPT !.clock = z, !.due = unit.up] /\ ~unit.due /\ ~pub.pending /\ pub' = pub
  BY <1>1, <1>2 DEF Tick
<1>4. Machine' /\ unit'.clock = z /\ unit'.due = unit.up /\ unit'.up = unit.up /\ unit'.late = unit.late
  BY <1>3 DEF Sent, Machine
<1>5. Pubs'
  <2>1. z % Wrap = (c + Asdus) % Wrap
    <3>1. c + Asdus \in Int
      BY <1>0
    <3>2. ((c + Asdus) % Period) % Wrap = (c + Asdus) % Wrap
      BY <1>0, <3>1, RemainderOfMultiple, Zenon
    <3> QED BY <1>2, <3>2
  <2>2. unit.up => unit.late \/ pub.cnt = (c + Asdus) % Wrap
    BY <1>1, <1>3 DEF Sent, Pubs
  <2>3. ~unit.up => pub.cnt = 0 /\ ~unit.late
    BY DEF Sent, Pubs
  <2>4. Framed(pub')
    BY <1>3 DEF Sent, Pubs
  <2> QED BY <1>3, <1>4, <2>1, <2>2, <2>3, <2>4 DEF Pubs
<1>6. Nets'
  <2>1. ASSUME NEW e \in net, NEW g, g = [e EXCEPT !.ttl = @ - 1]
        PROVE  /\ g = [frame |-> g.frame, ttl |-> g.ttl] /\ g.ttl \in 0 .. MaxDelay
               /\ g.frame.addressed = TRUE /\ g.frame.decodes = TRUE /\ g.frame.sim = FALSE
               /\ Numbers(g.frame.asdus, z, MaxDelay - g.ttl)
    <3>1. /\ e = [frame |-> e.frame, ttl |-> e.ttl] /\ e.ttl \in 0 .. MaxDelay /\ e.ttl > 0
          /\ e.frame.addressed = TRUE /\ e.frame.decodes = TRUE /\ e.frame.sim = FALSE
          /\ Numbers(e.frame.asdus, c, MaxDelay - e.ttl)
      BY <1>1 DEF Sent, Nets, Tick, Delay
    <3>2. PICK f, l : f = e.frame /\ l = e.ttl
      OBVIOUS
    <3>3. g.frame = f /\ g.ttl = l - 1 /\ g = [frame |-> g.frame, ttl |-> g.ttl]
      BY <2>1, <3>1, <3>2
    <3>4. l \in 0 .. MaxDelay /\ l > 0
      BY <3>1, <3>2
    <3>5. PICK d \in 0 .. MaxDelay : d = MaxDelay - l /\ d < MaxDelay
      BY <1>0, <3>4
    <3>6. Numbers(f.asdus, z, d + 1)
      <4>1. Numbers(f.asdus, c, d)
        BY <3>1, <3>2, <3>5
      <4> QED BY <1>2, <3>5, <4>1, NumbersLater
    <3>7. MaxDelay - g.ttl = d + 1 /\ g.ttl \in 0 .. MaxDelay
      BY <1>0, <3>3, <3>4, <3>5
    <3> QED BY <3>1, <3>2, <3>3, <3>6, <3>7
  <2>2. \A g \in net' : \E e \in net : g = [e EXCEPT !.ttl = @ - 1]
    BY DEF Tick
  <2> QED BY <1>4, <2>1, <2>2 DEF Nets, Delay
<1> QED BY <1>1, <1>2, <1>4, <1>5, <1>6 DEF Sent

LEMMA TickSubscriber ==
    ASSUME Invariant, Tick
    PROVE  /\ Backing'
           /\ sub'.last = sub.last /\ sub'.lost = sub.lost /\ sub'.simActive = sub.simActive
           /\ sub'.deadline # None => sub.deadline \in 1 .. StaleAfter /\ sub'.deadline = sub.deadline - 1
<1>0. StaleAfter \in Nat \ {0} /\ None \notin Nat
  BY SubscriberConstants
<1>1. Sound(app, sub) /\ sub.given = <<>> /\ app \in BOOLEAN
  BY DEF Invariant, Backing
<1>2. app' = app /\ sub.deadline # 0
  BY DEF Tick
<1>3. PICK d : d = IF sub.deadline = None THEN sub.deadline ELSE Later(sub.deadline)
  OBVIOUS
<1>4. sub' = [sub EXCEPT !.deadline = d]
  BY <1>3 DEF Tick
<1>5. /\ IsShape(sub') /\ sub'.events = sub.events /\ sub'.dropped = sub.dropped
      /\ Configured(sub, sub') /\ sub'.last = sub.last /\ sub'.lost = sub.lost /\ sub'.heard = sub.heard
      /\ sub'.simActive = sub.simActive /\ sub'.stale = sub.stale /\ sub'.deadline = d /\ sub'.given = sub.given
  BY <1>1, <1>4 DEF Sound, IsStream, IsShape, Configured
<1>6. sub.deadline = None \/ sub.deadline \in 1 .. StaleAfter
  BY <1>0, <1>1, <1>2 DEF Sound, IsStream
<1>7. /\ sub.deadline = None => d = None
      /\ sub.deadline # None => d = sub.deadline - 1 /\ d \in 0 .. StaleAfter /\ d # None
  <2>1. CASE sub.deadline = None
    BY <1>3, <2>1
  <2>2. CASE sub.deadline # None
    <3>1. sub.deadline \in 1 .. StaleAfter
      BY <1>6, <2>2
    <3>2. d = sub.deadline - 1
      BY <1>0, <1>3, <2>2, <3>1 DEF Later
    <3>3. d \in Nat /\ d <= StaleAfter
      BY <1>0, <3>1, <3>2
    <3> QED BY <1>0, <2>2, <3>2, <3>3
  <2> QED BY <2>1, <2>2
<1>8. IsStream(sub')
  <2>1. d \in {None} \cup 0 .. StaleAfter /\ (sub.deadline # None <=> d # None)
    BY <1>7
  <2> QED BY <1>1, <1>5, <2>1 DEF Sound, IsStream, Configured
<1>9. Backed(app', sub')
  BY <1>1, <1>2, <1>5 DEF Sound, Backed, StreamLive
<1>10. Backing'
  <2>1. \E s \in Streams : Configured(s, sub')
    BY <1>5 DEF Invariant, Backing, Configured
  <2> QED BY <1>1, <1>2, <1>5, <1>8, <1>9, <2>1 DEF Backing, Sound
<1> QED BY <1>5, <1>6, <1>7, <1>10

LEMMA TickStep ==
    ASSUME Timely, Invariant, Tick
    PROVE  Invariant'
<1>0. /\ Period \in Nat \ {0} /\ Wrap \in Nat \ {0} /\ Asdus \in Nat \ {0} /\ MaxDelay \in Nat /\ Period > Wrap
      /\ Period % Wrap = 0 /\ StaleAfter \in Nat \ {0}
  BY LinkConstants
<1>1. PICK c \in Int : c = unit.clock /\ c \in 0 .. Period - 1
  BY <1>0 DEF Invariant, Sent, Machine
<1>2. PICK z \in 0 .. Period - 1 : z = (c + Asdus) % Period
  <2>1. c + Asdus \in Int
    BY <1>0
  <2> QED BY <1>0, <2>1, Remainder
<1>3. Sent' /\ unit'.clock = z
  BY <1>1, <1>2, TickSent DEF Invariant
<1>7. /\ Backing'
      /\ sub'.last = sub.last /\ sub'.lost = sub.lost /\ sub'.simActive = sub.simActive
      /\ sub'.deadline # None => sub.deadline \in 1 .. StaleAfter /\ sub'.deadline = sub.deadline - 1
  BY TickSubscriber
<1>8. PICK w \in Nat : w = truth.since + Asdus
  BY <1>0 DEF Invariant, Links
<1>9. truth.since \in 0 .. Period /\ truth' = [truth EXCEPT !.since = Saturated(w)]
  BY <1>8 DEF Invariant, Links, Tick
<1>10. Saturated(w) \in 0 .. Period /\ Saturated(w) <= w /\ Saturated(w) % Wrap = w % Wrap
  <2>1. Asdus < Wrap
    <3>1. 1 * Asdus <= (MaxDelay + 1) * Asdus /\ 1 * Asdus = Asdus /\ (MaxDelay + 1) * Asdus \in Int
      BY <1>0, Times
    <3>2. (MaxDelay + 1) * Asdus < Wrap
      BY DEF Timely
    <3> QED BY <1>0, <3>1, <3>2
  <2>2. CASE w > Period
    <3>1. Saturated(w) = w - Wrap /\ w - Wrap = w + Wrap * (-1)
      BY <1>0, <2>2 DEF Saturated
    <3>2. (w + Wrap * (-1)) % Wrap = w % Wrap
      <4>1. -1 \in Int /\ w \in Int
        OBVIOUS
      <4> QED BY <1>0, <4>1, Shifted
    <3>3. PICK e \in Int : e = w - Wrap
      BY <1>0
    <3>4. Saturated(w) = e /\ e % Wrap = w % Wrap
      BY <3>1, <3>2, <3>3
    <3>5. e \in 0 .. Period /\ e <= w
      BY <1>0, <1>8, <1>9, <2>1, <2>2, <3>3
    <3> QED BY <3>4, <3>5
  <2>3. CASE ~(w > Period)
    BY <1>0, <2>3 DEF Saturated
  <2> QED BY <2>2, <2>3
<1>11. /\ truth'.since = Saturated(w) /\ truth'.last = truth.last /\ truth'.sim = truth.sim
       /\ truth'.miscounted = truth.miscounted /\ truth'.hidden = truth.hidden
       /\ truth' = [last |-> truth'.last, sim |-> truth'.sim, since |-> truth'.since,
                    miscounted |-> truth'.miscounted, hidden |-> truth'.hidden]
  BY <1>9 DEF Invariant, Links
<1>12. sub'.deadline # None => truth'.since < (MaxDelay + 1 + StaleAfter - sub'.deadline) * Asdus
  <2> SUFFICES ASSUME sub'.deadline # None PROVE truth'.since < (MaxDelay + 1 + StaleAfter - sub'.deadline) * Asdus
    OBVIOUS
  <2>1. PICK d \in Int : d = sub.deadline /\ d # None /\ sub'.deadline = d - 1
    <3>1. sub.deadline \in 1 .. StaleAfter /\ sub'.deadline = sub.deadline - 1
      BY <1>7
    <3> QED BY <1>0, <3>1, SubscriberConstants
  <2>2. PICK k \in Int : k = MaxDelay + 1 + StaleAfter - d
    BY <1>0
  <2>3. truth.since < k * Asdus
    BY <2>1, <2>2 DEF Invariant, Links
  <2>4. MaxDelay + 1 + StaleAfter - sub'.deadline = k + 1
    BY <1>0, <2>1, <2>2
  <2>5. (k + 1) * Asdus = k * Asdus + Asdus /\ k * Asdus \in Int
    BY <1>0
  <2>6. w < (k + 1) * Asdus
    BY <1>0, <1>8, <1>9, <2>3, <2>5
  <2>7. truth'.since < (k + 1) * Asdus
    BY <1>0, <1>10, <1>11, <2>5, <2>6
  <2> QED BY <2>4, <2>7
<1>13. truth'.last # None /\ ~truth'.sim => (Age(truth.last))' % Wrap = truth'.since % Wrap
  <2> SUFFICES ASSUME truth'.last # None, ~truth'.sim PROVE (Age(truth.last))' % Wrap = truth'.since % Wrap
    OBVIOUS
  <2>3. PICK n \in Int : n = truth.last
    BY <1>11 DEF Invariant, Links
  <2>4. Age(n) % Wrap = truth.since % Wrap
    BY <1>11, <2>3 DEF Invariant, Links
  <2>5. PICK x \in Int : x = (c + Asdus - 1) - n
    BY <1>0
  <2>6. x % Wrap = truth.since % Wrap
    <3>1. (x % Period) % Wrap = x % Wrap
      BY <1>0, RemainderOfMultiple
    <3> QED BY <1>1, <2>4, <2>5, <3>1 DEF Age
  <2>7. w % Wrap = (x + Asdus) % Wrap
    <3>1. PICK o \in Int, k \in Int : o = truth.since /\ k = Asdus
      BY <1>0, <1>9
    <3>2. ((x % Wrap) + k) % Wrap = (x + k) % Wrap /\ ((o % Wrap) + k) % Wrap = (o + k) % Wrap
      BY <1>0, RemainderSum
    <3> QED BY <1>8, <2>6, <3>1, <3>2
  <2>9. PICK y \in Int : y = (Asdus - 1) - n
    BY <1>0
  <2>10. (((c + Asdus) % Period) + y) % Period = ((c + Asdus) + y) % Period
    <3>1. c + Asdus \in Int
      BY <1>0
    <3> QED BY <1>0, <3>1, RemainderSum
  <2>11. (c + Asdus) + y = x + Asdus /\ (z + Asdus - 1) - n = z + y
    BY <1>0, <2>5, <2>9
  <2>12. ((z + Asdus - 1) - n) % Period = (x + Asdus) % Period
    BY <1>2, <2>10, <2>11
  <2>13. (Age(truth.last))' = ((unit'.clock + Asdus - 1) - truth'.last) % Period
    BY DEF Age
  <2>14. unit'.clock = z /\ truth'.last = n
    BY <1>3, <1>11, <2>3
  <2>15. ((x + Asdus) % Period) % Wrap = (x + Asdus) % Wrap
    <3>1. x + Asdus \in Int
      BY <1>0
    <3> QED BY <1>0, <3>1, RemainderOfMultiple
  <2>16. truth'.since % Wrap = w % Wrap
    BY <1>10, <1>11
  <2> QED BY <2>7, <2>12, <2>13, <2>14, <2>15, <2>16
<1>14. Links'
  BY <1>7, <1>10, <1>11, <1>12, <1>13 DEF Invariant, Links
<1> QED BY <1>3, <1>7, <1>14 DEF Invariant


LEMMA InitSent ==
    ASSUME Spelled, Init
    PROVE  Sent
<1>0. /\ Period \in Nat \ {0} /\ Wrap \in Nat \ {0} /\ Asdus \in Nat \ {0} /\ MaxDelay \in Nat
  BY LinkConstants
<1>1. PICK no, yes : no = FALSE /\ yes = TRUE
  OBVIOUS
<1>2. unit = [clock |-> 0, up |-> yes, late |-> no, due |-> yes]
  BY <1>1 DEF Init
<1>3. /\ unit.clock = 0 /\ unit.up = yes /\ unit.late = no /\ unit.due = yes
      /\ unit = [clock |-> unit.clock, up |-> unit.up, late |-> unit.late, due |-> unit.due]
  BY <1>2
<1>4. Machine
  <2>1. unit.clock \in 0 .. Period - 1
    BY <1>0, <1>3
  <2>2. unit.up \in BOOLEAN /\ unit.late \in BOOLEAN /\ unit.due \in BOOLEAN
    BY <1>1, <1>3
  <2> QED BY <1>3, <2>1, <2>2 DEF Machine
<1>5. Pubs
  <2>1. Framed(pub) /\ pub.cnt = 0 /\ ~pub.pending
    BY NewSvPublisherFramed DEF Init
  <2>2. 0 % Wrap = 0
    BY <1>0, SmallRemainder
  <2>3. unit.up /\ unit.due
    BY <1>1, <1>3
  <2> QED BY <1>3, <2>1, <2>2, <2>3 DEF Pubs
<1>6. Nets
  BY DEF Init, Nets
<1> QED BY <1>4, <1>5, <1>6 DEF Sent

LEMMA InitStep ==
    ASSUME Spelled, Init
    PROVE  Invariant
<1>0. /\ Period \in Nat \ {0} /\ Wrap \in Nat \ {0} /\ Asdus \in Nat \ {0} /\ MaxDelay \in Nat
      /\ StaleAfter \in Nat \ {0} /\ None \notin Nat /\ LostTop \in Nat \ {0} /\ Capacity \in Nat \ {0}
  BY LinkConstants, SubscriberConstants, SvSubscriberAssumption
<1>1. PICK no : no = FALSE
  OBVIOUS
<1>7. PICK s \in Streams : sub = NewStream(s.mode, s.revision, s.layout)
  BY DEF Init
<1>8. /\ IsShape(sub) /\ Configured(s, sub) /\ sub.last = None /\ sub.lost = 0 /\ sub.heard = no
      /\ sub.simActive = no /\ sub.stale = no /\ sub.deadline = None
      /\ sub.given = <<>> /\ sub.events = <<>> /\ sub.dropped = no
  <2>1. sub = [mode |-> s.mode, revision |-> s.revision, layout |-> s.layout,
               last |-> None, confRev |-> None, synch |-> None, gm |-> None, lost |-> 0, heard |-> no,
               simActive |-> no, stale |-> no, deadline |-> None,
               revReported |-> no, simReported |-> no, lenReported |-> no,
               given |-> <<>>, events |-> <<>>, dropped |-> no]
    BY <1>1, <1>7 DEF NewStream
  <2> QED BY <2>1 DEF IsShape, Configured
<1>9. ~sub.heard /\ ~sub.simActive /\ ~sub.stale /\ ~sub.dropped
  BY <1>1, <1>8
<1>10. IsStream(sub)
  <2>1. sub.heard \in BOOLEAN /\ sub.simActive \in BOOLEAN /\ sub.stale \in BOOLEAN /\ sub.dropped \in BOOLEAN
    BY <1>1, <1>8
  <2>2. sub.mode \in SimulationModes
    BY <1>8, SvLinkAssumption DEF Configured
  <2>3. sub.events \in Seq(EventKinds) /\ Len(sub.events) <= Capacity
    BY <1>0, <1>8
  <2>4. sub.last \in Nat \cup {None} /\ sub.lost \in 0 .. LostTop - 1 /\ sub.deadline \in {None} \cup 0 .. StaleAfter
    BY <1>0, <1>8
  <2> QED BY <1>8, <1>9, <2>1, <2>2, <2>3, <2>4 DEF IsStream
<1>11. app \in BOOLEAN /\ ~app
  BY DEF Init
<1>12. Backed(app, sub)
  <2>1. Believe(app, sub.events) = app
    BY <1>8, BelieveNothing
  <2>2. \A i \in DOMAIN sub.events : sub.events[i] \notin Telling
    BY <1>8
  <2> QED BY <1>9, <1>11, <2>1, <2>2 DEF Backed, StreamLive
<1>13. Backing
  BY <1>7, <1>8, <1>10, <1>11, <1>12 DEF Backing, Sound
<1>14. Links
  <2>1. truth = [last |-> None, sim |-> no, since |-> 0, miscounted |-> no, hidden |-> no]
    BY <1>1 DEF Init, Fresh
  <2>2. /\ truth.last = None /\ truth.since = 0 /\ truth.miscounted = no /\ truth.hidden = no
        /\ truth = [last |-> truth.last, sim |-> truth.sim, since |-> truth.since,
                    miscounted |-> truth.miscounted, hidden |-> truth.hidden]
    BY <2>1
  <2>3. truth.miscounted = FALSE /\ truth.hidden = FALSE
    BY <1>1, <2>2
  <2>4. 0 \in 0 .. Period
    BY <1>0
  <2> QED BY <1>8, <2>2, <2>3, <2>4 DEF Links
<1> QED BY <1>13, <1>14, InitSent DEF Invariant

LEMMA SentStep ==
    ASSUME Timely, Spelled, Sent, [Next]_vars
    PROVE  Sent'
<1>1. ASSUME UNCHANGED <<unit, pub, net>> PROVE Sent'
  <2>1. Machine' /\ Pubs'
    BY <1>1 DEF Sent, Machine, Pubs
  <2>2. Nets'
    BY <1>1, SameNet DEF Sent
  <2> QED BY <2>1, <2>2 DEF Sent
<1>2. CASE PublishSamples
  BY <1>2, PublishSent
<1>3. CASE Miss
  BY <1>3, MissSent
<1>4. CASE ClockMoves
  BY <1>4, ClockMovesSent
<1>5. CASE Send
  BY <1>5, SendSent
<1>6. CASE Crash
  BY <1>6, CrashSent
<1>7. CASE Restart
  BY <1>7, RestartSent
<1>8. ASSUME NEW e \in net, Deliver(e) PROVE Sent'
  BY <1>1, <1>8 DEF Deliver
<1>9. ASSUME NEW e \in net, Lose(e) PROVE Sent'
  BY <1>9, LoseSent
<1>10. CASE Stray
  BY <1>1, <1>10 DEF Stray
<1>11. CASE Wake
  BY <1>1, <1>11 DEF Wake
<1>12. CASE Drain
  BY <1>1, <1>12 DEF Drain
<1>13. CASE EndTest
  BY <1>1, <1>13 DEF EndTest
<1>14. CASE Tick
  BY <1>14, TickSent
<1>15. CASE UNCHANGED vars
  BY <1>1, <1>15 DEF vars
<1> QED BY <1>2, <1>3, <1>4, <1>5, <1>6, <1>7, <1>8, <1>9, <1>10, <1>11, <1>12, <1>13, <1>14, <1>15 DEF Next

LEMMA NextStep ==
    ASSUME SameStream, Timely, OneSource, Spelled, Invariant, [Next]_vars
    PROVE  Invariant'
<1>1. ASSUME unit'.clock = unit.clock, UNCHANGED <<sub, app, truth>> PROVE Invariant'
  <2>1. Sent'
    BY SentStep DEF Invariant
  <2>2. Backing' /\ Links'
    BY <1>1, SameSide DEF Invariant
  <2> QED BY <2>1, <2>2 DEF Invariant
<1>2. CASE PublishSamples
  BY <1>1, <1>2, PublishSent DEF Invariant
<1>3. CASE Miss
  BY <1>1, <1>3, MissSent DEF Invariant
<1>4. CASE ClockMoves
  BY <1>1, <1>4, ClockMovesSent DEF Invariant
<1>5. CASE Send
  BY <1>1, <1>5, SendSent DEF Invariant
<1>6. CASE Crash
  BY <1>1, <1>6, CrashSent DEF Invariant
<1>7. CASE Restart
  BY <1>1, <1>7, RestartSent DEF Invariant
<1>8. ASSUME NEW e \in net, Deliver(e) PROVE Invariant'
  BY <1>8, DeliverStep
<1>9. ASSUME NEW e \in net, Lose(e) PROVE Invariant'
  BY <1>1, <1>9, LoseSent DEF Invariant
<1>10. CASE Stray
  BY <1>10, StrayStep
<1>11. CASE Wake
  BY <1>11, WakeStep
<1>12. CASE Drain
  BY <1>12, DrainStep
<1>13. CASE EndTest
  BY <1>13, EndTestStep
<1>14. CASE Tick
  BY <1>14, TickStep
<1>15. CASE UNCHANGED vars
  <2>1. unit' = unit /\ UNCHANGED <<sub, app, truth>>
    BY <1>15 DEF vars
  <2> QED BY <1>1, <2>1
<1> QED BY <1>2, <1>3, <1>4, <1>5, <1>6, <1>7, <1>8, <1>9, <1>10, <1>11, <1>12, <1>13, <1>14, <1>15 DEF Next

-----------------------------------------------------------------------------
(* The properties                                                          *)

LEMMA NumbersWhole ==
    ASSUME Spelled, NEW f, NEW d, Numbers(f, unit.clock, d), NEW i \in DOMAIN f, NEW n, n = NumberOf(f[1].block) + i - 1
    PROVE  /\ Channels(BlockLayout, f[i].block) = <<Measured(n), 0>>
           /\ f[i].cnt = (n % Period) % Wrap
           /\ f[i].synch = f[1].synch /\ f[i].gm = f[1].gm
<1>0. Period \in Nat \ {0} /\ Wrap \in Nat \ {0} /\ Period % Wrap = 0 /\ Asdus \in Nat
  BY LinkConstants
<1>1. i \in Positions
  BY DEF Numbers
<1>2. n \in Int
  BY <1>0, <1>1 DEF Numbers, Positions
<1>3. f[i].block = BlockOf(n) /\ f[i].cnt = n % Wrap /\ f[i].synch = f[1].synch /\ f[i].gm = f[1].gm
  BY <1>1 DEF Numbers
<1>4. BlockOf(n) = BlockOf(n % Period) /\ Measured(n) = Measured(n % Period) /\ n % Period \in 0 .. Period - 1
  BY <1>2, BlockOfPlace
<1>5. Channels(BlockLayout, BlockOf(n % Period)) = <<Measured(n % Period), 0>>
  BY <1>4, Zenon DEF Spelled
<1>6. (n % Period) % Wrap = n % Wrap
  BY <1>0, <1>2, RemainderOfMultiple, Zenon
<1> QED BY <1>3, <1>4, <1>5, <1>6

LEMMA SentWhole ==
    ASSUME Spelled, Sent
    PROVE  FramesWhole
<1>0. unit.clock \in Int
  BY LinkConstants DEF Sent, Machine
<1>1. ASSUME NEW f \in Frames PROVE \E d : Numbers(f, unit.clock, d)
  <2>1. CASE f \in {e.frame.asdus : e \in net}
    <3>1. PICK e \in net : f = e.frame.asdus
      BY <2>1
    <3> QED BY <3>1 DEF Sent, Nets
  <2>2. CASE pub.pending /\ f = SvFrame(1, pub.frame).asdus
    <3>1. Framed(pub) /\ Carries(pub, unit.clock)
      BY <2>2 DEF Sent, Pubs
    <3>2. Numbers(f, unit.clock, 0)
      BY <1>0, <2>2, <3>1, FrameNumbers
    <3> QED BY <3>2
  <2> QED BY <2>1, <2>2 DEF Frames
<1>2. \A f \in Frames : \A i \in DOMAIN f :
          LET n == NumberOf(f[1].block) + i - 1
          IN  /\ Channels(BlockLayout, f[i].block) = <<Measured(n), 0>>
              /\ f[i].cnt = (n % Period) % Wrap
              /\ f[i].synch = f[1].synch /\ f[i].gm = f[1].gm
  BY <1>1, NumbersWhole
<1>3. \A i \in Positions : pub.frame[i].synch.value = pub.synch /\ pub.frame[i].gm = pub.gm
  <2>1. PICK u \in Synchs : Wide(u, pub.synch) /\ \A i \in Positions : Laid(pub, u, pub.frame[i])
    BY DEF Sent, Pubs, Framed
  <2>2. Patched(NewField(u, 1), pub.synch).value = pub.synch
    BY <2>1, SynchSpelled DEF Sent, Pubs, Framed
  <2> QED BY <2>1, <2>2 DEF Laid
<1> QED BY <1>2, <1>3 DEF FramesWhole

LEMMA InvariantLossIsShown ==
    ASSUME Invariant
    PROVE  LossIsShown
BY DEF Invariant, Links, LossIsShown, LossIsCounted, NoHiddenHole

LEMMA InvariantTypeOK ==
    ASSUME SameStream, Invariant
    PROVE  TypeOK
<1>1. unit \in [clock : 0 .. Period - 1, up : BOOLEAN, late : BOOLEAN, due : BOOLEAN]
  BY DEF Invariant, Sent, Machine
<1>2. pub.cnt \in 0 .. Wrap - 1 /\ DOMAIN pub.frame = Positions
  BY DEF Invariant, Sent, Pubs, Framed
<1>3. app \in BOOLEAN /\ IsStream(sub)
  BY DEF Invariant, Backing, Sound
<1>4. sub.mode \in SimulationModes /\ sub.lost \in 0 .. LostTop - 1 /\ Len(sub.events) <= Capacity
  BY <1>3 DEF IsStream
<1>5. \A i \in DOMAIN sub.events : sub.events[i] \in EventKinds
  BY <1>3 DEF IsStream
<1>6. sub.layout # None => \A i \in DOMAIN sub.layout : sub.layout[i].kind \in ChannelKinds
  <2>1. PICK s \in Streams : Configured(s, sub)
    BY DEF Invariant, Backing
  <2> QED BY <2>1, SvLinkAssumption DEF Configured
<1> QED BY <1>1, <1>2, <1>3, <1>4, <1>5, <1>6 DEF TypeOK

LEMMA InvariantBeliefIsBacked ==
    ASSUME Timely, Invariant
    PROVE  BeliefIsBacked
<1>0. Wrap \in Nat /\ Asdus \in Nat /\ MaxDelay \in Nat /\ StaleAfter \in Nat \ {0} /\ None \notin Nat
  BY LinkConstants, SubscriberConstants
<1> SUFFICES ASSUME sub.events = <<>>
             PROVE  (app <=> StreamLive(sub)) /\ (app /\ sub.deadline # 0 => truth.since < Wrap)
  BY DEF BeliefIsBacked
<1>1. app \in BOOLEAN /\ Sound(app, sub)
  BY DEF Invariant, Backing
<1>2. Believe(app, sub.events) = app
  BY BelieveNothing
<1>3. app <=> StreamLive(sub)
  BY <1>1, <1>2 DEF Sound, Backed
<1>4. ASSUME app, sub.deadline # 0 PROVE truth.since < Wrap
  <2>1. sub.deadline \in 1 .. StaleAfter /\ sub.deadline # None
    BY <1>0, <1>1, <1>3, <1>4 DEF Sound, IsStream, StreamLive
  <2>2. PICK k \in Int : k = MaxDelay + 1 + StaleAfter - sub.deadline
    BY <1>0, <2>1
  <2>3. truth.since < k * Asdus /\ truth.since \in Int
    BY <2>1, <2>2 DEF Invariant, Links
  <2>4. k <= MaxDelay + StaleAfter /\ MaxDelay + StaleAfter \in Int
    BY <1>0, <2>1, <2>2
  <2>5. k * Asdus <= (MaxDelay + StaleAfter) * Asdus /\ k * Asdus \in Int /\ (MaxDelay + StaleAfter) * Asdus \in Int
    BY <1>0, <2>4, Times
  <2>6. (MaxDelay + StaleAfter) * Asdus <= Wrap
    BY DEF Timely
  <2> QED BY <1>0, <2>3, <2>5, <2>6
<1> QED BY <1>3, <1>4

LEMMA InvariantStreamIsAsBelieved ==
    ASSUME SameStream, Timely, Invariant
    PROVE  StreamIsAsBelieved
<1>1. TestIsExclusive
  BY DEF Invariant, Links, TestIsExclusive
<1> QED BY <1>1, InvariantTypeOK, InvariantBeliefIsBacked DEF StreamIsAsBelieved

-----------------------------------------------------------------------------
(* The theorems                                                            *)

LEMMA InvariantAlways ==
    ASSUME SameStream, Timely, OneSource, Spelled
    PROVE  Spec => []Invariant
<1>1. Init => Invariant
  BY InitStep
<1>2. Invariant /\ [Next]_vars => Invariant'
  BY NextStep
<1> QED BY <1>1, <1>2, PTL DEF Spec

\* A template that is patched in place, or built again when a field of it is
\* too narrow, never sends what it did not mean: set_smp_synch, rebuild,
\* set_gm_identity, set_smp_cnt and publish leave every frame that waits or is
\* under way with consecutive samples, each count and block its own, under one
\* clock (proto/sv/publisher.rs).
THEOREM FramesAreAlwaysWhole ==
    ASSUME Timely, Spelled
    PROVE  Spec => []FramesWhole
<1>1. Init => Sent
  BY InitSent
<1>2. Sent /\ [Next]_vars => Sent'
  BY SentStep
<1>3. Sent => FramesWhole
  BY SentWhole
<1> QED BY <1>1, <1>2, <1>3, PTL DEF Spec

\* Whatever the network does to the frames, and the merging unit to its count,
\* accept adds to samples_lost, for a sample that is newer than the last, what was
\* measured between the two and not handed over, modulo the wrap, and check_stale
\* ends the stream before a hole of whole seconds can close
\* (proto/sv/subscriber.rs).
THEOREM LossIsAlwaysShown ==
    ASSUME SameStream, Timely, OneSource, Spelled
    PROVE  Spec => []LossIsShown
<1>1. Invariant => LossIsShown
  BY InvariantLossIsShown
<1> QED BY <1>1, InvariantAlways, PTL

\* An event queue of any capacity that drops its oldest event and says so, a
\* timer that check_stale serves, and a test set that simulation_policy_admits
\* or not: what the application believes of the stream is what the stream is
\* (proto/sv/subscriber.rs, EventQueue::push).
THEOREM StreamIsAlwaysAsBelieved ==
    ASSUME SameStream, Timely, OneSource, Spelled
    PROVE  Spec => []StreamIsAsBelieved
<1>1. Invariant => StreamIsAsBelieved
  BY InvariantStreamIsAsBelieved
<1> QED BY <1>1, InvariantAlways, PTL
=============================================================================
