---------------------------- MODULE AssociationProofs -------------------------
(***************************************************************************)
(* What the operations on one end of an association preserve, for every     *)
(* configuration whose budget the identifiers are enough for, every peer    *)
(* and every size of the event queue.                                       *)
(***************************************************************************)
EXTENDS Association, SequenceTheorems, FiniteSetTheorems, TLAPS

\* The identifiers that wait are told apart and fit the budget.
Numbers(d) ==
    /\ \A i, j \in DOMAIN d.outstanding : d.outstanding[i] = d.outstanding[j] => i = j
    /\ Len(d.outstanding) <= d.cfg.budget

\* What every operation keeps of an end.
Good(d) ==
    /\ d \in Ends /\ d.cfg.budget <= MaxInvoke
    /\ Numbers(d)
    /\ d.terms.budget <= d.cfg.budget
    /\ d.state = "Closed" => d.outstanding = <<>> /\ ~d.armed

\* x is an end like d to which the same requests are outstanding.
Kept(d, x) == Good(x) /\ x.outstanding = d.outstanding /\ x.cfg = d.cfg

-----------------------------------------------------------------------------
(* Sequences and numbers *)

LEMMA Removed ==
    ASSUME NEW S, NEW s \in Seq(S), NEW i \in 1 .. Len(s)
    PROVE  /\ RemoveAt(s, i) \in Seq(S)
           /\ Len(RemoveAt(s, i)) = Len(s) - 1
           /\ \A j \in 1 .. Len(s) - 1 : RemoveAt(s, i)[j] = IF j < i THEN s[j] ELSE s[j + 1]
<1> DEFINE a == SubSeq(s, 1, i - 1)
           b == SubSeq(s, i + 1, Len(s))
<1>1. Len(s) \in Nat /\ \A j \in 1 .. Len(s) : s[j] \in S
  OBVIOUS
<1>2. /\ a \in Seq(S) /\ Len(a) = i - 1
      /\ \A j \in 1 .. i - 1 : a[j] = s[j]
  BY <1>1, SubSeqProperties
<1>3. /\ b \in Seq(S) /\ Len(b) = Len(s) - i
      /\ \A j \in 1 .. Len(s) - i : b[j] = s[i + j]
  BY <1>1, SubSeqProperties
<1> HIDE DEF a, b
<1>0. /\ a \o b \in Seq(S)
      /\ Len(a \o b) = Len(a) + Len(b)
      /\ \A j \in 1 .. Len(a) + Len(b) : (a \o b)[j] = IF j <= Len(a) THEN a[j] ELSE b[j - Len(a)]
  BY <1>2, <1>3, ConcatProperties
<1>4. /\ a \o b \in Seq(S)
      /\ Len(a \o b) = Len(s) - 1
      /\ \A j \in 1 .. Len(s) - 1 : (a \o b)[j] = IF j <= i - 1 THEN a[j] ELSE b[j - (i - 1)]
  <2>1. Len(a) + Len(b) = Len(s) - 1
    BY <1>1, <1>2, <1>3
  <2> QED BY <1>0, <1>2, <2>1
<1>5. \A j \in 1 .. Len(s) - 1 : (a \o b)[j] = IF j < i THEN s[j] ELSE s[j + 1]
  <2> TAKE j \in 1 .. Len(s) - 1
  <2>1. CASE j < i
    <3>1. j \in 1 .. i - 1
      BY <2>1
    <3> QED BY <2>1, <3>1, <1>2, <1>4
  <2>2. CASE ~(j < i)
    <3>1. j - (i - 1) \in 1 .. Len(s) - i
      BY <2>2, <1>1
    <3>2. i + (j - (i - 1)) = j + 1
      BY <1>1
    <3>3. (a \o b)[j] = b[j - (i - 1)]
      BY <2>2, <1>1, <1>4
    <3>4. b[j - (i - 1)] = s[i + (j - (i - 1))]
      BY <3>1, <1>3
    <3> QED BY <2>2, <3>2, <3>3, <3>4
  <2> QED BY <2>1, <2>2
<1>6. RemoveAt(s, i) = a \o b
  BY DEF RemoveAt, a, b
<1> QED BY <1>4, <1>5, <1>6

LEMMA QuotientType ==
    ASSUME NEW a \in Nat, NEW b \in Nat \ {0}
    PROVE  a \div b \in Nat
OBVIOUS

-----------------------------------------------------------------------------
(* What is on the wire *)

LEMMA PieceTypes ==
    /\ NoPdu \in Pdus /\ NoInitiate \in Initiates /\ NoTsdu \in Tsdus /\ NoTerms \in Terms
    /\ \A s \in SpduKinds, i \in Insides : Control(s, i) \in Tsdus
    /\ \A s \in SpduKinds, i \in Initiates : Associate(s, i) \in Tsdus
    /\ \A p \in Pdus : UserData(p) \in Tsdus
    /\ \A k \in TpduKinds, exp \in Nat : Transport(k, exp) \in Tpdus
<1>1. NoPdu \in Pdus
  BY AssociationAssumption DEF NoPdu, Pdus, PduKinds
<1>2. NoInitiate \in Initiates /\ NoTerms \in Terms
  BY DEF NoInitiate, Initiates, NoTerms, Terms
<1>3. \A s \in SpduKinds, i \in Insides : Control(s, i) \in Tsdus
  BY <1>1, <1>2 DEF Control, Tsdus, ReleaseSize
<1>4. \A s \in SpduKinds, i \in Initiates : Associate(s, i) \in Tsdus
  BY <1>1 DEF Associate, Tsdus, Insides, AssociateSize
<1>5. \A p \in Pdus : UserData(p) \in Tsdus
  <2> TAKE p \in Pdus
  <2>1. p.size \in Nat
    BY DEF Pdus
  <2> QED BY <2>1, <1>2 DEF UserData, Tsdus, SpduKinds, Insides
<1>6. NoTsdu \in Tsdus
  BY <1>3 DEF NoTsdu, SpduKinds, Insides
<1>7. \A k \in TpduKinds, exp \in Nat : Transport(k, exp) \in Tpdus
  BY <1>6 DEF Transport, Tpdus
<1> QED BY <1>1, <1>2, <1>3, <1>4, <1>5, <1>6, <1>7

LEMMA ChunkType ==
    ASSUME NEW exp \in Nat
    PROVE  TpduData(exp) \in Nat \ {0}
<1> DEFINE i == Least(Most(exp, TpduSizeMinExp), TpduSizeMaxExp) - 6
<1>1. i \in 1 .. 7
  BY DEF Least, Most, TpduSizeMinExp, TpduSizeMaxExp
<1>2. Room[i] \in Nat /\ Room[i] >= 128
  BY <1>1 DEF Room
<1> QED BY <1>2 DEF TpduData

LEMMA SegmentsType ==
    ASSUME NEW t \in Tsdus, NEW chunk \in Nat \ {0}
    PROVE  Segments(t, chunk) \in Seq(Tpdus)
<1> DEFINE n == Pieces(t.size, chunk)
           piece(i) == [k |-> "DT", exp |-> 0, of |-> t, at |-> i,
                        len |-> IF i < n THEN chunk ELSE t.size - (n - 1) * chunk, eot |-> i = n]
<1>1. t.size \in Nat
  BY DEF Tsdus
<1>2. t.size + chunk - 1 \in Nat
  BY <1>1
<1>3. (t.size + chunk - 1) \div chunk \in Nat
  BY <1>2, QuotientType
<1>4. n \in Nat
  BY <1>3 DEF Pieces, Most
<1> HIDE DEF n
<1>5. \A i \in 1 .. n : piece(i) \in Tpdus
  <2> TAKE i \in 1 .. n
  <2>1. (n - 1) * chunk \in Int
    BY <1>4
  <2>2. (IF i < n THEN chunk ELSE t.size - (n - 1) * chunk) \in Int
    BY <1>1, <1>4, <2>1
  <2>3. i \in Int
    BY <1>4
  <2> QED BY <2>2, <2>3 DEF Tpdus, TpduKinds
<1> HIDE DEF piece
<1>6. [i \in 1 .. n |-> piece(i)] \in Seq(Tpdus)
  BY <1>4, <1>5, IsASeq
<1> QED BY <1>6 DEF Segments, n, piece

-----------------------------------------------------------------------------
(* Events *)

\* The event is of the end of the request id, or of everything.
Over(ev, id) ==
    ev.k = "Closed" \/ (ev.id = id /\ ev.k \in {"Response", "Rejected", "Cancelled", "Malformed", "Timeout"})

\* What stopped waiting between d and x is told of in x, if x is not full.
Told(d, x) ==
    \A id \in Outstanding(d) \ Outstanding(x) :
        \/ \E i \in DOMAIN x.events : Over(x.events[i], id)
        \/ Len(x.events) = Most(1, Capacity)

LEMMA PushedType ==
    ASSUME NEW q \in Seq(Events), NEW ev \in Events
    PROVE  /\ Pushed(q, ev) \in Seq(Events)
           /\ \E i \in DOMAIN Pushed(q, ev) : Pushed(q, ev)[i] = ev
<1> DEFINE rest == IF Len(q) >= Most(1, Capacity) THEN Tail(q) ELSE q
<1>1. Most(1, Capacity) >= 1
  BY AssociationAssumption DEF Most
<1>2. rest \in Seq(Events)
  BY <1>1, AssociationAssumption DEF Most
<1> HIDE DEF rest
<1>3. /\ Append(rest, ev) \in Seq(Events)
      /\ Len(Append(rest, ev)) = Len(rest) + 1
      /\ Append(rest, ev)[Len(rest) + 1] = ev
  BY <1>2, AppendProperties
<1>4. Len(rest) + 1 \in DOMAIN Append(rest, ev)
  BY <1>2, <1>3
<1> QED BY <1>3, <1>4 DEF Pushed, rest

LEMMA EventTypes ==
    /\ \A k \in EventKinds, id \in InvokeIds \cup {NoId} : Event(k, id) \in Events
    /\ \A k \in EventKinds, p \in Pdus : Carrying(k, p) \in Events
    /\ \A why \in Reasons : [k |-> "Closed", id |-> NoId, pdu |-> NoPdu, why |-> why] \in Events
<1>1. \A p \in Pdus : p.id \in InvokeIds \cup {NoId}
  BY DEF Pdus
<1> QED BY <1>1, PieceTypes DEF Event, Carrying, Events, EventKinds

LEMMA EmitKeeps ==
    ASSUME NEW d, Good(d), NEW ev \in Events
    PROVE  /\ Kept(d, Emit(d, ev))
           /\ Emit(d, ev).state = d.state
           /\ \E i \in DOMAIN Emit(d, ev).events : Emit(d, ev).events[i] = ev
<1> DEFINE x == Emit(d, ev)
<1>1. d \in Ends
  BY DEF Good
<1>2. Pushed(d.events, ev) \in Seq(Events)
  BY <1>1, PushedType DEF Ends
<1>3. x = [d EXCEPT !.events = Pushed(d.events, ev)]
  BY DEF Emit
<1>4. x \in Ends
  BY <1>1, <1>2, <1>3 DEF Ends
<1>5. /\ x.cfg = d.cfg /\ x.state = d.state /\ x.outstanding = d.outstanding
      /\ x.terms = d.terms /\ x.armed = d.armed /\ x.events = Pushed(d.events, ev)
  BY <1>1, <1>3 DEF Ends
<1>6. \E i \in DOMAIN x.events : x.events[i] = ev
  <2>1. d.events \in Seq(Events)
    BY <1>1 DEF Ends
  <2> QED BY <2>1, <1>5, PushedType
<1> HIDE DEF x
<1>7. Good(x)
  BY <1>4, <1>5 DEF Good, Numbers
<1>8. Kept(d, x) /\ x.state = d.state /\ \E i \in DOMAIN x.events : x.events[i] = ev
  BY <1>5, <1>6, <1>7 DEF Kept
<1> QED BY <1>8 DEF x

LEMMA KeptTells ==
    ASSUME NEW d, NEW x, x.outstanding = d.outstanding
    PROVE  Told(d, x)
BY DEF Told, Outstanding

\* Whatever an operation did before, to close leaves an end that waits for
\* nothing and has said so.
LEMMA CloseGood ==
    ASSUME NEW d, NEW x, Kept(d, x), x.state = d.state, Good(d), NEW why \in Reasons
    PROVE  Good(Close(x, why)) /\ Told(d, Close(x, why)) /\ Close(x, why).cfg = d.cfg
<1>1. x \in Ends /\ Good(x) /\ x.outstanding = d.outstanding /\ x.cfg = d.cfg
  BY DEF Kept, Good
<1>2. CASE x.state = "Closed"
  BY <1>1, <1>2, KeptTells DEF Close
<1>3. CASE x.state # "Closed"
  <2> DEFINE y == [x EXCEPT !.state = "Closed", !.armed = FALSE, !.outstanding = <<>>, !.parts = <<>>]
             ev == [k |-> "Closed", id |-> NoId, pdu |-> NoPdu, why |-> why]
  <2>0. <<>> \in Seq(InvokeIds) /\ <<>> \in Seq(Tpdus) /\ "Closed" \in States
    BY EmptySeq DEF States
  <2> HIDE DEF ev
  <2>1. y \in Ends
    BY <1>1, <2>0 DEF Ends
  <2> USE DEF ev
  <2>2. /\ y.cfg = x.cfg /\ y.terms = x.terms /\ y.outstanding = <<>> /\ y.state = "Closed" /\ ~y.armed
    BY <1>1 DEF Ends
  <2>3. x.cfg.budget \in Nat
    BY <1>1 DEF Ends, Configs
  <2>4. Good(y)
    BY <1>1, <2>1, <2>2, <2>3 DEF Good, Numbers
  <2>5. ev \in Events
    BY EventTypes
  <2>6. Close(x, why) = Emit(y, ev)
    BY <1>3 DEF Close
  <2>7. ev.k = "Closed"
    OBVIOUS
  <2> HIDE DEF y, ev
  <2>8. Kept(y, Emit(y, ev)) /\ \E i \in DOMAIN Emit(y, ev).events : Emit(y, ev).events[i] = ev
    BY <2>4, <2>5, EmitKeeps
  <2>9. Told(d, Emit(y, ev))
    BY <2>7, <2>8 DEF Told, Over
  <2> QED BY <1>1, <2>2, <2>6, <2>8, <2>9 DEF Kept
<1> QED BY <1>2, <1>3

LEMMA SelfKept == ASSUME NEW d, Good(d) PROVE Kept(d, d)
BY DEF Kept

LEMMA FailGood ==
    ASSUME NEW d, NEW x, Kept(d, x), x.state = d.state, Good(d)
    PROVE  Good(Fail(x)) /\ Told(d, Fail(x)) /\ Fail(x).cfg = d.cfg
<1> DEFINE y == Emit(x, Event("Malformed", NoId))
<1>1. Event("Malformed", NoId) \in Events
  BY EventTypes DEF EventKinds
<1>2. Kept(x, y) /\ y.state = x.state
  BY <1>1, EmitKeeps DEF Kept
<1>3. Kept(d, y) /\ y.state = d.state
  BY <1>2 DEF Kept
<1> QED BY <1>3, CloseGood DEF Fail, Reasons

LEMMA QueueKeeps ==
    ASSUME NEW d, Good(d), NEW tpdus \in Seq(Tpdus)
    PROVE  Kept(d, Queue(d, tpdus)) /\ Queue(d, tpdus).state = d.state
<1> DEFINE x == Queue(d, tpdus)
<1>1. d \in Ends
  BY DEF Good
<1>2. d.out \o tpdus \in Seq(Tpdus)
  BY <1>1 DEF Ends
<1>3. x = [d EXCEPT !.out = d.out \o tpdus]
  BY DEF Queue
<1>4. x \in Ends
  BY <1>1, <1>2, <1>3 DEF Ends
<1>5. /\ x.cfg = d.cfg /\ x.state = d.state /\ x.outstanding = d.outstanding
      /\ x.terms = d.terms /\ x.armed = d.armed
  BY <1>1, <1>3 DEF Ends
<1> HIDE DEF x
<1>6. Kept(d, x) /\ x.state = d.state
  BY <1>4, <1>5 DEF Kept, Good, Numbers
<1> QED BY <1>6 DEF x

LEMMA SendTsduKeeps ==
    ASSUME NEW d, Good(d), NEW t \in Tsdus
    PROVE  Kept(d, SendTsdu(d, t)) /\ SendTsdu(d, t).state = d.state
<1>1. d.chunk \in Nat \ {0}
  BY DEF Good, Ends
<1> QED BY <1>1, SegmentsType, QueueKeeps DEF SendTsdu

\* The fields an operation sets before or after it sends, with an end that does
\* not close by it.
LEMMA SetKeeps ==
    ASSUME NEW d, Good(d), NEW state \in States \ {"Closed"}, NEW armed \in BOOLEAN
    PROVE  Kept(d, [d EXCEPT !.state = state, !.armed = armed])
<1> DEFINE x == [d EXCEPT !.state = state, !.armed = armed]
<1>1. d \in Ends
  BY DEF Good
<1>2. x \in Ends
  BY <1>1 DEF Ends
<1>3. x.cfg = d.cfg /\ x.state = state /\ x.outstanding = d.outstanding /\ x.terms = d.terms
  BY <1>1 DEF Ends
<1> HIDE DEF x
<1>4. Kept(d, x)
  BY <1>2, <1>3 DEF Kept, Good, Numbers
<1> QED BY <1>4 DEF x

LEMMA ChunkSetKeeps ==
    ASSUME NEW d, Good(d), NEW chunk \in Nat \ {0}, NEW state \in States \ {"Closed"}, NEW armed \in BOOLEAN
    PROVE  Kept(d, [d EXCEPT !.chunk = chunk, !.state = state, !.armed = armed])
<1> DEFINE x == [d EXCEPT !.chunk = chunk, !.state = state, !.armed = armed]
<1>1. d \in Ends
  BY DEF Good
<1>2. x \in Ends
  BY <1>1 DEF Ends
<1>3. x.cfg = d.cfg /\ x.state = state /\ x.outstanding = d.outstanding /\ x.terms = d.terms
  BY <1>1 DEF Ends
<1> HIDE DEF x
<1>4. Kept(d, x)
  BY <1>2, <1>3 DEF Kept, Good, Numbers
<1> QED BY <1>4 DEF x

LEMMA EstablishedKeeps ==
    ASSUME NEW d, Good(d), NEW terms \in Terms, terms.budget <= d.cfg.budget
    PROVE  Kept(d, Established(d, terms))
<1> DEFINE x == [d EXCEPT !.state = "Established", !.armed = FALSE, !.terms = terms]
<1>1. d \in Ends
  BY DEF Good
<1>2. x \in Ends
  BY <1>1 DEF Ends, States
<1>3. x.cfg = d.cfg /\ x.state = "Established" /\ x.outstanding = d.outstanding /\ x.terms = terms
  BY <1>1 DEF Ends
<1>4. Established(d, terms) = Emit(x, Event("Established", NoId))
  BY DEF Established
<1> HIDE DEF x
<1>5. Kept(d, x)
  BY <1>2, <1>3 DEF Kept, Good, Numbers
<1>6. Event("Established", NoId) \in Events
  BY EventTypes DEF EventKinds
<1> QED BY <1>4, <1>5, <1>6, EmitKeeps DEF Kept

-----------------------------------------------------------------------------
(* Identifiers *)

LEMMA LessIsWellFounded ==
    \E R : IsWellFoundedOn(R, Nat) /\ \A m, n \in Nat : m < n => <<m, n>> \in R
<1>1. \A m, n \in Nat : m < n => <<m, n>> \in OpToRel(<, Nat)
  BY Zenon DEF OpToRel
<1> QED BY <1>1, NatLessThanWellFounded, Zenon

LEMMA LeastOf ==
    ASSUME NEW T, T \subseteq Nat, T # {}
    PROVE  \E k \in T : \A j \in T : k <= j
<1>1. PICK R : IsWellFoundedOn(R, Nat) /\ \A m, n \in Nat : m < n => <<m, n>> \in R
  BY LessIsWellFounded
<1>0. IsWellFoundedOn(R, Nat)
  BY <1>1
<1>2. PICK k \in T : \A j \in T : ~(<<j, k>> \in R)
  <2>1. T \subseteq Nat /\ T # {}
    OBVIOUS
  <2>2. \E x \in T : \A y \in T : ~(<<y, x>> \in R)
    BY <1>0, <2>1, WFMin, Zenon
  <2> QED BY <2>2, Zenon
<1>3. \A j \in T : ~(j < k)
  BY <1>1, <1>2
<1>4. \A j \in T : k <= j
  BY <1>3
<1> QED BY <1>4

\* Fewer than MaxInvoke steps from `next` no identifier comes twice.
LEMMA CandidateProperties ==
    ASSUME NEW d, Good(d), Len(d.outstanding) < MaxInvoke
    PROVE  /\ \A k \in 0 .. Len(d.outstanding) : Candidate(d, k) \in InvokeIds
           /\ \A j, k \in 0 .. Len(d.outstanding) : Candidate(d, j) = Candidate(d, k) => j = k
<1>1. d.next \in 1 .. MaxInvoke /\ MaxInvoke \in Nat
  BY AssociationAssumption DEF Good, Ends, InvokeIds
<1>2. Len(d.outstanding) \in Nat /\ Len(d.outstanding) < MaxInvoke
  BY DEF Good, Ends
<1> DEFINE n == Len(d.outstanding)
           a == d.next
<1>3. \A k \in 0 .. n : Candidate(d, k) = IF a + k > MaxInvoke THEN a + k - MaxInvoke ELSE a + k
  BY DEF Candidate
<1>4. a \in 1 .. MaxInvoke /\ n \in Nat /\ n < MaxInvoke
  BY <1>1, <1>2
<1> HIDE DEF n, a
<1>5. \A k \in 0 .. n : Candidate(d, k) \in InvokeIds
  BY <1>1, <1>3, <1>4 DEF InvokeIds
<1>6. \A j, k \in 0 .. n : Candidate(d, j) = Candidate(d, k) => j = k
  BY <1>1, <1>3, <1>4
<1> QED BY <1>5, <1>6 DEF n

LEMMA SomeFree ==
    ASSUME NEW d, Good(d), Len(d.outstanding) < MaxInvoke
    PROVE  Free(d) # {}
<1> DEFINE n == Len(d.outstanding)
           f == [k \in 0 .. n |-> CHOOSE i \in 1 .. n : d.outstanding[i] = Candidate(d, k)]
<1>1. n \in Nat /\ DOMAIN d.outstanding = 1 .. n
  BY DEF Good, Ends
<1> SUFFICES ASSUME Free(d) = {} PROVE FALSE
  OBVIOUS
<1>2. \A k \in 0 .. n : \E i \in 1 .. n : d.outstanding[i] = Candidate(d, k)
  BY <1>1 DEF Free, Outstanding
<1>3. \A k \in 0 .. n : f[k] \in 1 .. n /\ d.outstanding[f[k]] = Candidate(d, k)
  BY <1>2
<1> HIDE DEF f
<1>4. f \in [0 .. n -> 1 .. n]
  BY <1>3 DEF f
<1>5. /\ IsFiniteSet(0 .. n) /\ Cardinality(0 .. n) = n + 1
      /\ IsFiniteSet(1 .. n) /\ Cardinality(1 .. n) = n
  BY <1>1, FS_Interval
<1>6. \E j, k \in 0 .. n : j # k /\ f[j] = f[k]
  <2>1. Cardinality(1 .. n) < Cardinality(0 .. n)
    BY <1>1, <1>5
  <2> QED BY SMTT(30), <2>1, <1>4, <1>5, FS_PigeonHole
<1>7. PICK j \in 0 .. n, k \in 0 .. n : j # k /\ f[j] = f[k]
  BY <1>6
<1>8. Candidate(d, j) = Candidate(d, k)
  BY <1>3, <1>7
<1> QED BY <1>7, <1>8, CandidateProperties

\* The number a call takes is nobody's who waits.
LEMMA TakenProperties ==
    ASSUME NEW d, Good(d), MayCall(d)
    PROVE  /\ Taken(d) \in InvokeIds \ Outstanding(d)
           /\ Successor(Taken(d)) \in InvokeIds
<1>0. Len(d.outstanding) < MaxInvoke
  <2>1. /\ Len(d.outstanding) \in Nat /\ d.terms.budget \in Nat
        /\ d.cfg.budget \in Nat /\ MaxInvoke \in Nat
    BY AssociationAssumption DEF Good, Ends, Terms, Configs
  <2> QED BY <2>1 DEF Good, MayCall
<1>1. Free(d) \subseteq Nat /\ Free(d) # {}
  BY <1>0, SomeFree DEF Free
<1>2. Skipped(d) \in Free(d)
  BY <1>1, LeastOf DEF Skipped
<1>3. Taken(d) \in InvokeIds \ Outstanding(d)
  BY <1>0, <1>1, <1>2, CandidateProperties DEF Taken, Free
<1>4. Successor(Taken(d)) \in InvokeIds
  BY <1>3, AssociationAssumption DEF Successor, InvokeIds
<1> QED BY <1>3, <1>4

-----------------------------------------------------------------------------
(* What the layer above asks for *)

\* An operation leaves a good end, and tells of what stopped waiting.
Fine(d, x) == Good(x) /\ Told(d, x) /\ x.cfg = d.cfg

LEMMA KeptIsFine ==
    ASSUME NEW d, NEW x, Kept(d, x)
    PROVE  Fine(d, x)
BY KeptTells DEF Kept, Fine

LEMMA StartFine ==
    ASSUME NEW d, Good(d)
    PROVE  Fine(d, Start(d))
<1>1. d.cfg.exp \in Nat /\ d.cfg.connect \in BOOLEAN
  BY DEF Good, Ends, Configs
<1> DEFINE cr == Transport("CR", d.cfg.exp)
           x == Queue(d, <<cr>>)
<1>2. <<cr>> \in Seq(Tpdus)
  <2>1. cr \in Tpdus
    BY <1>1, PieceTypes DEF TpduKinds
  <2> HIDE DEF cr
  <2> QED BY <2>1
<1>3. Kept(d, x)
  BY <1>2, QueueKeeps
<1> HIDE DEF x
<1>4. Kept(x, [x EXCEPT !.state = "Connecting", !.armed = d.cfg.connect])
  <2>1. "Connecting" \in States \ {"Closed"} /\ Good(x)
    BY <1>3 DEF Kept, States
  <2> QED BY <1>1, <2>1, SetKeeps
<1>5. Kept(d, [x EXCEPT !.state = "Connecting", !.armed = d.cfg.connect])
  BY <1>3, <1>4 DEF Kept
<1>6. Kept(d, Start(d))
  BY <1>5, SelfKept DEF Start, x
<1> QED BY <1>6, KeptIsFine

LEMMA SendKeeps ==
    ASSUME NEW d, Good(d), NEW p \in Pdus
    PROVE  Kept(d, Send(d, p)) /\ Send(d, p).state = d.state
<1>1. UserData(p) \in Tsdus
  BY PieceTypes
<1> QED BY <1>1, SendTsduKeeps, SelfKept DEF Send

LEMMA PduType ==
    ASSUME NEW k \in PduKinds, NEW id \in InvokeIds \cup {NoId}, NEW size \in Nat, NEW says \in Payloads
    PROVE  Pdu(k, id, size, says) \in Pdus
BY DEF Pdu, Pdus

LEMMA CallFine ==
    ASSUME NEW d, Good(d), NEW size \in Nat, NEW says \in Payloads
    PROVE  Fine(d, Call(d, size, says))
<1>1. CASE ~MayCall(d)
  BY <1>1, SelfKept, KeptIsFine DEF Call
<1>2. CASE MayCall(d)
  <2> DEFINE id == Taken(d)
             x == [d EXCEPT !.next = Successor(id)]
             p == Pdu("Request", id, size, says)
             y == Send(x, p)
             z == [y EXCEPT !.outstanding = Append(y.outstanding, id)]
  <2>1. id \in InvokeIds /\ id \notin Outstanding(d) /\ Successor(id) \in InvokeIds
    BY <1>2, TakenProperties
  <2>2. p \in Pdus
    BY <2>1, PduType DEF PduKinds
  <2>3. Call(d, size, says) = IF MaySend(d, size) THEN z ELSE x
    BY <1>2 DEF Call
  <2> HIDE DEF id, p
  <2>4. d \in Ends
    BY DEF Good
  <2>5. x \in Ends
    BY <2>1, <2>4 DEF Ends
  <2>6. /\ x.cfg = d.cfg /\ x.state = d.state /\ x.outstanding = d.outstanding
        /\ x.terms = d.terms /\ x.armed = d.armed
    BY <2>4 DEF Ends
  <2> HIDE DEF x
  <2>7. Kept(d, x)
    BY <2>5, <2>6 DEF Kept, Good, Numbers
  <2>8. Kept(x, y) /\ y.state = x.state
    BY <2>2, <2>7, SendKeeps DEF Kept
  <2> HIDE DEF y
  <2>9. /\ y \in Ends /\ y.outstanding = d.outstanding /\ y.cfg = d.cfg
        /\ y.terms.budget <= y.cfg.budget /\ y.cfg.budget <= MaxInvoke
        /\ y.state = "Established"
    BY <1>2, <2>6, <2>7, <2>8 DEF Kept, Good, MayCall
  <2>10. /\ d.outstanding \in Seq(InvokeIds)
         /\ Len(d.outstanding) < d.terms.budget
         /\ d.terms.budget <= d.cfg.budget /\ d.terms.budget \in Nat /\ d.cfg.budget \in Nat
         /\ \A i, j \in DOMAIN d.outstanding : d.outstanding[i] = d.outstanding[j] => i = j
    BY <1>2, <2>4 DEF MayCall, Good, Numbers, Ends, Terms, Configs
  <2>11. /\ Append(d.outstanding, id) \in Seq(InvokeIds)
         /\ Len(Append(d.outstanding, id)) = Len(d.outstanding) + 1
         /\ \A i \in 1 .. Len(d.outstanding) : Append(d.outstanding, id)[i] = d.outstanding[i]
         /\ Append(d.outstanding, id)[Len(d.outstanding) + 1] = id
    BY <2>1, <2>10, AppendProperties
  <2>12. z \in Ends
    BY <2>9, <2>11 DEF Ends
  <2>13. /\ z.outstanding = Append(d.outstanding, id) /\ z.cfg = y.cfg
         /\ z.terms = y.terms /\ z.state = "Established"
    BY <2>9 DEF Ends
  <2> HIDE DEF z
  <2>14. \A i \in 1 .. Len(d.outstanding) : d.outstanding[i] # id
    BY <2>1, <2>10 DEF Outstanding
  <2>15. DOMAIN z.outstanding = 1 .. Len(d.outstanding) + 1 /\ Len(d.outstanding) \in Nat
    BY <2>10, <2>11, <2>13
  <2>16. \A i, j \in DOMAIN z.outstanding : z.outstanding[i] = z.outstanding[j] => i = j
    <3> TAKE i, j \in DOMAIN z.outstanding
    <3>1. /\ i \in 1 .. Len(d.outstanding) \/ i = Len(d.outstanding) + 1
          /\ j \in 1 .. Len(d.outstanding) \/ j = Len(d.outstanding) + 1
      BY <2>15
    <3>2. DOMAIN d.outstanding = 1 .. Len(d.outstanding)
      BY <2>10
    <3> QED BY <3>1, <3>2, <2>10, <2>11, <2>13, <2>14
  <2>17. Len(z.outstanding) <= z.cfg.budget
    BY <2>9, <2>10, <2>11, <2>13
  <2>18. Good(z)
    BY <2>9, <2>12, <2>13, <2>16, <2>17 DEF Good, Numbers
  <2>19. Outstanding(d) \subseteq Outstanding(z)
    <3> SUFFICES ASSUME NEW i \in DOMAIN d.outstanding
                 PROVE  d.outstanding[i] \in Outstanding(z)
      BY DEF Outstanding
    <3>1. i \in 1 .. Len(d.outstanding)
      BY <2>10
    <3>2. i \in DOMAIN z.outstanding /\ z.outstanding[i] = d.outstanding[i]
      BY <3>1, <2>11, <2>13, <2>15
    <3> QED BY <3>2 DEF Outstanding
  <2>20. Fine(d, z)
    BY <2>9, <2>13, <2>18, <2>19 DEF Fine, Told
  <2>21. Fine(d, x)
    BY <2>7, KeptIsFine
  <2> QED BY <2>3, <2>20, <2>21
<1> QED BY <1>1, <1>2

LEMMA CancelFine ==
    ASSUME NEW d, Good(d), NEW id \in InvokeIds
    PROVE  Fine(d, Cancel(d, id))
<1>1. NoPdu.says \in Payloads
  BY PieceTypes DEF Pdus
<1>2. Pdu("CancelRequest", id, 10, NoPdu.says) \in Pdus
  BY <1>1, PduType DEF PduKinds
<1> QED BY <1>2, SendKeeps, SelfKept, KeptIsFine DEF Cancel

LEMMA ReleaseFine ==
    ASSUME NEW d, Good(d)
    PROVE  Fine(d, Release(d))
<1> DEFINE t == Control("Finish", "Release")
           x == SendTsdu(d, t)
<1>1. t \in Tsdus
  BY PieceTypes DEF SpduKinds, Insides
<1>2. Kept(d, x)
  BY <1>1, SendTsduKeeps
<1> HIDE DEF x
<1>3. Kept(x, [x EXCEPT !.state = "Releasing", !.armed = TRUE])
  <2>1. "Releasing" \in States \ {"Closed"} /\ Good(x)
    BY <1>2 DEF Kept, States
  <2> QED BY <2>1, SetKeeps
<1>4. Kept(d, [x EXCEPT !.state = "Releasing", !.armed = TRUE])
  BY <1>2, <1>3 DEF Kept
<1>5. Kept(d, Release(d))
  BY <1>4, SelfKept DEF Release, x
<1> QED BY <1>5, KeptIsFine

LEMMA AbortFine ==
    ASSUME NEW d, Good(d)
    PROVE  Fine(d, Abort(d))
<1> DEFINE dr == Transport("DR", 0)
<1>1. dr \in Tpdus
  BY PieceTypes DEF TpduKinds
<1> HIDE DEF dr
<1>2. Kept(d, Queue(d, <<dr>>)) /\ Queue(d, <<dr>>).state = d.state
  <2>1. <<dr>> \in Seq(Tpdus)
    BY <1>1
  <2> QED BY <2>1, QueueKeeps
<1>3. Fine(d, Close(Queue(d, <<dr>>), "Aborted"))
  BY <1>2, CloseGood DEF Fine, Reasons
<1> QED BY <1>3, SelfKept, KeptIsFine DEF Abort, dr

-----------------------------------------------------------------------------
(* Timeouts *)

LEMMA LastOfProperties ==
    ASSUME NEW q \in Seq(Events)
    PROVE  /\ LastOf(q) \in Seq(Events)
           /\ LastOf(q) = q \/ Len(LastOf(q)) = Most(1, Capacity)
<1> DEFINE cap == Most(1, Capacity)
           m == Most(0, Len(q) - cap)
<1>1. cap \in Nat \ {0}
  BY AssociationAssumption DEF Most
<1>2. Len(q) \in Nat /\ \A i \in 1 .. Len(q) : q[i] \in Events
  OBVIOUS
<1>3. m \in Nat /\ (m = 0 \/ m = Len(q) - cap)
  BY <1>1, <1>2 DEF Most
<1>4. LastOf(q) = SubSeq(q, m + 1, Len(q))
  BY DEF LastOf
<1> HIDE DEF cap, m
<1>5. /\ SubSeq(q, m + 1, Len(q)) \in Seq(Events)
      /\ Len(SubSeq(q, m + 1, Len(q))) = IF m + 1 <= Len(q) THEN Len(q) - (m + 1) + 1 ELSE 0
  <2>1. m + 1 \in Int /\ Len(q) \in Int /\ \A i \in m + 1 .. Len(q) : q[i] \in Events
    BY <1>2, <1>3
  <2> QED BY <2>1, SubSeqProperties
<1>6. m = 0 => SubSeq(q, m + 1, Len(q)) = q
  BY SubSeqFull
<1>7. m # 0 => Len(SubSeq(q, m + 1, Len(q))) = cap
  BY <1>1, <1>2, <1>3, <1>5
<1> QED BY <1>4, <1>5, <1>6, <1>7 DEF cap

LEMMA ExpireFine ==
    ASSUME NEW d, Good(d), NEW n \in 0 .. Len(d.outstanding)
    PROVE  Fine(d, Expire(d, n))
<1>1. CASE ~d.cfg.request \/ n = 0
  BY <1>1, SelfKept, KeptIsFine DEF Expire
<1>2. CASE d.cfg.request /\ n # 0
  <2> DEFINE s == d.outstanding
             told(i) == Event("Timeout", s[i])
             late == [i \in 1 .. n |-> told(i)]
             q == d.events \o late
             rest == SubSeq(s, n + 1, Len(s))
             x == [d EXCEPT !.outstanding = rest, !.events = LastOf(q)]
  <2>1. d \in Ends
    BY DEF Good
  <2>2. s \in Seq(InvokeIds) /\ d.events \in Seq(Events)
    BY <2>1 DEF Ends
  <2>3. Len(s) \in Nat /\ n \in 0 .. Len(s) /\ \A i \in 1 .. Len(s) : s[i] \in InvokeIds
    BY <2>2
  <2>4. \A i \in 1 .. n : told(i) \in Events /\ Over(told(i), s[i])
    <3> TAKE i \in 1 .. n
    <3>1. s[i] \in InvokeIds
      BY <2>3
    <3>2. Event("Timeout", s[i]) \in Events
      BY <3>1, EventTypes DEF EventKinds
    <3> QED BY <3>2 DEF Over, Event
  <2>5. /\ rest \in Seq(InvokeIds)
        /\ Len(rest) = Len(s) - n
        /\ \A i \in 1 .. Len(s) - n : rest[i] = s[n + i]
    <3>1. n + 1 \in Int /\ Len(s) \in Int /\ \A i \in n + 1 .. Len(s) : s[i] \in InvokeIds
      BY <2>3
    <3>2. /\ rest \in Seq(InvokeIds)
          /\ Len(rest) = IF n + 1 <= Len(s) THEN Len(s) - (n + 1) + 1 ELSE 0
          /\ \A i \in 1 .. Len(s) - (n + 1) + 1 : rest[i] = s[n + 1 + i - 1]
      BY <3>1, SubSeqProperties
    <3> QED BY <2>3, <3>2
  <2> HIDE DEF told
  <2>6. late \in Seq(Events) /\ Len(late) = n
    <3>1. n \in Nat
      BY <2>3
    <3>2. late \in Seq(Events)
      BY <2>4, <3>1, IsASeq
    <3>3. DOMAIN late = 1 .. n
      OBVIOUS
    <3> QED BY <3>1, <3>2, <3>3, LenProperties
  <2>7. /\ q \in Seq(Events) /\ Len(q) = Len(d.events) + n
        /\ \A i \in 1 .. n : q[Len(d.events) + i] = told(i)
    <3> HIDE DEF late
    <3>1. /\ q \in Seq(Events) /\ Len(q) = Len(d.events) + Len(late)
          /\ \A i \in 1 .. Len(d.events) + Len(late) :
                 q[i] = IF i <= Len(d.events) THEN d.events[i] ELSE late[i - Len(d.events)]
      BY <2>2, <2>6, ConcatProperties
    <3>2. \A i \in 1 .. n : q[Len(d.events) + i] = late[i]
      <4> TAKE i \in 1 .. n
      <4>1. Len(d.events) \in Nat /\ n \in Nat /\ i \in 1 .. n
        BY <2>2, <2>3
      <4>2. /\ Len(d.events) + i \in 1 .. Len(d.events) + Len(late)
            /\ ~(Len(d.events) + i <= Len(d.events))
            /\ (Len(d.events) + i) - Len(d.events) = i
        BY <4>1, <2>6
      <4> HIDE DEF q
      <4> QED BY <3>1, <4>2
    <3> USE DEF late
    <3> QED BY <3>1, <3>2, <2>6
  <2> HIDE DEF late, q, rest
  <2>8. x \in Ends
    BY <2>1, <2>5, <2>7, LastOfProperties DEF Ends
  <2>9. /\ x.cfg = d.cfg /\ x.state = d.state /\ x.terms = d.terms /\ x.armed = d.armed
        /\ x.outstanding = rest /\ x.events = LastOf(q)
    BY <2>1 DEF Ends
  <2>10. Expire(d, n) = x
    BY <1>2 DEF Expire, rest, q, late, told
  <2> HIDE DEF x
  <2>11. d.cfg.budget \in Nat /\ Len(s) <= d.cfg.budget /\ DOMAIN s = 1 .. Len(s)
    BY <2>1, <2>2 DEF Good, Numbers, Ends, Configs
  <2>12. DOMAIN rest = 1 .. Len(s) - n
    BY <2>3, <2>5
  <2>13. \A i, j \in DOMAIN rest : rest[i] = rest[j] => i = j
    <3> TAKE i, j \in DOMAIN rest
    <3>0. i \in 1 .. Len(s) - n /\ j \in 1 .. Len(s) - n
      BY <2>12
    <3> HIDE DEF s
    <3>1. /\ n + i \in 1 .. Len(s) /\ n + j \in 1 .. Len(s)
          /\ rest[i] = s[n + i] /\ rest[j] = s[n + j]
      <4>1. n + i \in 1 .. Len(s) /\ n + j \in 1 .. Len(s)
        BY <2>3, <3>0
      <4>2. rest[i] = s[n + i] /\ rest[j] = s[n + j]
        BY <2>5, <3>0
      <4> QED BY <4>1, <4>2
    <3> USE DEF s
    <3>2. s[n + i] = s[n + j] => n + i = n + j
      BY <3>1, <2>11 DEF Good, Numbers
    <3> QED BY <3>1, <3>2, <2>3, <2>12
  <2>14. d.state # "Closed"
    <3>1. s # <<>>
      BY <1>2, <2>3
    <3> QED BY <3>1 DEF Good
  <2>15. Good(x)
    <3>1. Len(rest) <= d.cfg.budget
      BY <2>3, <2>5, <2>11
    <3> QED BY <2>8, <2>9, <2>13, <2>14, <3>1 DEF Good, Numbers
  <2>16. Told(d, x)
    <3> SUFFICES ASSUME NEW id \in Outstanding(d) \ Outstanding(x), Len(x.events) # Most(1, Capacity)
                 PROVE  \E i \in DOMAIN x.events : Over(x.events[i], id)
      BY DEF Told
    <3>1. x.events = q
      BY <2>7, <2>9, LastOfProperties
    <3>2. PICK j \in 1 .. Len(s) : s[j] = id
      BY <2>11 DEF Outstanding
    <3>3. j <= n
      <4> SUFFICES ASSUME j > n PROVE FALSE
        BY <2>3
      <4>1. j - n \in DOMAIN rest /\ n + (j - n) = j
        BY <2>3, <2>12
      <4>2. rest[j - n] = id
        BY <4>1, <3>2, <2>5, <2>12
      <4> QED BY <4>1, <4>2, <2>9 DEF Outstanding
    <3>4. j \in 1 .. n
      BY <3>3, <2>3
    <3>5. Len(d.events) + j \in DOMAIN q
      BY <3>4, <2>2, <2>3, <2>7
    <3> QED BY <3>1, <3>2, <3>4, <3>5, <2>4, <2>7
  <2> QED BY <2>9, <2>10, <2>15, <2>16 DEF Fine
<1>3. d.cfg.request \in BOOLEAN
  BY DEF Good, Ends, Configs
<1> QED BY <1>1, <1>2, <1>3

LEMMA OnTimeoutFine ==
    ASSUME NEW d, Good(d), NEW late \in BOOLEAN, NEW n \in 0 .. Len(d.outstanding)
    PROVE  Fine(d, OnTimeout(d, late, n))
<1>1. Fine(d, Close(d, "Released")) /\ Fine(d, Close(d, "ConnectTimeout"))
  BY SelfKept, CloseGood DEF Fine, Reasons
<1> QED BY <1>1, ExpireFine DEF OnTimeout

-----------------------------------------------------------------------------
(* What the peer sends *)

LEMMA FineAfter ==
    ASSUME NEW d, NEW x, NEW y, Kept(d, x), Fine(x, y)
    PROVE  Fine(d, y)
BY DEF Kept, Fine, Told, Outstanding

LEMMA CloseFine ==
    ASSUME NEW d, Good(d)
    PROVE  \A why \in Reasons : Fine(d, Close(d, why))
BY SelfKept, CloseGood DEF Fine

LEMMA FailFine ==
    ASSUME NEW d, Good(d)
    PROVE  Fine(d, Fail(d))
BY SelfKept, FailGood DEF Fine

LEMMA SizeExpType ==
    ASSUME NEW d, Good(d), NEW exp \in Nat
    PROVE  SizeExp(d, exp) \in Nat
<1>1. d.cfg.exp \in Nat
  BY DEF Good, Ends, Configs
<1> QED BY <1>1 DEF SizeExp, Least, TpduSizeMinExp

LEMMA OnConnectionRequestFine ==
    ASSUME NEW d, Good(d), NEW exp \in Nat
    PROVE  Fine(d, OnConnectionRequest(d, exp))
<1>1. CASE d.role # "Server"
  BY <1>1, CloseFine DEF OnConnectionRequest, Reasons
<1>2. CASE d.role = "Server"
  <2> DEFINE s == SizeExp(d, exp)
             cc == Transport("CC", s)
             x == Queue(d, <<cc>>)
             y == [x EXCEPT !.chunk = TpduData(s), !.state = "Associating", !.armed = d.cfg.connect \/ x.armed]
  <2>1. s \in Nat
    BY SizeExpType
  <2> HIDE DEF s
  <2>2. cc \in Tpdus
    BY <2>1, PieceTypes DEF TpduKinds
  <2> HIDE DEF cc
  <2>3. <<cc>> \in Seq(Tpdus)
    BY <2>2
  <2>4. Kept(d, x)
    BY <2>3, QueueKeeps
  <2> HIDE DEF x
  <2>5. "Associating" \in States \ {"Closed"} /\ Good(x) /\ (d.cfg.connect \/ x.armed) \in BOOLEAN
    BY <2>4 DEF Kept, States
  <2>6. TpduData(s) \in Nat \ {0}
    BY <2>1, ChunkType
  <2>7. Kept(x, y)
    BY <2>5, <2>6, ChunkSetKeeps
  <2> HIDE DEF y
  <2>8. Fine(d, y)
    BY <2>4, <2>7, KeptIsFine, FineAfter
  <2>9. OnConnectionRequest(d, exp) = y
    BY <1>2 DEF OnConnectionRequest, y, x, cc, s
  <2> QED BY <2>8, <2>9
<1> QED BY <1>1, <1>2

LEMMA ProposalTypes ==
    ASSUME NEW d, Good(d), NEW init \in Initiates, NEW mine \in Nat
    PROVE  /\ Proposal(d.cfg) \in Initiates
           /\ Answer(d.cfg, init) \in Initiates
           /\ Agreed(d, init, mine) \in Terms
           /\ Agreed(d, init, mine).budget <= d.cfg.budget
<1>1. d.cfg.maxPdu \in Nat /\ d.cfg.budget \in Nat /\ d.cfg.budget >= 1
  BY DEF Good, Ends, Configs
<1>2. init.pdu \in Nat /\ init.calling \in Nat /\ init.called \in Nat
  BY DEF Initiates
<1>3. Proposal(d.cfg) \in Initiates
  BY <1>1 DEF Proposal, Initiates
<1>4. Answer(d.cfg, init) \in Initiates
  BY <1>1, <1>2 DEF Answer, Initiates, Least, Most
<1>5. Clamp(mine, 1, d.cfg.budget) \in Nat /\ Clamp(mine, 1, d.cfg.budget) <= d.cfg.budget
  BY <1>1 DEF Clamp, Least, Most
<1>6. Agreed(d, init, mine) \in Terms /\ Agreed(d, init, mine).budget <= d.cfg.budget
  BY <1>1, <1>2, <1>5 DEF Agreed, Terms
<1> QED BY <1>3, <1>4, <1>6

LEMMA OnConnectionConfirmFine ==
    ASSUME NEW d, Good(d), NEW exp \in Nat
    PROVE  Fine(d, OnConnectionConfirm(d, exp))
<1>1. CASE d.role # "Client" \/ d.state # "Connecting"
  BY <1>1, CloseFine DEF OnConnectionConfirm, Reasons
<1>2. CASE ~(d.role # "Client" \/ d.state # "Connecting")
  <2> DEFINE chunk == TpduData(SizeExp(d, exp))
             x == [d EXCEPT !.chunk = chunk, !.state = "Associating"]
             t == Associate("Connect", Proposal(d.cfg))
  <2>1. chunk \in Nat \ {0}
    BY SizeExpType, ChunkType
  <2>2. t \in Tsdus
    <3>1. Proposal(d.cfg) \in Initiates
      BY ProposalTypes, PieceTypes
    <3> QED BY <3>1, PieceTypes DEF SpduKinds
  <2> HIDE DEF chunk, t
  <2>3. d \in Ends
    BY DEF Good
  <2>4. x = [d EXCEPT !.chunk = chunk, !.state = "Associating", !.armed = d.armed]
    BY <2>3 DEF Ends
  <2>5. "Associating" \in States \ {"Closed"} /\ d.armed \in BOOLEAN
    BY <2>3 DEF States, Ends
  <2> HIDE DEF x
  <2>6. Kept(d, x)
    <3>1. Kept(d, [d EXCEPT !.chunk = chunk, !.state = "Associating", !.armed = d.armed])
      BY <2>1, <2>5, ChunkSetKeeps
    <3> QED BY <3>1, <2>4
  <2>7. Kept(x, SendTsdu(x, t))
    BY <2>2, <2>6, SendTsduKeeps DEF Kept
  <2>8. OnConnectionConfirm(d, exp) = SendTsdu(x, t)
    BY <1>2 DEF OnConnectionConfirm, x, t, chunk
  <2> QED BY <2>6, <2>7, <2>8, KeptIsFine, FineAfter
<1> QED BY <1>1, <1>2

LEMMA PeerSetKeeps ==
    ASSUME NEW d, Good(d), NEW size \in Nat
    PROVE  /\ Kept(d, [d EXCEPT !.peerMaxPdu = size])
           /\ [d EXCEPT !.peerMaxPdu = size].state = d.state
<1> DEFINE x == [d EXCEPT !.peerMaxPdu = size]
<1>1. d \in Ends
  BY DEF Good
<1>2. x \in Ends
  BY <1>1 DEF Ends
<1>3. /\ x.cfg = d.cfg /\ x.state = d.state /\ x.outstanding = d.outstanding
      /\ x.terms = d.terms /\ x.armed = d.armed
  BY <1>1 DEF Ends
<1> HIDE DEF x
<1>4. Kept(d, x)
  BY <1>2, <1>3 DEF Kept, Good, Numbers
<1> QED BY <1>3, <1>4 DEF x

LEMMA TsduFields ==
    ASSUME NEW t \in Tsdus
    PROVE  /\ t.spdu \in SpduKinds /\ t.inside \in Insides
           /\ t.init \in Initiates /\ t.mms \in Pdus
           /\ t.init.pdu \in Nat /\ t.init.calling \in Nat /\ t.init.called \in Nat
BY DEF Tsdus, Initiates

LEMMA OnSessionConnectFine ==
    ASSUME NEW d, Good(d), NEW t \in Tsdus
    PROVE  Fine(d, OnSessionConnect(d, t))
<1> DEFINE x == [d EXCEPT !.peerMaxPdu = t.init.pdu]
           a == Associate("Accept", Answer(d.cfg, t.init))
           y == SendTsdu(x, a)
           g == Agreed(d, t.init, t.init.called)
<1>1. Kept(d, x)
  BY TsduFields, PeerSetKeeps
<1>2. a \in Tsdus /\ g \in Terms /\ g.budget <= d.cfg.budget
  <2>1. Answer(d.cfg, t.init) \in Initiates /\ g \in Terms /\ g.budget <= d.cfg.budget
    BY TsduFields, ProposalTypes
  <2> QED BY <2>1, PieceTypes DEF SpduKinds
<1> HIDE DEF x, a, g
<1>3. Kept(x, y)
  BY <1>1, <1>2, SendTsduKeeps DEF Kept
<1> HIDE DEF y
<1>4. Kept(y, Established(y, g))
  BY <1>1, <1>2, <1>3, EstablishedKeeps DEF Kept
<1>5. Fine(d, Established(y, g))
  BY <1>1, <1>3, <1>4, KeptIsFine, FineAfter
<1>6. Fine(d, Close(d, "ProtocolError")) /\ Fine(d, Fail(d))
  BY CloseFine, FailFine DEF Reasons
<1> QED BY <1>5, <1>6 DEF OnSessionConnect, x, a, y, g

LEMMA RefusedFine ==
    ASSUME NEW d, Good(d)
    PROVE  Fine(d, Refused(d))
<1> DEFINE x == Emit(d, Event("Refused", NoId))
<1>1. Event("Refused", NoId) \in Events
  BY EventTypes DEF EventKinds
<1>2. Kept(d, x) /\ x.state = d.state
  BY <1>1, EmitKeeps
<1> QED BY <1>2, CloseGood DEF Refused, Reasons, Fine

LEMMA OnSessionAcceptFine ==
    ASSUME NEW d, Good(d), NEW t \in Tsdus
    PROVE  Fine(d, OnSessionAccept(d, t))
<1> DEFINE x == [d EXCEPT !.peerMaxPdu = t.init.pdu]
           g == Agreed(d, t.init, t.init.calling)
<1>1. Kept(d, x)
  BY TsduFields, PeerSetKeeps
<1>2. g \in Terms /\ g.budget <= d.cfg.budget
  BY TsduFields, ProposalTypes
<1> HIDE DEF x, g
<1>3. Kept(x, Established(x, g))
  BY <1>1, <1>2, EstablishedKeeps DEF Kept
<1>4. Fine(d, Established(x, g))
  BY <1>1, <1>3, KeptIsFine, FineAfter
<1>5. Fine(d, Close(d, "ProtocolError")) /\ Fine(d, Fail(d)) /\ Fine(d, Refused(d))
  BY CloseFine, FailFine, RefusedFine DEF Reasons
<1> QED BY <1>4, <1>5 DEF OnSessionAccept, x, g

LEMMA OnPeerFinishFine ==
    ASSUME NEW d, Good(d)
    PROVE  Fine(d, OnPeerFinish(d))
<1> DEFINE t == Control("Disconnect", "ReleaseResponse")
<1>1. t \in Tsdus
  BY PieceTypes DEF SpduKinds, Insides
<1> HIDE DEF t
<1>2. Kept(d, SendTsdu(d, t)) /\ SendTsdu(d, t).state = d.state
  BY <1>1, SendTsduKeeps
<1> QED BY <1>2, CloseGood DEF OnPeerFinish, Reasons, Fine, t

LEMMA SettledGood ==
    ASSUME NEW d, Good(d), NEW id
    PROVE  /\ Good(Settled(d, id)) /\ Settled(d, id).cfg = d.cfg
           /\ Outstanding(d) \subseteq Outstanding(Settled(d, id)) \cup {id}
<1>1. CASE id \notin Outstanding(d)
  BY <1>1 DEF Settled
<1>2. CASE id \in Outstanding(d)
  <2> DEFINE s == d.outstanding
             i == Place(d, id)
             r == RemoveAt(s, i)
             x == [d EXCEPT !.outstanding = r]
  <2>1. d \in Ends
    BY DEF Good
  <2>2. s \in Seq(InvokeIds) /\ Len(s) \in Nat /\ DOMAIN s = 1 .. Len(s)
    BY <2>1 DEF Ends
  <2>3. i \in 1 .. Len(s) /\ s[i] = id
    <3>1. \E j \in DOMAIN s : s[j] = id
      BY <1>2 DEF Outstanding
    <3> QED BY <3>1, <2>2 DEF Place
  <2>4. Settled(d, id) = x
    BY <1>2 DEF Settled
  <2> HIDE DEF i
  <2>5. /\ r \in Seq(InvokeIds) /\ Len(r) = Len(s) - 1
        /\ \A j \in 1 .. Len(s) - 1 : r[j] = IF j < i THEN s[j] ELSE s[j + 1]
    BY <2>2, <2>3, Removed
  <2> HIDE DEF r
  <2>6. x \in Ends
    BY <2>1, <2>5 DEF Ends
  <2>7. /\ x.cfg = d.cfg /\ x.state = d.state /\ x.terms = d.terms /\ x.armed = d.armed
        /\ x.outstanding = r
    BY <2>1 DEF Ends
  <2> HIDE DEF x
  <2>8. \A j, k \in 1 .. Len(s) : s[j] = s[k] => j = k
    BY <2>2 DEF Good, Numbers
  <2>9. DOMAIN r = 1 .. Len(s) - 1
    BY <2>2, <2>5
  <2> HIDE DEF s
  <2>10. \A j, k \in DOMAIN r : r[j] = r[k] => j = k
    <3> DEFINE at(j) == IF j < i THEN j ELSE j + 1
    <3>1. \A j \in DOMAIN r : at(j) \in 1 .. Len(s) /\ r[j] = s[at(j)]
      BY <2>2, <2>3, <2>5, <2>9
    <3>2. \A j, k \in DOMAIN r : at(j) = at(k) => j = k
      BY <2>2, <2>3, <2>9
    <3> HIDE DEF at
    <3> QED BY <3>1, <3>2, <2>8
  <2>11. Len(r) <= d.cfg.budget /\ d.state # "Closed"
    <3>1. Len(s) <= d.cfg.budget /\ d.cfg.budget \in Nat
      BY <2>1 DEF Good, Numbers, Ends, Configs, s
    <3>2. s # <<>>
      BY <2>2, <2>3
    <3> QED BY <3>1, <3>2, <2>2, <2>5 DEF Good, s
  <2>12. Good(x)
    BY <2>6, <2>7, <2>10, <2>11 DEF Good, Numbers
  <2>13. Outstanding(d) \subseteq Outstanding(x) \cup {id}
    <3> SUFFICES ASSUME NEW j \in 1 .. Len(s), s[j] # id
                 PROVE  s[j] \in Outstanding(x)
      BY <2>2 DEF Outstanding, s
    <3>1. CASE j < i
      <4>1. j \in 1 .. Len(s) - 1 /\ r[j] = s[j]
        BY <3>1, <2>2, <2>3, <2>5
      <4> QED BY <4>1, <2>7, <2>9 DEF Outstanding
    <3>2. CASE j > i
      <4>1. j - 1 \in 1 .. Len(s) - 1 /\ ~(j - 1 < i) /\ (j - 1) + 1 = j
        BY <3>2, <2>2, <2>3
      <4>2. r[j - 1] = s[j]
        BY <4>1, <2>5
      <4> QED BY <4>1, <4>2, <2>7, <2>9 DEF Outstanding
    <3> QED BY <3>1, <3>2, <2>2, <2>3
  <2> QED BY <2>4, <2>7, <2>12, <2>13
<1> QED BY <1>1, <1>2

LEMMA HeardType ==
    ASSUME NEW d, NEW p \in Pdus
    PROVE  Heard(d, p) \in Events
<1>1. p.id \in InvokeIds \cup {NoId} /\ p.k \in PduKinds
  BY DEF Pdus
<1>2. \A k \in EventKinds : Carrying(k, p) \in Events /\ Event(k, p.id) \in Events /\ Event(k, NoId) \in Events
  BY <1>1, EventTypes
<1>3. {"Response", "Request", "Rejected", "CancelRefused", "Cancelled", "Malformed", "Unconfirmed"} \subseteq EventKinds
  BY DEF EventKinds
<1> HIDE DEF EventKinds
<1> QED BY <1>2, <1>3 DEF Heard

LEMMA DeliverMmsFine ==
    ASSUME NEW d, Good(d), NEW p \in Pdus
    PROVE  Fine(d, DeliverMms(d, p))
<1>1. NoPdu.says \in Payloads /\ p.id \in InvokeIds \cup {NoId} /\ p.k \in PduKinds
  BY PieceTypes DEF Pdus
<1>2. \A q \in Pdus : Kept(d, SendUnchecked(d, q)) /\ SendUnchecked(d, q).state = d.state
  BY PieceTypes, SendTsduKeeps DEF SendUnchecked
<1>3. Heard(d, p) \in Events
  BY HeardType
<1>4. CASE p.k = "ConcludeRequest"
  <2>1. Pdu("ConcludeResponse", NoId, 2, NoPdu.says) \in Pdus
    BY <1>1, PduType DEF PduKinds
  <2>2. DeliverMms(d, p) = Close(SendUnchecked(d, Pdu("ConcludeResponse", NoId, 2, NoPdu.says)), "PeerReleased")
    BY <1>4 DEF DeliverMms, EndsRequest
  <2> QED BY <1>2, <2>1, <2>2, CloseGood DEF Fine, Reasons
<1>5. CASE p.k = "ConcludeResponse"
  <2>1. DeliverMms(d, p) = Close(d, "Released")
    BY <1>5 DEF DeliverMms, EndsRequest
  <2> QED BY <2>1, CloseFine DEF Reasons
<1>6. CASE p.k = "CancelRequest"
  <2> DEFINE q == Pdu("CancelError", p.id, 10, NoPdu.says)
  <2>1. q \in Pdus
    BY <1>1, PduType DEF PduKinds
  <2> HIDE DEF q
  <2>2. Kept(d, SendUnchecked(d, q))
    BY <1>2, <2>1
  <2>3. Kept(SendUnchecked(d, q), Emit(SendUnchecked(d, q), Heard(d, p)))
    BY <1>3, <2>2, EmitKeeps DEF Kept
  <2>4. Fine(d, Emit(SendUnchecked(d, q), Heard(d, p)))
    BY <2>2, <2>3, KeptIsFine, FineAfter
  <2>5. DeliverMms(d, p) = Emit(SendUnchecked(d, q), Heard(d, p))
    BY <1>6 DEF DeliverMms, EndsRequest, q
  <2> QED BY <2>4, <2>5
<1>7. CASE p.k \in EndsRequest
  <2> DEFINE x == Settled(d, p.id)
             y == Emit(x, Heard(d, p))
  <2>1. Good(x) /\ x.cfg = d.cfg /\ Outstanding(d) \subseteq Outstanding(x) \cup {p.id}
    BY SettledGood
  <2> HIDE DEF x
  <2>2. Kept(x, y) /\ \E i \in DOMAIN y.events : y.events[i] = Heard(d, p)
    BY <1>3, <2>1, EmitKeeps
  <2> HIDE DEF y
  <2>3. p.id \in Outstanding(d) => Over(Heard(d, p), p.id)
    BY <1>7 DEF EndsRequest, Heard, Over, Event, Carrying
  <2>4. Told(d, y)
    <3>1. Outstanding(y) = Outstanding(x)
      BY <2>2 DEF Kept, Outstanding
    <3> QED BY <3>1, <2>1, <2>2, <2>3 DEF Told
  <2>5. DeliverMms(d, p) = y
    BY <1>7 DEF DeliverMms, EndsRequest, x, y
  <2> QED BY <2>1, <2>2, <2>4, <2>5 DEF Fine, Kept
<1>8. CASE p.k \notin EndsRequest \cup {"ConcludeRequest", "ConcludeResponse", "CancelRequest"}
  <2>1. DeliverMms(d, p) = Emit(d, Heard(d, p))
    BY <1>8 DEF DeliverMms, EndsRequest
  <2>2. Kept(d, Emit(d, Heard(d, p)))
    BY <1>3, EmitKeeps
  <2> QED BY <2>1, <2>2, KeptIsFine
<1> QED BY <1>4, <1>5, <1>6, <1>7, <1>8

LEMMA OnUserDataFine ==
    ASSUME NEW d, Good(d), NEW t \in Tsdus
    PROVE  Fine(d, OnUserData(d, t))
<1>1. Fine(d, DeliverMms(d, t.mms)) /\ Fine(d, OnPeerFinish(d)) /\ Fine(d, Fail(d)) /\ Fine(d, d)
  BY TsduFields, DeliverMmsFine, OnPeerFinishFine, FailFine, SelfKept, KeptIsFine
<1>2. Fine(d, Close(d, "Released")) /\ Fine(d, Close(d, "Aborted")) /\ Fine(d, Close(d, "ProtocolError"))
  BY CloseFine DEF Reasons
<1> QED BY <1>1, <1>2 DEF OnUserData

LEMMA OnTsduFine ==
    ASSUME NEW d, Good(d), NEW t \in Tsdus
    PROVE  Fine(d, OnTsdu(d, t))
<1>1. /\ Fine(d, OnSessionConnect(d, t)) /\ Fine(d, OnSessionAccept(d, t)) /\ Fine(d, Refused(d))
      /\ Fine(d, OnUserData(d, t)) /\ Fine(d, OnPeerFinish(d)) /\ Fine(d, Fail(d))
  BY OnSessionConnectFine, OnSessionAcceptFine, RefusedFine, OnUserDataFine, OnPeerFinishFine, FailFine
<1>2. Fine(d, Close(d, "Released")) /\ Fine(d, Close(d, "Aborted")) /\ Fine(d, Close(d, "ProtocolError"))
  BY CloseFine DEF Reasons
<1>3. t.spdu \in SpduKinds
  BY TsduFields
<1> QED BY <1>1, <1>2, <1>3 DEF OnTsdu, SpduKinds

LEMMA PartsSetKeeps ==
    ASSUME NEW d, Good(d), NEW parts \in Seq(Tpdus)
    PROVE  Kept(d, [d EXCEPT !.parts = parts])
<1> DEFINE x == [d EXCEPT !.parts = parts]
<1>1. d \in Ends
  BY DEF Good
<1>2. x \in Ends
  BY <1>1 DEF Ends
<1>3. /\ x.cfg = d.cfg /\ x.state = d.state /\ x.outstanding = d.outstanding
      /\ x.terms = d.terms /\ x.armed = d.armed
  BY <1>1 DEF Ends
<1> HIDE DEF x
<1>4. Kept(d, x)
  BY <1>2, <1>3 DEF Kept, Good, Numbers
<1> QED BY <1>4 DEF x

LEMMA OnDataFine ==
    ASSUME NEW d, Good(d), NEW p \in Tpdus
    PROVE  Fine(d, OnData(d, p))
<1> DEFINE all == Append(d.parts, p)
           x == [d EXCEPT !.parts = <<>>]
<1>1. all \in Seq(Tpdus) /\ all[1] \in Tpdus
  <2>1. d.parts \in Seq(Tpdus)
    BY DEF Good, Ends
  <2>2. all \in Seq(Tpdus) /\ all # <<>>
    BY <2>1, AppendProperties
  <2>3. 1 \in 1 .. Len(all)
    BY <2>2
  <2> QED BY <2>2, <2>3, ElementOfSeq
<1> HIDE DEF all
<1>2. Whole(all) \in Tsdus
  <2>1. all[1].of \in Tsdus
    BY <1>1 DEF Tpdus
  <2> QED BY <2>1, PieceTypes DEF Whole
<1>3. Kept(d, x)
  BY EmptySeq, PartsSetKeeps
<1> HIDE DEF x
<1>4. Fine(x, OnTsdu(x, Whole(all)))
  BY <1>2, <1>3, OnTsduFine DEF Kept
<1>5. Fine(d, OnTsdu(x, Whole(all)))
  BY <1>3, <1>4, FineAfter
<1>6. Fine(d, [d EXCEPT !.parts = all])
  BY <1>1, PartsSetKeeps, KeptIsFine
<1>7. Fine(d, Fail(d))
  BY FailFine
<1> QED BY <1>5, <1>6, <1>7 DEF OnData, all, x

LEMMA OnTpduFine ==
    ASSUME NEW d, Good(d), NEW p \in Tpdus
    PROVE  Fine(d, OnTpdu(d, p))
<1>1. p.exp \in Nat /\ p.k \in TpduKinds
  BY DEF Tpdus
<1>2. /\ Fine(d, OnConnectionRequest(d, p.exp)) /\ Fine(d, OnConnectionConfirm(d, p.exp))
      /\ Fine(d, OnData(d, p)) /\ Fine(d, Fail(d))
  BY <1>1, OnConnectionRequestFine, OnConnectionConfirmFine, OnDataFine, FailFine
<1>3. Fine(d, Close(d, "Aborted")) /\ Fine(d, Close(d, "ProtocolError"))
  BY CloseFine DEF Reasons
<1> QED BY <1>1, <1>2, <1>3 DEF OnTpdu, TpduKinds

-----------------------------------------------------------------------------
(* The beginning *)

LEMMA NewGood ==
    ASSUME NEW cfg \in Configs, cfg.budget <= MaxInvoke, NEW r \in Roles
    PROVE  Good(New(cfg, r))
<1> DEFINE d == New(cfg, r)
<1>1. cfg.exp \in Nat /\ cfg.budget \in Nat
  BY DEF Configs
<1>2. TpduData(cfg.exp) \in Nat \ {0}
  BY <1>1, ChunkType
<1>3. <<>> \in Seq(Tpdus) /\ <<>> \in Seq(Events) /\ <<>> \in Seq(InvokeIds) /\ Len(<<>>) = 0
  BY EmptySeq
<1>4. NoTerms \in Terms /\ NoTerms.budget = 0 /\ "Idle" \in States /\ 1 \in InvokeIds
  BY PieceTypes, AssociationAssumption DEF NoTerms, States, InvokeIds
<1>5. d \in Ends
  BY <1>1, <1>2, <1>3, <1>4 DEF New, Ends
<1>6. d.cfg = cfg /\ d.outstanding = <<>> /\ d.terms = NoTerms /\ d.state = "Idle"
  BY DEF New
<1> HIDE DEF d
<1>7. Good(d)
  BY <1>1, <1>3, <1>4, <1>5, <1>6 DEF Good, Numbers
<1> QED BY <1>7 DEF d

=============================================================================
