---------------------------- MODULE MmsLinkProofs ----------------------------
(***************************************************************************)
(* That what a client and the thread that serves it agree on binds both,    *)
(* that each call gets its own answer and that a slot a request holds is    *)
(* owed one: for every set of configurations, every number of calls, of     *)
(* reports and of identifiers, and every size of the event queue.           *)
(*                                                                         *)
(* The inductive invariant, Whose, has three parts.  Agreement measures     *)
(* everything under way - queues, pieces, wires, events - by a history: the *)
(* two configurations and the identifier of each call.  Singly follows a    *)
(* call through the association: it is under way on one side at a time, as  *)
(* one TSDU, and only while it is the newest that its identifier was given  *)
(* to, unless that was free too early.  The third is the property itself.   *)
(*                                                                         *)
(* The lemmas come in that order: what the operations of Association make   *)
(* of an end that fits its history, what a read gathers from TPDUs fed in   *)
(* turn, what a turn writes, then one lemma for each step and each part.    *)
(***************************************************************************)
EXTENDS MmsLink, AssociationProofs

-----------------------------------------------------------------------------
(* What was agreed                                                         *)

\* What everything under way is measured by: the two configurations, how many
\* calls there have been and which identifiers they were given.
Histories ==
    [client : ClientConfigs, server : ServerConfigs, asked : 0 .. MaxCalls,
     number : [1 .. MaxCalls -> InvokeIds \cup {NoId}]]

History == [client |-> end["Client"].cfg, server |-> end["Server"].cfg, asked |-> client.asked, number |-> log.number]

\* The TPDUs, the PDUs and the budget the two come to.
AgreedExp(h) == Least(IF h.client.exp = 0 THEN TpduSizeMinExp ELSE h.client.exp, h.server.exp)
Chunk(h) == TpduData(AgreedExp(h))
Deal(h) == Answer(h.server, Proposal(h.client))
Budget(h) == Least(h.client.budget, h.server.budget)

\* The identifier a PDU names is the one of the call it is about.
Called(h, p) == p.says \in 1 .. h.asked /\ p.id \in InvokeIds /\ p.id = h.number[p.says]

\* What may be on its way to the server, and to the client.
TsduToServer(h, t) ==
    \/ t \in {Associate("Connect", Proposal(h.client)), Control("Finish", "Release")}
    \/ t = UserData(t.mms) /\ t.mms.k = "Request" /\ Called(h, t.mms) /\ t.mms.size <= h.server.maxPdu
TsduToClient(h, t) ==
    \/ t \in {Associate("Accept", Deal(h)), Control("Disconnect", "ReleaseResponse")}
    \/ /\ t = UserData(t.mms) /\ t.mms.size <= h.client.maxPdu
       /\ t.mms.k = "Unconfirmed" \/ (t.mms.k \in {"Response", "Reject"} /\ Called(h, t.mms))

TpduToServer(h, x) ==
    /\ x \in Tpdus
    /\ x = Transport("CR", h.client.exp) \/ (x.k = "DT" /\ x.len <= Chunk(h) /\ TsduToServer(h, x.of))
TpduToClient(h, x) ==
    /\ x \in Tpdus
    /\ x = Transport("CC", AgreedExp(h)) \/ (x.k = "DT" /\ x.len <= Chunk(h) /\ TsduToClient(h, x.of))

AllToServer(h, q) == \A i \in DOMAIN q : TpduToServer(h, q[i])
AllToClient(h, q) == \A i \in DOMAIN q : TpduToClient(h, q[i])

\* The requests and the answers an end tells of are those of calls.
Heeded(h, q) ==
    \A i \in DOMAIN q : q[i].k \in {"Request", "Response"} => q[i].id = q[i].pdu.id /\ Called(h, q[i].pdu)

\* A client's end and a server's, in the middle of a turn.
ClientFits(h, d) ==
    /\ Good(d) /\ d.role = "Client" /\ d.cfg = h.client /\ d.state # "Idle"
    /\ AllToClient(h, d.parts) /\ AllToServer(h, d.out) /\ Heeded(h, d.events)
    /\ d.state \in {"Associating", "Established", "Releasing"} => d.chunk = Chunk(h)
    /\ d.state \in {"Established", "Releasing"} =>
           d.peerMaxPdu = Least(h.server.maxPdu, h.client.maxPdu) /\ d.terms.budget = Budget(h)
    /\ Len(d.outstanding) <= Budget(h)
    /\ \A id \in Outstanding(d) : \E a \in 1 .. h.asked : h.number[a] = id
ServerFits(h, d) ==
    /\ Good(d) /\ d.role = "Server" /\ d.cfg = h.server /\ d.state \notin {"Connecting", "Releasing"}
    /\ AllToServer(h, d.parts) /\ AllToClient(h, d.out) /\ Heeded(h, d.events)
    /\ d.state \in {"Associating", "Established"} => d.chunk = Chunk(h)
    /\ d.state = "Established" => d.peerMaxPdu = h.client.maxPdu
    /\ d.outstanding = <<>>

\* The transport connection comes first: until the server has its request, and
\* the client its confirmation, there is nothing else on the wires.
NoData(q) == \A i \in DOMAIN q : q[i].k # "DT"
Shaking ==
    /\ end["Server"].state = "Idle" =>
           NoData(wire["Server"]) /\ wire["Client"] = <<>> /\ end["Client"].state \in {"Connecting", "Closed"}
    /\ end["Client"].state = "Connecting" =>
           NoData(wire["Server"]) /\ NoData(wire["Client"]) /\ end["Server"].state # "Established"

Types ==
    /\ end \in [Roles -> Ends] /\ wire \in [Roles -> Seq(Tpdus)] /\ open \in [Roles -> BOOLEAN]
    /\ client \in [phase : Phases, id : InvokeIds \cup {NoId}, ask : 0 .. MaxCalls, last : Payloads, asked : 0 .. MaxCalls]
    /\ reports \in 0 .. MaxReports
    /\ log \in [number : [1 .. MaxCalls -> InvokeIds \cup {NoId}], late : SUBSET (1 .. MaxCalls), unanswered : SUBSET (1 .. MaxCalls)]

Calling ==
    /\ \A a \in 1 .. MaxCalls : a > client.asked => log.number[a] = NoId
    /\ client.phase = "calling" =>
           client.ask = client.asked /\ client.ask > 0 /\ client.id \in InvokeIds /\ client.id = log.number[client.ask]

Agreement ==
    /\ Types /\ History \in Histories
    /\ ClientFits(History, end["Client"]) /\ ServerFits(History, end["Server"])
    /\ AllToServer(History, wire["Server"]) /\ AllToClient(History, wire["Client"])
    /\ end["Client"].out = <<>> /\ end["Server"].out = <<>> /\ end["Server"].events = <<>>
    /\ end["Server"].state = "Closed" => ~open["Server"]
    /\ Shaking /\ Calling

-----------------------------------------------------------------------------
(* Whose answer                                                            *)

Carries(x, a) == x.of.mms.k \in {"Request", "Response", "Reject"} /\ x.of.mms.says = a
Within(q, a) == \E i \in DOMAIN q : Carries(q[i], a)

\* What carries a call is one TSDU: nothing of the call follows its last piece.
Once(q) ==
    \A i, j \in DOMAIN q : \A a \in 1 .. MaxCalls : i < j /\ Carries(q[i], a) /\ Carries(q[j], a) => ~q[i].eot

Toward(r, a) == Within(wire[r], a) \/ Within(end[r].parts, a)

Early(number, late, a) == \E l \in late : l <= a /\ number[l] = number[a]
Newest(number, a) == \A b \in 1 .. MaxCalls : b > a => number[b] # number[a]

Singly ==
    /\ Once(wire["Server"]) /\ Once(wire["Client"])
    /\ open["Server"] => \A a \in 1 .. MaxCalls : ~(Toward("Server", a) /\ Toward("Client", a))
    /\ open["Client"] /\ end["Client"].state # "Closed" =>
           \A a \in 1 .. MaxCalls :
               Toward("Client", a) \/ (open["Server"] /\ Toward("Server", a)) =>
                   \/ Early(log.number, log.late, a)
                   \/ log.number[a] \in Outstanding(end["Client"]) /\ Newest(log.number, a)
    /\ \A i \in DOMAIN end["Client"].events :
           end["Client"].events[i].k = "Response" => end["Client"].events[i].pdu.says \in log.late

-----------------------------------------------------------------------------
(* TPDUs                                                                   *)

LEMMA ChunkValues ==
    /\ \A exp \in Nat : TpduData(exp) \in {125, 253, 509, 1021, 2045, 4093, 8189}
    /\ \A m, n \in Nat : m <= n => TpduData(m) <= TpduData(n)
<1> DEFINE at(exp) == Least(Most(exp, TpduSizeMinExp), TpduSizeMaxExp) - 6
<1>1. \A exp \in Nat : at(exp) \in 1 .. 7
  BY DEF Least, Most, TpduSizeMinExp, TpduSizeMaxExp
<1>2. \A m, n \in Nat : m <= n => at(m) <= at(n)
  BY DEF Least, Most, TpduSizeMinExp, TpduSizeMaxExp
<1>3. \A exp \in Nat : TpduData(exp) = Room[at(exp)] - 3
  BY DEF TpduData
<1> HIDE DEF at
<1>4. /\ Room[1] = 128 /\ Room[2] = 256 /\ Room[3] = 512 /\ Room[4] = 1024
      /\ Room[5] = 2048 /\ Room[6] = 4096 /\ Room[7] = 8192
  BY DEF Room
<1>5. \A exp \in Nat : TpduData(exp) \in {125, 253, 509, 1021, 2045, 4093, 8189}
  BY <1>1, <1>3, <1>4
<1>6. \A i, j \in 1 .. 7 : i <= j => Room[i] - 3 <= Room[j] - 3
  BY <1>4
<1>7. \A m, n \in Nat : m <= n => TpduData(m) <= TpduData(n)
  BY <1>1, <1>2, <1>3, <1>6
<1> QED BY <1>5, <1>7

LEMMA PiecesFit ==
    ASSUME NEW size \in Nat, NEW chunk \in Nat \ {0}
    PROVE  /\ Pieces(size, chunk) \in Nat \ {0}
           /\ size - (Pieces(size, chunk) - 1) * chunk \in Int
           /\ size - (Pieces(size, chunk) - 1) * chunk <= chunk
<1> DEFINE q == (size + chunk - 1) \div chunk
<1>1. q \in Nat /\ size + chunk - 1 < chunk * q + chunk
  OBVIOUS
<1> HIDE DEF q
<1>2. q * chunk = chunk * q /\ (q - 1) * chunk = q * chunk - chunk
  BY <1>1
<1>3. Pieces(size, chunk) = IF 1 < q THEN q ELSE 1
  BY DEF Pieces, Most, q
<1>4. CASE 1 < q
  BY <1>1, <1>2, <1>3, <1>4
<1>5. CASE ~(1 < q)
  <2>1. q = 0 \/ q = 1
    BY <1>1, <1>5
  <2>2. size <= chunk
    BY <1>1, <2>1
  <2> QED BY <1>3, <1>5, <2>2
<1> QED BY <1>4, <1>5

LEMMA SegmentsAre ==
    ASSUME NEW t \in Tsdus, NEW exp \in Nat
    PROVE  LET s == Segments(t, TpduData(exp))
           IN  /\ s \in Seq(Tpdus) /\ Len(s) \in Nat \ {0}
               /\ \A i \in 1 .. Len(s) :
                      s[i] \in Tpdus /\ s[i].k = "DT" /\ s[i].of = t /\ s[i].len <= TpduData(exp)
               /\ \A i \in 1 .. Len(s) : s[i].eot <=> i = Len(s)
<1> DEFINE s == Segments(t, TpduData(exp))
           chunk == TpduData(exp)
           n == Pieces(t.size, chunk)
<1>1. t.size \in Nat /\ chunk \in Nat \ {0}
  BY ChunkType DEF Tsdus
<1>2. n \in Nat \ {0} /\ t.size - (n - 1) * chunk <= chunk
  BY <1>1, PiecesFit
<1>3. s \in Seq(Tpdus)
  BY <1>1, SegmentsType
<1>4. s = [i \in 1 .. n |->
              [k |-> "DT", exp |-> 0, of |-> t, at |-> i,
               len |-> IF i < n THEN chunk ELSE t.size - (n - 1) * chunk, eot |-> i = n]]
  BY DEF Segments
<1> HIDE DEF n, chunk, s
<1>5. Len(s) = n
  <2>1. DOMAIN s = 1 .. n /\ n \in Nat
    BY <1>2, <1>4
  <2> QED BY <2>1, <1>3, LenProperties
<1>6. \A i \in 1 .. n : s[i].k = "DT" /\ s[i].of = t /\ s[i].len <= chunk /\ (s[i].eot <=> i = n)
  <2> TAKE i \in 1 .. n
  <2>1. s[i] = [k |-> "DT", exp |-> 0, of |-> t, at |-> i,
                len |-> IF i < n THEN chunk ELSE t.size - (n - 1) * chunk, eot |-> i = n]
    BY <1>4
  <2>2. s[i].k = "DT" /\ s[i].of = t /\ s[i].eot = (i = n)
    BY <2>1
  <2>3. s[i].len = IF i < n THEN chunk ELSE t.size - (n - 1) * chunk
    BY <2>1
  <2>4. i < n \/ i = n
    BY <1>2
  <2>5. s[i].len <= chunk
    BY <2>3, <2>4, <1>1, <1>2
  <2> QED BY <2>2, <2>5
<1>7. \A i \in 1 .. n : s[i] \in Tpdus
  BY <1>3, <1>5
<1> QED BY <1>2, <1>3, <1>5, <1>6, <1>7 DEF chunk, s

LEMMA HistoryTypes ==
    ASSUME NEW h \in Histories
    PROVE  /\ h.client \in Configs /\ h.server \in Configs
           /\ h.client.budget <= MaxInvoke /\ h.server.budget <= MaxInvoke
           /\ h.client.exp \in Nat /\ h.server.exp \in Nat
           /\ h.client.maxPdu \in Nat \ {0} /\ h.server.maxPdu \in Nat \ {0}
           /\ h.client.budget \in Nat \ {0} /\ h.server.budget \in Nat \ {0}
           /\ h.asked \in 0 .. MaxCalls /\ MaxCalls \in Nat
           /\ h.number \in [1 .. MaxCalls -> InvokeIds \cup {NoId}]
<1>1. /\ h.client \in ClientConfigs /\ h.server \in ServerConfigs
      /\ h.asked \in 0 .. MaxCalls /\ h.number \in [1 .. MaxCalls -> InvokeIds \cup {NoId}]
  BY DEF Histories
<1>2. h.client \in Configs /\ h.server \in Configs
  BY <1>1, LinkAssumption
<1>3. h.client.budget <= MaxInvoke /\ h.server.budget <= MaxInvoke /\ MaxCalls \in Nat
  BY <1>1, LinkAssumption
<1>4. \A cfg \in Configs : cfg.exp \in Nat /\ cfg.maxPdu \in Nat \ {0} /\ cfg.budget \in Nat \ {0}
  BY DEF Configs
<1> QED BY <1>1, <1>2, <1>3, <1>4

LEMMA AgreedSizes ==
    ASSUME NEW h \in Histories
    PROVE  /\ AgreedExp(h) \in Nat /\ Chunk(h) \in Nat \ {0}
           /\ Chunk(h) <= TpduData(h.client.exp) /\ Chunk(h) <= TpduData(h.server.exp)
           /\ \A d : d.cfg = h.server => SizeExp(d, h.client.exp) = AgreedExp(h)
           /\ \A d : d.cfg = h.client => TpduData(SizeExp(d, AgreedExp(h))) = Chunk(h)
<1> DEFINE c == h.client.exp
           s == h.server.exp
           x == AgreedExp(h)
           y == Least(IF x = 0 THEN TpduSizeMinExp ELSE x, c)
<1>1. c \in Nat /\ s \in Nat
  BY HistoryTypes
<1>2. x = Least(IF c = 0 THEN 7 ELSE c, s)
  BY DEF AgreedExp, TpduSizeMinExp
<1>3. \A d : d.cfg = h.server => SizeExp(d, c) = x
  BY DEF SizeExp, AgreedExp
<1>4. \A d : d.cfg = h.client => SizeExp(d, x) = y
  BY DEF SizeExp
<1> HIDE DEF c, s, x
<1>5. x \in Nat /\ y \in Nat /\ x <= s /\ (x <= c \/ x <= 7)
  BY <1>1, <1>2 DEF Least, TpduSizeMinExp
<1>6. Most(x, 7) = Most(y, 7) /\ Most(x, 7) <= Most(c, 7)
  BY <1>1, <1>2 DEF Least, Most, TpduSizeMinExp
<1> HIDE DEF y
<1>7. TpduData(y) = TpduData(x)
  BY <1>6 DEF TpduData, TpduSizeMinExp
<1>8. TpduData(x) <= TpduData(s)
  BY <1>1, <1>5, ChunkValues
<1>9. TpduData(x) <= TpduData(c)
  <2>1. Most(x, 7) \in Nat /\ Most(c, 7) \in Nat
    BY <1>1, <1>5 DEF Most
  <2>2. TpduData(Most(x, 7)) <= TpduData(Most(c, 7))
    BY <1>6, <2>1, ChunkValues
  <2>3. \A n \in Nat : Most(Most(n, 7), 7) = Most(n, 7)
    BY DEF Most
  <2>4. \A n \in Nat : TpduData(Most(n, 7)) = TpduData(n)
    BY <2>3 DEF TpduData, TpduSizeMinExp
  <2> QED BY <1>1, <1>5, <2>2, <2>4
<1>10. TpduData(x) \in Nat \ {0}
  BY <1>5, ChunkType
<1> QED BY <1>3, <1>4, <1>5, <1>7, <1>8, <1>9, <1>10 DEF Chunk, c, s, x

LEMMA AgreedTerms ==
    ASSUME NEW h \in Histories
    PROVE  /\ Proposal(h.client) \in Initiates /\ Proposal(h.client).pdu = h.client.maxPdu
           /\ Deal(h) \in Initiates /\ Deal(h).pdu = Least(h.server.maxPdu, h.client.maxPdu)
           /\ \A d : d.cfg = h.client => Agreed(d, Deal(h), Deal(h).calling).budget = Budget(h)
           /\ Budget(h) \in Nat \ {0} /\ Budget(h) <= h.client.budget /\ Budget(h) <= h.server.budget
<1> DEFINE p == Proposal(h.client)
           b == h.client.budget
           s == h.server.budget
<1>1. /\ b \in Nat \ {0} /\ s \in Nat \ {0}
      /\ h.client.maxPdu \in Nat \ {0} /\ h.server.maxPdu \in Nat \ {0}
  BY HistoryTypes
<1>2. p.pdu = h.client.maxPdu /\ p.calling = b /\ p.called = b /\ p \in Initiates
  BY <1>1 DEF Proposal, Initiates
<1> HIDE DEF p
<1>3. /\ Deal(h).pdu = Least(h.server.maxPdu, h.client.maxPdu)
      /\ Deal(h).calling = Least(s, Most(b, 1)) /\ Deal(h).called = Least(s, Most(b, 1))
  BY <1>1, <1>2 DEF Deal, Answer, p
<1>4. Deal(h) \in Initiates
  BY <1>1, <1>2 DEF Deal, Answer, Initiates, Least, Most, p
<1>5. \A d : d.cfg = h.client => Agreed(d, Deal(h), Deal(h).calling).budget = Clamp(Deal(h).calling, 1, b)
  BY DEF Agreed
<1> HIDE DEF b, s
<1>6. Clamp(Deal(h).calling, 1, b) = Least(b, s)
  <2>1. Deal(h).calling = Least(s, b)
    BY <1>1, <1>3 DEF Most
  <2>2. Least(s, b) = Least(b, s) /\ Least(b, s) \in Nat \ {0} /\ Least(b, s) <= b
    BY <1>1 DEF Least
  <2>3. \A n \in Nat \ {0} : n <= b => Clamp(n, 1, b) = n
    BY <1>1 DEF Clamp, Least, Most
  <2>4. Clamp(Least(b, s), 1, b) = Least(b, s)
    BY <2>2, <2>3
  <2> QED BY <2>1, <2>2, <2>4
<1>7. Budget(h) = Least(b, s)
  BY DEF Budget, b, s
<1>8. Least(b, s) \in Nat \ {0} /\ Least(b, s) <= b /\ Least(b, s) <= s
  BY <1>1 DEF Least
<1> QED BY <1>2, <1>3, <1>4, <1>5, <1>6, <1>7, <1>8 DEF p, b, s

-----------------------------------------------------------------------------
(* What operations make of an end, field by field                          *)

\* x is d but for what it has queued, the events it tells of, the requests that
\* wait, the pieces held and its state.
Alike(d, x) ==
    /\ x.role = d.role /\ x.cfg = d.cfg /\ x.chunk = d.chunk
    /\ x.peerMaxPdu = d.peerMaxPdu /\ x.terms = d.terms

LEMMA ConcatOf ==
    ASSUME NEW S, NEW q \in Seq(S), NEW s \in Seq(S)
    PROVE  /\ q \o s \in Seq(S) /\ Len(q \o s) = Len(q) + Len(s) /\ Len(q) \in Nat /\ Len(s) \in Nat
           /\ \A i \in 1 .. Len(q) : (q \o s)[i] = q[i]
           /\ \A i \in 1 .. Len(s) : (q \o s)[Len(q) + i] = s[i]
           /\ \A i \in DOMAIN (q \o s) :
                  \/ i \in DOMAIN q /\ (q \o s)[i] = q[i]
                  \/ i - Len(q) \in DOMAIN s /\ (q \o s)[i] = s[i - Len(q)]
<1>1. /\ q \o s \in Seq(S) /\ Len(q \o s) = Len(q) + Len(s)
      /\ \A i \in 1 .. Len(q) + Len(s) : (q \o s)[i] = IF i <= Len(q) THEN q[i] ELSE s[i - Len(q)]
  BY ConcatProperties
<1>2. Len(q) \in Nat /\ Len(s) \in Nat /\ DOMAIN q = 1 .. Len(q) /\ DOMAIN s = 1 .. Len(s)
  OBVIOUS
<1>3. DOMAIN (q \o s) = 1 .. Len(q) + Len(s)
  BY <1>1
<1> DEFINE c == q \o s
           m == Len(q)
           n == Len(s)
<1>4. /\ m \in Nat /\ n \in Nat /\ DOMAIN q = 1 .. m /\ DOMAIN s = 1 .. n /\ DOMAIN c = 1 .. m + n
      /\ \A i \in 1 .. m + n : c[i] = IF i <= m THEN q[i] ELSE s[i - m]
  BY <1>1, <1>2, <1>3
<1> HIDE DEF c, m, n
<1>5. \A i \in 1 .. m : c[i] = q[i]
  BY <1>4
<1>6. \A i \in 1 .. n : c[m + i] = s[i]
  <2> TAKE i \in 1 .. n
  <2>1. m + i \in 1 .. m + n /\ ~(m + i <= m) /\ (m + i) - m = i
    BY <1>4
  <2> QED BY <2>1, <1>4
<1>7. \A i \in DOMAIN c : (i \in DOMAIN q /\ c[i] = q[i]) \/ (i - m \in DOMAIN s /\ c[i] = s[i - m])
  BY <1>4
<1> QED BY <1>1, <1>2, <1>5, <1>6, <1>7 DEF c, m, n

LEMMA PushedElements ==
    ASSUME NEW q \in Seq(Events), NEW ev \in Events
    PROVE  /\ \A i \in DOMAIN Pushed(q, ev) : Pushed(q, ev)[i] = ev \/ \E j \in DOMAIN q : Pushed(q, ev)[i] = q[j]
           /\ \E i \in DOMAIN Pushed(q, ev) : Pushed(q, ev)[i] = ev
<1> DEFINE rest == IF Len(q) >= Most(1, Capacity) THEN Tail(q) ELSE q
<1>1. Most(1, Capacity) >= 1
  BY AssociationAssumption DEF Most
<1>2. /\ rest \in Seq(Events) /\ DOMAIN rest = 1 .. Len(rest) /\ Len(rest) \in Nat
      /\ \A i \in DOMAIN rest : \E j \in DOMAIN q : rest[i] = q[j]
  <2>1. CASE Len(q) >= Most(1, Capacity)
    <3>1. q # <<>> /\ Len(q) \in Nat
      BY <2>1, <1>1, AssociationAssumption DEF Most
    <3>2. Tail(q) \in Seq(Events) /\ Len(Tail(q)) = Len(q) - 1 /\ \A i \in 1 .. Len(q) - 1 : Tail(q)[i] = q[i + 1]
      BY <3>1
    <3>3. \A i \in 1 .. Len(q) - 1 : i + 1 \in DOMAIN q
      BY <3>1
    <3> QED BY <2>1, <3>1, <3>2, <3>3
  <2>2. CASE ~(Len(q) >= Most(1, Capacity))
    BY <2>2
  <2> QED BY <2>1, <2>2
<1> HIDE DEF rest
<1>3. /\ DOMAIN Append(rest, ev) = 1 .. Len(rest) + 1
      /\ \A i \in 1 .. Len(rest) : Append(rest, ev)[i] = rest[i]
      /\ Append(rest, ev)[Len(rest) + 1] = ev
  BY <1>2, AppendProperties
<1>4. \A i \in DOMAIN Append(rest, ev) : i \in DOMAIN rest \/ i = Len(rest) + 1
  BY <1>2, <1>3
<1>5. \A i \in DOMAIN Append(rest, ev) : Append(rest, ev)[i] = ev \/ \E j \in DOMAIN q : Append(rest, ev)[i] = q[j]
  BY <1>2, <1>3, <1>4
<1> QED BY <1>5, PushedType DEF Pushed, rest

LEMMA EmitIs ==
    ASSUME NEW d \in Ends, NEW ev
    PROVE  /\ Alike(d, Emit(d, ev)) /\ Emit(d, ev).state = d.state /\ Emit(d, ev).out = d.out
           /\ Emit(d, ev).outstanding = d.outstanding /\ Emit(d, ev).parts = d.parts
           /\ Emit(d, ev).events = Pushed(d.events, ev)
BY DEF Emit, Ends, Alike

Closing(why) == [k |-> "Closed", id |-> NoId, pdu |-> NoPdu, why |-> why]

LEMMA CloseIs ==
    ASSUME NEW d, Good(d), NEW why \in Reasons
    PROVE  LET x == Close(d, why)
           IN  /\ Alike(d, x) /\ x.state = "Closed" /\ x.out = d.out /\ x.outstanding = <<>>
               /\ d.state = "Closed" => x = d
               /\ d.state # "Closed" => x.parts = <<>> /\ x.events = Pushed(d.events, Closing(why))
<1>1. d \in Ends /\ (d.state = "Closed" => d.outstanding = <<>>)
  BY DEF Good
<1>2. CASE d.state = "Closed"
  BY <1>1, <1>2 DEF Close, Alike
<1>3. CASE d.state # "Closed"
  <2> DEFINE y == [d EXCEPT !.state = "Closed", !.armed = FALSE, !.outstanding = <<>>, !.parts = <<>>]
  <2>1. /\ Alike(d, y) /\ y.state = "Closed" /\ y.out = d.out /\ y.outstanding = <<>> /\ y.parts = <<>>
        /\ y.events = d.events
    BY <1>1 DEF Ends, Alike
  <2>2. y \in Ends
    <3>1. <<>> \in Seq(InvokeIds) /\ <<>> \in Seq(Tpdus) /\ "Closed" \in States
      BY EmptySeq DEF States
    <3> QED BY <3>1, <1>1 DEF Ends
  <2>3. Close(d, why) = Emit(y, Closing(why))
    BY <1>3 DEF Close, Closing
  <2> HIDE DEF y
  <2> QED BY <1>3, <2>1, <2>2, <2>3, EmitIs DEF Alike
<1> QED BY <1>2, <1>3

LEMMA QueueIs ==
    ASSUME NEW d \in Ends, NEW s
    PROVE  /\ Alike(d, Queue(d, s)) /\ Queue(d, s).state = d.state /\ Queue(d, s).out = d.out \o s
           /\ Queue(d, s).outstanding = d.outstanding /\ Queue(d, s).parts = d.parts
           /\ Queue(d, s).events = d.events
BY DEF Queue, Ends, Alike

LEMMA HeededPushed ==
    ASSUME NEW h \in Histories, NEW q \in Seq(Events), NEW ev \in Events, Heeded(h, q),
           ev.k \in {"Request", "Response"} => ev.id = ev.pdu.id /\ Called(h, ev.pdu)
    PROVE  /\ Heeded(h, Pushed(q, ev))
           /\ Answers(Pushed(q, ev)) \subseteq Answers(q) \cup (IF ev.k = "Response" THEN {ev.pdu.says} ELSE {})
<1>1. \A i \in DOMAIN Pushed(q, ev) : Pushed(q, ev)[i] = ev \/ \E j \in DOMAIN q : Pushed(q, ev)[i] = q[j]
  BY PushedElements
<1>2. Heeded(h, Pushed(q, ev))
  BY <1>1 DEF Heeded
<1>3. Answers(Pushed(q, ev)) \subseteq Answers(q) \cup (IF ev.k = "Response" THEN {ev.pdu.says} ELSE {})
  BY <1>1 DEF Answers
<1> QED BY <1>2, <1>3

\* What closing leaves, whatever was told before.
Shut(h, d, x) ==
    /\ Good(x) /\ Alike(d, x) /\ x.state = "Closed" /\ x.out = d.out
    /\ x.outstanding = <<>> /\ x.parts = <<>>
    /\ Heeded(h, x.events) /\ Answers(x.events) \subseteq Answers(d.events)
    /\ \E i \in DOMAIN x.events : x.events[i].k = "Closed"

LEMMA Shuts ==
    ASSUME NEW h \in Histories, NEW d, Good(d), d.state # "Closed", Heeded(h, d.events)
    PROVE  /\ \A why \in Reasons : Shut(h, d, Close(d, why))
           /\ Shut(h, d, Fail(d)) /\ Shut(h, d, Refused(d))
<1>1. ASSUME NEW x, Kept(d, x), x.state = d.state, Alike(d, x), x.out = d.out,
             Heeded(h, x.events), Answers(x.events) \subseteq Answers(d.events), NEW why \in Reasons
      PROVE  Shut(h, d, Close(x, why))
  <2>1. Good(x) /\ x.state # "Closed" /\ x.events \in Seq(Events)
    BY <1>1 DEF Kept, Good, Ends
  <2>2. Good(Close(x, why))
    BY <2>1, SelfKept, CloseGood
  <2>3. Closing(why) \in Events /\ Closing(why).k = "Closed"
    BY EventTypes DEF Closing
  <2> DEFINE y == Close(x, why)
  <2>4. /\ Alike(x, y) /\ y.state = "Closed" /\ y.out = x.out /\ y.outstanding = <<>> /\ y.parts = <<>>
        /\ y.events = Pushed(x.events, Closing(why))
    BY <2>1, CloseIs
  <2>5. Heeded(h, y.events) /\ Answers(y.events) \subseteq Answers(x.events)
    BY <1>1, <2>1, <2>3, <2>4, HeededPushed
  <2>6. \E i \in DOMAIN y.events : y.events[i].k = "Closed"
    BY <2>1, <2>3, <2>4, PushedElements
  <2> HIDE DEF y
  <2>7. Shut(h, d, y)
    BY <1>1, <2>2, <2>4, <2>5, <2>6 DEF Shut, Alike, y
  <2> QED BY <2>7 DEF y
<1>2. d \in Ends /\ d.events \in Seq(Events)
  BY DEF Good, Ends
<1>3. ASSUME NEW k \in {"Malformed", "Refused"}
      PROVE  LET x == Emit(d, Event(k, NoId))
             IN  /\ Kept(d, x) /\ x.state = d.state /\ Alike(d, x) /\ x.out = d.out
                 /\ Heeded(h, x.events) /\ Answers(x.events) \subseteq Answers(d.events)
  <2>1. Event(k, NoId) \in Events /\ Event(k, NoId).k = k
    BY <1>3, EventTypes DEF EventKinds, Event
  <2>2. k \notin {"Request", "Response"}
    BY <1>3
  <2> DEFINE x == Emit(d, Event(k, NoId))
  <2>3. Kept(d, x) /\ x.state = d.state /\ Alike(d, x) /\ x.out = d.out /\ x.events = Pushed(d.events, Event(k, NoId))
    BY <1>2, <2>1, EmitKeeps, EmitIs
  <2>4. Heeded(h, x.events) /\ Answers(x.events) \subseteq Answers(d.events)
    BY <1>2, <2>1, <2>2, <2>3, HeededPushed
  <2> QED BY <2>3, <2>4
<1>4. \A why \in Reasons : Shut(h, d, Close(d, why))
  BY <1>1, SelfKept DEF Alike
<1>5. Shut(h, d, Fail(d))
  <2> DEFINE x == Emit(d, Event("Malformed", NoId))
  <2>1. /\ Kept(d, x) /\ x.state = d.state /\ Alike(d, x) /\ x.out = d.out
        /\ Heeded(h, x.events) /\ Answers(x.events) \subseteq Answers(d.events)
    BY <1>3
  <2>2. Fail(d) = Close(x, "ProtocolError")
    BY DEF Fail
  <2> HIDE DEF x
  <2> QED BY <2>1, <2>2, <1>1 DEF Reasons
<1>6. Shut(h, d, Refused(d))
  <2> DEFINE x == Emit(d, Event("Refused", NoId))
  <2>1. /\ Kept(d, x) /\ x.state = d.state /\ Alike(d, x) /\ x.out = d.out
        /\ Heeded(h, x.events) /\ Answers(x.events) \subseteq Answers(d.events)
    BY <1>3
  <2>2. Refused(d) = Close(x, "Refused")
    BY DEF Refused
  <2> HIDE DEF x
  <2> QED BY <2>1, <2>2, <1>1 DEF Reasons
<1> QED BY <1>4, <1>5, <1>6

LEMMA ShutFits ==
    ASSUME NEW h \in Histories, NEW d, NEW x, Shut(h, d, x)
    PROVE  /\ ClientFits(h, d) => ClientFits(h, x)
           /\ ServerFits(h, d) => ServerFits(h, x)
<1>1. x.state = "Closed" /\ Outstanding(x) = {} /\ Len(x.outstanding) = 0 /\ x.parts = <<>>
  BY DEF Shut, Outstanding
<1>2. AllToClient(h, x.parts) /\ AllToServer(h, x.parts)
  BY <1>1 DEF AllToClient, AllToServer
<1>3. 0 <= Budget(h)
  BY AgreedTerms
<1> QED BY <1>1, <1>2, <1>3 DEF Shut, Alike, ClientFits, ServerFits

\* Nothing in q is of a call.
Quiet(q) == \A i \in DOMAIN q : q[i].of.mms.k \notin {"Request", "Response", "Reject"}
Mute(t) == t.mms.k \notin {"Request", "Response", "Reject"}

LEMMA Sends ==
    ASSUME NEW h \in Histories, NEW d, Good(d), d.chunk = Chunk(h), NEW t \in Tsdus
    PROVE  LET x == SendTsdu(d, t)
               s == Segments(t, Chunk(h))
           IN  /\ Kept(d, x) /\ Alike(d, x) /\ x.state = d.state
               /\ x.outstanding = d.outstanding /\ x.parts = d.parts /\ x.events = d.events
               /\ x.out = d.out \o s
               /\ TsduToServer(h, t) /\ AllToServer(h, d.out) => AllToServer(h, x.out)
               /\ TsduToClient(h, t) /\ AllToClient(h, d.out) => AllToClient(h, x.out)
               /\ Mute(t) /\ Quiet(d.out) => Quiet(x.out)
<1> DEFINE x == SendTsdu(d, t)
           s == Segments(t, Chunk(h))
<1>1. d \in Ends /\ d.out \in Seq(Tpdus)
  BY DEF Good, Ends
<1>2. x = Queue(d, s)
  BY DEF SendTsdu
<1>3. Kept(d, x)
  BY SendTsduKeeps
<1>4. /\ Alike(d, Queue(d, s)) /\ Queue(d, s).state = d.state /\ Queue(d, s).out = d.out \o s
      /\ Queue(d, s).outstanding = d.outstanding /\ Queue(d, s).parts = d.parts
      /\ Queue(d, s).events = d.events
  BY <1>1, QueueIs
<1>5. /\ s \in Seq(Tpdus)
      /\ \A i \in 1 .. Len(s) : s[i] \in Tpdus /\ s[i].k = "DT" /\ s[i].of = t /\ s[i].len <= Chunk(h)
  <2>1. AgreedExp(h) \in Nat /\ s = Segments(t, TpduData(AgreedExp(h)))
    BY AgreedSizes DEF Chunk
  <2> HIDE DEF s
  <2>2. /\ s \in Seq(Tpdus)
        /\ \A i \in 1 .. Len(s) : s[i] \in Tpdus /\ s[i].k = "DT" /\ s[i].of = t /\ s[i].len <= TpduData(AgreedExp(h))
    <3> DEFINE exp == AgreedExp(h)
    <3>1. exp \in Nat /\ s = Segments(t, TpduData(exp))
      BY <2>1
    <3> HIDE DEF exp
    <3>2. LET z == Segments(t, TpduData(exp))
          IN  /\ z \in Seq(Tpdus)
              /\ \A i \in 1 .. Len(z) : z[i] \in Tpdus /\ z[i].k = "DT" /\ z[i].of = t /\ z[i].len <= TpduData(exp)
      BY <3>1, SegmentsAre
    <3> QED BY <3>1, <3>2 DEF exp
  <2> QED BY <2>2 DEF Chunk
<1> HIDE DEF s, x
<1>6. DOMAIN s = 1 .. Len(s)
  BY <1>5
<1>0. /\ Alike(d, x) /\ x.state = d.state /\ x.outstanding = d.outstanding /\ x.parts = d.parts
      /\ x.events = d.events /\ x.out = d.out \o s
  BY <1>2, <1>4
<1>7. \A i \in DOMAIN x.out : (i \in DOMAIN d.out /\ x.out[i] = d.out[i]) \/ (i - Len(d.out) \in DOMAIN s /\ x.out[i] = s[i - Len(d.out)])
  BY <1>0, <1>1, <1>5, ConcatOf
<1>8. TsduToServer(h, t) => \A i \in DOMAIN s : TpduToServer(h, s[i])
  BY <1>5, <1>6 DEF TpduToServer
<1>9. TsduToClient(h, t) => \A i \in DOMAIN s : TpduToClient(h, s[i])
  BY <1>5, <1>6 DEF TpduToClient
<1>10. TsduToServer(h, t) /\ AllToServer(h, d.out) => AllToServer(h, x.out)
  BY <1>7, <1>8 DEF AllToServer
<1>11. TsduToClient(h, t) /\ AllToClient(h, d.out) => AllToClient(h, x.out)
  BY <1>7, <1>9 DEF AllToClient
<1>12. Mute(t) /\ Quiet(d.out) => Quiet(x.out)
  BY <1>5, <1>6, <1>7 DEF Quiet, Mute
<1> QED BY <1>0, <1>3, <1>10, <1>11, <1>12 DEF x, s

-----------------------------------------------------------------------------
(* What a TPDU does to the client's end                                    *)

LEMMA WholeOf ==
    ASSUME NEW parts \in Seq(Tpdus), NEW x \in Tpdus
    PROVE  \/ Whole(Append(parts, x)) = NoTsdu
           \/ /\ Whole(Append(parts, x)) = x.of
              /\ \A i \in DOMAIN parts : parts[i].of = x.of
<1> DEFINE all == Append(parts, x)
           n == Len(parts)
<1>1. n \in Nat /\ DOMAIN parts = 1 .. n
  OBVIOUS
<1>2. /\ DOMAIN all = 1 .. n + 1 /\ all[n + 1] = x
      /\ \A i \in 1 .. n : all[i] = parts[i]
  BY <1>1, AppendProperties
<1> HIDE DEF all, n
<1>3. SUFFICES ASSUME Whole(all) # NoTsdu
               PROVE  Whole(all) = x.of /\ \A i \in DOMAIN parts : parts[i].of = x.of
  BY DEF all
<1>4. Whole(all) = all[1].of /\ \A i \in DOMAIN all : all[i].of = all[1].of
  BY <1>3 DEF Whole
<1>5. n + 1 \in DOMAIN all /\ \A i \in DOMAIN parts : i \in DOMAIN all /\ all[i] = parts[i]
  BY <1>1, <1>2
<1> QED BY <1>2, <1>4, <1>5

LEMMA SettledIs ==
    ASSUME NEW d, Good(d), NEW id
    PROVE  LET x == Settled(d, id)
           IN  /\ Good(x) /\ Alike(d, x) /\ x.state = d.state /\ x.out = d.out
               /\ x.parts = d.parts /\ x.events = d.events
               /\ Outstanding(x) = Outstanding(d) \ {id}
               /\ Len(x.outstanding) <= Len(d.outstanding)
<1>1. Good(Settled(d, id)) /\ Outstanding(d) \subseteq Outstanding(Settled(d, id)) \cup {id}
  BY SettledGood
<1>2. CASE id \notin Outstanding(d)
  <2>1. Settled(d, id) = d /\ Len(d.outstanding) \in Nat
    BY <1>2 DEF Settled, Good, Ends
  <2> QED BY <1>1, <1>2, <2>1 DEF Alike
<1>3. CASE id \in Outstanding(d)
  <2> DEFINE s == d.outstanding
             i == Place(d, id)
             r == RemoveAt(s, i)
             x == [d EXCEPT !.outstanding = r]
  <2>1. d \in Ends /\ s \in Seq(InvokeIds) /\ Len(s) \in Nat /\ DOMAIN s = 1 .. Len(s)
    BY DEF Good, Ends
  <2>2. i \in 1 .. Len(s) /\ s[i] = id
    <3>1. \E j \in DOMAIN s : s[j] = id
      BY <1>3 DEF Outstanding
    <3> QED BY <3>1, <2>1 DEF Place
  <2>3. Settled(d, id) = x
    BY <1>3 DEF Settled
  <2> HIDE DEF i
  <2>4. /\ r \in Seq(InvokeIds) /\ Len(r) = Len(s) - 1
        /\ \A j \in 1 .. Len(s) - 1 : r[j] = IF j < i THEN s[j] ELSE s[j + 1]
    BY <2>1, <2>2, Removed
  <2> HIDE DEF r
  <2>5. /\ Alike(d, x) /\ x.state = d.state /\ x.out = d.out /\ x.parts = d.parts /\ x.events = d.events
        /\ x.outstanding = r
    BY <2>1 DEF Ends, Alike
  <2> HIDE DEF x
  <2>6. \A j, k \in 1 .. Len(s) : s[j] = s[k] => j = k
    BY <2>1 DEF Good, Numbers
  <2>7. DOMAIN r = 1 .. Len(s) - 1
    BY <2>1, <2>4
  <2> HIDE DEF s
  <2>8. \A j \in DOMAIN r : \E k \in 1 .. Len(s) : k # i /\ r[j] = s[k]
    <3> TAKE j \in DOMAIN r
    <3>1. CASE j < i
      <4>1. j \in 1 .. Len(s) /\ j # i /\ r[j] = s[j]
        BY <2>1, <2>2, <2>4, <2>7, <3>1
      <4> QED BY <4>1
    <3>2. CASE ~(j < i)
      <4>1. j + 1 \in 1 .. Len(s) /\ j + 1 # i /\ r[j] = s[j + 1]
        BY <2>1, <2>2, <2>4, <2>7, <3>2
      <4> QED BY <4>1
    <3> QED BY <3>1, <3>2
  <2>9. \A j \in DOMAIN r : r[j] # id /\ \E k \in 1 .. Len(s) : r[j] = s[k]
    BY <2>2, <2>6, <2>8
  <2>10. Outstanding(x) \subseteq Outstanding(d) \ {id}
    BY <2>1, <2>5, <2>9 DEF Outstanding, s
  <2>11. Outstanding(x) = Outstanding(d) \ {id}
    BY <1>1, <2>3, <2>10
  <2> QED BY <1>1, <2>1, <2>3, <2>4, <2>5, <2>11 DEF s
<1> QED BY <1>2, <1>3

\* What a TPDU x makes of the calls in a client's end d.
ClientTakes(d, x, y) ==
    /\ Quiet(d.out) => Quiet(y.out)
    /\ \/ y.state = "Closed" /\ y.parts = <<>> /\ Answers(y.events) \subseteq Answers(d.events)
       \/ /\ ~x.eot /\ y.parts = Append(d.parts, x)
          /\ y.outstanding = d.outstanding /\ y.events = d.events
       \/ /\ Mute(x.of) /\ y.outstanding = d.outstanding /\ Answers(y.events) \subseteq Answers(d.events)
          /\ y.parts = d.parts \/ (y.parts = <<>> /\ \A i \in DOMAIN d.parts : d.parts[i].of = x.of)
       \/ /\ x.eot /\ ~Mute(x.of) /\ y.parts = <<>> /\ \A i \in DOMAIN d.parts : d.parts[i].of = x.of
          /\ Outstanding(y) = Outstanding(d) \ {x.of.mms.id}
          /\ Answers(y.events) \subseteq Answers(d.events) \cup {x.of.mms.says}

LEMMA MuteTsdus ==
    /\ NoPdu.k = "Bad" /\ Mute(NoTsdu)
    /\ \A s, i : Mute(Control(s, i)) /\ Mute(Associate(s, i))
    /\ \A k, e : Mute(Transport(k, e).of)
BY DEF Mute, NoPdu, NoTsdu, Control, Associate, Transport

LEMMA TsduTypes ==
    ASSUME NEW h \in Histories
    PROVE  /\ Associate("Connect", Proposal(h.client)) \in Tsdus
           /\ Associate("Accept", Deal(h)) \in Tsdus
           /\ Control("Finish", "Release") \in Tsdus
           /\ Control("Disconnect", "ReleaseResponse") \in Tsdus
           /\ Transport("CC", AgreedExp(h)) \in Tpdus /\ Transport("CR", h.client.exp) \in Tpdus
<1>1. Proposal(h.client) \in Initiates /\ Deal(h) \in Initiates
  BY AgreedTerms
<1>2. AgreedExp(h) \in Nat /\ h.client.exp \in Nat
  BY AgreedSizes, HistoryTypes
<1> QED BY <1>1, <1>2, PieceTypes DEF SpduKinds, Insides, TpduKinds

LEMMA ClientShuts ==
    ASSUME NEW h \in Histories, NEW d, ClientFits(h, d), d.state # "Closed", NEW x, NEW y, Shut(h, d, y)
    PROVE  ClientFits(h, y) /\ y.state # "Connecting" /\ ClientTakes(d, x, y)
BY ShutFits DEF Shut, ClientTakes

\* The confirmation of the transport connection.
LEMMA ClientConfirmed ==
    ASSUME NEW h \in Histories, NEW d, ClientFits(h, d), d.state # "Closed"
    PROVE  LET x == Transport("CC", AgreedExp(h))
               y == OnConnectionConfirm(d, AgreedExp(h))
           IN  ClientFits(h, y) /\ y.state # "Connecting" /\ ClientTakes(d, x, y)
<1> DEFINE x == Transport("CC", AgreedExp(h))
           y == OnConnectionConfirm(d, AgreedExp(h))
<1>0. Good(d) /\ d \in Ends /\ d.role = "Client" /\ d.cfg = h.client /\ Heeded(h, d.events)
  BY DEF ClientFits, Good
<1>1. CASE d.state # "Connecting"
  <2>1. y = Close(d, "ProtocolError")
    BY <1>0, <1>1 DEF OnConnectionConfirm
  <2>2. Shut(h, d, y)
    BY <1>0, <2>1, Shuts DEF Reasons
  <2> QED BY <2>2, ClientShuts
<1>2. CASE d.state = "Connecting"
  <2> DEFINE chunk == TpduData(SizeExp(d, AgreedExp(h)))
             e1 == [d EXCEPT !.chunk = chunk, !.state = "Associating"]
             t == Associate("Connect", Proposal(h.client))
  <2>1. y = SendTsdu(e1, t)
    BY <1>0, <1>2 DEF OnConnectionConfirm
  <2>2. chunk = Chunk(h) /\ Chunk(h) \in Nat \ {0}
    BY <1>0, AgreedSizes
  <2>3. t \in Tsdus /\ TsduToServer(h, t) /\ Mute(t)
    BY TsduTypes, MuteTsdus DEF TsduToServer
  <2> HIDE DEF chunk, t, y
  <2>4. /\ e1.chunk = Chunk(h) /\ e1.state = "Associating" /\ e1.role = "Client" /\ e1.cfg = d.cfg
        /\ e1.terms = d.terms /\ e1.peerMaxPdu = d.peerMaxPdu /\ e1.out = d.out
        /\ e1.outstanding = d.outstanding /\ e1.parts = d.parts /\ e1.events = d.events
    BY <1>0, <2>2 DEF Ends
  <2>5. Good(e1)
    <3>1. e1 = [d EXCEPT !.chunk = chunk, !.state = "Associating", !.armed = d.armed]
      BY <1>0 DEF Ends
    <3>2. "Associating" \in States \ {"Closed"} /\ d.armed \in BOOLEAN /\ chunk \in Nat \ {0}
      BY <1>0, <2>2 DEF States, Ends
    <3> HIDE DEF e1
    <3>3. Kept(d, [d EXCEPT !.chunk = chunk, !.state = "Associating", !.armed = d.armed])
      BY <1>0, <3>2, ChunkSetKeeps
    <3> QED BY <3>1, <3>3 DEF Kept
  <2> HIDE DEF e1
  <2>6. /\ Kept(e1, y) /\ Alike(e1, y) /\ y.state = "Associating"
        /\ y.outstanding = d.outstanding /\ y.parts = d.parts /\ y.events = d.events
        /\ AllToServer(h, d.out) => AllToServer(h, y.out)
        /\ Quiet(d.out) => Quiet(y.out)
    BY <2>1, <2>3, <2>4, <2>5, Sends
  <2>7. ClientFits(h, y)
    <3>1. /\ Good(y) /\ y.role = "Client" /\ y.cfg = h.client /\ y.chunk = Chunk(h)
      BY <1>0, <2>4, <2>6 DEF Alike, Kept
    <3>2. Outstanding(y) = Outstanding(d) /\ y.outstanding = d.outstanding
      BY <2>6 DEF Outstanding
    <3> QED BY <2>6, <3>1, <3>2 DEF ClientFits
  <2>8. ClientTakes(d, x, y)
    BY <2>6, MuteTsdus DEF ClientTakes
  <2> QED BY <2>6, <2>7, <2>8 DEF y
<1> QED BY <1>1, <1>2

\* The answer to the association's proposal.
LEMMA ClientAccepted ==
    ASSUME NEW h \in Histories, NEW d, ClientFits(h, d), d.state \notin {"Closed", "Connecting"}
    PROVE  LET y == OnSessionAccept(d, Associate("Accept", Deal(h)))
           IN  /\ ClientFits(h, y) /\ y.state # "Connecting"
               /\ y.out = d.out /\ y.parts = d.parts /\ y.outstanding = d.outstanding
               /\ Answers(y.events) \subseteq Answers(d.events)
<1> DEFINE t == Associate("Accept", Deal(h))
           y == OnSessionAccept(d, t)
           e1 == [d EXCEPT !.peerMaxPdu = Deal(h).pdu]
           g == Agreed(d, Deal(h), Deal(h).calling)
           e2 == [e1 EXCEPT !.state = "Established", !.armed = FALSE, !.terms = g]
           ev == Event("Established", NoId)
<1>0. Good(d) /\ d \in Ends /\ d.role = "Client" /\ d.cfg = h.client /\ Heeded(h, d.events) /\ d.events \in Seq(Events)
  BY DEF ClientFits, Good, Ends
<1>1. /\ Deal(h) \in Initiates /\ Deal(h).pdu = Least(h.server.maxPdu, h.client.maxPdu)
      /\ g.budget = Budget(h)
  BY <1>0, AgreedTerms
<1>2. t.inside = "initiate" /\ t.init = Deal(h) /\ t.spdu = "Accept"
  BY DEF Associate
<1>3. y = Established(e1, g)
  BY <1>0, <1>2 DEF OnSessionAccept
<1>4. g \in Terms /\ g.budget <= d.cfg.budget /\ Deal(h).pdu \in Nat
  <2>1. Deal(h).calling \in Nat /\ Deal(h).pdu \in Nat
    BY <1>1 DEF Initiates
  <2> QED BY <1>0, <1>1, <2>1, ProposalTypes
<1>5. y = Emit(e2, ev)
  BY <1>3 DEF Established
<1> HIDE DEF t, g, y
<1>6. /\ e2.role = d.role /\ e2.cfg = d.cfg /\ e2.chunk = d.chunk /\ e2.out = d.out /\ e2.parts = d.parts
      /\ e2.events = d.events /\ e2.outstanding = d.outstanding
      /\ e2.state = "Established" /\ e2.terms = g /\ e2.peerMaxPdu = Deal(h).pdu /\ e2 \in Ends
  BY <1>0, <1>4 DEF Ends, States
<1>7. Kept(d, y)
  <2>1. Kept(d, e1)
    BY <1>0, <1>4, PeerSetKeeps
  <2> HIDE DEF e1
  <2>2. Good(e1) /\ e1.outstanding = d.outstanding /\ e1.cfg = d.cfg
    BY <2>1 DEF Kept
  <2>3. Kept(e1, y)
    BY <1>3, <1>4, <2>2, EstablishedKeeps
  <2> QED BY <2>2, <2>3 DEF Kept
<1> HIDE DEF e1, e2
<1>8. ev \in Events /\ ev.k = "Established"
  BY EventTypes DEF EventKinds, Event
<1> HIDE DEF ev
<1>9. /\ Alike(e2, y) /\ y.state = "Established" /\ y.out = d.out /\ y.outstanding = d.outstanding
      /\ y.parts = d.parts /\ y.events = Pushed(d.events, ev)
  BY <1>5, <1>6, EmitIs
<1>10. Heeded(h, y.events) /\ Answers(y.events) \subseteq Answers(d.events)
  BY <1>0, <1>8, <1>9, HeededPushed
<1>11. y.chunk = Chunk(h)
  <2>1. d.state \in {"Associating", "Established", "Releasing"}
    BY <1>0 DEF ClientFits, Ends, States
  <2> QED BY <2>1, <1>6, <1>9 DEF ClientFits, Alike
<1>12. ClientFits(h, y)
  BY <1>0, <1>1, <1>6, <1>7, <1>9, <1>10, <1>11 DEF ClientFits, Alike, Kept, Outstanding
<1> QED BY <1>9, <1>10, <1>12 DEF y, t

\* An answer, a reject or a report.
LEMMA ClientDelivered ==
    ASSUME NEW h \in Histories, NEW d, ClientFits(h, d), d.state # "Closed",
           NEW p \in Pdus, p.k \in {"Response", "Reject", "Unconfirmed"}, p.k # "Unconfirmed" => Called(h, p)
    PROVE  LET y == DeliverMms(d, p)
           IN  /\ ClientFits(h, y) /\ y.state = d.state /\ y.out = d.out /\ y.parts = d.parts
               /\ p.k = "Unconfirmed" =>
                      y.outstanding = d.outstanding /\ Answers(y.events) \subseteq Answers(d.events)
               /\ p.k # "Unconfirmed" =>
                      /\ Outstanding(y) = Outstanding(d) \ {p.id}
                      /\ Answers(y.events) \subseteq Answers(d.events) \cup {p.says}
<1> DEFINE x == IF p.k = "Unconfirmed" THEN d ELSE Settled(d, p.id)
           ev == Heard(d, p)
           y == DeliverMms(d, p)
<1>0. Good(d) /\ Heeded(h, d.events)
  BY DEF ClientFits
<1>1. y = Emit(x, ev)
  BY DEF DeliverMms, EndsRequest
<1>2. /\ Good(x) /\ Alike(d, x) /\ x.state = d.state /\ x.out = d.out /\ x.parts = d.parts /\ x.events = d.events
      /\ p.k = "Unconfirmed" => x.outstanding = d.outstanding
      /\ p.k # "Unconfirmed" => Outstanding(x) = Outstanding(d) \ {p.id}
      /\ Len(x.outstanding) <= Len(d.outstanding) /\ Outstanding(x) \subseteq Outstanding(d)
  <2>1. CASE p.k = "Unconfirmed"
    <3>1. x = d /\ Len(d.outstanding) \in Nat
      BY <1>0, <2>1 DEF Good, Ends
    <3> QED BY <1>0, <2>1, <3>1 DEF Alike
  <2>2. CASE p.k # "Unconfirmed"
    <3>1. x = Settled(d, p.id)
      BY <2>2
    <3> HIDE DEF x
    <3> QED BY <1>0, <2>2, <3>1, SettledIs
  <2> QED BY <2>1, <2>2
<1>3. /\ ev \in Events
      /\ p.k = "Response" => ev = Carrying("Response", p)
      /\ p.k = "Reject" => ev = Carrying("Rejected", p)
      /\ p.k = "Unconfirmed" => ev = Carrying("Unconfirmed", p)
  BY HeardType DEF Heard
<1> HIDE DEF x, y, ev
<1>4. /\ ev.k \in {"Request", "Response"} => ev.id = ev.pdu.id /\ Called(h, ev.pdu)
      /\ ev.k = "Response" => p.k = "Response" /\ ev.pdu.says = p.says
  <2>1. \A k : Carrying(k, p).k = k /\ Carrying(k, p).id = p.id /\ Carrying(k, p).pdu = p
    BY DEF Carrying
  <2> QED BY <1>3, <2>1
<1>5. x \in Ends /\ x.events \in Seq(Events)
  BY <1>2 DEF Good, Ends
<1>6. /\ Kept(x, y) /\ Alike(x, y) /\ y.state = x.state /\ y.out = x.out
      /\ y.outstanding = x.outstanding /\ y.parts = x.parts /\ y.events = Pushed(x.events, ev)
  BY <1>1, <1>2, <1>3, <1>5, EmitIs, EmitKeeps
<1>7. /\ Heeded(h, y.events)
      /\ Answers(y.events) \subseteq Answers(d.events) \cup (IF ev.k = "Response" THEN {ev.pdu.says} ELSE {})
  BY <1>0, <1>2, <1>3, <1>4, <1>5, <1>6, HeededPushed
<1>8. Outstanding(y) = Outstanding(x)
  BY <1>6 DEF Outstanding
<1>9. Len(y.outstanding) <= Budget(h)
  <2>1. Len(x.outstanding) \in Nat /\ Len(d.outstanding) \in Nat /\ Budget(h) \in Nat /\ Len(d.outstanding) <= Budget(h)
    BY <1>0, <1>2, AgreedTerms DEF Good, Ends, ClientFits
  <2> QED BY <1>2, <1>6, <2>1
<1>10. ClientFits(h, y)
  BY <1>2, <1>6, <1>7, <1>8, <1>9 DEF ClientFits, Alike, Kept
<1>11. /\ p.k = "Unconfirmed" => y.outstanding = d.outstanding /\ Answers(y.events) \subseteq Answers(d.events)
       /\ p.k # "Unconfirmed" =>
              /\ Outstanding(y) = Outstanding(d) \ {p.id}
              /\ Answers(y.events) \subseteq Answers(d.events) \cup {p.says}
  BY <1>2, <1>4, <1>6, <1>7, <1>8
<1> QED BY <1>2, <1>6, <1>10, <1>11 DEF y

LEMMA PartsSet ==
    ASSUME NEW d, Good(d), NEW parts \in Seq(Tpdus)
    PROVE  LET x == [d EXCEPT !.parts = parts]
           IN  /\ Good(x) /\ Alike(d, x) /\ x.state = d.state /\ x.out = d.out /\ x.parts = parts
               /\ x.outstanding = d.outstanding /\ x.events = d.events
<1>1. d \in Ends
  BY DEF Good
<1>2. Kept(d, [d EXCEPT !.parts = parts])
  BY PartsSetKeeps
<1> QED BY <1>1, <1>2 DEF Kept, Ends, Alike

\* The last piece of a TSDU.
LEMMA ClientHearsTsdu ==
    ASSUME NEW h \in Histories, NEW d, ClientFits(h, d), d.state \notin {"Closed", "Connecting"},
           NEW x, TpduToClient(h, x), x.k = "DT", x.eot
    PROVE  LET y == OnTsdu([d EXCEPT !.parts = <<>>], Whole(Append(d.parts, x)))
           IN  ClientFits(h, y) /\ y.state # "Connecting" /\ ClientTakes(d, x, y)
<1> DEFINE e1 == [d EXCEPT !.parts = <<>>]
           w == Whole(Append(d.parts, x))
           y == OnTsdu(e1, w)
<1>0. Good(d) /\ d \in Ends /\ d.parts \in Seq(Tpdus) /\ x \in Tpdus /\ Heeded(h, d.events)
  BY DEF ClientFits, Good, Ends, TpduToClient
<1>1. /\ Good(e1) /\ Alike(d, e1) /\ e1.state = d.state /\ e1.out = d.out /\ e1.parts = <<>>
      /\ e1.outstanding = d.outstanding /\ e1.events = d.events
  BY <1>0, EmptySeq, PartsSet
<1>2. ClientFits(h, e1)
  <2>1. AllToClient(h, <<>>) /\ Outstanding(e1) = Outstanding(d)
    BY <1>1 DEF AllToClient, Outstanding
  <2> QED BY <1>1, <2>1 DEF ClientFits, Alike
<1>3. w = NoTsdu \/ (w = x.of /\ \A i \in DOMAIN d.parts : d.parts[i].of = x.of)
  BY <1>0, WholeOf
<1>4. TsduToClient(h, x.of)
  <2>1. Transport("CC", AgreedExp(h)).k = "CC"
    BY DEF Transport
  <2> QED BY <2>1 DEF TpduToClient
<1> HIDE DEF e1, w
<1>5. ASSUME Shut(h, e1, y)
      PROVE  ClientFits(h, y) /\ y.state # "Connecting" /\ ClientTakes(d, x, y)
  BY <1>1, <1>2, <1>5, ShutFits DEF Shut, ClientTakes
<1>6. CASE w = NoTsdu
  <2>1. y = Fail(e1)
    BY <1>6 DEF OnTsdu, NoTsdu, Control
  <2>2. Shut(h, e1, y)
    BY <1>0, <1>1, <2>1, Shuts
  <2> QED BY <1>5, <2>2 DEF y, e1, w
<1>7. CASE w # NoTsdu /\ x.of = Associate("Accept", Deal(h))
  <2>1. y = OnSessionAccept(e1, Associate("Accept", Deal(h)))
    <3>1. w = Associate("Accept", Deal(h)) /\ Associate("Accept", Deal(h)).spdu = "Accept"
      BY <1>3, <1>7 DEF Associate
    <3> QED BY <3>1 DEF OnTsdu
  <2>2. /\ ClientFits(h, y) /\ y.state # "Connecting" /\ y.out = d.out
        /\ y.parts = <<>> /\ y.outstanding = d.outstanding /\ Answers(y.events) \subseteq Answers(d.events)
    BY <1>1, <1>2, <2>1, ClientAccepted
  <2>3. Mute(x.of)
    BY <1>7, MuteTsdus
  <2>4. ClientTakes(d, x, y)
    BY <1>3, <1>7, <2>2, <2>3 DEF ClientTakes
  <2> QED BY <2>2, <2>4 DEF y, e1, w
<1>8. CASE w # NoTsdu /\ x.of = Control("Disconnect", "ReleaseResponse")
  <2>1. y = Close(e1, "Released")
    BY <1>3, <1>8 DEF OnTsdu, Control
  <2>2. Shut(h, e1, y)
    BY <1>0, <1>1, <2>1, Shuts DEF Reasons
  <2> QED BY <1>5, <2>2 DEF y, e1, w
<1>9. CASE /\ w # NoTsdu /\ x.of = UserData(x.of.mms)
           /\ x.of.mms.k = "Unconfirmed" \/ (x.of.mms.k \in {"Response", "Reject"} /\ Called(h, x.of.mms))
  <2> DEFINE p == x.of.mms
  <2>1. y = DeliverMms(e1, p)
    <3>1. w.spdu = "Data" /\ w.inside = "mms" /\ w.mms = p
      BY <1>3, <1>9 DEF UserData
    <3> QED BY <3>1 DEF OnTsdu, OnUserData
  <2>2. p \in Pdus
    BY <1>0 DEF Tpdus, Tsdus
  <2>3. p.k \in {"Response", "Reject", "Unconfirmed"} /\ (p.k # "Unconfirmed" => Called(h, p))
    BY <1>9
  <2> HIDE DEF p, y
  <2>4. /\ ClientFits(h, y) /\ y.state = e1.state /\ y.out = e1.out /\ y.parts = e1.parts
        /\ p.k = "Unconfirmed" =>
               y.outstanding = e1.outstanding /\ Answers(y.events) \subseteq Answers(e1.events)
        /\ p.k # "Unconfirmed" =>
               /\ Outstanding(y) = Outstanding(e1) \ {p.id}
               /\ Answers(y.events) \subseteq Answers(e1.events) \cup {p.says}
    <3>1. e1.state # "Closed"
      BY <1>1
    <3>2. /\ ClientFits(h, DeliverMms(e1, p)) /\ DeliverMms(e1, p).state = e1.state
          /\ DeliverMms(e1, p).out = e1.out /\ DeliverMms(e1, p).parts = e1.parts
          /\ p.k = "Unconfirmed" =>
                 /\ DeliverMms(e1, p).outstanding = e1.outstanding
                 /\ Answers(DeliverMms(e1, p).events) \subseteq Answers(e1.events)
          /\ p.k # "Unconfirmed" =>
                 /\ Outstanding(DeliverMms(e1, p)) = Outstanding(e1) \ {p.id}
                 /\ Answers(DeliverMms(e1, p).events) \subseteq Answers(e1.events) \cup {p.says}
      BY <1>2, <2>2, <2>3, <3>1, ClientDelivered
    <3> QED BY <2>1, <3>2
  <2>5. Outstanding(e1) = Outstanding(d)
    BY <1>1 DEF Outstanding
  <2>6. ClientTakes(d, x, y)
    <3>1. CASE p.k = "Unconfirmed"
      BY <1>1, <1>3, <1>9, <2>4, <3>1 DEF ClientTakes, Mute, p
    <3>2. CASE p.k # "Unconfirmed"
      BY <1>1, <1>3, <1>9, <2>4, <2>5, <3>2 DEF ClientTakes, Mute, p
    <3> QED BY <3>1, <3>2
  <2> QED BY <1>1, <2>4, <2>6 DEF y, e1, w
<1> QED BY <1>4, <1>6, <1>7, <1>8, <1>9 DEF TsduToClient

LEMMA ClientOnTpdu ==
    ASSUME NEW h \in Histories, NEW d, ClientFits(h, d), d.state # "Closed",
           NEW x, TpduToClient(h, x), d.state = "Connecting" => x.k # "DT"
    PROVE  LET y == OnTpdu(d, x)
           IN  ClientFits(h, y) /\ y.state # "Connecting" /\ ClientTakes(d, x, y)
<1> DEFINE y == OnTpdu(d, x)
           all == Append(d.parts, x)
<1>0. Good(d) /\ d.parts \in Seq(Tpdus) /\ x \in Tpdus /\ Heeded(h, d.events)
  BY DEF ClientFits, Good, Ends, TpduToClient
<1>1. CASE x = Transport("CC", AgreedExp(h))
  <2>1. y = OnConnectionConfirm(d, AgreedExp(h))
    BY <1>1 DEF OnTpdu, Transport
  <2> QED BY <1>1, <2>1, ClientConfirmed
<1>2. CASE x.k = "DT"
  <2>1. y = OnData(d, x) /\ d.state # "Connecting"
    BY <1>2 DEF OnTpdu
  <2>2. y = Fail(d) \/ (x.eot /\ y = OnTsdu([d EXCEPT !.parts = <<>>], Whole(all))) \/ (~x.eot /\ y = [d EXCEPT !.parts = all])
    BY <2>1 DEF OnData
  <2>3. CASE y = Fail(d)
    <3>1. Shut(h, d, y)
      BY <1>0, <2>3, Shuts
    <3> QED BY <3>1, ClientShuts
  <2>4. CASE x.eot /\ y = OnTsdu([d EXCEPT !.parts = <<>>], Whole(all))
    BY <1>2, <2>1, <2>4, ClientHearsTsdu
  <2>5. CASE ~x.eot /\ y = [d EXCEPT !.parts = all]
    <3>1. /\ all \in Seq(Tpdus)
          /\ \A i \in DOMAIN all : all[i] = x \/ \E j \in DOMAIN d.parts : all[i] = d.parts[j]
      BY <1>0, AppendProperties
    <3>2. AllToClient(h, all)
      BY <3>1 DEF AllToClient, ClientFits
    <3> HIDE DEF all
    <3>3. /\ Good(y) /\ Alike(d, y) /\ y.state = d.state /\ y.out = d.out /\ y.parts = all
          /\ y.outstanding = d.outstanding /\ y.events = d.events
      BY <1>0, <2>5, <3>1, PartsSet
    <3>4. ClientFits(h, y)
      BY <3>2, <3>3 DEF ClientFits, Alike, Outstanding
    <3>5. ClientTakes(d, x, y)
      BY <2>5, <3>3 DEF ClientTakes, all
    <3> QED BY <2>1, <3>3, <3>4, <3>5
  <2> QED BY <2>2, <2>3, <2>4, <2>5
<1> QED BY <1>1, <1>2 DEF TpduToClient

-----------------------------------------------------------------------------
(* What a TPDU does to the server's end                                    *)

\* What a TPDU x makes of the calls in a server's end d.
ServerTakes(d, x, y) ==
    \/ y.state = "Closed" /\ y.parts = <<>>
    \/ ~x.eot /\ y.parts = Append(d.parts, x) /\ y.events = d.events
    \/ /\ Mute(x.of)
       /\ y.events = d.events \/ \E ev \in Events : ev.k # "Request" /\ y.events = Pushed(d.events, ev)
       /\ y.parts = d.parts \/ (y.parts = <<>> /\ \A i \in DOMAIN d.parts : d.parts[i].of = x.of)
    \/ /\ x.eot /\ x.of.mms.k = "Request" /\ y.parts = <<>> /\ \A i \in DOMAIN d.parts : d.parts[i].of = x.of
       /\ y.events = Pushed(d.events, Carrying("Request", x.of.mms))

\* The server's end after a TPDU, and that it answers no call by itself.
ServerHears(h, d, x, y) ==
    /\ ServerFits(h, y) /\ y.state # "Idle" /\ ServerTakes(d, x, y)
    /\ y.state = "Closed" => \E i \in DOMAIN y.events : y.events[i].k = "Closed"
    /\ Quiet(d.out) => Quiet(y.out)
    /\ NoData(d.out) /\ x.k # "DT" /\ d.state # "Established" => NoData(y.out) /\ y.state # "Established"

LEMMA ServerShuts ==
    ASSUME NEW h \in Histories, NEW d, ServerFits(h, d), d.state # "Closed", NEW x, NEW y, Shut(h, d, y)
    PROVE  ServerHears(h, d, x, y)
BY ShutFits DEF Shut, ServerTakes, ServerHears

\* The request for a transport connection.
LEMMA ServerRequested ==
    ASSUME NEW h \in Histories, NEW d, ServerFits(h, d), d.state # "Closed"
    PROVE  ServerHears(h, d, Transport("CR", h.client.exp), OnConnectionRequest(d, h.client.exp))
<1> DEFINE x == Transport("CR", h.client.exp)
           y == OnConnectionRequest(d, h.client.exp)
           cc == Transport("CC", AgreedExp(h))
           e1 == Queue(d, <<cc>>)
<1>0. Good(d) /\ d \in Ends /\ d.role = "Server" /\ d.cfg = h.server /\ d.out \in Seq(Tpdus)
  BY DEF ServerFits, Good, Ends
<1>1. SizeExp(d, h.client.exp) = AgreedExp(h) /\ Chunk(h) \in Nat \ {0}
  BY <1>0, AgreedSizes
<1>2. y = [e1 EXCEPT !.chunk = Chunk(h), !.state = "Associating", !.armed = d.cfg.connect \/ @]
  BY <1>0, <1>1 DEF OnConnectionRequest, Chunk
<1>3. cc \in Tpdus /\ cc.k = "CC" /\ Mute(cc.of) /\ <<cc>> \in Seq(Tpdus)
  <2>1. cc \in Tpdus /\ Mute(cc.of)
    BY TsduTypes, MuteTsdus
  <2>2. cc.k = "CC"
    BY DEF Transport
  <2> HIDE DEF cc
  <2> QED BY <2>1, <2>2
<1>4. TpduToClient(h, cc)
  BY <1>3 DEF TpduToClient
<1> HIDE DEF cc, y
<1>5. /\ Alike(d, e1) /\ e1.out = d.out \o <<cc>> /\ e1.state = d.state
      /\ e1.outstanding = d.outstanding /\ e1.parts = d.parts /\ e1.events = d.events
  BY <1>0, QueueIs
<1>6. Kept(d, e1)
  BY <1>0, <1>3, QueueKeeps
<1> HIDE DEF e1
<1>7. Good(e1) /\ e1 \in Ends
  BY <1>6 DEF Kept, Good
<1>8. Kept(e1, y)
  <2>1. "Associating" \in States \ {"Closed"} /\ (d.cfg.connect \/ e1.armed) \in BOOLEAN
    BY DEF States
  <2> QED BY <1>1, <1>2, <1>7, <2>1, ChunkSetKeeps
<1>9. /\ y.role = d.role /\ y.cfg = d.cfg /\ y.chunk = Chunk(h) /\ y.state = "Associating" /\ y.out = d.out \o <<cc>>
      /\ y.outstanding = d.outstanding /\ y.parts = d.parts /\ y.events = d.events
  BY <1>2, <1>5, <1>7 DEF Ends, Alike
<1>10. \A i \in DOMAIN y.out : y.out[i] = cc \/ (i \in DOMAIN d.out /\ y.out[i] = d.out[i])
  BY <1>0, <1>3, <1>9
<1>11. AllToClient(h, y.out) /\ (Quiet(d.out) => Quiet(y.out)) /\ (NoData(d.out) => NoData(y.out))
  BY <1>3, <1>4, <1>10 DEF AllToClient, Quiet, NoData, Mute, ServerFits
<1>12. ServerFits(h, y)
  BY <1>8, <1>9, <1>11 DEF ServerFits, Kept
<1>13. ServerTakes(d, x, y)
  BY <1>9, MuteTsdus DEF ServerTakes
<1> QED BY <1>9, <1>11, <1>12, <1>13 DEF ServerHears, y

\* The client's proposal.
LEMMA ServerConnected ==
    ASSUME NEW h \in Histories, NEW d, ServerFits(h, d), d.state \notin {"Closed", "Idle"}
    PROVE  LET y == OnSessionConnect(d, Associate("Connect", Proposal(h.client)))
           IN  /\ ServerFits(h, y) /\ y.state = "Established" /\ y.parts = d.parts
               /\ \E ev \in Events : ev.k # "Request" /\ y.events = Pushed(d.events, ev)
               /\ Quiet(d.out) => Quiet(y.out)
<1> DEFINE t == Associate("Connect", Proposal(h.client))
           y == OnSessionConnect(d, t)
           a == Associate("Accept", Deal(h))
           e1 == [d EXCEPT !.peerMaxPdu = h.client.maxPdu]
           e2 == SendTsdu(e1, a)
           g == Agreed(d, Proposal(h.client), Proposal(h.client).called)
           e3 == [e2 EXCEPT !.state = "Established", !.armed = FALSE, !.terms = g]
           ev == Event("Established", NoId)
<1>0. /\ Good(d) /\ d \in Ends /\ d.role = "Server" /\ d.cfg = h.server /\ Heeded(h, d.events)
      /\ d.state \in {"Associating", "Established"} /\ d.chunk = Chunk(h)
  BY DEF ServerFits, Good, Ends, States
<1>1. /\ Proposal(h.client) \in Initiates /\ Proposal(h.client).pdu = h.client.maxPdu /\ h.client.maxPdu \in Nat
      /\ Answer(d.cfg, Proposal(h.client)) = Deal(h)
  BY <1>0, AgreedTerms, HistoryTypes DEF Deal
<1>2. y = Established(e2, g)
  <2>1. t.inside = "initiate" /\ t.init = Proposal(h.client)
    BY DEF Associate
  <2> QED BY <1>0, <1>1, <2>1 DEF OnSessionConnect
<1>3. g \in Terms /\ g.budget <= d.cfg.budget
  <2>1. Proposal(h.client).called \in Nat
    BY <1>1 DEF Initiates
  <2> QED BY <1>0, <1>1, <2>1, ProposalTypes
<1>4. a \in Tsdus /\ TsduToClient(h, a) /\ Mute(a)
  BY TsduTypes, MuteTsdus DEF TsduToClient
<1>5. y = Emit(e3, ev)
  BY <1>2 DEF Established
<1> HIDE DEF t, g, y, a
<1>6. Kept(d, e1)
  BY <1>0, <1>1, PeerSetKeeps
<1>7. /\ e1.role = d.role /\ e1.cfg = d.cfg /\ e1.chunk = Chunk(h) /\ e1.out = d.out /\ e1.parts = d.parts
      /\ e1.events = d.events /\ e1.outstanding = d.outstanding /\ e1.peerMaxPdu = h.client.maxPdu
  BY <1>0 DEF Ends
<1> HIDE DEF e1
<1>8. /\ Kept(e1, e2) /\ Alike(e1, e2)
      /\ e2.outstanding = d.outstanding /\ e2.parts = d.parts /\ e2.events = d.events
      /\ AllToClient(h, e2.out) /\ (Quiet(d.out) => Quiet(e2.out))
  <2>1. Good(e1) /\ AllToClient(h, d.out)
    BY <1>6 DEF Kept, ServerFits
  <2> QED BY <2>1, <1>4, <1>7, Sends
<1> HIDE DEF e2
<1>9. Good(e2) /\ e2 \in Ends /\ g.budget <= e2.cfg.budget
  BY <1>3, <1>7, <1>8 DEF Kept, Good, Alike
<1>10. Kept(e2, y)
  BY <1>2, <1>3, <1>9, EstablishedKeeps
<1>11. /\ Alike(e2, [e3 EXCEPT !.terms = e2.terms]) /\ e3.role = e2.role /\ e3.cfg = e2.cfg /\ e3.chunk = e2.chunk /\ e3.peerMaxPdu = e2.peerMaxPdu
       /\ e3.out = e2.out /\ e3.parts = e2.parts
       /\ e3.events = e2.events /\ e3.outstanding = e2.outstanding /\ e3.state = "Established" /\ e3 \in Ends
  BY <1>3, <1>9 DEF Ends, States, Alike
<1> HIDE DEF e3
<1>12. ev \in Events /\ ev.k = "Established"
  BY EventTypes DEF EventKinds, Event
<1> HIDE DEF ev
<1>13. /\ Alike(e3, y) /\ y.state = "Established" /\ y.out = e2.out /\ y.outstanding = d.outstanding
       /\ y.parts = d.parts /\ y.events = Pushed(d.events, ev)
  BY <1>5, <1>8, <1>11, EmitIs
<1>14. Heeded(h, y.events)
  <2>1. d.events \in Seq(Events) /\ ev.k \notin {"Request", "Response"}
    BY <1>0, <1>12 DEF Ends
  <2> QED BY <1>0, <1>12, <1>13, <2>1, HeededPushed
<1>15. ServerFits(h, y)
  <2>1. Good(y)
    BY <1>10 DEF Kept
  <2>2. /\ y.role = "Server" /\ y.cfg = h.server /\ y.chunk = Chunk(h) /\ y.peerMaxPdu = h.client.maxPdu
        /\ y.outstanding = <<>> /\ AllToServer(h, y.parts)
    BY <1>0, <1>7, <1>8, <1>11, <1>13 DEF Alike, ServerFits
  <2> QED BY <1>8, <1>13, <1>14, <2>1, <2>2 DEF ServerFits
<1> QED BY <1>8, <1>12, <1>13, <1>15 DEF y, t

\* A request.
LEMMA ServerAsked ==
    ASSUME NEW h \in Histories, NEW d, ServerFits(h, d), d.state # "Closed",
           NEW p \in Pdus, p.k = "Request", Called(h, p)
    PROVE  LET y == DeliverMms(d, p)
           IN  /\ ServerFits(h, y) /\ y.state = d.state /\ y.parts = d.parts /\ y.out = d.out
               /\ y.events = Pushed(d.events, Carrying("Request", p))
<1> DEFINE ev == Carrying("Request", p)
           y == DeliverMms(d, p)
<1>0. Good(d) /\ d \in Ends /\ Heeded(h, d.events) /\ d.events \in Seq(Events)
  BY DEF ServerFits, Good, Ends
<1>1. y = Emit(d, ev)
  BY DEF DeliverMms, EndsRequest, Heard
<1>2. ev \in Events /\ ev.k = "Request" /\ ev.id = p.id /\ ev.pdu = p
  BY EventTypes DEF EventKinds, Carrying
<1> HIDE DEF ev, y
<1>3. /\ Kept(d, y) /\ Alike(d, y) /\ y.state = d.state /\ y.out = d.out
      /\ y.outstanding = d.outstanding /\ y.parts = d.parts /\ y.events = Pushed(d.events, ev)
  BY <1>0, <1>1, <1>2, EmitIs, EmitKeeps
<1>4. Heeded(h, y.events)
  BY <1>0, <1>2, <1>3, HeededPushed
<1>5. ServerFits(h, y)
  BY <1>3, <1>4 DEF ServerFits, Alike, Kept
<1> QED BY <1>3, <1>5 DEF y, ev

\* The last piece of a TSDU.
LEMMA ServerHearsTsdu ==
    ASSUME NEW h \in Histories, NEW d, ServerFits(h, d), d.state \notin {"Closed", "Idle"},
           NEW x, TpduToServer(h, x), x.k = "DT", x.eot
    PROVE  ServerHears(h, d, x, OnTsdu([d EXCEPT !.parts = <<>>], Whole(Append(d.parts, x))))
<1> DEFINE e1 == [d EXCEPT !.parts = <<>>]
           w == Whole(Append(d.parts, x))
           y == OnTsdu(e1, w)
<1>0. Good(d) /\ d \in Ends /\ d.parts \in Seq(Tpdus) /\ x \in Tpdus /\ Heeded(h, d.events) /\ d.chunk = Chunk(h)
  BY DEF ServerFits, Good, Ends, TpduToServer, States
<1>1. /\ Good(e1) /\ Alike(d, e1) /\ e1.state = d.state /\ e1.out = d.out /\ e1.parts = <<>>
      /\ e1.outstanding = d.outstanding /\ e1.events = d.events
  BY <1>0, EmptySeq, PartsSet
<1>2. ServerFits(h, e1)
  <2>1. AllToServer(h, <<>>)
    BY DEF AllToServer
  <2> QED BY <1>1, <2>1 DEF ServerFits, Alike
<1>3. w = NoTsdu \/ (w = x.of /\ \A i \in DOMAIN d.parts : d.parts[i].of = x.of)
  BY <1>0, WholeOf
<1>4. TsduToServer(h, x.of)
  <2>1. Transport("CR", h.client.exp).k = "CR"
    BY DEF Transport
  <2> QED BY <2>1 DEF TpduToServer
<1> HIDE DEF e1, w
<1>5. ASSUME NEW e, Shut(h, e, y), ServerFits(h, e), Quiet(d.out) => Quiet(e.out)
      PROVE  ServerHears(h, d, x, y)
  BY <1>5, ShutFits DEF Shut, ServerTakes, ServerHears
<1>6. CASE w = NoTsdu
  <2>1. y = Fail(e1)
    BY <1>6 DEF OnTsdu, NoTsdu, Control
  <2>2. Shut(h, e1, y)
    BY <1>0, <1>1, <2>1, Shuts
  <2> QED BY <1>1, <1>2, <1>5, <2>2 DEF y, e1, w
<1>7. CASE w # NoTsdu /\ x.of = Associate("Connect", Proposal(h.client))
  <2>1. y = OnSessionConnect(e1, Associate("Connect", Proposal(h.client)))
    <3>1. w = x.of /\ x.of.spdu = "Connect"
      BY <1>3, <1>7 DEF Associate
    <3> QED BY <1>7, <3>1 DEF OnTsdu
  <2>2. /\ ServerFits(h, y) /\ y.state = "Established" /\ y.parts = <<>>
        /\ \E ev \in Events : ev.k # "Request" /\ y.events = Pushed(d.events, ev)
        /\ Quiet(d.out) => Quiet(y.out)
    <3>1. e1.state \notin {"Closed", "Idle"}
      BY <1>1
    <3> HIDE DEF y
    <3>2. LET z == OnSessionConnect(e1, Associate("Connect", Proposal(h.client)))
          IN  /\ ServerFits(h, z) /\ z.state = "Established" /\ z.parts = e1.parts
              /\ \E ev \in Events : ev.k # "Request" /\ z.events = Pushed(e1.events, ev)
              /\ Quiet(e1.out) => Quiet(z.out)
      BY <1>2, <3>1, ServerConnected
    <3> QED BY <1>1, <2>1, <3>2
  <2>3. Mute(x.of)
    BY <1>7, MuteTsdus
  <2>4. ServerTakes(d, x, y)
    BY <1>3, <1>7, <2>2, <2>3 DEF ServerTakes
  <2> QED BY <2>2, <2>4 DEF ServerHears, y, e1, w
<1>8. CASE w # NoTsdu /\ x.of = Control("Finish", "Release")
  <2> DEFINE t == Control("Disconnect", "ReleaseResponse")
             e2 == SendTsdu(e1, t)
  <2>1. y = Close(e2, "PeerReleased")
    BY <1>3, <1>8 DEF OnTsdu, OnPeerFinish, Control
  <2>2. t \in Tsdus /\ TsduToClient(h, t) /\ Mute(t)
    BY TsduTypes, MuteTsdus DEF TsduToClient
  <2> HIDE DEF t, y
  <2>3. /\ Kept(e1, e2) /\ Alike(e1, e2) /\ e2.state = d.state
        /\ e2.outstanding = d.outstanding /\ e2.parts = <<>> /\ e2.events = d.events
        /\ AllToClient(h, e2.out) /\ (Quiet(d.out) => Quiet(e2.out))
    <3>1. e1.chunk = Chunk(h) /\ AllToClient(h, e1.out)
      BY <1>0, <1>1, <1>2 DEF Alike, ServerFits
    <3> QED BY <1>1, <2>2, <3>1, Sends
  <2> HIDE DEF e2
  <2>4. ServerFits(h, e2)
    BY <1>1, <1>2, <2>3 DEF ServerFits, Alike, Kept
  <2>5. Shut(h, e2, y)
    <3>1. Good(e2) /\ e2.state # "Closed" /\ Heeded(h, e2.events)
      BY <1>0, <2>3 DEF Kept
    <3> QED BY <2>1, <3>1, Shuts DEF Reasons
  <2> QED BY <1>5, <2>3, <2>4, <2>5 DEF y, e1, w
<1>9. CASE w # NoTsdu /\ x.of = UserData(x.of.mms) /\ x.of.mms.k = "Request" /\ Called(h, x.of.mms)
  <2> DEFINE p == x.of.mms
  <2>1. y = DeliverMms(e1, p)
    <3>1. w.spdu = "Data" /\ w.inside = "mms" /\ w.mms = p
      BY <1>3, <1>9 DEF UserData
    <3> QED BY <3>1 DEF OnTsdu, OnUserData
  <2>2. p \in Pdus
    BY <1>0 DEF Tpdus, Tsdus
  <2> HIDE DEF p, y
  <2>3. /\ ServerFits(h, y) /\ y.state = e1.state /\ y.parts = e1.parts /\ y.out = e1.out
        /\ y.events = Pushed(e1.events, Carrying("Request", p))
    <3>1. e1.state # "Closed" /\ p.k = "Request" /\ Called(h, p)
      BY <1>1, <1>9 DEF p
    <3>2. LET z == DeliverMms(e1, p)
          IN  /\ ServerFits(h, z) /\ z.state = e1.state /\ z.parts = e1.parts /\ z.out = e1.out
              /\ z.events = Pushed(e1.events, Carrying("Request", p))
      BY <1>2, <2>2, <3>1, ServerAsked
    <3> QED BY <2>1, <3>2
  <2>4. ServerTakes(d, x, y)
    BY <1>1, <1>3, <1>9, <2>3 DEF ServerTakes, p
  <2> QED BY <1>1, <2>3, <2>4 DEF ServerHears, y, e1, w
<1> QED BY <1>4, <1>6, <1>7, <1>8, <1>9 DEF TsduToServer

LEMMA ServerOnTpdu ==
    ASSUME NEW h \in Histories, NEW d, ServerFits(h, d), d.state # "Closed",
           NEW x, TpduToServer(h, x), d.state = "Idle" => x.k # "DT"
    PROVE  ServerHears(h, d, x, OnTpdu(d, x))
<1> DEFINE y == OnTpdu(d, x)
           all == Append(d.parts, x)
<1>0. Good(d) /\ d.parts \in Seq(Tpdus) /\ x \in Tpdus /\ Heeded(h, d.events)
  BY DEF ServerFits, Good, Ends, TpduToServer
<1>1. CASE x = Transport("CR", h.client.exp)
  <2>1. y = OnConnectionRequest(d, h.client.exp)
    BY <1>1 DEF OnTpdu, Transport
  <2> QED BY <1>1, <2>1, ServerRequested
<1>2. CASE x.k = "DT"
  <2>1. y = OnData(d, x) /\ d.state # "Idle"
    BY <1>2 DEF OnTpdu
  <2>2. y = Fail(d) \/ (x.eot /\ y = OnTsdu([d EXCEPT !.parts = <<>>], Whole(all))) \/ (~x.eot /\ y = [d EXCEPT !.parts = all])
    BY <2>1 DEF OnData
  <2>3. CASE y = Fail(d)
    <3>1. Shut(h, d, y)
      BY <1>0, <2>3, Shuts
    <3> QED BY <3>1, ServerShuts
  <2>4. CASE x.eot /\ y = OnTsdu([d EXCEPT !.parts = <<>>], Whole(all))
    BY <1>2, <2>1, <2>4, ServerHearsTsdu
  <2>5. CASE ~x.eot /\ y = [d EXCEPT !.parts = all]
    <3>1. /\ all \in Seq(Tpdus)
          /\ \A i \in DOMAIN all : all[i] = x \/ \E j \in DOMAIN d.parts : all[i] = d.parts[j]
      BY <1>0, AppendProperties
    <3>2. AllToServer(h, all)
      BY <3>1 DEF AllToServer, ServerFits
    <3> HIDE DEF all
    <3>3. /\ Good(y) /\ Alike(d, y) /\ y.state = d.state /\ y.out = d.out /\ y.parts = all
          /\ y.outstanding = d.outstanding /\ y.events = d.events
      BY <1>0, <2>5, <3>1, PartsSet
    <3>4. ServerFits(h, y)
      BY <3>2, <3>3 DEF ServerFits, Alike
    <3>5. ServerTakes(d, x, y)
      BY <2>5, <3>3 DEF ServerTakes, all
    <3> QED BY <1>2, <2>1, <3>3, <3>4, <3>5 DEF ServerHears
  <2> QED BY <2>2, <2>3, <2>4, <2>5
<1> QED BY <1>1, <1>2 DEF TpduToServer

-----------------------------------------------------------------------------
(* A read, one TPDU after the other                                        *)

LEMMA NumbersByInduction ==
    ASSUME NEW S, 0 \in S, \A n \in Nat : n \in S => n + 1 \in S
    PROVE  Nat \subseteq S
<1> SUFFICES ASSUME Nat \ S # {} PROVE FALSE
  OBVIOUS
<1>1. PICK n \in Nat \ S : \A m \in Nat \ S : n <= m
  BY LeastOf, Nat \ S \subseteq Nat
<1>2. n # 0 /\ n - 1 \in Nat
  BY <1>1
<1>3. n - 1 \in S /\ (n - 1) + 1 = n
  BY <1>1, <1>2
<1> QED BY <1>1, <1>2, <1>3

LEMMA RowByInduction ==
    ASSUME NEW n \in Nat, NEW f, NEW V, f[0] \in V[0],
           \A i \in 1 .. n : f[i - 1] \in V[i - 1] => f[i] \in V[i]
    PROVE  f[n] \in V[n]
<1> DEFINE S == {i \in Nat : i <= n => f[i] \in V[i]}
<1>1. 0 \in S
  OBVIOUS
<1>2. ASSUME NEW i \in Nat, i \in S PROVE i + 1 \in S
  <2>1. i + 1 <= n => i + 1 \in 1 .. n /\ (i + 1) - 1 = i
    OBVIOUS
  <2> QED BY <1>2, <2>1
<1> HIDE DEF S
<1>3. n \in S
  BY <1>1, <1>2, NumbersByInduction
<1> QED BY <1>3 DEF S

\* What on_bytes goes through is one end after another.
FedRow(e, s, n, f) == f = [i \in 0 .. n |-> IF i = 0 THEN e ELSE Fed(f[i - 1], s[i])]

LEMMA FedInTurn ==
    ASSUME NEW e, NEW s
    PROVE  \A n \in Nat : \E f : FedRow(e, s, n, f)
<1> DEFINE S == {n \in Nat : \E f : FedRow(e, s, n, f)}
<1>1. 0 \in S
  <2> DEFINE f == [i \in 0 .. 0 |-> e]
  <2>1. f = [i \in 0 .. 0 |-> IF i = 0 THEN e ELSE Fed(f[i - 1], s[i])]
    OBVIOUS
  <2>2. FedRow(e, s, 0, f)
    BY <2>1 DEF FedRow
  <2> QED BY <2>2
<1>2. ASSUME NEW n \in Nat, n \in S PROVE n + 1 \in S
  <2>1. PICK g : FedRow(e, s, n, g)
    BY <1>2
  <2>2. \A i \in 0 .. n : g[i] = IF i = 0 THEN e ELSE Fed(g[i - 1], s[i])
    BY <2>1 DEF FedRow
  <2> DEFINE f == [i \in 0 .. n + 1 |-> IF i <= n THEN g[i] ELSE Fed(g[n], s[n + 1])]
  <2>3. \A i \in 0 .. n + 1 : f[i] = IF i = 0 THEN e ELSE Fed(f[i - 1], s[i])
    <3> TAKE i \in 0 .. n + 1
    <3>1. CASE i = 0
      BY <2>2, <3>1
    <3>2. CASE i # 0 /\ i <= n
      <4>1. i - 1 \in 0 .. n + 1 /\ i - 1 <= n /\ i \in 0 .. n
        BY <3>2
      <4>2. f[i] = g[i] /\ f[i - 1] = g[i - 1]
        BY <3>2, <4>1
      <4> HIDE DEF f
      <4> QED BY <2>2, <3>2, <4>1, <4>2
    <3>3. CASE i = n + 1
      <4>1. n \in 0 .. n + 1 /\ i - 1 = n /\ i # 0 /\ ~(i <= n)
        BY <3>3
      <4>2. f[i] = Fed(g[n], s[n + 1]) /\ f[n] = g[n]
        BY <4>1
      <4> HIDE DEF f
      <4> QED BY <3>3, <4>1, <4>2
    <3> QED BY <3>1, <3>2, <3>3
  <2>4. f = [i \in 0 .. n + 1 |-> IF i = 0 THEN e ELSE Fed(f[i - 1], s[i])]
    <3>1. DOMAIN f = 0 .. n + 1 /\ f = [i \in 0 .. n + 1 |-> f[i]]
      OBVIOUS
    <3> HIDE DEF f
    <3>2. [i \in 0 .. n + 1 |-> f[i]] = [i \in 0 .. n + 1 |-> IF i = 0 THEN e ELSE Fed(f[i - 1], s[i])]
      BY <2>3
    <3> QED BY <3>1, <3>2
  <2>5. FedRow(e, s, n + 1, f)
    BY <2>4 DEF FedRow
  <2> HIDE DEF f
  <2> QED BY <2>5
<1> HIDE DEF S
<1>3. Nat \subseteq S
  BY <1>1, <1>2, NumbersByInduction
<1> QED BY <1>3 DEF S

LEMMA OnBytesByInduction ==
    ASSUME NEW e, NEW s, NEW n \in Nat, Len(s) = n, NEW V, e \in V[0],
           \A i \in 1 .. n : \A d \in V[i - 1] : Fed(d, s[i]) \in V[i]
    PROVE  OnBytes(e, s) \in V[n]
<1> DEFINE after == CHOOSE f : FedRow(e, s, n, f)
<1>1. OnBytes(e, s) = after[n]
  BY DEF OnBytes, FedRow
<1>3. FedRow(e, s, n, after)
  BY FedInTurn
<1> HIDE DEF after
<1>4. /\ after[0] = e
      /\ \A i \in 1 .. n : after[i] = Fed(after[i - 1], s[i])
  <2>1. after = [i \in 0 .. n |-> IF i = 0 THEN e ELSE Fed(after[i - 1], s[i])]
    BY <1>3 DEF FedRow
  <2>2. 0 \in 0 .. n /\ \A i \in 1 .. n : i \in 0 .. n /\ i # 0
    OBVIOUS
  <2> QED BY <2>1, <2>2
<1>5. \A i \in 1 .. n : after[i - 1] \in V[i - 1] => after[i] \in V[i]
  BY <1>4
<1>6. after[n] \in V[n]
  BY <1>4, <1>5, RowByInduction
<1> QED BY <1>1, <1>6

-----------------------------------------------------------------------------
(* What a read gathers                                                     *)

Carried(s, n, a) == \E i \in 1 .. n : Carries(s[i], a)
Ended(s, n, a) == \E i \in 1 .. n : s[i].eot /\ Carries(s[i], a)

\* What a TPDU makes of the pieces held.
Fills(d, x, y) ==
    \/ ~x.eot /\ y.parts = Append(d.parts, x)
    \/ Mute(x.of) /\ y.parts = d.parts
    \/ (x.eot \/ Mute(x.of)) /\ y.parts = <<>> /\ \A i \in DOMAIN d.parts : d.parts[i].of = x.of

LEMMA FillsTells ==
    ASSUME NEW d, d.parts \in Seq(Tpdus), NEW x \in Tpdus, NEW y, Fills(d, x, y), NEW a
    PROVE  /\ Within(y.parts, a) => ~(x.eot /\ Carries(x, a)) /\ (Within(d.parts, a) \/ Carries(x, a))
           /\ Within(d.parts, a) \/ Carries(x, a) => Within(y.parts, a) \/ (x.eot /\ Carries(x, a))
<1>1. CASE ~x.eot /\ y.parts = Append(d.parts, x)
  <2> DEFINE n == Len(d.parts)
             all == Append(d.parts, x)
  <2>1. /\ n \in Nat /\ DOMAIN d.parts = 1 .. n /\ DOMAIN all = 1 .. n + 1
        /\ all[n + 1] = x /\ \A i \in 1 .. n : all[i] = d.parts[i]
    BY AppendProperties
  <2> HIDE DEF n, all
  <2>2. \A i \in DOMAIN all : all[i] = x \/ \E j \in DOMAIN d.parts : all[i] = d.parts[j]
    BY <2>1
  <2>3. n + 1 \in DOMAIN all /\ \A i \in DOMAIN d.parts : i \in DOMAIN all /\ all[i] = d.parts[i]
    BY <2>1
  <2>4. Within(all, a) => Within(d.parts, a) \/ Carries(x, a)
    BY <2>2 DEF Within
  <2>5. Within(d.parts, a) \/ Carries(x, a) => Within(all, a)
    BY <2>1, <2>3 DEF Within
  <2> QED BY <1>1, <2>4, <2>5 DEF all
<1>2. CASE Mute(x.of) /\ y.parts = d.parts
  <2>1. ~Carries(x, a)
    BY <1>2 DEF Carries, Mute
  <2> QED BY <1>2, <2>1
<1>3. CASE (x.eot \/ Mute(x.of)) /\ y.parts = <<>> /\ \A i \in DOMAIN d.parts : d.parts[i].of = x.of
  <2>1. ~Within(y.parts, a)
    BY <1>3 DEF Within
  <2>2. Within(d.parts, a) => Carries(x, a)
    BY <1>3 DEF Within, Carries
  <2>3. Carries(x, a) => x.eot
    BY <1>3 DEF Carries, Mute
  <2> QED BY <2>1, <2>2, <2>3
<1> QED BY <1>1, <1>2, <1>3 DEF Fills

\* The calls in the pieces held after n TPDUs: those of before and those that
\* came, less those that came to their end.
Gathers(d0, s, n, d) ==
    \A a \in 1 .. MaxCalls :
        /\ Within(d.parts, a) => Within(d0.parts, a) \/ Carried(s, n, a)
        /\ d.state # "Closed" /\ (Within(d0.parts, a) \/ Carried(s, n, a)) => Within(d.parts, a) \/ Ended(s, n, a)
        /\ d.state # "Closed" /\ Once(s) => ~(Within(d.parts, a) /\ Ended(s, n, a))

LEMMA GathersNothing ==
    ASSUME NEW d, NEW s
    PROVE  Gathers(d, s, 0, d)
BY DEF Gathers, Carried, Ended

LEMMA OneMore ==
    ASSUME NEW s, NEW n \in Nat \ {0}, NEW a
    PROVE  /\ Carried(s, n, a) <=> Carried(s, n - 1, a) \/ Carries(s[n], a)
           /\ Ended(s, n, a) <=> Ended(s, n - 1, a) \/ (s[n].eot /\ Carries(s[n], a))
<1>1. \A i \in 1 .. n : i \in 1 .. n - 1 \/ i = n
  OBVIOUS
<1>2. n \in 1 .. n /\ \A i \in 1 .. n - 1 : i \in 1 .. n
  OBVIOUS
<1>3. Carried(s, n, a) <=> Carried(s, n - 1, a) \/ Carries(s[n], a)
  BY <1>1, <1>2 DEF Carried
<1>4. Ended(s, n, a) <=> Ended(s, n - 1, a) \/ (s[n].eot /\ Carries(s[n], a))
  BY <1>1, <1>2 DEF Ended
<1> QED BY <1>3, <1>4

\* Nothing of a call follows its last piece.
LEMMA EndedIsLast ==
    ASSUME NEW s, Once(s), NEW n, n + 1 \in DOMAIN s, DOMAIN s = 1 .. Len(s), Len(s) \in Nat, n \in Nat,
           NEW a \in 1 .. MaxCalls, Ended(s, n, a)
    PROVE  ~Carries(s[n + 1], a)
<1>1. PICK i \in 1 .. n : s[i].eot /\ Carries(s[i], a)
  BY DEF Ended
<1>2. i \in DOMAIN s /\ i < n + 1
  BY <1>1
<1> QED BY <1>1, <1>2 DEF Once

LEMMA GathersOn ==
    ASSUME NEW s \in Seq(Tpdus), NEW n \in 1 .. Len(s),
           NEW d0, NEW d, d.parts \in Seq(Tpdus), d.state # "Closed", Gathers(d0, s, n - 1, d),
           NEW y, (y.state = "Closed" /\ y.parts = <<>>) \/ Fills(d, s[n], y)
    PROVE  Gathers(d0, s, n, y)
<1>0. n \in Nat \ {0} /\ n - 1 \in Nat /\ s[n] \in Tpdus /\ (n - 1) + 1 = n /\ DOMAIN s = 1 .. Len(s) /\ Len(s) \in Nat
      /\ n \in DOMAIN s
  BY ElementOfSeq
<1> SUFFICES ASSUME NEW a \in 1 .. MaxCalls
             PROVE  /\ Within(y.parts, a) => Within(d0.parts, a) \/ Carried(s, n, a)
                    /\ y.state # "Closed" /\ (Within(d0.parts, a) \/ Carried(s, n, a)) =>
                           Within(y.parts, a) \/ Ended(s, n, a)
                    /\ y.state # "Closed" /\ Once(s) => ~(Within(y.parts, a) /\ Ended(s, n, a))
  BY DEF Gathers
<1>1. /\ Carried(s, n, a) <=> Carried(s, n - 1, a) \/ Carries(s[n], a)
      /\ Ended(s, n, a) <=> Ended(s, n - 1, a) \/ (s[n].eot /\ Carries(s[n], a))
  BY <1>0, OneMore
<1>2. /\ Within(d.parts, a) => Within(d0.parts, a) \/ Carried(s, n - 1, a)
      /\ Within(d0.parts, a) \/ Carried(s, n - 1, a) => Within(d.parts, a) \/ Ended(s, n - 1, a)
      /\ Once(s) => ~(Within(d.parts, a) /\ Ended(s, n - 1, a))
  BY DEF Gathers
<1>3. Once(s) /\ Ended(s, n - 1, a) => ~Carries(s[n], a)
  BY <1>0, EndedIsLast
<1>4. CASE y.state = "Closed" /\ y.parts = <<>>
  <2>1. ~Within(y.parts, a)
    BY <1>4 DEF Within
  <2> QED BY <1>4, <2>1
<1>5. CASE Fills(d, s[n], y)
  <2>1. /\ Within(y.parts, a) => ~(s[n].eot /\ Carries(s[n], a)) /\ (Within(d.parts, a) \/ Carries(s[n], a))
        /\ Within(d.parts, a) \/ Carries(s[n], a) => Within(y.parts, a) \/ (s[n].eot /\ Carries(s[n], a))
    BY <1>0, <1>5, FillsTells
  <2> QED BY <1>1, <1>2, <1>3, <2>1
<1> QED BY <1>4, <1>5

\* The client's end d0 after n of the TPDUs s.
ClientHas(h, d0, s, n, d) ==
    /\ ClientFits(h, d)
    /\ d.state = "Connecting" => n = 0 /\ d0.state = "Connecting"
    /\ d0.state = "Closed" => d = d0
    /\ Quiet(d0.out) => Quiet(d.out)
    /\ Gathers(d0, s, n, d)
    /\ \A a \in Answers(d.events) : a \in Answers(d0.events) \/ (a \in 1 .. MaxCalls /\ Ended(s, n, a))
    /\ Outstanding(d) \subseteq Outstanding(d0)
    /\ d.state # "Closed" =>
           \A id \in Outstanding(d0) : id \in Outstanding(d) <=> ~\E a \in 1 .. MaxCalls : Ended(s, n, a) /\ h.number[a] = id

LEMMA ClientFedOn ==
    ASSUME NEW h \in Histories, NEW s \in Seq(Tpdus), AllToClient(h, s), NEW n \in 1 .. Len(s),
           NEW d0, d0.state = "Connecting" => NoData(s), NEW d, ClientHas(h, d0, s, n - 1, d)
    PROVE  ClientHas(h, d0, s, n, Fed(d, s[n]))
<1> DEFINE x == s[n]
           y == Fed(d, x)
<1>0. n \in Nat \ {0} /\ n \in DOMAIN s /\ TpduToClient(h, x) /\ x \in Tpdus /\ ClientFits(h, d) /\ d.parts \in Seq(Tpdus)
  <2>1. n \in Nat \ {0} /\ n \in DOMAIN s
    OBVIOUS
  <2>2. TpduToClient(h, x) /\ x \in Tpdus
    BY <2>1 DEF AllToClient, TpduToClient
  <2>3. ClientFits(h, d) /\ d.parts \in Seq(Tpdus)
    BY DEF ClientHas, ClientFits, Good, Ends
  <2> QED BY <2>1, <2>2, <2>3
<1>1. \A a \in 1 .. MaxCalls : Ended(s, n, a) <=> Ended(s, n - 1, a) \/ (x.eot /\ Carries(x, a))
  BY <1>0, OneMore
<1>2. CASE d.state = "Closed"
  <2>1. y = d
    BY <1>2 DEF Fed
  <2>2. Gathers(d0, s, n, d)
    BY <1>0, <1>2, OneMore DEF Gathers, ClientHas
  <2> QED BY <1>1, <1>2, <2>1, <2>2 DEF ClientHas
<1>3. CASE d.state # "Closed"
  <2>1. y = OnTpdu(d, x)
    BY <1>3 DEF Fed
  <2>2. d.state = "Connecting" => x.k # "DT"
    BY <1>0 DEF ClientHas, NoData
  <2>3. ClientFits(h, y) /\ y.state # "Connecting" /\ ClientTakes(d, x, y)
    BY <1>0, <1>3, <2>1, <2>2, ClientOnTpdu
  <2> HIDE DEF y
  <2>4. (y.state = "Closed" /\ y.parts = <<>>) \/ Fills(d, x, y)
    BY <2>3 DEF ClientTakes, Fills
  <2>5. Gathers(d0, s, n, y)
    BY <1>0, <1>3, <2>4, GathersOn DEF ClientHas
  <2>6. ~Mute(x.of) => x.of.mms.says \in 1 .. MaxCalls /\ x.of.mms.id = h.number[x.of.mms.says] /\ Carries(x, x.of.mms.says)
    <3>1. SUFFICES ASSUME ~Mute(x.of) PROVE x.of.mms.says \in 1 .. MaxCalls /\ x.of.mms.id = h.number[x.of.mms.says] /\ Carries(x, x.of.mms.says)
      OBVIOUS
    <3>2. TsduToClient(h, x.of)
      BY <1>0, <3>1, MuteTsdus DEF TpduToClient
    <3>3. x.of.mms.k \in {"Response", "Reject"} /\ Called(h, x.of.mms)
      BY <3>1, <3>2, MuteTsdus DEF TsduToClient, Mute
    <3>4. h.asked <= MaxCalls /\ h.asked \in Nat /\ MaxCalls \in Nat
      BY HistoryTypes
    <3> QED BY <3>3, <3>4 DEF Called, Carries
  <2>7. \A a : Carries(x, a) => ~Mute(x.of) /\ a = x.of.mms.says
    BY DEF Carries, Mute
  <2>8. \A a \in Answers(y.events) : a \in Answers(d0.events) \/ (a \in 1 .. MaxCalls /\ Ended(s, n, a))
    <3>1. \A a \in Answers(y.events) : a \in Answers(d.events) \/ (~Mute(x.of) /\ x.eot /\ a = x.of.mms.says)
      BY <2>3 DEF ClientTakes
    <3> QED BY <1>1, <2>6, <3>1 DEF ClientHas
  <2>9. \/ y.state = "Closed" /\ Outstanding(y) = {}
        \/ Outstanding(y) = Outstanding(d) /\ (~x.eot \/ Mute(x.of))
        \/ Outstanding(y) = Outstanding(d) \ {x.of.mms.id} /\ x.eot /\ ~Mute(x.of)
    <3>1. y.state = "Closed" => Outstanding(y) = {}
      BY <2>3 DEF ClientFits, Good, Outstanding
    <3> QED BY <2>3, <3>1 DEF ClientTakes, Outstanding
  <2>10. Outstanding(y) \subseteq Outstanding(d0)
    BY <2>9 DEF ClientHas
  <2>11. ASSUME y.state # "Closed", NEW id \in Outstanding(d0)
         PROVE  id \in Outstanding(y) <=> ~\E a \in 1 .. MaxCalls : Ended(s, n, a) /\ h.number[a] = id
    <3>1. id \in Outstanding(d) <=> ~\E a \in 1 .. MaxCalls : Ended(s, n - 1, a) /\ h.number[a] = id
      BY <1>3 DEF ClientHas
    <3>2. CASE Outstanding(y) = Outstanding(d) /\ (~x.eot \/ Mute(x.of))
      <4>1. \A a \in 1 .. MaxCalls : Ended(s, n, a) <=> Ended(s, n - 1, a)
        BY <1>1, <2>7, <3>2
      <4> QED BY <3>1, <3>2, <4>1
    <3>3. CASE Outstanding(y) = Outstanding(d) \ {x.of.mms.id} /\ x.eot /\ ~Mute(x.of)
      <4>1. \A a \in 1 .. MaxCalls : Ended(s, n, a) <=> Ended(s, n - 1, a) \/ a = x.of.mms.says
        BY <1>1, <2>6, <2>7, <3>3
      <4> QED BY <2>6, <3>1, <3>3, <4>1
    <3> QED BY <2>9, <2>11, <3>2, <3>3
  <2>12. Quiet(d0.out) => Quiet(y.out)
    BY <2>3 DEF ClientHas, ClientTakes
  <2>13. d0.state # "Closed"
    BY <1>3 DEF ClientHas
  <2> QED BY <1>0, <2>3, <2>5, <2>8, <2>10, <2>11, <2>12, <2>13 DEF ClientHas, y
<1> QED BY <1>2, <1>3

LEMMA ClientReads ==
    ASSUME NEW h \in Histories, NEW s \in Seq(Tpdus), AllToClient(h, s),
           NEW d0, ClientFits(h, d0), d0.state = "Connecting" => NoData(s)
    PROVE  ClientHas(h, d0, s, Len(s), OnBytes(d0, s))
<1> DEFINE n == Len(s)
           V == [i \in 0 .. n |-> {d \in Ends : ClientHas(h, d0, s, i, d)}]
<1>1. n \in Nat
  OBVIOUS
<1>2. ClientHas(h, d0, s, 0, d0)
  BY GathersNothing DEF ClientHas, Ended
<1>3. \A i \in 0 .. n : \A d : d \in V[i] <=> ClientHas(h, d0, s, i, d)
  <2>2. \A i, d : ClientHas(h, d0, s, i, d) => d \in Ends
    BY DEF ClientHas, ClientFits, Good
  <2>3. \A i \in 0 .. n : V[i] = {d \in Ends : ClientHas(h, d0, s, i, d)}
    OBVIOUS
  <2> HIDE DEF V
  <2> QED BY <2>2, <2>3
<1> HIDE DEF V
<1>4. d0 \in V[0]
  BY <1>1, <1>2, <1>3
<1>5. \A i \in 1 .. n : \A d \in V[i - 1] : Fed(d, s[i]) \in V[i]
  <2> TAKE i \in 1 .. n
  <2> TAKE d \in V[i - 1]
  <2>1. i - 1 \in 0 .. n /\ i \in 0 .. n
    BY <1>1
  <2>2. ClientHas(h, d0, s, i - 1, d)
    BY <1>3, <2>1
  <2>3. ClientHas(h, d0, s, i, Fed(d, s[i]))
    BY <2>2, ClientFedOn
  <2> QED BY <1>3, <2>1, <2>3
<1> HIDE DEF n
<1>6. OnBytes(d0, s) \in V[n]
  BY <1>1, <1>4, <1>5, OnBytesByInduction DEF n
<1>7. n \in 0 .. n
  BY <1>1
<1> QED BY <1>3, <1>6, <1>7 DEF n

\* The server's end d0, with nothing queued and nothing told, after n of the
\* TPDUs s: the requests it tells of are of calls that came to their end, and
\* of as many calls as there are requests.
ServerHas(h, d0, s, n, d) ==
    /\ ServerFits(h, d)
    /\ d.state = "Idle" => n = 0 /\ d0.state = "Idle"
    /\ d.state = "Closed" => \E i \in DOMAIN d.events : d.events[i].k = "Closed"
    /\ Quiet(d.out)
    /\ NoData(s) /\ d0.state # "Established" => NoData(d.out) /\ d.state # "Established"
    /\ Gathers(d0, s, n, d)
    /\ d.state # "Closed" =>
           \A i \in Requests(d.events) :
               d.events[i].pdu.says \in 1 .. MaxCalls /\ Ended(s, n, d.events[i].pdu.says)
    /\ d.state # "Closed" /\ Once(s) =>
           \A i, j \in Requests(d.events) : d.events[i].pdu.says = d.events[j].pdu.says => i = j

\* An event joins the requests told of, or not.
LEMMA RequestsPushed ==
    ASSUME NEW q \in Seq(Events), NEW ev \in Events
    PROVE  \A i \in Requests(Pushed(q, ev)) :
               \/ ev.k = "Request" /\ Pushed(q, ev)[i] = ev /\ i = Len(Pushed(q, ev))
               \/ /\ i < Len(Pushed(q, ev))
                  /\ \E j \in Requests(q) :
                         Pushed(q, ev)[i] = q[j] /\ j - i = (IF Len(q) >= Most(1, Capacity) THEN 1 ELSE 0)
<1> DEFINE rest == IF Len(q) >= Most(1, Capacity) THEN Tail(q) ELSE q
           gap == IF Len(q) >= Most(1, Capacity) THEN 1 ELSE 0
           all == Append(rest, ev)
<1>1. Most(1, Capacity) >= 1
  BY AssociationAssumption DEF Most
<1>2. /\ rest \in Seq(Events) /\ DOMAIN rest = 1 .. Len(rest) /\ Len(rest) \in Nat /\ gap \in {0, 1}
      /\ \A i \in DOMAIN rest : i + gap \in DOMAIN q /\ rest[i] = q[i + gap]
  <2>1. CASE Len(q) >= Most(1, Capacity)
    <3>1. q # <<>> /\ Len(q) \in Nat
      BY <2>1, <1>1, AssociationAssumption DEF Most
    <3>2. Tail(q) \in Seq(Events) /\ Len(Tail(q)) = Len(q) - 1 /\ \A i \in 1 .. Len(q) - 1 : Tail(q)[i] = q[i + 1]
      BY <3>1
    <3>3. \A i \in 1 .. Len(q) - 1 : i + 1 \in DOMAIN q
      BY <3>1
    <3> QED BY <2>1, <3>1, <3>2, <3>3
  <2>2. CASE ~(Len(q) >= Most(1, Capacity))
    BY <2>2
  <2> QED BY <2>1, <2>2
<1>3. /\ DOMAIN all = 1 .. Len(rest) + 1 /\ Len(all) = Len(rest) + 1
      /\ \A i \in 1 .. Len(rest) : all[i] = rest[i]
      /\ all[Len(rest) + 1] = ev
  <2> HIDE DEF rest
  <2> QED BY <1>2, AppendProperties
<1>4. Pushed(q, ev) = all
  BY DEF Pushed
<1> DEFINE m == Len(rest)
<1> HIDE DEF rest, gap, all
<1>5. m \in Nat /\ DOMAIN rest = 1 .. m /\ DOMAIN all = 1 .. m + 1 /\ Len(all) = m + 1
  BY <1>2, <1>3
<1>6. \A i \in Requests(all) :
          \/ ev.k = "Request" /\ all[i] = ev /\ i = Len(all)
          \/ i < Len(all) /\ \E j \in Requests(q) : all[i] = q[j] /\ j - i = gap
  <2> TAKE i \in Requests(all)
  <2>1. i \in 1 .. m + 1 /\ all[i].k = "Request"
    BY <1>5 DEF Requests
  <2>2. CASE i = m + 1
    BY <1>3, <1>5, <2>1, <2>2
  <2>3. CASE i \in 1 .. m
    <3>1. i + gap \in DOMAIN q /\ all[i] = q[i + gap]
      BY <1>2, <1>3, <1>5, <2>3
    <3>2. i + gap \in Requests(q) /\ (i + gap) - i = gap
      BY <1>2, <2>1, <2>3, <3>1 DEF Requests
    <3> QED BY <1>5, <2>3, <3>1, <3>2
  <2> HIDE DEF m
  <2> QED BY <1>5, <2>1, <2>2, <2>3
<1> QED BY <1>4, <1>6 DEF gap

LEMMA ServerFedOn ==
    ASSUME NEW h \in Histories, NEW s \in Seq(Tpdus), AllToServer(h, s), NEW n \in 1 .. Len(s),
           NEW d0, d0.state = "Idle" => NoData(s), NEW d, ServerHas(h, d0, s, n - 1, d)
    PROVE  ServerHas(h, d0, s, n, Fed(d, s[n]))
<1> DEFINE x == s[n]
           y == Fed(d, x)
<1>0. /\ n \in Nat \ {0} /\ n \in DOMAIN s /\ TpduToServer(h, x) /\ x \in Tpdus
      /\ ServerFits(h, d) /\ d.parts \in Seq(Tpdus) /\ d.events \in Seq(Events)
      /\ DOMAIN s = 1 .. Len(s) /\ Len(s) \in Nat /\ n - 1 \in Nat /\ (n - 1) + 1 = n
  <2>1. /\ n \in Nat \ {0} /\ n \in DOMAIN s /\ DOMAIN s = 1 .. Len(s) /\ Len(s) \in Nat
        /\ n - 1 \in Nat /\ (n - 1) + 1 = n
    OBVIOUS
  <2>2. TpduToServer(h, x) /\ x \in Tpdus
    BY <2>1 DEF AllToServer, TpduToServer
  <2>3. ServerFits(h, d) /\ d.parts \in Seq(Tpdus) /\ d.events \in Seq(Events)
    BY DEF ServerHas, ServerFits, Good, Ends
  <2> QED BY <2>1, <2>2, <2>3
<1>1. \A a : Ended(s, n, a) <=> Ended(s, n - 1, a) \/ (x.eot /\ Carries(x, a))
  BY <1>0, OneMore
<1>2. CASE d.state = "Closed"
  <2>1. y = d
    BY <1>2 DEF Fed
  <2>2. Gathers(d0, s, n, d)
    BY <1>0, <1>2, OneMore DEF Gathers, ServerHas
  <2> QED BY <1>2, <2>1, <2>2 DEF ServerHas
<1>3. CASE d.state # "Closed"
  <2>1. y = OnTpdu(d, x)
    BY <1>3 DEF Fed
  <2>2. d.state = "Idle" => x.k # "DT"
    BY <1>0 DEF ServerHas, NoData
  <2>3. ServerHears(h, d, x, y)
    BY <1>0, <1>3, <2>1, <2>2, ServerOnTpdu
  <2> HIDE DEF y
  <2>4. (y.state = "Closed" /\ y.parts = <<>>) \/ Fills(d, x, y)
    BY <2>3 DEF ServerHears, ServerTakes, Fills
  <2>5. Gathers(d0, s, n, y)
    BY <1>0, <1>3, <2>4, GathersOn DEF ServerHas
  <2>6. x.of.mms.k = "Request" => x.of.mms.says \in 1 .. MaxCalls /\ Carries(x, x.of.mms.says)
    <3>1. SUFFICES ASSUME x.of.mms.k = "Request" PROVE x.of.mms.says \in 1 .. MaxCalls /\ Carries(x, x.of.mms.says)
      OBVIOUS
    <3>2. TsduToServer(h, x.of)
      BY <1>0, <3>1, MuteTsdus DEF TpduToServer, Mute
    <3>3. Called(h, x.of.mms)
      BY <3>1, <3>2, MuteTsdus DEF TsduToServer, Mute
    <3>4. h.asked <= MaxCalls /\ h.asked \in Nat /\ MaxCalls \in Nat
      BY HistoryTypes
    <3> QED BY <3>1, <3>3, <3>4 DEF Called, Carries
  <2>7. NoData(s) /\ d0.state # "Established" => NoData(y.out) /\ y.state # "Established"
    BY <1>0, <2>3 DEF ServerHas, ServerHears, NoData
  <2>8. ASSUME y.state # "Closed"
        PROVE  /\ \A i \in Requests(y.events) :
                      y.events[i].pdu.says \in 1 .. MaxCalls /\ Ended(s, n, y.events[i].pdu.says)
               /\ Once(s) =>
                      \A i, j \in Requests(y.events) : y.events[i].pdu.says = y.events[j].pdu.says => i = j
    <3>1. /\ \A i \in Requests(d.events) :
                 d.events[i].pdu.says \in 1 .. MaxCalls /\ Ended(s, n - 1, d.events[i].pdu.says)
          /\ Once(s) =>
                 \A i, j \in Requests(d.events) : d.events[i].pdu.says = d.events[j].pdu.says => i = j
      BY <1>3 DEF ServerHas
    <3>2. CASE y.events = d.events
      BY <1>1, <3>1, <3>2
    <3>3. ASSUME NEW ev \in Events, y.events = Pushed(d.events, ev), ev.k # "Request"
          PROVE  /\ \A i \in Requests(y.events) :
                        y.events[i].pdu.says \in 1 .. MaxCalls /\ Ended(s, n, y.events[i].pdu.says)
                 /\ Once(s) =>
                        \A i, j \in Requests(y.events) : y.events[i].pdu.says = y.events[j].pdu.says => i = j
      <4> DEFINE g == IF Len(d.events) >= Most(1, Capacity) THEN 1 ELSE 0
      <4>1. \A i \in Requests(y.events) :
                i \in Int /\ \E j \in Requests(d.events) : y.events[i] = d.events[j] /\ j - i = g /\ j \in Int
        <5>1. \A i \in Requests(y.events) : \E j \in Requests(d.events) : y.events[i] = d.events[j] /\ j - i = g
          BY <1>0, <3>3, RequestsPushed
        <5>2. \A q \in Seq(Events) : \A i \in Requests(q) : i \in Int
          BY DEF Requests
        <5>3. y.events \in Seq(Events)
          BY <1>0, <3>3, PushedType
        <5> HIDE DEF g
        <5> QED BY <1>0, <5>1, <5>2, <5>3
      <4>2. g \in Int
        OBVIOUS
      <4> HIDE DEF g
      <4>3. \A i \in Requests(y.events) :
                y.events[i].pdu.says \in 1 .. MaxCalls /\ Ended(s, n, y.events[i].pdu.says)
        BY <1>1, <3>1, <4>1
      <4>4. ASSUME Once(s), NEW i \in Requests(y.events), NEW j \in Requests(y.events),
                   y.events[i].pdu.says = y.events[j].pdu.says
            PROVE  i = j
        <5>1. PICK k \in Requests(d.events) : y.events[i] = d.events[k] /\ k - i = g /\ k \in Int /\ i \in Int
          BY <4>1
        <5>2. PICK l \in Requests(d.events) : y.events[j] = d.events[l] /\ l - j = g /\ l \in Int /\ j \in Int
          BY <4>1
        <5>3. k = l
          BY <3>1, <4>4, <5>1, <5>2
        <5> QED BY <4>2, <5>1, <5>2, <5>3
      <4> QED BY <4>3, <4>4
    <3>4. CASE x.eot /\ x.of.mms.k = "Request" /\ y.events = Pushed(d.events, Carrying("Request", x.of.mms))
      <4> DEFINE ev == Carrying("Request", x.of.mms)
                 g == IF Len(d.events) >= Most(1, Capacity) THEN 1 ELSE 0
                 a == x.of.mms.says
                 m == Len(y.events)
      <4>0. ev \in Events /\ ev.pdu.says = a /\ a \in 1 .. MaxCalls /\ Carries(x, a)
        <5>1. x.of.mms \in Pdus
          BY <1>0 DEF Tpdus, Tsdus
        <5> QED BY <2>6, <3>4, <5>1, EventTypes DEF Carrying, EventKinds
      <4>1. /\ m \in Int
            /\ \A i \in Requests(y.events) :
                   /\ i \in Int
                   /\ \/ y.events[i] = ev /\ i = m
                      \/ i < m /\ \E j \in Requests(d.events) : y.events[i] = d.events[j] /\ j - i = g /\ j \in Int
        <5>1. \A i \in Requests(y.events) :
                  \/ y.events[i] = ev /\ i = m
                  \/ i < m /\ \E j \in Requests(d.events) : y.events[i] = d.events[j] /\ j - i = g
          BY <1>0, <3>4, <4>0, RequestsPushed
        <5>2. \A q \in Seq(Events) : \A i \in Requests(q) : i \in Int
          BY DEF Requests
        <5>3. y.events \in Seq(Events) /\ m \in Int
          <6>1. y.events \in Seq(Events)
            BY <1>0, <3>4, <4>0, PushedType
          <6> QED BY <6>1
        <5> HIDE DEF g, m, ev
        <5> QED BY <1>0, <5>1, <5>2, <5>3
      <4>2. g \in Int
        OBVIOUS
      <4>3. Once(s) => ~Ended(s, n - 1, a)
        BY <1>0, <4>0, EndedIsLast
      <4> HIDE DEF g, ev, m
      <4>4. \A i \in Requests(y.events) :
                y.events[i].pdu.says \in 1 .. MaxCalls /\ Ended(s, n, y.events[i].pdu.says)
        BY <1>1, <3>1, <3>4, <4>0, <4>1
      <4>5. ASSUME Once(s), NEW i \in Requests(y.events), NEW j \in Requests(y.events),
                   y.events[i].pdu.says = y.events[j].pdu.says
            PROVE  i = j
        <5>1. \A l \in Requests(y.events) : l # m => y.events[l].pdu.says # a
          BY <3>1, <4>0, <4>1, <4>3, <4>5
        <5>2. \A l \in Requests(y.events) : l = m => y.events[l].pdu.says = a
          BY <4>0, <4>1
        <5>3. CASE i # m /\ j # m
          <6>1. PICK k \in Requests(d.events) : y.events[i] = d.events[k] /\ k - i = g /\ k \in Int /\ i \in Int
            BY <4>1, <5>3
          <6>2. PICK l \in Requests(d.events) : y.events[j] = d.events[l] /\ l - j = g /\ l \in Int /\ j \in Int
            BY <4>1, <5>3
          <6>3. k = l
            BY <3>1, <4>5, <6>1, <6>2
          <6> QED BY <4>2, <6>1, <6>2, <6>3
        <5> QED BY <4>5, <5>1, <5>2, <5>3
      <4> QED BY <4>4, <4>5
    <3> QED BY <2>3, <2>8, <3>2, <3>3, <3>4 DEF ServerHears, ServerTakes
  <2>9. ServerFits(h, y) /\ y.state # "Idle" /\ Quiet(y.out)
        /\ (y.state = "Closed" => \E i \in DOMAIN y.events : y.events[i].k = "Closed")
    BY <2>3 DEF ServerHears, ServerHas
  <2> QED BY <2>5, <2>7, <2>8, <2>9 DEF ServerHas, y
<1> QED BY <1>2, <1>3

LEMMA ServerReads ==
    ASSUME NEW h \in Histories, NEW s \in Seq(Tpdus), AllToServer(h, s),
           NEW d0, ServerFits(h, d0), d0.state = "Idle" => NoData(s),
           d0.state # "Closed", d0.out = <<>>, d0.events = <<>>
    PROVE  ServerHas(h, d0, s, Len(s), OnBytes(d0, s))
<1> DEFINE n == Len(s)
           V == [i \in 0 .. n |-> {d \in Ends : ServerHas(h, d0, s, i, d)}]
<1>1. n \in Nat
  OBVIOUS
<1>2. ServerHas(h, d0, s, 0, d0)
  <2>1. Quiet(d0.out) /\ NoData(d0.out) /\ Requests(d0.events) = {}
    BY DEF Quiet, NoData, Requests
  <2> QED BY <2>1, GathersNothing DEF ServerHas
<1>3. \A i \in 0 .. n : \A d : d \in V[i] <=> ServerHas(h, d0, s, i, d)
  <2>2. \A i, d : ServerHas(h, d0, s, i, d) => d \in Ends
    BY DEF ServerHas, ServerFits, Good
  <2>3. \A i \in 0 .. n : V[i] = {d \in Ends : ServerHas(h, d0, s, i, d)}
    OBVIOUS
  <2> HIDE DEF V
  <2> QED BY <2>2, <2>3
<1> HIDE DEF V
<1>4. d0 \in V[0]
  BY <1>1, <1>2, <1>3
<1>5. \A i \in 1 .. n : \A d \in V[i - 1] : Fed(d, s[i]) \in V[i]
  <2> TAKE i \in 1 .. n
  <2> TAKE d \in V[i - 1]
  <2>1. i - 1 \in 0 .. n /\ i \in 0 .. n
    BY <1>1
  <2>2. ServerHas(h, d0, s, i - 1, d)
    BY <1>3, <2>1
  <2>3. ServerHas(h, d0, s, i, Fed(d, s[i]))
    BY <2>2, ServerFedOn
  <2> QED BY <1>3, <2>1, <2>3
<1> HIDE DEF n
<1>6. OnBytes(d0, s) \in V[n]
  BY <1>1, <1>4, <1>5, OnBytesByInduction DEF n
<1>7. n \in 0 .. n
  BY <1>1
<1> QED BY <1>3, <1>6, <1>7 DEF n

-----------------------------------------------------------------------------
(* What a write adds                                                       *)

LEMMA WithinConcat ==
    ASSUME NEW q \in Seq(Tpdus), NEW s \in Seq(Tpdus), NEW a
    PROVE  Within(q \o s, a) <=> Within(q, a) \/ Within(s, a)
<1> DEFINE m == Len(q)
           n == Len(s)
           c == q \o s
<1>1. /\ m \in Nat /\ n \in Nat /\ DOMAIN q = 1 .. m /\ DOMAIN s = 1 .. n /\ DOMAIN c = 1 .. m + n
      /\ \A i \in 1 .. m : c[i] = q[i]
      /\ \A i \in 1 .. n : c[m + i] = s[i]
      /\ \A i \in DOMAIN c : (i \in DOMAIN q /\ c[i] = q[i]) \/ (i - m \in DOMAIN s /\ c[i] = s[i - m])
  BY ConcatOf
<1> HIDE DEF m, n, c
<1>2. \A i \in 1 .. m : i \in DOMAIN c
  BY <1>1
<1>3. \A i \in 1 .. n : m + i \in DOMAIN c
  BY <1>1
<1>4. Within(c, a) => Within(q, a) \/ Within(s, a)
  BY <1>1 DEF Within
<1>5. Within(q, a) => Within(c, a)
  BY <1>1, <1>2 DEF Within
<1>6. Within(s, a) => Within(c, a)
  <2>1. SUFFICES ASSUME NEW i \in 1 .. n, Carries(s[i], a) PROVE Within(c, a)
    BY <1>1 DEF Within
  <2>2. m + i \in DOMAIN c /\ c[m + i] = s[i]
    BY <1>1, <1>3
  <2> QED BY <2>1, <2>2 DEF Within
<1> QED BY <1>4, <1>5, <1>6 DEF c

LEMMA OnceConcat ==
    ASSUME NEW q \in Seq(Tpdus), NEW s \in Seq(Tpdus), Once(q), Once(s),
           \A a \in 1 .. MaxCalls : ~(Within(q, a) /\ Within(s, a))
    PROVE  Once(q \o s)
<1> DEFINE m == Len(q)
           n == Len(s)
           c == q \o s
<1>1. /\ m \in Nat /\ n \in Nat /\ DOMAIN q = 1 .. m /\ DOMAIN s = 1 .. n /\ DOMAIN c = 1 .. m + n
      /\ \A i \in DOMAIN c : (i \in DOMAIN q /\ c[i] = q[i]) \/ (i - m \in DOMAIN s /\ c[i] = s[i - m])
  BY ConcatOf
<1> HIDE DEF m, n, c
<1>2. SUFFICES ASSUME NEW i \in DOMAIN c, NEW j \in DOMAIN c, NEW a \in 1 .. MaxCalls,
                      i < j, Carries(c[i], a), Carries(c[j], a)
               PROVE  ~c[i].eot
  BY DEF Once, c
<1>3. i \in Int /\ j \in Int /\ m \in Int
  BY <1>1
<1>4. CASE i \in DOMAIN q /\ c[i] = q[i] /\ j \in DOMAIN q /\ c[j] = q[j]
  BY <1>2, <1>4 DEF Once
<1>5. CASE i \in DOMAIN q /\ c[i] = q[i] /\ j - m \in DOMAIN s /\ c[j] = s[j - m]
  BY <1>2, <1>5 DEF Within
<1>6. CASE i - m \in DOMAIN s /\ c[i] = s[i - m] /\ j \in DOMAIN q /\ c[j] = q[j]
  BY <1>2, <1>6 DEF Within
<1>7. CASE i - m \in DOMAIN s /\ c[i] = s[i - m] /\ j - m \in DOMAIN s /\ c[j] = s[j - m]
  <2>1. i - m < j - m
    BY <1>2, <1>3
  <2> QED BY <1>2, <1>7, <2>1 DEF Once
<1> QED BY <1>1, <1>4, <1>5, <1>6, <1>7

LEMMA SegmentsCarry ==
    ASSUME NEW h \in Histories, NEW t \in Tsdus
    PROVE  LET s == Segments(t, Chunk(h))
           IN  /\ s \in Seq(Tpdus) /\ Once(s)
               /\ \A a : Within(s, a) <=> ~Mute(t) /\ a = t.mms.says
<1> DEFINE s == Segments(t, Chunk(h))
           n == Len(s)
<1>1. /\ s \in Seq(Tpdus) /\ n \in Nat \ {0}
      /\ \A i \in 1 .. n : s[i].of = t
      /\ \A i \in 1 .. n : s[i].eot <=> i = n
  <2> DEFINE exp == AgreedExp(h)
  <2>1. exp \in Nat
    BY AgreedSizes
  <2>2. s = Segments(t, TpduData(exp))
    BY DEF Chunk
  <2> HIDE DEF exp, s
  <2>3. LET z == Segments(t, TpduData(exp))
        IN  /\ z \in Seq(Tpdus) /\ Len(z) \in Nat \ {0}
            /\ \A i \in 1 .. Len(z) : z[i] \in Tpdus /\ z[i].k = "DT" /\ z[i].of = t /\ z[i].len <= TpduData(exp)
            /\ \A i \in 1 .. Len(z) : z[i].eot <=> i = Len(z)
    BY <2>1, SegmentsAre
  <2> QED BY <2>2, <2>3
<1> HIDE DEF s
<1>2. DOMAIN s = 1 .. n
  BY <1>1
<1> HIDE DEF n
<1>3. Once(s)
  BY <1>1, <1>2 DEF Once
<1>4. 1 \in DOMAIN s
  BY <1>1, <1>2
<1>5. \A a : Within(s, a) <=> ~Mute(t) /\ a = t.mms.says
  BY <1>1, <1>2, <1>4 DEF Within, Carries, Mute
<1> QED BY <1>1, <1>3, <1>5 DEF s

\* What is left of a wire after n of its TPDUs are read.
LEMMA RestOf ==
    ASSUME NEW q \in Seq(Tpdus), NEW n \in 0 .. Len(q)
    PROVE  LET front == SubSeq(q, 1, n)
               rest == SubSeq(q, n + 1, Len(q))
           IN  /\ front \in Seq(Tpdus) /\ Len(front) = n /\ \A i \in 1 .. n : front[i] = q[i]
               /\ rest \in Seq(Tpdus)
               /\ \A i \in DOMAIN rest : \E j \in DOMAIN q : j > n /\ rest[i] = q[j]
               /\ Once(q) => Once(front) /\ Once(rest)
               /\ \A a : Within(q, a) <=> Carried(front, n, a) \/ Within(rest, a)
               /\ \A a \in 1 .. MaxCalls : Once(q) => ~(Ended(front, n, a) /\ Within(rest, a))
<1> DEFINE front == SubSeq(q, 1, n)
           rest == SubSeq(q, n + 1, Len(q))
           m == Len(q)
<1>1. m \in Nat /\ DOMAIN q = 1 .. m /\ \A i \in 1 .. m : q[i] \in Tpdus
  BY ElementOfSeq
<1>2. n \in Nat /\ n <= m
  BY <1>1
<1>3. front \in Seq(Tpdus) /\ Len(front) = n /\ \A i \in 1 .. n : front[i] = q[i]
  <2>1. \A i \in 1 .. n : q[i] \in Tpdus
    BY <1>1, <1>2
  <2>2. /\ SubSeq(q, 1, n) \in Seq(Tpdus)
        /\ Len(SubSeq(q, 1, n)) = IF 1 <= n THEN n - 1 + 1 ELSE 0
        /\ \A i \in 1 .. n - 1 + 1 : SubSeq(q, 1, n)[i] = q[1 + i - 1]
    BY <1>2, <2>1, SubSeqProperties
  <2>3. n - 1 + 1 = n /\ \A i \in 1 .. n : 1 + i - 1 = i
    BY <1>2
  <2> QED BY <1>2, <2>2, <2>3
<1>4. rest \in Seq(Tpdus) /\ Len(rest) = m - n /\ \A i \in 1 .. m - n : rest[i] = q[n + i]
  <2>1. \A i \in n + 1 .. m : q[i] \in Tpdus
    BY <1>1, <1>2
  <2>2. n + 1 \in Int /\ m \in Int
    BY <1>1, <1>2
  <2>3. /\ SubSeq(q, n + 1, m) \in Seq(Tpdus)
        /\ Len(SubSeq(q, n + 1, m)) = IF n + 1 <= m THEN m - (n + 1) + 1 ELSE 0
        /\ \A i \in 1 .. m - (n + 1) + 1 : SubSeq(q, n + 1, m)[i] = q[n + 1 + i - 1]
    BY <2>1, <2>2, SubSeqProperties
  <2>4. m - (n + 1) + 1 = m - n /\ \A i \in 1 .. m - n : n + 1 + i - 1 = n + i
    BY <1>1, <1>2
  <2>5. rest = SubSeq(q, n + 1, m)
    OBVIOUS
  <2> HIDE DEF rest, m
  <2>6. n + 1 <= m \/ (~(n + 1 <= m) /\ m - n = 0)
    BY <1>1, <1>2
  <2>7. Len(rest) = m - n
    BY <2>3, <2>4, <2>5, <2>6
  <2>8. \A i \in 1 .. m - n : rest[i] = q[n + i]
    <3> TAKE i \in 1 .. m - n
    <3>1. i \in 1 .. m - (n + 1) + 1 /\ n + 1 + i - 1 = n + i
      BY <2>4
    <3> QED BY <2>3, <2>5, <3>1
  <2> QED BY <2>3, <2>5, <2>7, <2>8
<1>5. DOMAIN rest = 1 .. m - n /\ DOMAIN front = 1 .. n
  <2> HIDE DEF m, rest, front
  <2> QED BY <1>3, <1>4, LenProperties
<1> HIDE DEF front, rest, m
<1>6. \A i \in DOMAIN rest : n + i \in DOMAIN q /\ n + i > n /\ rest[i] = q[n + i]
  BY <1>1, <1>2, <1>4, <1>5
<1>7. \A j \in DOMAIN q : j > n => j - n \in DOMAIN rest /\ rest[j - n] = q[j]
  <2> TAKE j \in DOMAIN q
  <2>1. j > n => j - n \in 1 .. m - n /\ n + (j - n) = j
    BY <1>1, <1>2
  <2> QED BY <1>4, <1>5, <2>1
<1>8. \A j \in DOMAIN q : j <= n => j \in DOMAIN front /\ front[j] = q[j]
  BY <1>1, <1>2, <1>3, <1>5
<1>9. \A i \in DOMAIN front : i \in DOMAIN q /\ front[i] = q[i] /\ i <= n
  BY <1>1, <1>2, <1>3, <1>5
<1>10. \A j \in DOMAIN q : j > n \/ j <= n
  BY <1>1, <1>2
<1>11. Once(q) => Once(front)
  BY <1>9 DEF Once
<1>12. Once(q) => Once(rest)
  <2> SUFFICES ASSUME Once(q), NEW i \in DOMAIN rest, NEW j \in DOMAIN rest, NEW a \in 1 .. MaxCalls,
                      i < j, Carries(rest[i], a), Carries(rest[j], a)
               PROVE  ~rest[i].eot
    BY DEF Once
  <2>1. n + i < n + j
    BY <1>1, <1>2, <1>5
  <2>2. n + i \in DOMAIN q /\ n + j \in DOMAIN q /\ rest[i] = q[n + i] /\ rest[j] = q[n + j]
    BY <1>6
  <2> QED BY <2>1, <2>2 DEF Once
<1>13. \A a : Within(q, a) <=> Carried(front, n, a) \/ Within(rest, a)
  BY <1>5, <1>6, <1>7, <1>8, <1>9, <1>10 DEF Within, Carried
<1>14. ASSUME NEW a \in 1 .. MaxCalls, Once(q), Ended(front, n, a), Within(rest, a)
       PROVE  FALSE
  <2>1. PICK i \in 1 .. n : front[i].eot /\ Carries(front[i], a)
    BY <1>14 DEF Ended
  <2>2. PICK j \in DOMAIN rest : Carries(rest[j], a)
    BY <1>14 DEF Within
  <2>3. i \in DOMAIN q /\ front[i] = q[i] /\ n + j \in DOMAIN q /\ rest[j] = q[n + j] /\ i < n + j
    BY <1>2, <1>5, <1>6, <1>9, <2>1, <2>2
  <2> QED BY <1>14, <2>1, <2>2, <2>3 DEF Once
<1> QED BY <1>3, <1>4, <1>6, <1>11, <1>12, <1>13, <1>14 DEF front, rest, m

-----------------------------------------------------------------------------
(* What the server's thread answers                                        *)

LEMMA ServerSends ==
    ASSUME NEW h \in Histories, NEW d, ServerFits(h, d), NEW p \in Pdus,
           p.k = "Unconfirmed" \/ (p.k \in {"Response", "Reject"} /\ Called(h, p))
    PROVE  LET y == Send(d, p)
           IN  /\ ServerFits(h, y) /\ y.state = d.state /\ y.parts = d.parts /\ y.events = d.events
               /\ y.peerMaxPdu = d.peerMaxPdu
               /\ ~MaySend(d, p.size) => y = d
               /\ MaySend(d, p.size) => y.out = d.out \o Segments(UserData(p), Chunk(h))
<1> DEFINE y == Send(d, p)
           t == UserData(p)
<1>1. CASE ~MaySend(d, p.size)
  BY <1>1 DEF Send
<1>2. CASE MaySend(d, p.size)
  <2>1. y = SendTsdu(d, t)
    BY <1>2 DEF Send
  <2>2. t \in Tsdus /\ t.mms = p
    BY PieceTypes DEF UserData
  <2>3. Good(d) /\ d.state = "Established" /\ d.chunk = Chunk(h) /\ d.peerMaxPdu = h.client.maxPdu
    BY <1>2 DEF MaySend, ServerFits
  <2>4. p.size <= h.client.maxPdu
    BY <1>2, <2>3, HistoryTypes DEF MaySend
  <2>5. TsduToClient(h, t)
    BY <2>2, <2>4 DEF TsduToClient
  <2> HIDE DEF t, y
  <2>6. /\ Kept(d, y) /\ Alike(d, y) /\ y.state = d.state
        /\ y.outstanding = d.outstanding /\ y.parts = d.parts /\ y.events = d.events
        /\ y.out = d.out \o Segments(t, Chunk(h))
        /\ AllToClient(h, d.out) => AllToClient(h, y.out)
    BY <2>1, <2>2, <2>3, <2>5, Sends
  <2>7. ServerFits(h, y)
    BY <2>3, <2>6 DEF ServerFits, Alike, Kept
  <2> QED BY <1>2, <2>6, <2>7 DEF t, y, Alike
<1> QED BY <1>1, <1>2

LEMMA ReplyIs ==
    ASSUME NEW h \in Histories, NEW kind \in Replies, NEW size \in Nat, NEW ev \in Events,
           ev.id = ev.pdu.id, Called(h, ev.pdu)
    PROVE  LET p == Reply(kind, size, ev)
           IN  /\ p \in Pdus /\ p.k \in {"Response", "Reject"} /\ Called(h, p) /\ p.says = ev.pdu.says
               /\ ~Mute(UserData(p)) /\ UserData(p).mms = p /\ UserData(p) \in Tsdus
<1> DEFINE p == Reply(kind, size, ev)
<1>1. ev.pdu \in Pdus /\ ev.id \in InvokeIds \cup {NoId} /\ ev.pdu.says \in Payloads
  BY DEF Events, Pdus
<1>2. p \in Pdus
  BY <1>1, PduType DEF Reply, PduKinds
<1>3. p.k \in {"Response", "Reject"} /\ p.id = ev.id /\ p.says = ev.pdu.says
  BY DEF Reply, Pdu
<1> HIDE DEF p
<1>4. Called(h, p)
  BY <1>3 DEF Called
<1>5. UserData(p).mms = p /\ UserData(p) \in Tsdus
  BY <1>2, PieceTypes DEF UserData
<1> QED BY <1>2, <1>3, <1>4, <1>5 DEF p, Mute

SentRow(e, kind, size, n, f) ==
    f = [i \in 0 .. n |->
            CASE i = 0 -> [e EXCEPT !.events = <<>>]
              [] i > 0 /\ i \in Requests(e.events) -> Send(f[i - 1], Reply(kind, size, e.events[i]))
              [] OTHER -> f[i - 1]]

LEMMA SentInTurn ==
    ASSUME NEW e, NEW kind, NEW size
    PROVE  \A n \in Nat : \E f : SentRow(e, kind, size, n, f)
<1> DEFINE S == {n \in Nat : \E f : SentRow(e, kind, size, n, f)}
           Then(d, i) == IF i \in Requests(e.events) THEN Send(d, Reply(kind, size, e.events[i])) ELSE d
<1>1. 0 \in S
  <2> DEFINE f == [i \in 0 .. 0 |-> [e EXCEPT !.events = <<>>]]
  <2>1. f = [i \in 0 .. 0 |->
                CASE i = 0 -> [e EXCEPT !.events = <<>>]
                  [] i > 0 /\ i \in Requests(e.events) -> Send(f[i - 1], Reply(kind, size, e.events[i]))
                  [] OTHER -> f[i - 1]]
    OBVIOUS
  <2>2. SentRow(e, kind, size, 0, f)
    BY <2>1 DEF SentRow
  <2> QED BY <2>2
<1>2. ASSUME NEW n \in Nat, n \in S PROVE n + 1 \in S
  <2>1. PICK g : SentRow(e, kind, size, n, g)
    BY <1>2
  <2>2. \A i \in 0 .. n : g[i] = IF i = 0 THEN [e EXCEPT !.events = <<>>] ELSE Then(g[i - 1], i)
    BY <2>1 DEF SentRow
  <2> DEFINE f == [i \in 0 .. n + 1 |-> IF i <= n THEN g[i] ELSE Then(g[n], n + 1)]
  <2>3. \A i \in 0 .. n + 1 : f[i] = IF i = 0 THEN [e EXCEPT !.events = <<>>] ELSE Then(f[i - 1], i)
    <3> HIDE DEF Then
    <3> TAKE i \in 0 .. n + 1
    <3>1. CASE i = 0
      BY <2>2, <3>1
    <3>2. CASE i # 0 /\ i <= n
      <4>1. i - 1 \in 0 .. n + 1 /\ i - 1 <= n /\ i \in 0 .. n
        BY <3>2
      <4>2. f[i] = g[i] /\ f[i - 1] = g[i - 1]
        BY <3>2, <4>1
      <4> HIDE DEF f
      <4> QED BY <2>2, <3>2, <4>1, <4>2
    <3>3. CASE i = n + 1
      <4>1. n \in 0 .. n + 1 /\ i - 1 = n /\ i # 0 /\ ~(i <= n)
        BY <3>3
      <4>2. f[i] = Then(g[n], n + 1) /\ f[n] = g[n]
        BY <4>1
      <4> HIDE DEF f
      <4> QED BY <3>3, <4>1, <4>2
    <3> QED BY <3>1, <3>2, <3>3
  <2>4. f = [i \in 0 .. n + 1 |->
                CASE i = 0 -> [e EXCEPT !.events = <<>>]
                  [] i > 0 /\ i \in Requests(e.events) -> Send(f[i - 1], Reply(kind, size, e.events[i]))
                  [] OTHER -> f[i - 1]]
    <3>1. DOMAIN f = 0 .. n + 1 /\ f = [i \in 0 .. n + 1 |-> f[i]]
      OBVIOUS
    <3> HIDE DEF f
    <3>2. \A i \in 0 .. n + 1 :
              f[i] = CASE i = 0 -> [e EXCEPT !.events = <<>>]
                       [] i > 0 /\ i \in Requests(e.events) -> Send(f[i - 1], Reply(kind, size, e.events[i]))
                       [] OTHER -> f[i - 1]
      BY <2>3
    <3> QED BY <3>1, <3>2
  <2>5. SentRow(e, kind, size, n + 1, f)
    BY <2>4 DEF SentRow
  <2> HIDE DEF f
  <2> QED BY <2>5
<1> HIDE DEF S
<1>3. Nat \subseteq S
  BY <1>1, <1>2, NumbersByInduction
<1> QED BY <1>3 DEF S

LEMMA RepliedByInduction ==
    ASSUME NEW e, NEW kind, NEW size, NEW n \in Nat, Len(e.events) = n, NEW V, [e EXCEPT !.events = <<>>] \in V[0],
           \A i \in 1 .. n : \A d \in V[i - 1] :
               /\ i \in Requests(e.events) => Send(d, Reply(kind, size, e.events[i])) \in V[i]
               /\ i \notin Requests(e.events) => d \in V[i]
    PROVE  Replied(e, kind, size) \in V[n]
<1> DEFINE sent == CHOOSE f : SentRow(e, kind, size, n, f)
<1>1. Replied(e, kind, size) = sent[n]
  BY DEF Replied, SentRow
<1>3. SentRow(e, kind, size, n, sent)
  BY SentInTurn
<1> HIDE DEF sent
<1>4. /\ sent[0] = [e EXCEPT !.events = <<>>]
      /\ \A i \in 1 .. n : sent[i] = IF i \in Requests(e.events) THEN Send(sent[i - 1], Reply(kind, size, e.events[i]))
                                     ELSE sent[i - 1]
  <2>1. sent = [i \in 0 .. n |->
                   CASE i = 0 -> [e EXCEPT !.events = <<>>]
                     [] i > 0 /\ i \in Requests(e.events) -> Send(sent[i - 1], Reply(kind, size, e.events[i]))
                     [] OTHER -> sent[i - 1]]
    BY <1>3 DEF SentRow
  <2>2. 0 \in 0 .. n /\ \A i \in 1 .. n : i \in 0 .. n /\ i # 0 /\ i > 0
    OBVIOUS
  <2> QED BY <2>1, <2>2
<1>5. \A i \in 1 .. n : sent[i - 1] \in V[i - 1] => sent[i] \in V[i]
  BY <1>4
<1>6. sent[n] \in V[n]
  BY <1>4, <1>5, RowByInduction
<1> QED BY <1>1, <1>6

LEMMA EventsSet ==
    ASSUME NEW d, Good(d), NEW q \in Seq(Events)
    PROVE  LET x == [d EXCEPT !.events = q]
           IN  /\ Good(x) /\ Alike(d, x) /\ x.state = d.state /\ x.out = d.out /\ x.parts = d.parts
               /\ x.outstanding = d.outstanding /\ x.events = q
<1> DEFINE x == [d EXCEPT !.events = q]
<1>1. d \in Ends
  BY DEF Good
<1>2. x \in Ends
  BY <1>1 DEF Ends
<1>3. /\ Alike(d, x) /\ x.state = d.state /\ x.out = d.out /\ x.parts = d.parts
      /\ x.outstanding = d.outstanding /\ x.events = q /\ x.armed = d.armed
  BY <1>1 DEF Ends, Alike
<1> HIDE DEF x
<1>4. Good(x)
  BY <1>2, <1>3 DEF Good, Numbers, Alike
<1> QED BY <1>3, <1>4 DEF x

LEMMA FlushedIs ==
    ASSUME NEW d, Good(d)
    PROVE  LET x == Flushed(d)
           IN  /\ Good(x) /\ Alike(d, x) /\ x.state = d.state /\ x.out = <<>> /\ x.parts = d.parts
               /\ x.outstanding = d.outstanding /\ x.events = d.events
<1> DEFINE x == Flushed(d)
<1>1. d \in Ends
  BY DEF Good
<1>2. x \in Ends
  <2>1. <<>> \in Seq(Tpdus)
    BY EmptySeq
  <2> QED BY <1>1, <2>1 DEF Ends, Flushed
<1>3. /\ Alike(d, x) /\ x.state = d.state /\ x.out = <<>> /\ x.parts = d.parts
      /\ x.outstanding = d.outstanding /\ x.events = d.events /\ x.armed = d.armed
  BY <1>1 DEF Ends, Alike, Flushed
<1> HIDE DEF x
<1>4. Good(x)
  BY <1>2, <1>3 DEF Good, Numbers, Alike
<1> QED BY <1>3, <1>4 DEF x

\* The requests told of are of as many calls.
Apart(q) == \A i, j \in Requests(q) : q[i].pdu.says = q[j].pdu.says => i = j

\* The server's end e after the replies to its first n events.
Sent(h, e, kind, size, n, d) ==
    /\ ServerFits(h, d) /\ d.state = e.state /\ d.parts = e.parts /\ d.events = <<>> /\ d.peerMaxPdu = e.peerMaxPdu
    /\ e.state # "Established" => d.out = e.out
    /\ \A a : Within(d.out, a) => \E j \in Requests(e.events) : j <= n /\ e.events[j].pdu.says = a
    /\ \A j \in Requests(e.events) :
           j <= n /\ MaySend(e, Reply(kind, size, e.events[j]).size) => Within(d.out, e.events[j].pdu.says)
    /\ Apart(e.events) => Once(d.out)

LEMMA SentOn ==
    ASSUME NEW h \in Histories, NEW e, ServerFits(h, e), NEW kind \in Replies, NEW size \in Nat,
           NEW n \in 1 .. Len(e.events), n \in Requests(e.events), NEW d, Sent(h, e, kind, size, n - 1, d)
    PROVE  Sent(h, e, kind, size, n, Send(d, Reply(kind, size, e.events[n])))
<1> DEFINE ev == e.events[n]
           p == Reply(kind, size, ev)
           y == Send(d, p)
           s == Segments(UserData(p), Chunk(h))
<1>0. /\ e.events \in Seq(Events) /\ n \in DOMAIN e.events /\ n \in Nat /\ ev \in Events /\ Heeded(h, e.events)
      /\ ServerFits(h, d) /\ d.out \in Seq(Tpdus)
  <2>1. e.events \in Seq(Events) /\ Heeded(h, e.events)
    BY DEF ServerFits, Good, Ends
  <2>2. n \in DOMAIN e.events /\ n \in Nat /\ ev \in Events
    BY <2>1, ElementOfSeq
  <2>3. ServerFits(h, d) /\ d.out \in Seq(Tpdus)
    BY DEF Sent, ServerFits, Good, Ends
  <2> QED BY <2>1, <2>2, <2>3
<1>1. ev.k = "Request" /\ ev.id = ev.pdu.id /\ Called(h, ev.pdu)
  BY <1>0 DEF Heeded, Requests
<1> HIDE DEF ev
<1>2. /\ p \in Pdus /\ p.k \in {"Response", "Reject"} /\ Called(h, p) /\ p.says = ev.pdu.says
      /\ ~Mute(UserData(p)) /\ UserData(p).mms = p /\ UserData(p) \in Tsdus
  BY <1>0, <1>1, ReplyIs
<1>3. s \in Seq(Tpdus) /\ Once(s) /\ \A a : Within(s, a) <=> a = ev.pdu.says
  BY <1>2, SegmentsCarry
<1>4. MaySend(d, p.size) <=> MaySend(e, p.size)
  BY DEF Sent, MaySend
<1>5. \A j \in Requests(e.events) : j \in Int /\ (j <= n => j <= n - 1 \/ j = n)
  BY <1>0 DEF Requests
<1> HIDE DEF p, s
<1>6. /\ ServerFits(h, y) /\ y.state = d.state /\ y.parts = d.parts /\ y.events = d.events
      /\ y.peerMaxPdu = d.peerMaxPdu
      /\ ~MaySend(d, p.size) => y = d
      /\ MaySend(d, p.size) => y.out = d.out \o s
  BY <1>0, <1>2, ServerSends DEF s
<1> HIDE DEF y
<1>7. \A a : Within(y.out, a) <=> Within(d.out, a) \/ (MaySend(d, p.size) /\ a = ev.pdu.says)
  <2> TAKE a
  <2>1. Within(d.out \o s, a) <=> Within(d.out, a) \/ Within(s, a)
    BY <1>0, <1>3, WithinConcat
  <2> QED BY <1>3, <1>6, <2>1
<1>8. e.state # "Established" => y.out = e.out
  BY <1>4, <1>6 DEF Sent, MaySend
<1>9. \A a : Within(y.out, a) => \E j \in Requests(e.events) : j <= n /\ e.events[j].pdu.says = a
  <2>1. \A a : Within(d.out, a) => \E j \in Requests(e.events) : j <= n - 1 /\ e.events[j].pdu.says = a
    BY DEF Sent
  <2>2. \A j \in Requests(e.events) : j <= n - 1 => j <= n
    BY <1>0, <1>5
  <2>3. n <= n
    BY <1>0
  <2> QED BY <1>7, <2>1, <2>2, <2>3 DEF ev
<1>10. \A j \in Requests(e.events) :
           j <= n /\ MaySend(e, Reply(kind, size, e.events[j]).size) => Within(y.out, e.events[j].pdu.says)
  BY <1>4, <1>5, <1>7 DEF Sent, ev, p
<1>11. Apart(e.events) => Once(y.out)
  <2>1. SUFFICES ASSUME Apart(e.events), MaySend(d, p.size) PROVE Once(d.out \o s)
    BY <1>6 DEF Sent
  <2>2. Once(d.out)
    BY <2>1 DEF Sent
  <2>3. ~Within(d.out, ev.pdu.says)
    <3>1. \A j \in Requests(e.events) : j <= n - 1 => j # n
      BY <1>0, <1>5
    <3> QED BY <2>1, <3>1 DEF Apart, Sent, ev
  <2> QED BY <1>0, <1>3, <2>2, <2>3, OnceConcat
<1>12. y.state = e.state /\ y.parts = e.parts /\ y.events = <<>> /\ y.peerMaxPdu = e.peerMaxPdu
  BY <1>6 DEF Sent
<1>13. Sent(h, e, kind, size, n, y)
  BY <1>6, <1>8, <1>9, <1>10, <1>11, <1>12 DEF Sent
<1> QED BY <1>13 DEF y, p, ev

LEMMA RepliedIs ==
    ASSUME NEW h \in Histories, NEW e, ServerFits(h, e), Quiet(e.out), NEW kind \in Replies, NEW size \in Nat
    PROVE  Sent(h, e, kind, size, Len(e.events), Replied(e, kind, size))
<1> DEFINE n == Len(e.events)
           e0 == [e EXCEPT !.events = <<>>]
           V == [i \in 0 .. n |-> {d \in Ends : Sent(h, e, kind, size, i, d)}]
<1>0. n \in Nat /\ Good(e) /\ e.events \in Seq(Events)
  BY DEF ServerFits, Good, Ends
<1>1. \A j \in Requests(e.events) : j \in 1 .. n
  BY <1>0 DEF Requests
<1>2. Sent(h, e, kind, size, 0, e0)
  <2>1. <<>> \in Seq(Events)
    BY EmptySeq
  <2>2. /\ Good(e0) /\ Alike(e, e0) /\ e0.state = e.state /\ e0.out = e.out /\ e0.parts = e.parts
        /\ e0.outstanding = e.outstanding /\ e0.events = <<>>
    BY <1>0, <2>1, EventsSet
  <2> HIDE DEF e0, n
  <2>3. ServerFits(h, e0)
    <3>1. Heeded(h, <<>>)
      BY DEF Heeded
    <3> QED BY <2>2, <3>1 DEF ServerFits, Alike
  <2>4. \A a : ~Within(e0.out, a)
    BY <2>2 DEF Quiet, Within, Carries
  <2>5. Once(e0.out)
    BY <2>4 DEF Once, Within
  <2>6. \A j \in Requests(e.events) : ~(j <= 0)
    BY <1>0, <1>1
  <2> QED BY <2>2, <2>3, <2>4, <2>5, <2>6 DEF Sent, Alike
<1>3. \A i \in 0 .. n : \A d : d \in V[i] <=> Sent(h, e, kind, size, i, d)
  <2>2. \A i, d : Sent(h, e, kind, size, i, d) => d \in Ends
    BY DEF Sent, ServerFits, Good
  <2>3. \A i \in 0 .. n : V[i] = {d \in Ends : Sent(h, e, kind, size, i, d)}
    OBVIOUS
  <2> HIDE DEF V
  <2> QED BY <2>2, <2>3
<1> HIDE DEF V
<1>4. e0 \in V[0]
  BY <1>0, <1>2, <1>3
<1>5. \A i \in 1 .. n : \A d \in V[i - 1] :
          /\ i \in Requests(e.events) => Send(d, Reply(kind, size, e.events[i])) \in V[i]
          /\ i \notin Requests(e.events) => d \in V[i]
  <2> TAKE i \in 1 .. n
  <2> TAKE d \in V[i - 1]
  <2>1. i - 1 \in 0 .. n /\ i \in 0 .. n
    BY <1>0
  <2>2. Sent(h, e, kind, size, i - 1, d)
    BY <1>3, <2>1
  <2>3. i \in Requests(e.events) => Sent(h, e, kind, size, i, Send(d, Reply(kind, size, e.events[i])))
    BY <2>2, SentOn
  <2>4. i \notin Requests(e.events) => Sent(h, e, kind, size, i, d)
    <3>1. SUFFICES ASSUME i \notin Requests(e.events) PROVE Sent(h, e, kind, size, i, d)
      OBVIOUS
    <3> HIDE DEF n
    <3>2. \A j \in Requests(e.events) : j <= i <=> j <= i - 1
      <4> TAKE j \in Requests(e.events)
      <4>1. j # i /\ j \in Int /\ i \in Int
        BY <1>0, <1>1, <3>1
      <4> QED BY <4>1
    <3> QED BY <2>2, <3>2 DEF Sent
  <2> QED BY <1>3, <2>1, <2>3, <2>4
<1> HIDE DEF n, e0
<1>6. Replied(e, kind, size) \in V[n]
  BY <1>0, <1>4, <1>5, RepliedByInduction DEF n, e0
<1>7. n \in 0 .. n
  BY <1>0
<1> QED BY <1>3, <1>6, <1>7 DEF n

-----------------------------------------------------------------------------
(* The other operations                                                    *)

LEMMA EndOfSeq ==
    ASSUME NEW S, NEW q \in Seq(S), NEW n \in Nat, n <= Len(q)
    PROVE  LET rest == SubSeq(q, n + 1, Len(q))
           IN  /\ rest \in Seq(S) /\ Len(rest) = Len(q) - n
               /\ \A i \in 1 .. Len(q) - n : rest[i] = q[n + i]
               /\ \A i \in DOMAIN rest : \E j \in DOMAIN q : j > n /\ rest[i] = q[j]
<1> DEFINE m == Len(q)
           rest == SubSeq(q, n + 1, m)
<1>1. m \in Nat /\ DOMAIN q = 1 .. m /\ \A i \in 1 .. m : q[i] \in S
  BY ElementOfSeq
<1> HIDE DEF m
<1>2. n + 1 \in Int /\ m \in Int /\ \A i \in n + 1 .. m : q[i] \in S
  BY <1>1
<1>3. /\ SubSeq(q, n + 1, m) \in Seq(S)
      /\ Len(SubSeq(q, n + 1, m)) = IF n + 1 <= m THEN m - (n + 1) + 1 ELSE 0
      /\ \A i \in 1 .. m - (n + 1) + 1 : SubSeq(q, n + 1, m)[i] = q[n + 1 + i - 1]
  BY <1>2, SubSeqProperties
<1> HIDE DEF rest
<1>4. rest \in Seq(S)
  BY <1>3 DEF rest
<1>5. n <= m
  BY DEF m
<1>6. Len(rest) = m - n
  BY <1>1, <1>3, <1>5 DEF rest
<1>7. \A i \in 1 .. m - n : rest[i] = q[n + i]
  <2>1. m - (n + 1) + 1 = m - n /\ \A i \in 1 .. m - n : n + 1 + i - 1 = n + i
    BY <1>1
  <2>2. TAKE i \in 1 .. m - n
  <2>3. i \in 1 .. m - (n + 1) + 1 /\ n + 1 + i - 1 = n + i
    BY <2>1
  <2> QED BY <1>3, <2>3 DEF rest
<1>8. DOMAIN rest = 1 .. m - n
  BY <1>4, <1>6, LenProperties
<1>9. \A i \in 1 .. m - n : n + i \in 1 .. m /\ n + i > n
  BY <1>1
<1>10. \A i \in DOMAIN rest : \E j \in DOMAIN q : j > n /\ rest[i] = q[j]
  <2> TAKE i \in DOMAIN rest
  <2>1. i \in 1 .. m - n
    BY <1>8
  <2>2. n + i \in DOMAIN q /\ n + i > n /\ rest[i] = q[n + i]
    BY <1>1, <1>7, <1>9, <2>1
  <2> QED BY <2>2
<1> QED BY <1>4, <1>6, <1>7, <1>10 DEF m, rest

\* What a full queue keeps was there.
LEMMA LastOfElements ==
    ASSUME NEW q \in Seq(Events)
    PROVE  LastOf(q) \in Seq(Events) /\ \A i \in DOMAIN LastOf(q) : \E j \in DOMAIN q : LastOf(q)[i] = q[j]
<1> DEFINE n == Most(0, Len(q) - Most(1, Capacity))
<1>1. Len(q) \in Nat /\ Most(1, Capacity) \in Nat \ {0}
  BY AssociationAssumption DEF Most
<1>2. n \in Nat /\ n <= Len(q)
  BY <1>1 DEF Most
<1>3. LastOf(q) = SubSeq(q, n + 1, Len(q))
  BY DEF LastOf
<1> HIDE DEF n
<1>4. /\ SubSeq(q, n + 1, Len(q)) \in Seq(Events)
      /\ \A i \in DOMAIN SubSeq(q, n + 1, Len(q)) : \E j \in DOMAIN q : j > n /\ SubSeq(q, n + 1, Len(q))[i] = q[j]
  BY <1>2, EndOfSeq
<1> QED BY <1>3, <1>4

LEMMA ExpireIs ==
    ASSUME NEW d, Good(d), NEW n \in 0 .. Len(d.outstanding)
    PROVE  LET y == Expire(d, n)
           IN  /\ Good(y) /\ Alike(d, y) /\ y.state = d.state /\ y.out = d.out /\ y.parts = d.parts
               /\ Outstanding(y) \subseteq Outstanding(d) /\ Len(y.outstanding) <= Len(d.outstanding)
               /\ \A i \in DOMAIN y.events :
                      y.events[i].k \in {"Request", "Response"} => \E j \in DOMAIN d.events : y.events[i] = d.events[j]
<1> DEFINE y == Expire(d, n)
           s == d.outstanding
           told == [i \in 1 .. n |-> Event("Timeout", s[i])]
           rest == SubSeq(s, n + 1, Len(s))
<1>1. d \in Ends /\ Good(y)
  BY ExpireFine DEF Fine, Good
<1>2. s \in Seq(InvokeIds) /\ d.events \in Seq(Events)
  BY <1>1 DEF Ends
<1>3. Len(s) \in Nat /\ n \in Nat /\ n <= Len(s) /\ \A i \in 1 .. Len(s) : s[i] \in InvokeIds
  BY <1>2
<1>4. CASE ~d.cfg.request \/ n = 0
  <2>1. y = d
    BY <1>4 DEF Expire
  <2> QED BY <1>1, <1>2, <1>3, <2>1 DEF Alike
<1>5. CASE d.cfg.request /\ n # 0
  <2>1. \A i \in 1 .. n : Event("Timeout", s[i]) \in Events /\ Event("Timeout", s[i]).k = "Timeout"
    <3> TAKE i \in 1 .. n
    <3>1. s[i] \in InvokeIds
      BY <1>3
    <3> QED BY <3>1, EventTypes DEF EventKinds, Event
  <2>2. told \in Seq(Events)
    BY <1>3, <2>1, IsASeq
  <2>3. \A i \in DOMAIN told : told[i].k = "Timeout"
    BY <2>1
  <2>4. y = [d EXCEPT !.outstanding = rest, !.events = LastOf(d.events \o told)]
    BY <1>5 DEF Expire
  <2> HIDE DEF told, rest, y
  <2>5. /\ Alike(d, y) /\ y.state = d.state /\ y.out = d.out /\ y.parts = d.parts
        /\ y.outstanding = rest /\ y.events = LastOf(d.events \o told)
    BY <1>1, <2>4 DEF Ends, Alike
  <2>6. /\ rest \in Seq(InvokeIds) /\ Len(rest) = Len(s) - n
        /\ \A i \in DOMAIN rest : \E j \in DOMAIN s : j > n /\ rest[i] = s[j]
    BY <1>2, <1>3, EndOfSeq DEF rest
  <2>7. \A i \in DOMAIN LastOf(d.events \o told) :
            LastOf(d.events \o told)[i].k \in {"Request", "Response"} =>
                \E j \in DOMAIN d.events : LastOf(d.events \o told)[i] = d.events[j]
    <3> TAKE i \in DOMAIN LastOf(d.events \o told)
    <3> HAVE LastOf(d.events \o told)[i].k \in {"Request", "Response"}
    <3>1. d.events \o told \in Seq(Events)
      BY <1>2, <2>2, ConcatOf
    <3>2. PICK j \in DOMAIN (d.events \o told) : LastOf(d.events \o told)[i] = (d.events \o told)[j]
      BY <3>1, LastOfElements
    <3>3. \/ j \in DOMAIN d.events /\ (d.events \o told)[j] = d.events[j]
          \/ j - Len(d.events) \in DOMAIN told /\ (d.events \o told)[j] = told[j - Len(d.events)]
      BY <1>2, <2>2, ConcatOf
    <3> QED BY <2>3, <3>2, <3>3
  <2>8. Outstanding(y) \subseteq Outstanding(d)
    BY <2>5, <2>6 DEF Outstanding
  <2>9. Len(y.outstanding) <= Len(d.outstanding)
    BY <1>3, <2>5, <2>6
  <2> QED BY <1>1, <2>5, <2>7, <2>8, <2>9 DEF y
<1> QED BY <1>4, <1>5

\* Time passes.
LEMMA ClientTimesOut ==
    ASSUME NEW h \in Histories, NEW d, ClientFits(h, d), NEW late \in BOOLEAN, NEW n \in 0 .. Len(d.outstanding)
    PROVE  LET y == OnTimeout(d, late, n)
           IN  /\ ClientFits(h, y) /\ y.out = d.out /\ y.state \in {d.state, "Closed"}
               /\ y.parts \in {d.parts, <<>>} /\ (y.state # "Closed" => y.parts = d.parts)
               /\ Outstanding(y) \subseteq Outstanding(d) /\ Answers(y.events) \subseteq Answers(d.events)
<1> DEFINE y == OnTimeout(d, late, n)
<1>1. Good(d) /\ d \in Ends
  BY DEF ClientFits, Good
<1>2. \/ d.state # "Closed" /\ \E why \in Reasons : y = Close(d, why)
      \/ y = Expire(d, n)
  <2>1. "Released" \in Reasons /\ "ConnectTimeout" \in Reasons
    BY DEF Reasons
  <2> QED BY <2>1 DEF OnTimeout
<1>3. CASE d.state # "Closed" /\ \E why \in Reasons : y = Close(d, why)
  <2> HIDE DEF y
  <2>1. Shut(h, d, y)
    BY <1>1, <1>3, Shuts DEF ClientFits
  <2>2. Outstanding(y) = {}
    BY <2>1 DEF Shut, Outstanding
  <2> QED BY <2>1, <2>2, ShutFits DEF Shut, y
<1>4. CASE y = Expire(d, n)
  <2> HIDE DEF y
  <2>1. /\ Good(y) /\ Alike(d, y) /\ y.state = d.state /\ y.out = d.out /\ y.parts = d.parts
        /\ Outstanding(y) \subseteq Outstanding(d) /\ Len(y.outstanding) <= Len(d.outstanding)
        /\ \A i \in DOMAIN y.events :
               y.events[i].k \in {"Request", "Response"} => \E j \in DOMAIN d.events : y.events[i] = d.events[j]
    BY <1>1, <1>4, ExpireIs
  <2>2. Heeded(h, y.events)
    BY <2>1 DEF Heeded, ClientFits
  <2>3. Answers(y.events) \subseteq Answers(d.events)
    BY <2>1 DEF Answers
  <2>4. Len(d.outstanding) \in Nat /\ Len(y.outstanding) \in Nat /\ Budget(h) \in Nat
    <3>1. y \in Ends
      BY <2>1 DEF Good
    <3> QED BY <1>1, <3>1, AgreedTerms DEF Ends
  <2>5. Len(y.outstanding) <= Budget(h)
    BY <2>1, <2>4 DEF ClientFits
  <2>6. ClientFits(h, y)
    BY <2>1, <2>2, <2>5 DEF ClientFits, Alike
  <2> QED BY <2>1, <2>3, <2>6 DEF y
<1> QED BY <1>2, <1>3, <1>4

LEMMA ServerTimedOut ==
    ASSUME NEW h \in Histories, NEW d, ServerFits(h, d), d.armed
    PROVE  LET y == OnTimeout(d, TRUE, 0)
           IN  ServerFits(h, y) /\ (y = d \/ Shut(h, d, y))
<1> DEFINE y == OnTimeout(d, TRUE, 0)
<1>1. Good(d) /\ d.state # "Closed"
  BY DEF ServerFits, Good
<1>2. y = Close(d, "ConnectTimeout") \/ y = Expire(d, 0)
  BY DEF OnTimeout, ServerFits
<1>3. Expire(d, 0) = d
  BY DEF Expire
<1>4. Shut(h, d, Close(d, "ConnectTimeout"))
  BY <1>1, Shuts DEF ServerFits, Reasons
<1> QED BY <1>2, <1>3, <1>4, ShutFits

\* What was measured by fewer calls is measured by more.
Grows(h, g) ==
    /\ g.client = h.client /\ g.server = h.server /\ h.asked <= g.asked
    /\ \A a \in 1 .. h.asked : g.number[a] = h.number[a]

LEMMA HistoryGrows ==
    ASSUME NEW h \in Histories, NEW g \in Histories, Grows(h, g)
    PROVE  /\ \A p : Called(h, p) => Called(g, p)
           /\ \A q : AllToServer(h, q) => AllToServer(g, q)
           /\ \A q : AllToClient(h, q) => AllToClient(g, q)
           /\ \A q : Heeded(h, q) => Heeded(g, q)
           /\ \A d : ClientFits(h, d) => ClientFits(g, d)
           /\ \A d : ServerFits(h, d) => ServerFits(g, d)
           /\ Chunk(g) = Chunk(h) /\ Budget(g) = Budget(h) /\ AgreedExp(g) = AgreedExp(h) /\ Deal(g) = Deal(h)
<1>1. Chunk(g) = Chunk(h) /\ Budget(g) = Budget(h) /\ AgreedExp(g) = AgreedExp(h) /\ Deal(g) = Deal(h)
  BY DEF Grows, Chunk, Budget, AgreedExp, Deal
<1>2. h.asked \in Nat /\ g.asked \in Nat /\ h.asked <= g.asked
  BY HistoryTypes DEF Grows
<1>3. \A a \in 1 .. h.asked : a \in 1 .. g.asked /\ g.number[a] = h.number[a]
  BY <1>2 DEF Grows
<1>4. \A p : Called(h, p) => Called(g, p)
  BY <1>3 DEF Called
<1>5. \A t : (TsduToServer(h, t) => TsduToServer(g, t)) /\ (TsduToClient(h, t) => TsduToClient(g, t))
  BY <1>1, <1>4 DEF TsduToServer, TsduToClient, Grows
<1>6. \A x : (TpduToServer(h, x) => TpduToServer(g, x)) /\ (TpduToClient(h, x) => TpduToClient(g, x))
  BY <1>1, <1>5 DEF TpduToServer, TpduToClient, Grows
<1>7. \A q : (AllToServer(h, q) => AllToServer(g, q)) /\ (AllToClient(h, q) => AllToClient(g, q))
  BY <1>6 DEF AllToServer, AllToClient
<1>8. \A q : Heeded(h, q) => Heeded(g, q)
  BY <1>4 DEF Heeded
<1>9. \A d : ClientFits(h, d) => ClientFits(g, d)
  <2> TAKE d
  <2> HAVE ClientFits(h, d)
  <2>1. AllToClient(g, d.parts) /\ AllToServer(g, d.out) /\ Heeded(g, d.events)
    BY <1>7, <1>8 DEF ClientFits
  <2>2. \A id \in Outstanding(d) : \E a \in 1 .. g.asked : g.number[a] = id
    BY <1>3 DEF ClientFits
  <2> QED BY <1>1, <2>1, <2>2 DEF ClientFits, Grows
<1>10. \A d : ServerFits(h, d) => ServerFits(g, d)
  BY <1>1, <1>7, <1>8 DEF ServerFits, Grows
<1> QED BY <1>1, <1>4, <1>7, <1>8, <1>9, <1>10

\* A call of the client.
Calls(h, g, d, size, y) ==
    LET t == UserData(Pdu("Request", Taken(d), size, g.asked))
    IN  /\ ClientFits(g, y) /\ y.state = d.state /\ y.parts = d.parts /\ y.events = d.events
        /\ t \in Tsdus /\ t.mms.k = "Request" /\ t.mms.says = g.asked
        /\ Taken(d) \in InvokeIds \ Outstanding(d)
        /\ ~MaySend(d, size) => y.out = d.out /\ Outstanding(y) = Outstanding(d)
        /\ MaySend(d, size) =>
               y.out = d.out \o Segments(t, Chunk(h)) /\ Outstanding(y) = Outstanding(d) \cup {Taken(d)}

LEMMA ClientCalls ==
    ASSUME NEW h \in Histories, NEW g \in Histories, Grows(h, g), NEW d, ClientFits(h, d), MayCall(d),
           NEW size \in Nat, g.asked = h.asked + 1, MaySend(d, size) => g.number[g.asked] = Taken(d)
    PROVE  Calls(h, g, d, size, Call(d, size, g.asked))
<1> DEFINE id == Taken(d)
           says == g.asked
           p == Pdu("Request", id, size, says)
           t == UserData(p)
           y == Call(d, size, says)
           moved == [d EXCEPT !.next = Successor(id)]
<1>1. Good(d) /\ d \in Ends /\ d.state = "Established"
  BY DEF ClientFits, Good, MayCall
<1>2. id \in InvokeIds \ Outstanding(d) /\ Successor(id) \in InvokeIds
  BY <1>1, TakenProperties
<1>3. says \in 1 .. MaxCalls /\ says \in Payloads /\ h.asked \in Nat
  <2>1. says \in 0 .. MaxCalls /\ h.asked \in 0 .. MaxCalls /\ MaxCalls \in Nat
    BY HistoryTypes
  <2>2. says \in 1 .. MaxCalls
    BY <2>1
  <2> QED BY <2>1, <2>2, LinkAssumption
<1> HIDE DEF id, says
<1>4. /\ p \in Pdus /\ p.k = "Request" /\ p.id = id /\ p.size = size /\ p.says = says
      /\ t \in Tsdus /\ t.mms = p /\ t = UserData(t.mms)
  <2>1. p \in Pdus
    BY <1>2, <1>3, PduType DEF PduKinds
  <2> QED BY <2>1, PieceTypes DEF Pdu, UserData
<1>5. Good(y)
  BY <1>1, <1>3, CallFine DEF Fine
<1>6. /\ moved \in Ends /\ Alike(d, moved) /\ moved.state = d.state /\ moved.out = d.out /\ moved.parts = d.parts
      /\ moved.outstanding = d.outstanding /\ moved.events = d.events
  BY <1>1, <1>2 DEF Ends, Alike
<1>7. Good(moved)
  BY <1>1, <1>6 DEF Good, Alike, Numbers, Ends
<1>8. ClientFits(h, moved)
  BY <1>6, <1>7 DEF ClientFits, Alike, Outstanding
<1>9. CASE ~MaySend(d, size)
  <2>1. y = moved
    BY <1>9 DEF Call, id
  <2>2. ClientFits(g, y)
    BY <1>8, <2>1, HistoryGrows
  <2> HIDE DEF y, moved, t
  <2> QED BY <1>2, <1>4, <1>6, <1>9, <2>1, <2>2 DEF Outstanding, Calls, id, says, y, t, p
<1>10. CASE MaySend(d, size)
  <2> DEFINE sent == SendTsdu(moved, t)
  <2>1. MaySend(moved, p.size)
    BY <1>4, <1>6, <1>10 DEF MaySend, Alike
  <2>2. y = [sent EXCEPT !.outstanding = Append(@, id)]
    <3>1. Send(moved, p) = sent
      BY <2>1 DEF Send
    <3> QED BY <1>10, <3>1 DEF Call, id
  <2> HIDE DEF t, moved, y
  <2>3. moved.chunk = Chunk(h) /\ Chunk(g) = Chunk(h) /\ d.peerMaxPdu = Least(h.server.maxPdu, h.client.maxPdu)
    BY <1>1, <1>6, HistoryGrows DEF ClientFits, Alike
  <2>4. size <= h.server.maxPdu
    BY <1>10, <2>3, HistoryTypes DEF MaySend, Least
  <2>5. Called(g, p)
    BY <1>2, <1>3, <1>4, <1>10 DEF Called, id, says
  <2>6. TsduToServer(g, t)
    BY <1>4, <2>4, <2>5 DEF TsduToServer, Grows
  <2>7. AllToServer(g, moved.out)
    BY <1>8, HistoryGrows DEF ClientFits
  <2>8. /\ Kept(moved, sent) /\ Alike(moved, sent) /\ sent.state = moved.state
        /\ sent.outstanding = moved.outstanding /\ sent.parts = moved.parts /\ sent.events = moved.events
        /\ sent.out = moved.out \o Segments(t, Chunk(g)) /\ AllToServer(g, sent.out)
    BY <1>4, <1>7, <2>3, <2>6, <2>7, Sends
  <2> HIDE DEF sent
  <2>9. sent \in Ends
    BY <2>8 DEF Kept, Good
  <2>10. /\ Alike(sent, y) /\ y.state = sent.state /\ y.out = sent.out /\ y.parts = sent.parts /\ y.events = sent.events
         /\ y.outstanding = Append(d.outstanding, id)
    BY <1>6, <2>2, <2>8, <2>9 DEF Ends, Alike
  <2>11. d.outstanding \in Seq(InvokeIds) /\ Len(d.outstanding) \in Nat
    BY <1>1 DEF Ends
  <2>12. Len(y.outstanding) = Len(d.outstanding) + 1 /\ Outstanding(y) = Outstanding(d) \cup {id}
    <3>1. /\ Len(y.outstanding) = Len(d.outstanding) + 1
          /\ DOMAIN y.outstanding = 1 .. Len(d.outstanding) + 1
          /\ \A i \in 1 .. Len(d.outstanding) : y.outstanding[i] = d.outstanding[i]
          /\ y.outstanding[Len(d.outstanding) + 1] = id
      BY <1>2, <2>10, <2>11, AppendProperties
    <3>2. DOMAIN d.outstanding = 1 .. Len(d.outstanding)
      BY <2>11
    <3>3. \A i \in 1 .. Len(d.outstanding) + 1 : i \in 1 .. Len(d.outstanding) \/ i = Len(d.outstanding) + 1
      BY <2>11
    <3>4. \A i \in 1 .. Len(d.outstanding) : i \in 1 .. Len(d.outstanding) + 1
      BY <2>11
    <3>5. Len(d.outstanding) + 1 \in 1 .. Len(d.outstanding) + 1
      BY <2>11
    <3>6. Outstanding(y) \subseteq Outstanding(d) \cup {id}
      BY <3>1, <3>2, <3>3 DEF Outstanding
    <3>7. Outstanding(d) \cup {id} \subseteq Outstanding(y)
      BY <3>1, <3>2, <3>4, <3>5 DEF Outstanding
    <3> QED BY <3>1, <3>6, <3>7
  <2>13. Len(y.outstanding) <= Budget(g)
    <3>1. d.terms.budget = Budget(h) /\ Budget(g) = Budget(h) /\ Len(d.outstanding) < d.terms.budget
      BY <1>1, HistoryGrows DEF ClientFits, MayCall
    <3>2. Budget(h) \in Nat
      BY AgreedTerms
    <3> QED BY <2>11, <2>12, <3>1, <3>2
  <2>14. \A i \in Outstanding(y) : \E a \in 1 .. g.asked : g.number[a] = i
    <3>1. \A i \in Outstanding(d) : \E a \in 1 .. g.asked : g.number[a] = i
      <4>1. ClientFits(g, d)
        BY HistoryGrows
      <4> QED BY <4>1 DEF ClientFits
    <3>2. g.asked \in 1 .. g.asked /\ g.number[g.asked] = id
      BY <1>3, <1>10 DEF says, id
    <3> QED BY <2>12, <3>1, <3>2
  <2>15. ClientFits(g, moved)
    BY <1>8, HistoryGrows
  <2>16. ClientFits(g, y)
    BY <1>5, <2>8, <2>10, <2>13, <2>14, <2>15 DEF ClientFits, Alike, y
  <2> QED BY <1>2, <1>4, <1>6, <1>10, <2>3, <2>8, <2>10, <2>12, <2>16 DEF Calls, t, y, id, says, p
<1> QED BY <1>9, <1>10

LEMMA ClientFinishes ==
    ASSUME NEW h \in Histories, NEW d, ClientFits(h, d), d.state = "Established"
    PROVE  LET y == Release(d)
               t == Control("Finish", "Release")
           IN  /\ ClientFits(h, y) /\ y.state = "Releasing" /\ y.parts = d.parts /\ y.events = d.events
               /\ y.out = d.out \o Segments(t, Chunk(h)) /\ Outstanding(y) = Outstanding(d)
<1> DEFINE y == Release(d)
           t == Control("Finish", "Release")
           sent == SendTsdu(d, t)
<1>1. Good(d) /\ d.chunk = Chunk(h) /\ Good(y)
  BY ReleaseFine DEF ClientFits, Fine
<1>2. t \in Tsdus /\ TsduToServer(h, t)
  BY TsduTypes DEF TsduToServer
<1>3. y = [sent EXCEPT !.state = "Releasing", !.armed = TRUE]
  BY DEF Release
<1> HIDE DEF t, y
<1>4. /\ Kept(d, sent) /\ Alike(d, sent) /\ sent.state = d.state
      /\ sent.outstanding = d.outstanding /\ sent.parts = d.parts /\ sent.events = d.events
      /\ sent.out = d.out \o Segments(t, Chunk(h)) /\ AllToServer(h, sent.out)
  BY <1>1, <1>2, Sends DEF ClientFits
<1> HIDE DEF sent
<1>5. sent \in Ends
  BY <1>4 DEF Kept, Good
<1>6. /\ Alike(sent, y) /\ y.state = "Releasing" /\ y.out = sent.out /\ y.parts = sent.parts /\ y.events = sent.events
      /\ y.outstanding = sent.outstanding
  BY <1>3, <1>5 DEF Ends, Alike
<1>7. ClientFits(h, y)
  BY <1>1, <1>4, <1>6 DEF ClientFits, Alike, Outstanding
<1> QED BY <1>4, <1>6, <1>7 DEF y, t, Outstanding

LEMMA ClientAborts ==
    ASSUME NEW h \in Histories, NEW d, ClientFits(h, d), d.state # "Closed"
    PROVE  LET y == Flushed([Abort(d) EXCEPT !.events = <<>>])
           IN  /\ ClientFits(h, y) /\ y.state = "Closed" /\ y.parts = <<>> /\ y.events = <<>> /\ y.out = <<>>
               /\ Outstanding(y) = {}
<1> DEFINE q == Queue(d, <<Transport("DR", 0)>>)
           x == Abort(d)
           z == [x EXCEPT !.events = <<>>]
           y == Flushed(z)
<1>1. Good(d) /\ d \in Ends /\ <<Transport("DR", 0)>> \in Seq(Tpdus)
  <2>1. Transport("DR", 0) \in Tpdus
    BY PieceTypes DEF TpduKinds
  <2> QED BY <2>1 DEF ClientFits, Good
<1>2. /\ Good(q) /\ Alike(d, q) /\ q.state = d.state /\ q.events = d.events
  BY <1>1, QueueKeeps, QueueIs DEF Kept
<1>3. x = Close(q, "Aborted")
  BY DEF Abort
<1> HIDE DEF q, x
<1>4. Shut(h, q, x)
  BY <1>2, <1>3, Shuts DEF ClientFits, Reasons
<1>5. /\ Good(z) /\ Alike(x, z) /\ z.state = x.state /\ z.parts = x.parts
      /\ z.outstanding = x.outstanding /\ z.events = <<>>
  <2>1. <<>> \in Seq(Events)
    OBVIOUS
  <2> QED BY <1>4, <2>1, EventsSet DEF Shut
<1> HIDE DEF z
<1>6. /\ Good(y) /\ Alike(z, y) /\ y.state = z.state /\ y.out = <<>> /\ y.parts = z.parts
      /\ y.outstanding = z.outstanding /\ y.events = z.events
  BY <1>5, FlushedIs
<1> HIDE DEF y
<1>7. /\ Alike(d, y) /\ y.state = "Closed" /\ y.out = <<>> /\ y.parts = <<>> /\ y.outstanding = <<>> /\ y.events = <<>>
  BY <1>2, <1>4, <1>5, <1>6 DEF Shut, Alike
<1>8. Outstanding(y) = {} /\ Len(y.outstanding) <= Budget(h)
  BY <1>7, AgreedTerms DEF Outstanding
<1>9. ClientFits(h, y)
  BY <1>6, <1>7, <1>8 DEF ClientFits, Alike, AllToClient, AllToServer, Heeded
<1> QED BY <1>7, <1>8, <1>9 DEF y, z, x

-----------------------------------------------------------------------------
(* The steps keep the agreement                                            *)

LEMMA Peers ==
    /\ Peer("Client") = "Server" /\ Peer("Server") = "Client"
    /\ "Client" \in Roles /\ "Server" \in Roles /\ \A r \in Roles : r = "Client" \/ r = "Server"
BY DEF Peer, Roles

LEMMA FirstOf ==
    ASSUME NEW n \in Nat, NEW S, S \subseteq 1 .. n, S # {}
    PROVE  /\ First(S) \in S /\ \A j \in S : First(S) <= j
           /\ Latest(S) \in S /\ \A j \in S : j <= Latest(S)
<1>1. \E i \in S : \A j \in S : i <= j
  <2>1. S \subseteq Nat
    OBVIOUS
  <2> QED BY <2>1, LeastOf
<1>2. \E i \in S : \A j \in S : j <= i
  <2> DEFINE T == {k \in Nat : \E i \in S : k = n - i}
  <2>1. T \subseteq Nat /\ T # {}
    <3>1. PICK i \in S : TRUE
      OBVIOUS
    <3>2. n - i \in T
      BY <3>1
    <3> QED BY <3>2
  <2>2. PICK k \in T : \A j \in T : k <= j
    <3> HIDE DEF T
    <3> QED BY <2>1, LeastOf
  <2>3. PICK i \in S : k = n - i
    BY <2>2
  <2>4. \A j \in S : j <= i
    <3> TAKE j \in S
    <3>1. n - i <= n - j
      BY <2>2, <2>3
    <3> QED BY <3>1
  <2> QED BY <2>4
<1>3. First(S) \in S /\ \A j \in S : First(S) <= j
  BY <1>1 DEF First
<1>4. Latest(S) \in S /\ \A j \in S : j <= Latest(S)
  BY <1>2 DEF Latest
<1> QED BY <1>3, <1>4

\* What a turn of a side makes of the two ends and the two wires.
Turned(r, p, e, read) ==
    /\ end'[r] = Flushed(e) /\ end'[p] = end[p]
    /\ wire'[r] = SubSeq(wire[r], read + 1, Len(wire[r]))
    /\ wire'[p] = IF open[p] THEN wire[p] \o e.out ELSE wire[p]
    /\ end' \in [Roles -> Ends] /\ wire' \in [Roles -> Seq(Tpdus)]
    /\ \A i \in DOMAIN wire'[r] : \E j \in DOMAIN wire[r] : wire'[r][i] = wire[r][j]
    /\ \A i \in DOMAIN wire'[p] :
           \/ \E j \in DOMAIN wire[p] : wire'[p][i] = wire[p][j]
           \/ \E j \in DOMAIN e.out : wire'[p][i] = e.out[j]
    /\ wire[r] = <<>> => wire'[r] = <<>>

LEMMA TurnFits ==
    ASSUME end \in [Roles -> Ends], wire \in [Roles -> Seq(Tpdus)],
           NEW r \in Roles, NEW p \in Roles, p = Peer(r), NEW e, Good(e), NEW read, read \in 0 .. Len(wire[r]),
           Turn(r, e, read)
    PROVE  Turned(r, p, e, read)
<1>1. r # p /\ \A s \in Roles : s = r \/ s = p
  BY Peers
<1>2. /\ end'[r] = Flushed(e) /\ end'[p] = end[p]
      /\ wire'[r] = SubSeq(wire[r], read + 1, Len(wire[r]))
      /\ wire'[p] = IF open[p] THEN wire[p] \o e.out ELSE wire[p]
      /\ end' = [end EXCEPT ![r] = Flushed(e)]
      /\ DOMAIN wire' = Roles
  <2>1. end' = [end EXCEPT ![r] = Flushed(e)]
    BY DEF Turn
  <2>2. wire' = [wire EXCEPT ![r] = SubSeq(@, read + 1, Len(@)), ![p] = IF open[p] THEN @ \o e.out ELSE @]
    BY DEF Turn
  <2> QED BY <1>1, <2>1, <2>2
<1>3. Flushed(e) \in Ends /\ e.out \in Seq(Tpdus)
  <2>1. e \in Ends
    BY DEF Good
  <2> QED BY <2>1, FlushedIs DEF Good, Ends
<1>4. end' \in [Roles -> Ends]
  BY <1>2, <1>3
<1>5. wire[r] \in Seq(Tpdus) /\ wire[p] \in Seq(Tpdus) /\ read \in Nat /\ read <= Len(wire[r])
  <2>1. wire[r] \in Seq(Tpdus) /\ wire[p] \in Seq(Tpdus)
    OBVIOUS
  <2>2. Len(wire[r]) \in Nat
    BY <2>1
  <2> QED BY <2>1, <2>2
<1>6. /\ wire'[r] \in Seq(Tpdus) /\ Len(wire'[r]) = Len(wire[r]) - read
      /\ \A i \in DOMAIN wire'[r] : \E j \in DOMAIN wire[r] : wire'[r][i] = wire[r][j]
  <2> DEFINE rest == SubSeq(wire[r], read + 1, Len(wire[r]))
  <2>1. /\ rest \in Seq(Tpdus) /\ Len(rest) = Len(wire[r]) - read
        /\ \A i \in DOMAIN rest : \E j \in DOMAIN wire[r] : j > read /\ rest[i] = wire[r][j]
    BY <1>5, EndOfSeq
  <2> HIDE DEF rest
  <2>2. wire'[r] = rest
    BY <1>2 DEF rest
  <2> QED BY <2>1, <2>2
<1>7. /\ wire'[p] \in Seq(Tpdus)
      /\ \A i \in DOMAIN wire'[p] :
             \/ \E j \in DOMAIN wire[p] : wire'[p][i] = wire[p][j]
             \/ \E j \in DOMAIN e.out : wire'[p][i] = e.out[j]
  <2>1. CASE ~open[p]
    BY <1>2, <1>5, <2>1
  <2>2. CASE open[p]
    <3>1. wire'[p] = wire[p] \o e.out
      BY <1>2, <2>2
    <3>2. /\ wire[p] \o e.out \in Seq(Tpdus)
          /\ \A i \in DOMAIN (wire[p] \o e.out) :
                 \/ i \in DOMAIN wire[p] /\ (wire[p] \o e.out)[i] = wire[p][i]
                 \/ i - Len(wire[p]) \in DOMAIN e.out /\ (wire[p] \o e.out)[i] = e.out[i - Len(wire[p])]
      BY <1>3, <1>5, ConcatOf
    <3> QED BY <3>1, <3>2
  <2> QED BY <2>1, <2>2
<1>8. wire' \in [Roles -> Seq(Tpdus)]
  <2>1. wire' = [s \in Roles |-> wire'[s]]
    BY DEF Turn
  <2>2. \A s \in Roles : wire'[s] \in Seq(Tpdus)
    BY <1>1, <1>6, <1>7
  <2> QED BY <2>1, <2>2
<1>9. wire[r] = <<>> => wire'[r] = <<>>
  <2> HAVE wire[r] = <<>>
  <2>1. read = 0 /\ Len(wire'[r]) = 0
    BY <1>5, <1>6
  <2> QED BY <1>6, <2>1
<1> QED BY <1>2, <1>4, <1>6, <1>7, <1>8, <1>9 DEF Turned

LEMMA HistoryOf ==
    ASSUME Agreement
    PROVE  /\ History \in Histories /\ ClientFits(History, end["Client"]) /\ ServerFits(History, end["Server"])
           /\ History.client = end["Client"].cfg /\ History.server = end["Server"].cfg
           /\ History.asked = client.asked /\ History.number = log.number
BY DEF Agreement, History

\* What the client's drain of its queue makes of the client.
LEMMA DrainedIs ==
    ASSUME NEW h \in Histories, NEW e, ClientFits(h, e), NEW c,
           c \in [phase : Phases, id : InvokeIds \cup {NoId}, ask : 0 .. MaxCalls, last : Payloads, asked : 0 .. MaxCalls]
    PROVE  LET d == Drained(c, e)
           IN  /\ d \in [phase : Phases, id : InvokeIds \cup {NoId}, ask : 0 .. MaxCalls, last : Payloads, asked : 0 .. MaxCalls]
               /\ d.id = c.id /\ d.ask = c.ask /\ d.asked = c.asked
               /\ d.phase = "calling" => d = c
               /\ \/ d.last = c.last
                  \/ d.last = 0
                  \/ \E i \in Answering(e.events, c.id) : d.last = e.events[i].pdu.says
<1> DEFINE q == e.events
           d == Drained(c, e)
<1>1. q \in Seq(Events) /\ Len(q) \in Nat /\ DOMAIN q = 1 .. Len(q)
  <2>1. e \in Ends
    BY DEF ClientFits, Good
  <2> QED BY <2>1 DEF Ends
<1>2. 0 \in Payloads
  BY LinkAssumption
<1>3. Answering(q, c.id) # {} => Latest(Answering(q, c.id)) \in Answering(q, c.id)
  <2>1. Answering(q, c.id) \subseteq 1 .. Len(q)
    BY <1>1 DEF Answering
  <2> HIDE DEF q
  <2> QED BY <1>1, <2>1, FirstOf
<1>4. \A i \in Answering(q, c.id) : q[i].pdu.says \in Payloads
  <2> TAKE i \in Answering(q, c.id)
  <2>1. q[i] \in Events
    BY <1>1 DEF Answering
  <2> QED BY <2>1 DEF Events, Pdus
<1>5. \/ \E f \in Phases \ {"calling"} : d = [c EXCEPT !.phase = f]
      \/ d = [c EXCEPT !.phase = "idle", !.last = 0]
      \/ \E i \in Answering(q, c.id) : d = [c EXCEPT !.phase = "idle", !.last = q[i].pdu.says]
      \/ d = c
  <2>1. "gone" \in Phases \ {"calling"} /\ "idle" \in Phases \ {"calling"}
    BY DEF Phases
  <2>2. CASE c.phase = "calling"
    <3>1. d = TakeAnswer(c, q)
      BY <2>2 DEF Drained
    <3>2. CASE Ending(q, c.id) # {}
      BY <3>1, <3>2 DEF TakeAnswer
    <3>3. CASE Ending(q, c.id) = {} /\ Answering(q, c.id) # {}
      <4>1. d = [c EXCEPT !.phase = "idle", !.last = q[Latest(Answering(q, c.id))].pdu.says]
        BY <3>1, <3>3 DEF TakeAnswer
      <4> HIDE DEF d, q
      <4> QED BY <1>3, <3>3, <4>1
    <3>4. CASE Ending(q, c.id) = {} /\ Answering(q, c.id) = {}
      BY <3>1, <3>4 DEF TakeAnswer
    <3> QED BY <3>2, <3>3, <3>4
  <2>3. CASE c.phase # "calling"
    <3>1. d = [c EXCEPT !.phase = "gone"] \/ d = [c EXCEPT !.phase = "idle"] \/ d = c
      BY <2>3 DEF Drained
    <3> QED BY <2>1, <3>1
  <2> QED BY <2>2, <2>3
<1> HIDE DEF d, q
<1>6. CASE \E f \in Phases \ {"calling"} : d = [c EXCEPT !.phase = f]
  BY <1>6 DEF d
<1>7. CASE d = [c EXCEPT !.phase = "idle", !.last = 0]
  BY <1>2, <1>7 DEF d, Phases
<1>8. CASE \E i \in Answering(q, c.id) : d = [c EXCEPT !.phase = "idle", !.last = q[i].pdu.says]
  <2>1. PICK i \in Answering(q, c.id) : d = [c EXCEPT !.phase = "idle", !.last = q[i].pdu.says]
    BY <1>8
  <2> QED BY <1>4, <2>1 DEF d, q, Phases
<1>9. CASE d = c
  BY <1>9 DEF d
<1> QED BY <1>5, <1>6, <1>7, <1>8, <1>9

\* What a call that ends early leaves in the queue was there.
LEMMA LeavesAre ==
    ASSUME NEW h \in Histories, NEW q \in Seq(Events), Heeded(h, q), NEW c
    PROVE  LET l == Leaves(c, q)
           IN  /\ l \in Seq(Events) /\ Heeded(h, l)
               /\ Answers(l) \subseteq Answers(q) /\ Answers(l) \subseteq 1 .. MaxCalls
<1> DEFINE l == Leaves(c, q)
<1>1. l \in Seq(Events) /\ \A i \in DOMAIN l : \E j \in DOMAIN q : l[i] = q[j]
  <2>1. CASE c.phase = "calling" /\ Ending(q, c.id) # {}
    <3> DEFINE n == First(Ending(q, c.id))
    <3>1. Len(q) \in Nat /\ Ending(q, c.id) \subseteq 1 .. Len(q)
      BY DEF Ending
    <3>2. n \in 1 .. Len(q)
      BY <2>1, <3>1, FirstOf
    <3>3. l = SubSeq(q, n + 1, Len(q))
      BY <2>1 DEF Leaves
    <3> HIDE DEF n, l
    <3>4. n \in Nat /\ n <= Len(q)
      BY <3>1, <3>2
    <3> QED BY <3>3, <3>4, EndOfSeq
  <2>2. CASE ~(c.phase = "calling" /\ Ending(q, c.id) # {})
    <3>1. l = <<>>
      BY <2>2 DEF Leaves
    <3> QED BY <3>1
  <2> QED BY <2>1, <2>2
<1> HIDE DEF l
<1>2. Heeded(h, l)
  BY <1>1 DEF Heeded
<1>3. Answers(l) \subseteq Answers(q)
  BY <1>1 DEF Answers
<1>4. Answers(l) \subseteq 1 .. MaxCalls
  <2>1. h.asked \in 0 .. MaxCalls /\ MaxCalls \in Nat
    BY HistoryTypes
  <2>2. \A a \in 1 .. h.asked : a \in 1 .. MaxCalls
    BY <2>1
  <2> QED BY <1>2, <2>2 DEF Answers, Heeded, Called
<1> QED BY <1>1, <1>2, <1>3, <1>4 DEF l

\* A turn of the client that leaves it with an end that fits.
LEMMA ClientTurnKeeps ==
    ASSUME Agreement, NEW e, NEW read \in 0 .. Len(wire["Client"]), NEW timedOut, timedOut \subseteq 1 .. MaxCalls,
           ClientFits(History, e),
           read = 0 => e.out = <<>> /\ e.state \in {end["Client"].state, "Closed"},
           read # 0 => e.state # "Connecting",
           ClientTurn(e, read, timedOut)
    PROVE  Agreement'
<1> DEFINE f == [e EXCEPT !.events = Leaves(client, @)]
<1>1. PICK h \in Histories : h = History
  BY HistoryOf
<1>2. /\ ClientFits(h, end["Client"]) /\ ServerFits(h, end["Server"]) /\ ClientFits(h, e)
      /\ h.client = end["Client"].cfg /\ h.server = end["Server"].cfg /\ h.asked = client.asked /\ h.number = log.number
  BY <1>1, HistoryOf
<1>3. Types
  BY DEF Agreement
<1>4. /\ client' = Drained(client, e) /\ Turn("Client", f, read)
      /\ log' = [log EXCEPT !.late = @ \cup timedOut \cup Answers(Leaves(client, e.events))]
      /\ open' = [open EXCEPT !["Client"] = FALSE] \/ open' = open
      /\ reports' = reports
  BY DEF ClientTurn, Left
<1>5. Good(e) /\ e.events \in Seq(Events) /\ Heeded(h, e.events)
  BY <1>2 DEF ClientFits, Good, Ends
<1>6. /\ Leaves(client, e.events) \in Seq(Events) /\ Heeded(h, Leaves(client, e.events))
      /\ Answers(Leaves(client, e.events)) \subseteq 1 .. MaxCalls
  BY <1>5, LeavesAre
<1>7. /\ Good(f) /\ Alike(e, f) /\ f.state = e.state /\ f.out = e.out /\ f.parts = e.parts
      /\ f.outstanding = e.outstanding /\ f.events = Leaves(client, e.events)
  BY <1>5, <1>6, EventsSet
<1> HIDE DEF f
<1>8. ClientFits(h, f)
  BY <1>2, <1>6, <1>7 DEF ClientFits, Alike, Outstanding
<1>9. /\ Good(Flushed(f)) /\ Alike(f, Flushed(f)) /\ Flushed(f).state = f.state /\ Flushed(f).out = <<>>
      /\ Flushed(f).parts = f.parts /\ Flushed(f).outstanding = f.outstanding /\ Flushed(f).events = f.events
  BY <1>7, FlushedIs
<1>10. ClientFits(h, Flushed(f))
  BY <1>8, <1>9 DEF ClientFits, Alike, Outstanding, AllToServer
<1>11. /\ end'["Client"] = Flushed(f) /\ end'["Server"] = end["Server"]
       /\ end' \in [Roles -> Ends] /\ wire' \in [Roles -> Seq(Tpdus)]
       /\ \A i \in DOMAIN wire'["Client"] : \E j \in DOMAIN wire["Client"] : wire'["Client"][i] = wire["Client"][j]
       /\ \A i \in DOMAIN wire'["Server"] :
              \/ \E j \in DOMAIN wire["Server"] : wire'["Server"][i] = wire["Server"][j]
              \/ \E j \in DOMAIN f.out : wire'["Server"][i] = f.out[j]
       /\ wire["Client"] = <<>> => wire'["Client"] = <<>>
  <2>1. end \in [Roles -> Ends] /\ wire \in [Roles -> Seq(Tpdus)]
    BY <1>3 DEF Types
  <2>2. "Client" \in Roles /\ "Server" \in Roles /\ "Server" = Peer("Client") /\ Turn("Client", f, read) /\ Good(f)
    BY <1>4, <1>7, Peers
  <2>3. Turned("Client", "Server", f, read)
    BY <2>1, <2>2, TurnFits
  <2> QED BY <2>3 DEF Turned
<1>12. Types'
  <2>1. client' \in [phase : Phases, id : InvokeIds \cup {NoId}, ask : 0 .. MaxCalls, last : Payloads, asked : 0 .. MaxCalls]
    BY <1>2, <1>3, <1>4, DrainedIs DEF Types
  <2>2. log' \in [number : [1 .. MaxCalls -> InvokeIds \cup {NoId}], late : SUBSET (1 .. MaxCalls), unanswered : SUBSET (1 .. MaxCalls)]
    BY <1>3, <1>4, <1>6 DEF Types
  <2>3. open' \in [Roles -> BOOLEAN]
    BY <1>3, <1>4 DEF Types
  <2> QED BY <1>3, <1>4, <1>11, <2>1, <2>2, <2>3 DEF Types
<1>13. /\ client'.asked = client.asked /\ log'.number = log.number
       /\ client'.phase = "calling" => client' = client
  <2>1. client'.asked = client.asked /\ (client'.phase = "calling" => client' = client)
    BY <1>2, <1>3, <1>4, DrainedIs DEF Types
  <2>2. log'.number = log.number
    BY <1>3, <1>4 DEF Types
  <2> QED BY <2>1, <2>2
<1>14. History' = h
  <2>1. Flushed(f).cfg = h.client
    BY <1>8, <1>9 DEF ClientFits, Alike
  <2> QED BY <1>1, <1>2, <1>11, <1>13, <2>1 DEF History
<1>15. AllToServer(h, wire'["Server"]) /\ AllToClient(h, wire'["Client"])
  <2>1. AllToServer(h, wire["Server"]) /\ AllToClient(h, wire["Client"]) /\ AllToServer(h, f.out)
    BY <1>1, <1>8 DEF Agreement, ClientFits
  <2> QED BY <1>11, <2>1 DEF AllToServer, AllToClient
<1>16. end'["Server"].state = "Closed" => ~open'["Server"]
  BY <1>3, <1>4, <1>11 DEF Agreement, Types, Roles
<1>17. Shaking'
  <2>1. Flushed(f).state = e.state
    BY <1>7, <1>9
  <2>2. ASSUME end["Server"].state = "Idle"
        PROVE  NoData(wire'["Server"]) /\ wire'["Client"] = <<>> /\ e.state \in {"Connecting", "Closed"}
    <3>1. NoData(wire["Server"]) /\ wire["Client"] = <<>> /\ end["Client"].state \in {"Connecting", "Closed"}
      BY <2>2 DEF Agreement, Shaking
    <3>2. read = 0
      <4>1. Len(wire["Client"]) = 0
        BY <3>1
      <4> QED BY <4>1
    <3>3. e.state \in {"Connecting", "Closed"} /\ f.out = <<>>
      BY <1>7, <3>1, <3>2
    <3>4. NoData(wire'["Server"])
      BY <1>11, <3>1, <3>3 DEF NoData
    <3> QED BY <1>11, <3>1, <3>3, <3>4
  <2>3. ASSUME e.state = "Connecting"
        PROVE  NoData(wire'["Server"]) /\ NoData(wire'["Client"]) /\ end["Server"].state # "Established"
    <3>1. read = 0 /\ end["Client"].state = "Connecting" /\ f.out = <<>>
      BY <1>7, <2>3
    <3>2. NoData(wire["Server"]) /\ NoData(wire["Client"]) /\ end["Server"].state # "Established"
      BY <3>1 DEF Agreement, Shaking
    <3>3. NoData(wire'["Server"])
      BY <1>11, <3>1, <3>2 DEF NoData
    <3>4. NoData(wire'["Client"])
      BY <1>11, <3>2 DEF NoData
    <3> QED BY <3>2, <3>3, <3>4
  <2>4. end'["Server"].state = end["Server"].state /\ end'["Client"].state = e.state
    BY <1>11, <2>1
  <2>5. end'["Server"].state = "Idle" =>
            NoData(wire'["Server"]) /\ wire'["Client"] = <<>> /\ end'["Client"].state \in {"Connecting", "Closed"}
    BY <2>2, <2>4
  <2>6. end'["Client"].state = "Connecting" =>
            NoData(wire'["Server"]) /\ NoData(wire'["Client"]) /\ end'["Server"].state # "Established"
    BY <2>3, <2>4
  <2> QED BY <2>5, <2>6 DEF Shaking
<1>18. Calling'
  <2>1. Calling
    BY DEF Agreement
  <2> QED BY <1>13, <2>1 DEF Calling
<1>19. end'["Client"].out = <<>> /\ end'["Server"].out = <<>> /\ end'["Server"].events = <<>>
  BY <1>9, <1>11 DEF Agreement
<1>20. History' \in Histories /\ ClientFits(History', end'["Client"]) /\ ServerFits(History', end'["Server"])
  BY <1>2, <1>10, <1>11, <1>14
<1> QED BY <1>12, <1>14, <1>15, <1>16, <1>17, <1>18, <1>19, <1>20 DEF Agreement

LEMMA ReadsAre ==
    ASSUME Agreement, NEW r \in Roles, NEW n \in Reads(r)
    PROVE  /\ wire[r] \in Seq(Tpdus) /\ n \in Nat \ {0} /\ n \in 0 .. Len(wire[r])
           /\ SubSeq(wire[r], 1, n) \in Seq(Tpdus) /\ Len(SubSeq(wire[r], 1, n)) = n
           /\ \A i \in 1 .. n : SubSeq(wire[r], 1, n)[i] = wire[r][i] /\ i \in DOMAIN wire[r]
<1>1. wire[r] \in Seq(Tpdus)
  BY DEF Agreement, Types
<1>2. Len(wire[r]) \in Nat /\ DOMAIN wire[r] = 1 .. Len(wire[r]) /\ MaxRead \in Nat
  BY <1>1, LinkAssumption
<1>3. n \in 1 .. Least(MaxRead, Len(wire[r]))
  BY DEF Reads
<1>4. n \in Nat \ {0} /\ n <= Len(wire[r])
  BY <1>2, <1>3 DEF Least
<1>5. n \in 0 .. Len(wire[r])
  BY <1>2, <1>4
<1>6. /\ SubSeq(wire[r], 1, n) \in Seq(Tpdus) /\ Len(SubSeq(wire[r], 1, n)) = n
      /\ \A i \in 1 .. n : SubSeq(wire[r], 1, n)[i] = wire[r][i]
  BY <1>1, <1>5, RestOf
<1>7. \A i \in 1 .. n : i \in DOMAIN wire[r]
  BY <1>2, <1>4
<1> QED BY <1>1, <1>4, <1>5, <1>6, <1>7

\* What a read makes of the client's end.
LEMMA ClientReadIs ==
    ASSUME Agreement, NEW n \in Reads("Client")
    PROVE  ClientHas(History, end["Client"], SubSeq(wire["Client"], 1, n), n, AfterRead("Client", n))
<1> DEFINE s == SubSeq(wire["Client"], 1, n)
<1>1. s \in Seq(Tpdus) /\ Len(s) = n /\ \A i \in 1 .. n : s[i] = wire["Client"][i] /\ i \in DOMAIN wire["Client"]
  BY ReadsAre, Peers
<1>2. DOMAIN s = 1 .. n
  BY <1>1
<1>3. AfterRead("Client", n) = OnBytes(end["Client"], s)
  BY DEF AfterRead
<1> HIDE DEF s
<1>4. PICK h \in Histories : h = History
  BY HistoryOf
<1>5. ClientFits(h, end["Client"]) /\ AllToClient(h, wire["Client"])
  BY <1>4 DEF Agreement
<1>6. AllToClient(h, s)
  BY <1>1, <1>2, <1>5 DEF AllToClient
<1>7. end["Client"].state = "Connecting" => NoData(s)
  <2> HAVE end["Client"].state = "Connecting"
  <2>1. NoData(wire["Client"])
    BY DEF Agreement, Shaking
  <2> QED BY <1>1, <1>2, <2>1 DEF NoData
<1>8. ClientHas(h, end["Client"], s, Len(s), OnBytes(end["Client"], s))
  BY <1>1, <1>5, <1>6, <1>7, ClientReads
<1> QED BY <1>1, <1>3, <1>4, <1>8 DEF s

LEMMA ClientReadKeeps ==
    ASSUME Agreement, ClientRead
    PROVE  Agreement'
<1>1. PICK n \in Reads("Client") : \E e \in {AfterRead("Client", n)} : ClientTurn(e, n, {})
  BY DEF ClientRead
<1>2. PICK e \in {AfterRead("Client", n)} : ClientTurn(e, n, {})
  BY <1>1
<1>3. ClientHas(History, end["Client"], SubSeq(wire["Client"], 1, n), n, e)
  BY <1>2, ClientReadIs
<1>4. n \in Nat \ {0} /\ n \in 0 .. Len(wire["Client"])
  BY ReadsAre, Peers
<1>5. ClientFits(History, e) /\ e.state # "Connecting"
  BY <1>3, <1>4 DEF ClientHas
<1> QED BY <1>2, <1>4, <1>5, ClientTurnKeeps

\* Of calls the identifiers that wait are.
LEMMA CallOfIs ==
    ASSUME Agreement, NEW id \in Outstanding(end["Client"])
    PROVE  /\ CallOf(id) \in 1 .. MaxCalls /\ log.number[CallOf(id)] = id /\ Newest(log.number, CallOf(id))
           /\ id \in InvokeIds
<1> DEFINE S == {a \in 1 .. MaxCalls : log.number[a] = id}
<1>1. \E a \in 1 .. MaxCalls : log.number[a] = id
  <2>0. PICK h \in Histories : h = History
    BY HistoryOf
  <2>1. PICK a \in 1 .. client.asked : log.number[a] = id
    <3>1. ClientFits(h, end["Client"]) /\ h.asked = client.asked /\ h.number = log.number
      BY <2>0, HistoryOf
    <3> QED BY <3>1 DEF ClientFits
  <2>2. client.asked \in 0 .. MaxCalls /\ MaxCalls \in Nat
    BY LinkAssumption DEF Agreement, Types
  <2>3. a \in 1 .. MaxCalls
    BY <2>2
  <2> QED BY <2>1, <2>3
<1>2. S \subseteq 1 .. MaxCalls /\ S # {} /\ MaxCalls \in Nat
  BY <1>1, LinkAssumption
<1>3. CallOf(id) = Latest(S)
  BY DEF CallOf
<1> HIDE DEF S
<1>4. CallOf(id) \in S /\ \A j \in S : j <= CallOf(id)
  BY <1>2, <1>3, FirstOf
<1>5. \A b \in 1 .. MaxCalls : b > CallOf(id) => log.number[b] # id
  <2> TAKE b \in 1 .. MaxCalls
  <2>1. CallOf(id) \in Nat /\ b \in Nat
    <3>1. CallOf(id) \in 1 .. MaxCalls
      BY <1>4 DEF S
    <3> QED BY <1>2, <3>1
  <2>2. log.number[b] = id => b <= CallOf(id)
    BY <1>4 DEF S
  <2> QED BY <2>1, <2>2
<1>6. id \in InvokeIds
  <2>1. end["Client"] \in Ends
    BY HistoryOf DEF ClientFits, Good
  <2> QED BY <2>1 DEF Outstanding, Ends
<1> QED BY <1>4, <1>5, <1>6 DEF S, Newest

LEMMA ClientHearsIs ==
    ASSUME Agreement, NEW late \in BOOLEAN, NEW n \in 0 .. Len(end["Client"].outstanding)
    PROVE  LET d == end["Client"]
               e == OnTimeout(d, late, n)
               timedOut == {CallOf(id) : id \in Outstanding(d) \ Outstanding(e)}
           IN  /\ ClientFits(History, e) /\ e.out = <<>> /\ e.state \in {d.state, "Closed"}
               /\ e.parts \in {d.parts, <<>>} /\ (e.state # "Closed" => e.parts = d.parts)
               /\ Outstanding(e) \subseteq Outstanding(d) /\ Answers(e.events) \subseteq Answers(d.events)
               /\ timedOut \subseteq 1 .. MaxCalls
<1> DEFINE d == end["Client"]
           e == OnTimeout(d, late, n)
<1>1. PICK h \in Histories : h = History
  BY HistoryOf
<1>2. ClientFits(h, d)
  BY <1>1, HistoryOf
<1> HIDE DEF d
<1>3. n \in 0 .. Len(d.outstanding)
  BY DEF d
<1>4. /\ ClientFits(h, e) /\ e.out = d.out /\ e.state \in {d.state, "Closed"}
      /\ e.parts \in {d.parts, <<>>} /\ (e.state # "Closed" => e.parts = d.parts)
      /\ Outstanding(e) \subseteq Outstanding(d) /\ Answers(e.events) \subseteq Answers(d.events)
  BY <1>2, <1>3, ClientTimesOut
<1>5. d.out = <<>>
  BY DEF Agreement, d
<1>6. {CallOf(id) : id \in Outstanding(d) \ Outstanding(e)} \subseteq 1 .. MaxCalls
  BY CallOfIs DEF d
<1> QED BY <1>1, <1>4, <1>5, <1>6 DEF d

LEMMA ClientWaitsKeeps ==
    ASSUME Agreement, ClientWaits
    PROVE  Agreement'
<1>1. PICK late \in BOOLEAN, n \in 0 .. Len(end["Client"].outstanding) : ClientHears(late, n)
  BY DEF ClientWaits
<1> DEFINE x == OnTimeout(end["Client"], late, n)
           timedOut(e) == {CallOf(id) : id \in Outstanding(end["Client"]) \ Outstanding(e)}
<1>2. PICK e \in {x} : ClientTurn(e, 0, timedOut(e))
  BY <1>1 DEF ClientHears
<1>3. ClientFits(History, e) /\ e.out = <<>> /\ e.state \in {end["Client"].state, "Closed"} /\ timedOut(e) \subseteq 1 .. MaxCalls
  BY <1>2, ClientHearsIs
<1>4. 0 \in 0 .. Len(wire["Client"])
  <2>1. wire["Client"] \in Seq(Tpdus)
    BY Peers DEF Agreement, Types
  <2> QED BY <2>1
<1> HIDE DEF timedOut, x
<1> QED BY <1>2, <1>3, <1>4, ClientTurnKeeps

\* The steps that touch neither end and write nothing.
LEMMA SideKeeps ==
    ASSUME Agreement, end' = end, reports' = reports, log' = log,
           \A r \in Roles : wire'[r] = wire[r] \/ wire'[r] = <<>>, wire' \in [Roles -> Seq(Tpdus)],
           open' \in [Roles -> BOOLEAN], open'["Server"] => open["Server"],
           client' \in [phase : Phases, id : InvokeIds \cup {NoId}, ask : 0 .. MaxCalls, last : Payloads, asked : 0 .. MaxCalls],
           client'.asked = client.asked, client'.phase = "calling" => client' = client
    PROVE  Agreement'
<1>1. PICK h \in Histories : h = History
  BY HistoryOf
<1>2. History' = h
  BY <1>1 DEF History
<1>3. ClientFits(h, end'["Client"]) /\ ServerFits(h, end'["Server"])
  BY <1>1 DEF Agreement
<1>4. Types'
  BY DEF Agreement, Types
<1>5. /\ wire'["Client"] = wire["Client"] \/ wire'["Client"] = <<>>
      /\ wire'["Server"] = wire["Server"] \/ wire'["Server"] = <<>>
  BY Peers
<1>6. AllToServer(h, wire'["Server"]) /\ AllToClient(h, wire'["Client"])
  BY <1>1, <1>5 DEF Agreement, AllToServer, AllToClient
<1>7. Calling'
  <2>1. Calling
    BY DEF Agreement
  <2> QED BY <2>1 DEF Calling
<1>8. Shaking'
  <2>1. Shaking
    BY DEF Agreement
  <2>2. /\ NoData(wire["Server"]) => NoData(wire'["Server"])
        /\ NoData(wire["Client"]) => NoData(wire'["Client"])
        /\ wire["Client"] = <<>> => wire'["Client"] = <<>>
    BY <1>5 DEF NoData
  <2> QED BY <2>1, <2>2 DEF Shaking
<1>9. /\ end'["Client"].out = <<>> /\ end'["Server"].out = <<>> /\ end'["Server"].events = <<>>
      /\ end'["Server"].state = "Closed" => ~open'["Server"]
  BY DEF Agreement
<1> QED BY <1>2, <1>3, <1>4, <1>6, <1>7, <1>8, <1>9 DEF Agreement

LEMMA QuietStepsKeep ==
    ASSUME Agreement, GiveUp \/ ClientLeaves \/ ServerEof \/ ServerLeaves \/ Reset
    PROVE  Agreement'
<1>1. Types /\ 0 \in Payloads
  BY LinkAssumption DEF Agreement
<1>2. wire \in [Roles -> Seq(Tpdus)]
  BY <1>1 DEF Types
<1>3. CASE GiveUp
  <2>1. client' = [client EXCEPT !.phase = "idle", !.last = 0] /\ UNCHANGED <<end, wire, open, reports, log>>
    BY <1>3 DEF GiveUp
  <2>2. /\ client' \in [phase : Phases, id : InvokeIds \cup {NoId}, ask : 0 .. MaxCalls, last : Payloads, asked : 0 .. MaxCalls]
        /\ client'.asked = client.asked /\ client'.phase # "calling"
    BY <1>1, <2>1 DEF Types, Phases
  <2>3. open' \in [Roles -> BOOLEAN] /\ (open'["Server"] => open["Server"])
    BY <1>1, <2>1 DEF Types
  <2> QED BY <1>2, <2>1, <2>2, <2>3, SideKeeps
<1>4. CASE ClientLeaves
  <2>1. /\ client' = [client EXCEPT !.phase = "gone"] /\ open' = [open EXCEPT !["Client"] = FALSE]
        /\ UNCHANGED <<end, wire, reports, log>>
    BY <1>4 DEF ClientLeaves, Left
  <2>2. /\ client' \in [phase : Phases, id : InvokeIds \cup {NoId}, ask : 0 .. MaxCalls, last : Payloads, asked : 0 .. MaxCalls]
        /\ client'.asked = client.asked /\ client'.phase # "calling"
    BY <1>1, <2>1 DEF Types, Phases
  <2>3. open' \in [Roles -> BOOLEAN] /\ (open'["Server"] => open["Server"])
    BY <1>1, <2>1, Peers DEF Types
  <2> QED BY <1>2, <2>1, <2>2, <2>3, SideKeeps
<1>5. CASE ServerEof \/ ServerLeaves
  <2>1. open' = [open EXCEPT !["Server"] = FALSE] /\ UNCHANGED <<end, wire, client, reports, log>>
    BY <1>5 DEF ServerEof, ServerLeaves, Left
  <2> QED BY <1>1, <1>2, <2>1, Peers, SideKeeps DEF Types
<1>6. CASE Reset
  <2>1. PICK r \in Roles : wire' = [wire EXCEPT ![r] = <<>>]
    BY <1>6 DEF Reset
  <2>2. UNCHANGED <<end, open, client, reports, log>>
    BY <1>6 DEF Reset
  <2>3. wire' \in [Roles -> Seq(Tpdus)] /\ \A s \in Roles : wire'[s] = wire[s] \/ wire'[s] = <<>>
    BY <1>2, <2>1
  <2> QED BY <1>1, <2>2, <2>3, SideKeeps DEF Types
<1> QED BY <1>3, <1>4, <1>5, <1>6

LEMMA ClientEofIs ==
    ASSUME Agreement, ClientEof
    PROVE  /\ end' = [end EXCEPT !["Client"] = end'["Client"]]
           /\ ClientFits(History, end'["Client"]) /\ end'["Client"].state = "Closed" /\ end'["Client"].parts = <<>>
           /\ end'["Client"].events = <<>> /\ end'["Client"].out = <<>> /\ Outstanding(end'["Client"]) = {}
<1> DEFINE d == end["Client"]
           y == Flushed([Abort(d) EXCEPT !.events = <<>>])
<1>1. PICK h \in Histories : h = History
  BY HistoryOf
<1>2. ClientFits(h, d) /\ d.state # "Closed" /\ end \in [Roles -> Ends]
  BY <1>1 DEF Agreement, ClientEof, Types
<1>3. end' = [end EXCEPT !["Client"] = y]
  BY DEF ClientEof
<1> HIDE DEF d
<1>4. /\ ClientFits(h, y) /\ y.state = "Closed" /\ y.parts = <<>> /\ y.events = <<>> /\ y.out = <<>>
      /\ Outstanding(y) = {}
  BY <1>2, ClientAborts
<1> HIDE DEF y
<1>5. end'["Client"] = y
  BY <1>2, <1>3, Peers
<1> QED BY <1>1, <1>3, <1>4, <1>5

LEMMA ClientEofKeeps ==
    ASSUME Agreement, ClientEof
    PROVE  Agreement'
<1>1. PICK h \in Histories : h = History
  BY HistoryOf
<1> DEFINE y == end'["Client"]
<1>2. /\ end' = [end EXCEPT !["Client"] = y]
      /\ ClientFits(h, y) /\ y.state = "Closed" /\ y.out = <<>>
  BY <1>1, ClientEofIs
<1>3. /\ client' = [client EXCEPT !.phase = IF @ = "calling" THEN "idle" ELSE "gone", !.last = 0]
      /\ open' = [open EXCEPT !["Client"] = FALSE] \/ open' = open
      /\ UNCHANGED <<wire, reports, log>>
  BY DEF ClientEof, Left
<1>4. Types /\ 0 \in Payloads
  BY LinkAssumption DEF Agreement
<1>5. end'["Server"] = end["Server"] /\ open'["Server"] = open["Server"]
  BY <1>2, <1>3, <1>4, Peers DEF Types
<1>6. client'.asked = client.asked /\ client'.phase # "calling"
  BY <1>3, <1>4 DEF Types
<1>7. Types'
  <2>1. y \in Ends
    BY <1>2 DEF ClientFits, Good
  <2>2. end' \in [Roles -> Ends]
    BY <1>2, <1>4, <2>1 DEF Types
  <2>3. client' \in [phase : Phases, id : InvokeIds \cup {NoId}, ask : 0 .. MaxCalls, last : Payloads, asked : 0 .. MaxCalls]
    BY <1>3, <1>4 DEF Types, Phases
  <2>4. open' \in [Roles -> BOOLEAN]
    BY <1>3, <1>4 DEF Types
  <2> QED BY <1>3, <1>4, <2>2, <2>3, <2>4 DEF Types
<1>8. History' = h
  BY <1>1, <1>2, <1>3, <1>5, <1>6 DEF History, ClientFits
<1>9. Calling'
  BY <1>3, <1>6 DEF Calling, Agreement
<1>10. Shaking'
  BY <1>2, <1>3, <1>5 DEF Shaking, Agreement
<1>11. /\ ServerFits(h, end'["Server"]) /\ AllToServer(h, wire'["Server"]) /\ AllToClient(h, wire'["Client"])
       /\ end'["Server"].out = <<>> /\ end'["Server"].events = <<>>
       /\ end'["Server"].state = "Closed" => ~open'["Server"]
  BY <1>1, <1>3, <1>5 DEF Agreement
<1> QED BY <1>2, <1>7, <1>8, <1>9, <1>10, <1>11 DEF Agreement

\* A turn of a client that is established and reads nothing.
LEMMA ClientWriteKeeps ==
    ASSUME Agreement, end["Client"].state = "Established", NEW g \in Histories, Grows(History, g),
           NEW e, ClientFits(g, e), e.state # "Connecting", Turn("Client", e, 0),
           client' \in [phase : Phases, id : InvokeIds \cup {NoId}, ask : 0 .. MaxCalls, last : Payloads, asked : 0 .. MaxCalls],
           log'.number = g.number, log'.late = log.late, log'.unanswered = log.unanswered,
           log' \in [number : [1 .. MaxCalls -> InvokeIds \cup {NoId}], late : SUBSET (1 .. MaxCalls), unanswered : SUBSET (1 .. MaxCalls)],
           client'.asked = g.asked, open' = open, reports' = reports, Calling'
    PROVE  Agreement'
<1>1. PICK h \in Histories : h = History
  BY HistoryOf
<1>2. /\ ServerFits(h, end["Server"]) /\ h.client = end["Client"].cfg /\ h.server = end["Server"].cfg
      /\ AllToServer(h, wire["Server"]) /\ AllToClient(h, wire["Client"]) /\ Grows(h, g)
  BY <1>1, HistoryOf DEF Agreement
<1>3. ServerFits(g, end["Server"]) /\ AllToServer(g, wire["Server"]) /\ AllToClient(g, wire["Client"])
  BY <1>2, HistoryGrows
<1>4. Good(e) /\ AllToServer(g, e.out)
  BY DEF ClientFits
<1>5. /\ Good(Flushed(e)) /\ Alike(e, Flushed(e)) /\ Flushed(e).state = e.state /\ Flushed(e).out = <<>>
      /\ Flushed(e).parts = e.parts /\ Flushed(e).outstanding = e.outstanding /\ Flushed(e).events = e.events
  BY <1>4, FlushedIs
<1>6. ClientFits(g, Flushed(e))
  BY <1>5 DEF ClientFits, Alike, Outstanding, AllToServer
<1>7. Turned("Client", "Server", e, 0)
  <2>1. end \in [Roles -> Ends] /\ wire \in [Roles -> Seq(Tpdus)]
    BY DEF Agreement, Types
  <2>2. "Client" \in Roles /\ "Server" \in Roles /\ "Server" = Peer("Client")
    BY Peers
  <2>3. 0 \in 0 .. Len(wire["Client"])
    <3>1. wire["Client"] \in Seq(Tpdus)
      BY <2>1, <2>2
    <3> QED BY <3>1
  <2> QED BY <1>4, <2>1, <2>2, <2>3, TurnFits
<1>8. /\ end'["Client"] = Flushed(e) /\ end'["Server"] = end["Server"]
      /\ end' \in [Roles -> Ends] /\ wire' \in [Roles -> Seq(Tpdus)]
      /\ \A i \in DOMAIN wire'["Client"] : \E j \in DOMAIN wire["Client"] : wire'["Client"][i] = wire["Client"][j]
      /\ \A i \in DOMAIN wire'["Server"] :
             \/ \E j \in DOMAIN wire["Server"] : wire'["Server"][i] = wire["Server"][j]
             \/ \E j \in DOMAIN e.out : wire'["Server"][i] = e.out[j]
  BY <1>7 DEF Turned
<1>9. AllToServer(g, wire'["Server"])
  BY <1>3, <1>4, <1>8 DEF AllToServer
<1>10. AllToClient(g, wire'["Client"])
  BY <1>3, <1>8 DEF AllToClient
<1>11. Types'
  BY <1>8 DEF Agreement, Types
<1>12. History' = g
  <2>1. Flushed(e).cfg = h.client /\ end["Server"].cfg = h.server
    BY <1>2, <1>6 DEF ClientFits, Grows
  <2>2. g = [client |-> g.client, server |-> g.server, asked |-> g.asked, number |-> g.number]
    BY DEF Histories
  <2>3. g.client = h.client /\ g.server = h.server
    BY <1>2 DEF Grows
  <2> QED BY <1>8, <2>1, <2>2, <2>3 DEF History
<1>13. Shaking'
  <2>1. end["Server"].state # "Idle"
    BY DEF Agreement, Shaking
  <2> QED BY <1>5, <1>8, <2>1 DEF Shaking
<1>14. /\ end'["Client"].out = <<>> /\ end'["Server"].out = <<>> /\ end'["Server"].events = <<>>
       /\ end'["Server"].state = "Closed" => ~open'["Server"]
  BY <1>5, <1>8 DEF Agreement
<1> QED BY <1>3, <1>6, <1>8, <1>9, <1>10, <1>11, <1>12, <1>13, <1>14 DEF Agreement

LEMMA ClientReleasesKeeps ==
    ASSUME Agreement, ClientReleases
    PROVE  Agreement'
<1>1. PICK h \in Histories : h = History
  BY HistoryOf
<1>2. /\ ClientFits(h, end["Client"]) /\ h.asked = client.asked /\ h.number = log.number /\ end["Client"].state = "Established"
  BY <1>1, HistoryOf DEF ClientReleases
<1>3. PICK e : e = Release(end["Client"])
  OBVIOUS
<1>4. ClientFits(h, e) /\ e.state = "Releasing"
  <2> DEFINE d == end["Client"]
  <2>1. ClientFits(h, d) /\ d.state = "Established" /\ e = Release(d)
    BY <1>2, <1>3
  <2> HIDE DEF d
  <2> QED BY <2>1, ClientFinishes
<1>5. /\ Turn("Client", e, 0) /\ client' = [client EXCEPT !.phase = "releasing"] /\ UNCHANGED <<open, reports, log>>
  BY <1>3 DEF ClientReleases
<1>6. Types
  BY DEF Agreement
<1>7. /\ client' \in [phase : Phases, id : InvokeIds \cup {NoId}, ask : 0 .. MaxCalls, last : Payloads, asked : 0 .. MaxCalls]
      /\ client'.asked = client.asked /\ client'.phase = "releasing"
  BY <1>5, <1>6 DEF Types, Phases
<1>8. Calling'
  BY <1>5, <1>7 DEF Calling, Agreement
<1>9. Grows(History, h)
  <2>1. h.asked \in Nat
    BY HistoryTypes
  <2> QED BY <1>1, <2>1 DEF Grows
<1>10. /\ log \in [number : [1 .. MaxCalls -> InvokeIds \cup {NoId}], late : SUBSET (1 .. MaxCalls), unanswered : SUBSET (1 .. MaxCalls)]
       /\ log' = log /\ log'.number = h.number /\ client'.asked = h.asked
  BY <1>2, <1>5, <1>6, <1>7 DEF Types
<1> QED BY <1>2, <1>4, <1>5, <1>7, <1>8, <1>9, <1>10, ClientWriteKeeps

\* What the start of a call makes of the history and of the client's end.
Starts(size, g, e) ==
    LET d == end["Client"]
        t == UserData(Pdu("Request", Taken(d), size, g.asked))
    IN  /\ Grows(History, g) /\ g.asked = client.asked + 1 /\ g.asked \in 1 .. MaxCalls
        /\ d.state = "Established" /\ ClientFits(g, e) /\ e.state = d.state
        /\ e.parts = d.parts /\ e.events = d.events /\ Turn("Client", e, 0)
        /\ Taken(d) \in InvokeIds \ Outstanding(d)
        /\ t \in Tsdus /\ t.mms.k = "Request" /\ t.mms.says = g.asked
        /\ log'.number = g.number /\ log'.late = log.late /\ log'.unanswered = log.unanswered
        /\ client'.asked = g.asked /\ client'.last = 0 /\ open' = open /\ reports' = reports
        /\ ~MaySend(d, size) =>
               /\ e.out = <<>> /\ Outstanding(e) = Outstanding(d) /\ g.number = log.number
               /\ client' = [client EXCEPT !.asked = @ + 1, !.last = 0]
        /\ MaySend(d, size) =>
               /\ e.out = Segments(t, Chunk(g)) /\ Outstanding(e) = Outstanding(d) \cup {Taken(d)}
               /\ g.number = [log.number EXCEPT ![g.asked] = Taken(d)]
               /\ client' = [client EXCEPT !.phase = "calling", !.asked = @ + 1, !.last = 0, !.ask = g.asked, !.id = Taken(d)]

LEMMA StartCallIs ==
    ASSUME Agreement, StartCall
    PROVE  \E size, g, e : size \in RequestSizes /\ g \in Histories /\ Starts(size, g, e)
<1>1. PICK h \in Histories : h = History
  BY HistoryOf
<1> DEFINE d == end["Client"]
           a == client.asked + 1
<1>2. /\ ClientFits(h, d) /\ h.asked = client.asked /\ h.number = log.number
  BY <1>1, HistoryOf
<1>3. Types /\ d.out = <<>>
  BY DEF Agreement
<1>4. MayCall(d) /\ client.asked < MaxCalls
  BY DEF StartCall
<1>5. client.asked \in Nat /\ a \in 1 .. MaxCalls /\ MaxCalls \in Nat
  BY <1>3, <1>4, LinkAssumption DEF Types
<1>6. PICK size \in RequestSizes :
          /\ Turn("Client", Call(d, size, a), 0)
          /\ client' = IF MaySend(d, size)
                       THEN [client EXCEPT !.phase = "calling", !.asked = @ + 1, !.last = 0, !.ask = client.asked + 1, !.id = Taken(d)]
                       ELSE [client EXCEPT !.asked = @ + 1, !.last = 0]
          /\ log' = IF MaySend(d, size) THEN [log EXCEPT !.number[a] = Taken(d)] ELSE log
  BY DEF StartCall
<1>7. open' = open /\ reports' = reports /\ size \in Nat
  BY LinkAssumption DEF StartCall
<1>8. Taken(d) \in InvokeIds \ Outstanding(d)
  BY <1>2, <1>4, TakenProperties DEF ClientFits
<1>9. PICK number : number = IF MaySend(d, size) THEN [log.number EXCEPT ![a] = Taken(d)] ELSE log.number
  OBVIOUS
<1>10. /\ number \in [1 .. MaxCalls -> InvokeIds \cup {NoId}]
       /\ \A b \in 1 .. h.asked : number[b] = h.number[b]
       /\ MaySend(d, size) => number[a] = Taken(d)
  <2>1. log.number \in [1 .. MaxCalls -> InvokeIds \cup {NoId}]
    BY <1>3 DEF Types
  <2>2. \A b \in 1 .. h.asked : b # a /\ b \in 1 .. MaxCalls
    BY <1>2, <1>5
  <2> QED BY <1>2, <1>5, <1>8, <1>9, <2>1, <2>2
<1>11. PICK g : g = [client |-> h.client, server |-> h.server, asked |-> a, number |-> number]
  OBVIOUS
<1>12. /\ g \in Histories /\ g.client = h.client /\ g.server = h.server /\ g.asked = a /\ g.number = number
  <2>1. h.client \in ClientConfigs /\ h.server \in ServerConfigs
    BY DEF Histories
  <2>2. a \in 0 .. MaxCalls
    BY <1>5
  <2> QED BY <1>10, <1>11, <2>1, <2>2 DEF Histories
<1>13. Grows(h, g) /\ g.asked = h.asked + 1
  BY <1>2, <1>5, <1>10, <1>12 DEF Grows
<1>14. log'.number = number /\ log'.late = log.late /\ log'.unanswered = log.unanswered
  BY <1>3, <1>6, <1>9 DEF Types
<1>15. client'.asked = a /\ client'.last = 0
  BY <1>3, <1>6 DEF Types
<1>16. PICK e : e = Call(d, size, a)
  OBVIOUS
<1> DEFINE t == UserData(Pdu("Request", Taken(d), size, a))
<1> HIDE DEF d, a
<1>17. /\ ClientFits(g, e) /\ e.state = d.state /\ e.parts = d.parts /\ e.events = d.events
       /\ t \in Tsdus /\ t.mms.k = "Request" /\ t.mms.says = a
       /\ ~MaySend(d, size) => e.out = d.out /\ Outstanding(e) = Outstanding(d)
       /\ MaySend(d, size) =>
              e.out = d.out \o Segments(t, Chunk(h)) /\ Outstanding(e) = Outstanding(d) \cup {Taken(d)}
  <2> DEFINE u == UserData(Pdu("Request", Taken(d), size, g.asked))
             y == Call(d, size, g.asked)
  <2>1. /\ ClientFits(g, y) /\ y.state = d.state /\ y.parts = d.parts /\ y.events = d.events
        /\ u \in Tsdus /\ u.mms.k = "Request" /\ u.mms.says = g.asked
        /\ ~MaySend(d, size) => y.out = d.out /\ Outstanding(y) = Outstanding(d)
        /\ MaySend(d, size) =>
               y.out = d.out \o Segments(u, Chunk(h)) /\ Outstanding(y) = Outstanding(d) \cup {Taken(d)}
    <3>1. MaySend(d, size) => g.number[g.asked] = Taken(d)
      BY <1>10, <1>12
    <3>2. Calls(h, g, d, size, Call(d, size, g.asked))
      BY <1>2, <1>4, <1>7, <1>12, <1>13, <3>1, ClientCalls
    <3> QED BY <3>2 DEF Calls
  <2>2. u = t /\ y = e
    BY <1>12, <1>16
  <2> HIDE DEF u, y, t
  <2> QED BY <1>12, <2>1, <2>2
<1>18. MaySend(d, size) => e.out = Segments(t, Chunk(g))
  <2>1. Segments(t, Chunk(h)) \in Seq(Tpdus) /\ Chunk(g) = Chunk(h)
    <3>1. Chunk(g) = Chunk(h)
      BY <1>12, <1>13, HistoryGrows
    <3>2. Segments(t, Chunk(h)) \in Seq(Tpdus)
      BY <1>17, SegmentsCarry
    <3> QED BY <3>1, <3>2
  <2> HIDE DEF t
  <2> QED BY <1>3, <1>17, <2>1
<1>19. d.state = "Established"
  BY <1>4 DEF MayCall
<1>20. /\ ~MaySend(d, size) =>
              /\ e.out = <<>> /\ Outstanding(e) = Outstanding(d) /\ g.number = log.number
              /\ client' = [client EXCEPT !.asked = @ + 1, !.last = 0]
       /\ MaySend(d, size) =>
              /\ e.out = Segments(t, Chunk(g)) /\ Outstanding(e) = Outstanding(d) \cup {Taken(d)}
              /\ g.number = [log.number EXCEPT ![g.asked] = Taken(d)]
              /\ client' = [client EXCEPT !.phase = "calling", !.asked = @ + 1, !.last = 0, !.ask = g.asked, !.id = Taken(d)]
  <2>1. CASE ~MaySend(d, size)
    BY <1>3, <1>6, <1>9, <1>12, <1>17, <2>1 DEF d
  <2>2. CASE MaySend(d, size)
    <3>1. g.asked = client.asked + 1
      BY <1>12 DEF a
    <3>2. client' = [client EXCEPT !.phase = "calling", !.asked = @ + 1, !.last = 0, !.ask = g.asked, !.id = Taken(d)]
      BY <1>6, <2>2, <3>1
    <3>3. g.number = [log.number EXCEPT ![g.asked] = Taken(d)]
      BY <1>9, <1>12, <2>2
    <3> QED BY <1>17, <1>18, <2>2, <3>2, <3>3
  <2> QED BY <2>1, <2>2
<1>21. g.asked = client.asked + 1 /\ g.asked \in 1 .. MaxCalls /\ Turn("Client", e, 0)
  BY <1>5, <1>6, <1>12, <1>16 DEF a
<1>22. t = UserData(Pdu("Request", Taken(d), size, g.asked))
  BY <1>12
<1>23. /\ Grows(History, g)
       /\ log'.number = g.number /\ log'.late = log.late /\ log'.unanswered = log.unanswered
       /\ client'.asked = g.asked /\ client'.last = 0 /\ t.mms.says = g.asked
  BY <1>1, <1>12, <1>13, <1>14, <1>15, <1>17
<1> HIDE DEF t
<1>24. Starts(size, g, e)
  BY <1>7, <1>8, <1>17, <1>19, <1>20, <1>21, <1>22, <1>23 DEF Starts, d
<1> QED BY <1>12, <1>24

LEMMA StartCallKeeps ==
    ASSUME Agreement, StartCall
    PROVE  Agreement'
<1>1. PICK size, g, e : size \in RequestSizes /\ g \in Histories /\ Starts(size, g, e)
  BY StartCallIs
<1> DEFINE id == Taken(end["Client"])
<1>2. /\ Grows(History, g) /\ g.asked = client.asked + 1 /\ g.asked \in 1 .. MaxCalls
      /\ end["Client"].state = "Established" /\ ClientFits(g, e) /\ e.state = "Established" /\ Turn("Client", e, 0)
      /\ id \in InvokeIds
      /\ log'.number = g.number /\ log'.late = log.late /\ log'.unanswered = log.unanswered
      /\ client'.asked = g.asked /\ open' = open /\ reports' = reports
  BY <1>1 DEF Starts
<1>3. \/ g.number = log.number /\ client' = [client EXCEPT !.asked = @ + 1, !.last = 0]
      \/ /\ g.number = [log.number EXCEPT ![g.asked] = id]
         /\ client' = [client EXCEPT !.phase = "calling", !.asked = @ + 1, !.last = 0, !.ask = g.asked, !.id = id]
  BY <1>1 DEF Starts
<1>4. Types /\ Calling /\ 0 \in Payloads /\ MaxCalls \in Nat
  BY LinkAssumption DEF Agreement
<1>5. client.phase = "idle" /\ client.asked \in Nat /\ client.asked < MaxCalls
  BY <1>4 DEF StartCall, Types
<1> HIDE DEF id
<1>6. client' \in [phase : Phases, id : InvokeIds \cup {NoId}, ask : 0 .. MaxCalls, last : Payloads, asked : 0 .. MaxCalls]
  <2>1. g.asked \in 0 .. MaxCalls /\ client.asked + 1 \in 0 .. MaxCalls
    BY <1>4, <1>5, <1>2
  <2>2. client \in [phase : Phases, id : InvokeIds \cup {NoId}, ask : 0 .. MaxCalls, last : Payloads, asked : 0 .. MaxCalls]
    BY <1>4 DEF Types
  <2>3. "calling" \in Phases
    BY DEF Phases
  <2> QED BY <1>2, <1>3, <1>4, <2>1, <2>2, <2>3
<1>7. log' \in [number : [1 .. MaxCalls -> InvokeIds \cup {NoId}], late : SUBSET (1 .. MaxCalls), unanswered : SUBSET (1 .. MaxCalls)]
  <2>1. log' = log \/ \E f : log' = [log EXCEPT !.number = f]
    BY DEF StartCall
  <2>2. g.number \in [1 .. MaxCalls -> InvokeIds \cup {NoId}]
    BY <1>1, HistoryTypes
  <2> QED BY <1>2, <1>4, <2>1, <2>2 DEF Types
<1>8. Calling'
  <2>1. CASE g.number = log.number /\ client' = [client EXCEPT !.asked = @ + 1, !.last = 0]
    <3>1. client'.phase = "idle"
      BY <1>4, <1>5, <2>1 DEF Types
    <3>2. \A a \in 1 .. MaxCalls : a > client'.asked => log'.number[a] = NoId
      <4>1. \A a \in 1 .. MaxCalls : a > client.asked + 1 => a > client.asked
        BY <1>5
      <4> QED BY <1>2, <1>4, <2>1, <4>1 DEF Calling
    <3> QED BY <3>1, <3>2 DEF Calling
  <2>2. CASE /\ g.number = [log.number EXCEPT ![g.asked] = id]
             /\ client' = [client EXCEPT !.phase = "calling", !.asked = @ + 1, !.last = 0, !.ask = g.asked, !.id = id]
    <3>1. client'.ask = g.asked /\ client'.id = id
      BY <1>4, <2>2 DEF Types
    <3>2. log'.number[g.asked] = id
      <4>1. log.number \in [1 .. MaxCalls -> InvokeIds \cup {NoId}]
        BY <1>4 DEF Types
      <4> QED BY <1>2, <2>2, <4>1
    <3>3. \A a \in 1 .. MaxCalls : a > client'.asked => log'.number[a] = NoId
      <4> TAKE a \in 1 .. MaxCalls
      <4> HAVE a > client'.asked
      <4>1. a > client.asked /\ a # g.asked
        BY <1>2, <1>5
      <4>2. log.number[a] = NoId
        BY <1>4, <4>1 DEF Calling
      <4>3. log.number \in [1 .. MaxCalls -> InvokeIds \cup {NoId}]
        BY <1>4 DEF Types
      <4> QED BY <1>2, <2>2, <4>1, <4>2, <4>3
    <3>4. g.asked > 0
      BY <1>2, <1>5
    <3> QED BY <1>2, <3>1, <3>2, <3>3, <3>4 DEF Calling
  <2> QED BY <1>3, <2>1, <2>2
<1> QED BY <1>1, <1>2, <1>6, <1>7, <1>8, ClientWriteKeeps

-----------------------------------------------------------------------------
(* The turns of the server                                                 *)

LEMMA CarriesCalled ==
    ASSUME NEW h \in Histories, NEW x, TpduToServer(h, x) \/ TpduToClient(h, x), NEW a, Carries(x, a)
    PROVE  /\ a \in 1 .. MaxCalls /\ a \in 1 .. h.asked /\ x.of.mms.says = a
           /\ x.of.mms.id = h.number[a] /\ x.k = "DT" /\ Called(h, x.of.mms)
<1>1. ~Mute(x.of)
  BY DEF Carries, Mute
<1>2. x # Transport("CR", h.client.exp) /\ x # Transport("CC", AgreedExp(h))
  BY <1>1, MuteTsdus
<1>3. x.k = "DT" /\ (TsduToServer(h, x.of) \/ TsduToClient(h, x.of))
  BY <1>2 DEF TpduToServer, TpduToClient
<1>4. /\ x.of \notin {Associate("Connect", Proposal(h.client)), Control("Finish", "Release")}
      /\ x.of \notin {Associate("Accept", Deal(h)), Control("Disconnect", "ReleaseResponse")}
  BY <1>1, MuteTsdus
<1>5. Called(h, x.of.mms)
  BY <1>1, <1>3, <1>4 DEF TsduToServer, TsduToClient, Mute
<1>6. \A b \in 1 .. h.asked : b \in 1 .. MaxCalls
  <2>1. h.asked \in 0 .. MaxCalls /\ MaxCalls \in Nat
    BY HistoryTypes
  <2> QED BY <2>1
<1> QED BY <1>3, <1>5, <1>6 DEF Called, Carries

LEMMA CameAre ==
    ASSUME Agreement, NEW read \in 0 .. Len(wire["Server"])
    PROVE  /\ Came(read) \subseteq 1 .. MaxCalls
           /\ \A a : a \in Came(read) <=>
                  \E i \in 1 .. read : wire["Server"][i].eot /\ wire["Server"][i].of.mms.k = "Request" /\ wire["Server"][i].of.mms.says = a
<1>1. PICK h \in Histories : h = History
  BY HistoryOf
<1>2. AllToServer(h, wire["Server"])
  BY <1>1 DEF Agreement
<1>3. \A a : a \in Came(read) <=>
          \E i \in 1 .. read : wire["Server"][i].eot /\ wire["Server"][i].of.mms.k = "Request" /\ wire["Server"][i].of.mms.says = a
  BY DEF Came
<1>4. \A i \in 1 .. read : i \in DOMAIN wire["Server"]
  <2>1. wire["Server"] \in Seq(Tpdus)
    BY Peers DEF Agreement, Types
  <2>2. Len(wire["Server"]) \in Nat /\ DOMAIN wire["Server"] = 1 .. Len(wire["Server"])
    BY <2>1
  <2> QED BY <2>2
<1>5. Came(read) \subseteq 1 .. MaxCalls
  <2> SUFFICES ASSUME NEW a, a \in Came(read) PROVE a \in 1 .. MaxCalls
    OBVIOUS
  <2>1. PICK i \in 1 .. read : wire["Server"][i].of.mms.k = "Request" /\ wire["Server"][i].of.mms.says = a
    BY <1>3
  <2>2. TpduToServer(h, wire["Server"][i])
    BY <1>2, <1>4 DEF AllToServer
  <2>3. Carries(wire["Server"][i], a)
    BY <2>1 DEF Carries
  <2> QED BY <2>2, <2>3, CarriesCalled
<1> QED BY <1>3, <1>5

\* What the server's thread makes of its end e.
Serves(e, read, kind, size, out, f) ==
    /\ kind \in Replies /\ size \in Nat /\ Sent(History, e, kind, size, Len(e.events), out)
    /\ ServerFits(History, f) /\ f.state = e.state /\ f.parts = e.parts /\ f.events = <<>>
    /\ e.state # "Established" => f.out = e.out
    /\ \A a : Within(f.out, a) <=> Within(out.out, a)
    /\ Once(out.out) => Once(f.out)
    /\ Turn("Server", f, read)
    /\ log' = [log EXCEPT !.unanswered = @ \cup (Came(read) \ Served(e, kind, size))]
    /\ client' = client /\ reports' \in 0 .. MaxReports
    /\ open' = IF \E i \in DOMAIN e.events : e.events[i].k = "Closed" THEN [open EXCEPT !["Server"] = FALSE] ELSE open

LEMMA QuietConcat ==
    ASSUME NEW q \in Seq(Tpdus), NEW s \in Seq(Tpdus), Quiet(s)
    PROVE  /\ \A a : Within(q \o s, a) <=> Within(q, a)
           /\ Once(q) => Once(q \o s)
<1>1. \A a : ~Within(s, a)
  BY DEF Quiet, Within, Carries
<1>2. Once(s)
  BY DEF Quiet, Once, Carries
<1> QED BY <1>1, <1>2, WithinConcat, OnceConcat

LEMMA ServeTurnIs ==
    ASSUME Agreement, NEW e, ServerFits(History, e), Quiet(e.out), NEW read, ServeTurn(e, read)
    PROVE  \E kind, size, out, f : Serves(e, read, kind, size, out, f)
<1>1. PICK h \in Histories : h = History
  BY HistoryOf
<1>2. PICK kind \in Replies, size \in AnswerSizes, report \in {0, 1} :
          /\ reports + report <= MaxReports
          /\ report = 1 => e.state = "Established"
          /\ reports' = reports + report
          /\ log' = [log EXCEPT !.unanswered = @ \cup (Came(read) \ Served(e, kind, size))]
          /\ \E out \in {Replied(e, kind, size)} :
                 Turn("Server", IF report = 1 THEN Send(out, Pdu("Unconfirmed", NoId, size, reports + 1)) ELSE out, read)
          /\ IF \E i \in DOMAIN e.events : e.events[i].k = "Closed" THEN Left("Server") ELSE UNCHANGED open
          /\ UNCHANGED client
  BY DEF ServeTurn
<1>3. PICK out \in {Replied(e, kind, size)} :
          Turn("Server", IF report = 1 THEN Send(out, Pdu("Unconfirmed", NoId, size, reports + 1)) ELSE out, read)
  BY <1>2
<1>4. size \in Nat
  BY LinkAssumption
<1>5. Sent(h, e, kind, size, Len(e.events), out)
  BY <1>1, <1>3, <1>4, RepliedIs
<1>6. reports \in 0 .. MaxReports /\ reports' \in 0 .. MaxReports /\ MaxReports \in Nat
  <2>1. reports \in 0 .. MaxReports /\ MaxReports \in Nat
    BY LinkAssumption DEF Agreement, Types
  <2> QED BY <1>2, <2>1
<1>7. open' = IF \E i \in DOMAIN e.events : e.events[i].k = "Closed" THEN [open EXCEPT !["Server"] = FALSE] ELSE open
  BY <1>2 DEF Left
<1>8. ServerFits(h, out) /\ out.state = e.state /\ out.parts = e.parts /\ out.events = <<>>
      /\ (e.state # "Established" => out.out = e.out)
  BY <1>5 DEF Sent
<1>9. CASE report = 0
  <2>1. Turn("Server", out, read)
    BY <1>3, <1>9
  <2>2. Serves(e, read, kind, size, out, out)
    BY <1>1, <1>2, <1>4, <1>5, <1>6, <1>7, <1>8, <2>1 DEF Serves
  <2> QED BY <2>2
<1>10. CASE report = 1
  <2> DEFINE p == Pdu("Unconfirmed", NoId, size, reports + 1)
  <2>1. PICK f : f = Send(out, p)
    OBVIOUS
  <2>2. Turn("Server", f, read) /\ e.state = "Established"
    BY <1>2, <1>3, <1>10, <2>1
  <2>3. p \in Pdus /\ p.k = "Unconfirmed" /\ p.size = size
    <3>1. reports + 1 \in 0 .. MaxReports
      BY <1>2, <1>6, <1>10
    <3>2. reports + 1 \in Payloads
      BY <3>1, LinkAssumption
    <3>3. Pdu("Unconfirmed", NoId, size, reports + 1) \in Pdus
      BY <1>4, <3>2, PduType DEF PduKinds
    <3> QED BY <3>3 DEF Pdu
  <2>4. PICK q \in Pdus : q = p
    BY <2>3
  <2>5. /\ ServerFits(h, f) /\ f.state = out.state /\ f.parts = out.parts /\ f.events = out.events
        /\ ~MaySend(out, q.size) => f = out
        /\ MaySend(out, q.size) => f.out = out.out \o Segments(UserData(q), Chunk(h))
    <3>1. q.k = "Unconfirmed" /\ f = Send(out, q)
      BY <2>1, <2>3, <2>4
    <3> QED BY <1>8, <3>1, ServerSends
  <2>6. (\A a : Within(f.out, a) <=> Within(out.out, a)) /\ (Once(out.out) => Once(f.out))
    <3>1. CASE ~MaySend(out, q.size)
      BY <2>5, <3>1
    <3>2. CASE MaySend(out, q.size)
      <4> DEFINE t == UserData(q)
                 s == Segments(t, Chunk(h))
      <4>1. t \in Tsdus /\ Mute(t)
        BY <2>3, <2>4, PieceTypes DEF Mute, UserData
      <4> HIDE DEF t
      <4>2. s \in Seq(Tpdus) /\ \A a : ~Within(s, a)
        BY <4>1, SegmentsCarry
      <4>3. f.out = out.out \o s
        BY <2>5, <3>2 DEF t
      <4> HIDE DEF s
      <4>4. Quiet(s)
        BY <4>2 DEF Quiet, Within, Carries
      <4>5. out.out \in Seq(Tpdus)
        BY <1>8 DEF ServerFits, Good, Ends
      <4> QED BY <4>2, <4>3, <4>4, <4>5, QuietConcat
    <3> QED BY <3>1, <3>2
  <2>7. Serves(e, read, kind, size, out, f)
    BY <1>1, <1>2, <1>4, <1>5, <1>6, <1>7, <1>8, <2>2, <2>5, <2>6 DEF Serves
  <2> QED BY <2>7
<1> QED BY <1>9, <1>10

\* What the server's thread may find in the association when it has read.
Ready(e, read) ==
    /\ ServerFits(History, e) /\ Quiet(e.out)
    /\ e.state = "Closed" => \E i \in DOMAIN e.events : e.events[i].k = "Closed"
    /\ e.state = "Idle" => read = 0 /\ end["Server"].state = "Idle"
    /\ read = 0 => e.out = <<>>
    /\ NoData(wire["Server"]) /\ end["Server"].state # "Established" => NoData(e.out) /\ e.state # "Established"

LEMMA ServeTurnKeeps ==
    ASSUME Agreement, open["Server"], NEW e, NEW read \in 0 .. Len(wire["Server"]), Ready(e, read), ServeTurn(e, read)
    PROVE  Agreement'
<1>1. PICK h \in Histories : h = History
  BY HistoryOf
<1>2. /\ ClientFits(h, end["Client"]) /\ h.client = end["Client"].cfg /\ h.server = end["Server"].cfg
      /\ h.asked = client.asked /\ h.number = log.number
      /\ AllToServer(h, wire["Server"]) /\ AllToClient(h, wire["Client"])
  BY <1>1, HistoryOf DEF Agreement
<1>3. PICK kind, size, out, f : Serves(e, read, kind, size, out, f)
  BY ServeTurnIs DEF Ready
<1>4. /\ ServerFits(h, f) /\ f.state = e.state /\ f.events = <<>>
      /\ e.state # "Established" => f.out = e.out
      /\ Turn("Server", f, read)
      /\ log' = [log EXCEPT !.unanswered = @ \cup (Came(read) \ Served(e, kind, size))]
      /\ client' = client /\ reports' \in 0 .. MaxReports
      /\ open' = IF \E i \in DOMAIN e.events : e.events[i].k = "Closed" THEN [open EXCEPT !["Server"] = FALSE] ELSE open
  BY <1>1, <1>3 DEF Serves
<1>5. Good(f) /\ AllToClient(h, f.out)
  BY <1>4 DEF ServerFits
<1>6. /\ Good(Flushed(f)) /\ Alike(f, Flushed(f)) /\ Flushed(f).state = f.state /\ Flushed(f).out = <<>>
      /\ Flushed(f).parts = f.parts /\ Flushed(f).outstanding = f.outstanding /\ Flushed(f).events = f.events
  BY <1>5, FlushedIs
<1>7. ServerFits(h, Flushed(f))
  BY <1>4, <1>6 DEF ServerFits, Alike, AllToClient
<1>8. Turned("Server", "Client", f, read)
  <2>1. end \in [Roles -> Ends] /\ wire \in [Roles -> Seq(Tpdus)]
    BY DEF Agreement, Types
  <2>2. "Client" \in Roles /\ "Server" \in Roles /\ "Client" = Peer("Server")
    BY Peers
  <2> QED BY <1>4, <1>5, <2>1, <2>2, TurnFits
<1>9. /\ end'["Server"] = Flushed(f) /\ end'["Client"] = end["Client"]
      /\ wire'["Client"] = IF open["Client"] THEN wire["Client"] \o f.out ELSE wire["Client"]
      /\ end' \in [Roles -> Ends] /\ wire' \in [Roles -> Seq(Tpdus)]
      /\ \A i \in DOMAIN wire'["Server"] : \E j \in DOMAIN wire["Server"] : wire'["Server"][i] = wire["Server"][j]
      /\ \A i \in DOMAIN wire'["Client"] :
             \/ \E j \in DOMAIN wire["Client"] : wire'["Client"][i] = wire["Client"][j]
             \/ \E j \in DOMAIN f.out : wire'["Client"][i] = f.out[j]
  BY <1>8 DEF Turned
<1>10. Types'
  <2>1. log' \in [number : [1 .. MaxCalls -> InvokeIds \cup {NoId}], late : SUBSET (1 .. MaxCalls), unanswered : SUBSET (1 .. MaxCalls)]
    <3>1. Came(read) \subseteq 1 .. MaxCalls
      BY CameAre
    <3> QED BY <1>4, <3>1 DEF Agreement, Types
  <2>2. open' \in [Roles -> BOOLEAN]
    BY <1>4 DEF Agreement, Types
  <2> QED BY <1>4, <1>9, <2>1, <2>2 DEF Agreement, Types
<1>11. log'.number = log.number
  BY <1>4 DEF Agreement, Types
<1>12. History' = h
  <2>1. Flushed(f).cfg = h.server
    BY <1>7 DEF ServerFits
  <2> QED BY <1>1, <1>2, <1>4, <1>9, <1>11, <2>1 DEF History
<1>13. AllToServer(h, wire'["Server"])
  BY <1>2, <1>9 DEF AllToServer
<1>14. AllToClient(h, wire'["Client"])
  BY <1>2, <1>5, <1>9 DEF AllToClient
<1>15. end'["Server"].state = "Closed" => ~open'["Server"]
  <2> HAVE end'["Server"].state = "Closed"
  <2>1. e.state = "Closed"
    BY <1>4, <1>6, <1>9
  <2>2. open' = [open EXCEPT !["Server"] = FALSE]
    BY <1>4, <2>1 DEF Ready
  <2> QED BY <2>2, Peers DEF Agreement, Types
<1>16. Calling'
  BY <1>4, <1>11 DEF Calling, Agreement
<1>17. Shaking'
  <2>1. end'["Server"].state = e.state /\ end'["Client"].state = end["Client"].state
    BY <1>4, <1>6, <1>9
  <2>2. ASSUME e.state = "Idle"
        PROVE  NoData(wire'["Server"]) /\ wire'["Client"] = <<>> /\ end["Client"].state \in {"Connecting", "Closed"}
    <3>1. f.out = <<>> /\ end["Server"].state = "Idle"
      BY <1>4, <2>2 DEF Ready
    <3>2. NoData(wire["Server"]) /\ wire["Client"] = <<>> /\ end["Client"].state \in {"Connecting", "Closed"}
      BY <3>1 DEF Agreement, Shaking
    <3>3. NoData(wire'["Server"])
      BY <1>9, <3>2 DEF NoData
    <3>4. wire'["Client"] = <<>>
      BY <1>9, <3>1, <3>2
    <3> QED BY <3>2, <3>3, <3>4
  <2>3. ASSUME end["Client"].state = "Connecting"
        PROVE  NoData(wire'["Server"]) /\ NoData(wire'["Client"]) /\ e.state # "Established"
    <3>1. NoData(wire["Server"]) /\ NoData(wire["Client"]) /\ end["Server"].state # "Established"
      BY <2>3 DEF Agreement, Shaking
    <3>2. e.state # "Established" /\ NoData(f.out)
      BY <1>4, <3>1 DEF Ready
    <3>3. NoData(wire'["Server"])
      BY <1>9, <3>1 DEF NoData
    <3>4. NoData(wire'["Client"])
      <4>1. \A i \in DOMAIN wire'["Client"] :
                \/ \E j \in DOMAIN wire["Client"] : wire'["Client"][i] = wire["Client"][j]
                \/ \E j \in DOMAIN f.out : wire'["Client"][i] = f.out[j]
        BY <1>9
      <4>2. NoData(wire["Client"])
        BY <3>1
      <4> QED BY <3>2, <4>1, <4>2 DEF NoData
    <3> QED BY <3>2, <3>3, <3>4
  <2>4. end'["Server"].state = "Idle" =>
            NoData(wire'["Server"]) /\ wire'["Client"] = <<>> /\ end'["Client"].state \in {"Connecting", "Closed"}
    BY <2>1, <2>2
  <2>5. end'["Client"].state = "Connecting" =>
            NoData(wire'["Server"]) /\ NoData(wire'["Client"]) /\ end'["Server"].state # "Established"
    BY <2>1, <2>3
  <2> QED BY <2>4, <2>5 DEF Shaking
<1>18. end'["Client"].out = <<>> /\ end'["Server"].out = <<>> /\ end'["Server"].events = <<>>
  BY <1>4, <1>6, <1>9 DEF Agreement
<1> QED BY <1>2, <1>7, <1>9, <1>10, <1>12, <1>13, <1>14, <1>15, <1>16, <1>17, <1>18 DEF Agreement

LEMMA ServerReadIs ==
    ASSUME Agreement, open["Server"], NEW n \in Reads("Server")
    PROVE  ServerHas(History, end["Server"], SubSeq(wire["Server"], 1, n), n, AfterRead("Server", n))
<1> DEFINE s == SubSeq(wire["Server"], 1, n)
<1>1. s \in Seq(Tpdus) /\ Len(s) = n /\ \A i \in 1 .. n : s[i] = wire["Server"][i] /\ i \in DOMAIN wire["Server"]
  BY ReadsAre, Peers
<1>2. DOMAIN s = 1 .. n
  BY <1>1
<1>3. AfterRead("Server", n) = OnBytes(end["Server"], s)
  BY DEF AfterRead
<1> HIDE DEF s
<1>4. PICK h \in Histories : h = History
  BY HistoryOf
<1>5. ServerFits(h, end["Server"]) /\ AllToServer(h, wire["Server"])
  BY <1>4 DEF Agreement
<1>6. AllToServer(h, s)
  BY <1>1, <1>2, <1>5 DEF AllToServer
<1>7. end["Server"].state = "Idle" => NoData(s)
  <2> HAVE end["Server"].state = "Idle"
  <2>1. NoData(wire["Server"])
    BY DEF Agreement, Shaking
  <2> QED BY <1>1, <1>2, <2>1 DEF NoData
<1>8. end["Server"].state # "Closed" /\ end["Server"].out = <<>> /\ end["Server"].events = <<>>
  BY DEF Agreement
<1>9. ServerHas(h, end["Server"], s, Len(s), OnBytes(end["Server"], s))
  BY <1>1, <1>5, <1>6, <1>7, <1>8, ServerReads
<1> QED BY <1>1, <1>3, <1>4, <1>9 DEF s

LEMMA ReadyAfterRead ==
    ASSUME Agreement, open["Server"], NEW n \in Reads("Server"), NEW e, e = AfterRead("Server", n)
    PROVE  Ready(e, n) /\ n \in 0 .. Len(wire["Server"])
<1>1. n \in Nat \ {0} /\ n \in 0 .. Len(wire["Server"])
  BY ReadsAre, Peers
<1> DEFINE s == SubSeq(wire["Server"], 1, n)
<1>2. s \in Seq(Tpdus) /\ Len(s) = n /\ \A i \in 1 .. n : s[i] = wire["Server"][i] /\ i \in DOMAIN wire["Server"]
  BY ReadsAre, Peers
<1> HIDE DEF s
<1>3. ServerHas(History, end["Server"], s, n, e)
  BY ServerReadIs DEF s
<1>4. NoData(wire["Server"]) => NoData(s)
  BY <1>2 DEF NoData
<1> QED BY <1>1, <1>3, <1>4 DEF ServerHas, Ready

LEMMA ServerReadKeeps ==
    ASSUME Agreement, ServerRead
    PROVE  Agreement'
<1>1. PICK n \in Reads("Server") : \E e \in {AfterRead("Server", n)} : ServeTurn(e, n)
  BY DEF ServerRead
<1>2. PICK e \in {AfterRead("Server", n)} : ServeTurn(e, n)
  BY <1>1
<1>3. open["Server"]
  BY DEF ServerRead
<1>4. Ready(e, n) /\ n \in 0 .. Len(wire["Server"])
  BY <1>2, <1>3, ReadyAfterRead
<1> QED BY <1>2, <1>3, <1>4, ServeTurnKeeps

\* What the server's thread finds when it has read nothing.
LEMMA ServerWaitsIs ==
    ASSUME Agreement, ServerWaits
    PROVE  \E e : /\ open["Server"] /\ Ready(e, 0) /\ ServeTurn(e, 0) /\ 0 \in 0 .. Len(wire["Server"])
                  /\ e = end["Server"] \/ Shut(History, end["Server"], e)
<1>1. PICK h \in Histories : h = History
  BY HistoryOf
<1> DEFINE d == end["Server"]
<1>2. ServerFits(h, d) /\ d.out = <<>> /\ d.events = <<>> /\ (d.state = "Closed" => ~open["Server"])
  BY <1>1 DEF Agreement
<1>3. 0 \in 0 .. Len(wire["Server"])
  <2>1. wire["Server"] \in Seq(Tpdus)
    BY Peers DEF Agreement, Types
  <2> QED BY <2>1
<1>4. open["Server"]
  BY DEF ServerWaits, ServerTimesOut
<1>5. PICK x : x = d
  OBVIOUS
<1>6. PICK y : y = OnTimeout(d, TRUE, 0)
  OBVIOUS
<1>7. Quiet(<<>>) /\ NoData(<<>>)
  BY DEF Quiet, NoData
<1>8. Ready(x, 0)
  BY <1>1, <1>2, <1>4, <1>5, <1>7 DEF Ready
<1>9. CASE ServerTimesOut
  <2>1. d.armed /\ ServeTurn(y, 0)
    BY <1>6, <1>9 DEF ServerTimesOut
  <2> HIDE DEF d
  <2>2. ServerFits(h, y) /\ (y = d \/ Shut(h, d, y))
    BY <1>2, <1>6, <2>1, ServerTimedOut
  <2>3. Ready(y, 0)
    <3>1. CASE y = d
      BY <1>5, <1>8, <3>1
    <3>2. CASE Shut(h, d, y)
      <4>1. y.state = "Closed" /\ y.out = d.out /\ \E i \in DOMAIN y.events : y.events[i].k = "Closed"
        BY <3>2 DEF Shut
      <4>2. y.out = <<>>
        BY <1>2, <4>1
      <4>3. Quiet(y.out) /\ NoData(y.out)
        BY <4>2 DEF Quiet, NoData
      <4>4. ServerFits(History, y)
        BY <1>1, <2>2
      <4> QED BY <4>1, <4>2, <4>3, <4>4 DEF Ready
    <3> QED BY <2>2, <3>1, <3>2
  <2> QED BY <1>1, <1>3, <1>4, <2>1, <2>2, <2>3 DEF d
<1>10. CASE ServeTurn(d, 0)
  BY <1>3, <1>4, <1>5, <1>8, <1>10
<1> QED BY <1>9, <1>10 DEF ServerWaits

LEMMA ServerWaitsKeeps ==
    ASSUME Agreement, ServerWaits
    PROVE  Agreement'
BY ServerWaitsIs, ServeTurnKeeps

-----------------------------------------------------------------------------
(* The agreement holds                                                     *)

LEMMA AgreementInitially ==
    ASSUME Init
    PROVE  Agreement
<1>1. PICK c \in ClientConfigs, s \in ServerConfigs :
          end = [r \in Roles |-> IF r = "Client" THEN [Start(New(c, r)) EXCEPT !.out = <<>>] ELSE New(s, r)]
  BY DEF Init
<1> DEFINE n == New(c, "Client")
           cr == Transport("CR", c.exp)
           d == [Start(n) EXCEPT !.out = <<>>]
           x == New(s, "Server")
<1>2. c \in Configs /\ s \in Configs /\ c.budget <= MaxInvoke /\ s.budget <= MaxInvoke /\ c.exp \in Nat /\ s.exp \in Nat
  BY LinkAssumption DEF Configs
<1>3. Good(n) /\ Good(x)
  BY <1>2, NewGood, Peers
<1>4. end["Client"] = d /\ end["Server"] = x
  BY <1>1, Peers
<1>5. /\ n.role = "Client" /\ n.cfg = c /\ n.state = "Idle" /\ n.out = <<>> /\ n.events = <<>>
      /\ n.outstanding = <<>> /\ n.parts = <<>>
      /\ x.role = "Server" /\ x.cfg = s /\ x.state = "Idle" /\ x.out = <<>> /\ x.events = <<>>
      /\ x.outstanding = <<>> /\ x.parts = <<>>
  BY DEF New
<1> DEFINE q == Queue(n, <<cr>>)
           y == Start(n)
<1>6. y = [q EXCEPT !.state = "Connecting", !.armed = c.connect]
  BY <1>5 DEF Start
<1>7. Good(y)
  BY <1>3, StartFine DEF Fine
<1> HIDE DEF n, x
<1>8. n \in Ends /\ x \in Ends
  BY <1>3 DEF Good
<1>9. /\ q \in Ends /\ q.role = n.role /\ q.cfg = n.cfg /\ q.events = n.events /\ q.outstanding = n.outstanding /\ q.parts = n.parts
  <2>1. Alike(n, q) /\ q.state = n.state /\ q.outstanding = n.outstanding /\ q.parts = n.parts /\ q.events = n.events
    BY <1>8, QueueIs
  <2>2. cr \in Tpdus
    BY <1>2, PieceTypes DEF TpduKinds
  <2>3. <<cr>> \in Seq(Tpdus)
    BY <2>2
  <2> HIDE DEF cr
  <2>4. Good(q)
    BY <1>3, <2>3, QueueKeeps DEF Kept
  <2> QED BY <2>1, <2>4 DEF Alike, Good
<1> HIDE DEF q
<1>10. /\ y.role = "Client" /\ y.cfg = c /\ y.state = "Connecting" /\ y.events = <<>>
       /\ y.outstanding = <<>> /\ y.parts = <<>>
  BY <1>5, <1>6, <1>9 DEF Ends
<1> HIDE DEF y
<1>11. d = Flushed(y)
  BY DEF Flushed, y
<1> HIDE DEF d
<1>12. /\ Good(d) /\ d.role = "Client" /\ d.cfg = c /\ d.state = "Connecting" /\ d.out = <<>> /\ d.events = <<>>
       /\ d.outstanding = <<>> /\ d.parts = <<>>
  BY <1>7, <1>10, <1>11, FlushedIs DEF Alike
<1>13. PICK h : h = [client |-> c, server |-> s, asked |-> 0, number |-> [a \in 1 .. MaxCalls |-> NoId]]
  OBVIOUS
<1>14. h \in Histories /\ h.client = c /\ h.server = s
  <2>1. MaxCalls \in Nat
    BY LinkAssumption
  <2> QED BY <1>13, <2>1 DEF Histories
<1>15. client = [phase |-> "connecting", id |-> NoId, ask |-> 0, last |-> 0, asked |-> 0]
  BY DEF Init
<1>16. log = [number |-> [a \in 1 .. MaxCalls |-> NoId], late |-> {}, unanswered |-> {}] /\ reports = 0 /\ open = [r \in Roles |-> TRUE]
  BY DEF Init
<1>17. History = h
  BY <1>4, <1>5, <1>12, <1>13, <1>15, <1>16 DEF History
<1>18. wire["Client"] = <<>> /\ wire["Server"] = <<cr>> /\ wire = [r \in Roles |-> IF r = "Server" THEN <<cr>> ELSE <<>>]
  <2>1. wire = [r \in Roles |-> IF r = "Server" THEN Start(end["Client"]).out \o <<Transport("CR", end["Client"].cfg.exp)>> ELSE <<>>]
    BY DEF Init
  <2>2. Start(end["Client"]) = d
    BY <1>4, <1>12 DEF Start
  <2>3. Start(end["Client"]).out \o <<Transport("CR", end["Client"].cfg.exp)>> = <<cr>>
    <3>1. cr \in Tpdus
      BY <1>2, PieceTypes DEF TpduKinds
    <3>2. Transport("CR", end["Client"].cfg.exp) = cr /\ Start(end["Client"]).out = <<>>
      BY <1>4, <1>12, <2>2
    <3> HIDE DEF cr
    <3>3. <<cr>> \in Seq(Tpdus)
      BY <3>1
    <3>4. <<>> \o <<cr>> = <<cr>>
      BY <3>3, ConcatEmptySeq
    <3> QED BY <3>2, <3>4
  <2> HIDE DEF cr
  <2> QED BY <2>1, <2>3, Peers
<1>19. cr \in Tpdus /\ TpduToServer(h, cr) /\ cr.k = "CR"
  BY <1>14, TsduTypes DEF TpduToServer, Transport
<1>20. ClientFits(h, d)
  <2>1. Outstanding(d) = {} /\ Len(d.outstanding) <= Budget(h)
    BY <1>12, <1>14, AgreedTerms DEF Outstanding
  <2> QED BY <1>12, <1>14, <2>1 DEF ClientFits, AllToClient, AllToServer, Heeded
<1>21. ServerFits(h, x)
  BY <1>3, <1>5, <1>14 DEF ServerFits, AllToClient, AllToServer, Heeded
<1> HIDE DEF cr
<1>22. AllToServer(h, wire["Server"]) /\ AllToClient(h, wire["Client"]) /\ NoData(wire["Server"]) /\ NoData(wire["Client"])
  BY <1>18, <1>19 DEF AllToServer, AllToClient, NoData
<1>23. Types
  <2>1. end \in [Roles -> Ends]
    <3>1. d \in Ends
      BY <1>12 DEF Good
    <3>2. \A r \in Roles : end[r] = IF r = "Client" THEN d ELSE x
      BY <1>4, Peers
    <3> QED BY <1>1, <1>8, <3>1, <3>2
  <2>2. wire \in [Roles -> Seq(Tpdus)]
    BY <1>18, <1>19
  <2>3. 0 \in Payloads /\ MaxCalls \in Nat /\ MaxReports \in Nat
    BY LinkAssumption
  <2>4. client \in [phase : Phases, id : InvokeIds \cup {NoId}, ask : 0 .. MaxCalls, last : Payloads, asked : 0 .. MaxCalls]
    BY <1>15, <2>3 DEF Phases
  <2> QED BY <1>16, <2>1, <2>2, <2>3, <2>4 DEF Types
<1>24. Shaking
  BY <1>4, <1>5, <1>12, <1>18, <1>22 DEF Shaking
<1>25. Calling
  BY <1>15, <1>16 DEF Calling
<1> QED BY <1>4, <1>5, <1>12, <1>14, <1>17, <1>20, <1>21, <1>22, <1>23, <1>24, <1>25 DEF Agreement

\* Every step keeps it.
LEMMA AgreementKept ==
    ASSUME Agreement, [Next]_vars
    PROVE  Agreement'
<1>1. CASE Next
  BY <1>1, ClientReadKeeps, ClientWaitsKeeps, ClientEofKeeps, StartCallKeeps, QuietStepsKeep, ClientReleasesKeeps,
     ServerReadKeeps, ServerWaitsKeeps DEF Next
<1>2. CASE UNCHANGED vars
  <2>1. open' \in [Roles -> BOOLEAN] /\ wire' \in [Roles -> Seq(Tpdus)]
    BY <1>2 DEF vars, Agreement, Types
  <2> QED BY <1>2, <2>1, SideKeeps DEF vars, Agreement, Types
<1> QED BY <1>1, <1>2

LEMMA AgreementGivesTerms ==
    ASSUME Agreement
    PROVE  TypeOK /\ WithinTerms
<1>1. PICK h \in Histories : h = History
  BY HistoryOf
<1>2. /\ ClientFits(h, end["Client"]) /\ ServerFits(h, end["Server"]) /\ h.client = end["Client"].cfg /\ h.server = end["Server"].cfg
      /\ AllToServer(h, wire["Server"]) /\ AllToClient(h, wire["Client"])
  BY <1>1, HistoryOf DEF Agreement
<1>3. TypeOK
  <2>1. Types
    BY DEF Agreement
  <2> QED BY <2>1 DEF TypeOK, Types
<1>4. Both("Established") =>
          /\ end["Client"].chunk = end["Server"].chunk
          /\ end["Client"].terms.budget <= Least(end["Client"].cfg.budget, end["Server"].cfg.budget)
          /\ Len(end["Client"].outstanding) <= end["Client"].terms.budget
  <2> HAVE Both("Established")
  <2>1. end["Client"].state = "Established" /\ end["Server"].state = "Established"
    BY Peers DEF Both
  <2>2. end["Client"].chunk = Chunk(h) /\ end["Server"].chunk = Chunk(h) /\ end["Client"].terms.budget = Budget(h)
        /\ Len(end["Client"].outstanding) <= Budget(h)
    BY <1>2, <2>1 DEF ClientFits, ServerFits
  <2>3. Budget(h) = Least(end["Client"].cfg.budget, end["Server"].cfg.budget) /\ Budget(h) \in Nat
    BY <1>2, AgreedTerms DEF Budget
  <2> QED BY <2>2, <2>3
<1>5. /\ Chunk(h) <= TpduData(h.client.exp) /\ Chunk(h) <= TpduData(h.server.exp) /\ Chunk(h) \in Nat
      /\ TpduData(h.client.exp) \in Nat \ {0} /\ TpduData(h.server.exp) \in Nat \ {0}
      /\ h.client.maxPdu \in Nat /\ h.server.maxPdu \in Nat
  BY AgreedSizes, ChunkType, HistoryTypes
<1>6. NoPdu.size = 0
  BY DEF NoPdu, Pdu
<1>7. \A k, exp : Transport(k, exp).len = 0 /\ Transport(k, exp).of.mms = NoPdu
  BY DEF Transport, NoTsdu, Control
<1>8. \A s, i : Control(s, i).mms = NoPdu /\ Associate(s, i).mms = NoPdu
  BY DEF Control, Associate
<1>9. \A x : TpduToServer(h, x) => x.len <= TpduData(h.server.exp) /\ x.of.mms.size <= h.server.maxPdu
  <2> TAKE x
  <2> HAVE TpduToServer(h, x)
  <2>1. CASE x = Transport("CR", h.client.exp)
    BY <1>5, <1>6, <1>7, <2>1
  <2>2. CASE x.k = "DT" /\ x.len <= Chunk(h) /\ TsduToServer(h, x.of)
    <3>1. x.len \in Int
      BY DEF TpduToServer, Tpdus
    <3>2. x.of.mms.size <= h.server.maxPdu
      BY <1>5, <1>6, <1>8, <2>2 DEF TsduToServer
    <3> QED BY <1>5, <2>2, <3>1, <3>2
  <2> QED BY <2>1, <2>2 DEF TpduToServer
<1>10. \A x : TpduToClient(h, x) => x.len <= TpduData(h.client.exp) /\ x.of.mms.size <= h.client.maxPdu
  <2> TAKE x
  <2> HAVE TpduToClient(h, x)
  <2>1. CASE x = Transport("CC", AgreedExp(h))
    BY <1>5, <1>6, <1>7, <2>1
  <2>2. CASE x.k = "DT" /\ x.len <= Chunk(h) /\ TsduToClient(h, x.of)
    <3>1. x.len \in Int
      BY DEF TpduToClient, Tpdus
    <3>2. x.of.mms.size <= h.client.maxPdu
      BY <1>5, <1>6, <1>8, <2>2 DEF TsduToClient
    <3> QED BY <1>5, <2>2, <3>1, <3>2
  <2> QED BY <2>1, <2>2 DEF TpduToClient
<1>11. \A r \in Roles : \A i \in DOMAIN wire[r] :
           /\ wire[r][i].len <= TpduData(end[r].cfg.exp)
           /\ wire[r][i].of.mms.size <= end[r].cfg.maxPdu
  <2>1. \A i \in DOMAIN wire["Server"] :
            wire["Server"][i].len <= TpduData(h.server.exp) /\ wire["Server"][i].of.mms.size <= h.server.maxPdu
    BY <1>2, <1>9 DEF AllToServer
  <2>2. \A i \in DOMAIN wire["Client"] :
            wire["Client"][i].len <= TpduData(h.client.exp) /\ wire["Client"][i].of.mms.size <= h.client.maxPdu
    BY <1>2, <1>10 DEF AllToClient
  <2> QED BY <1>2, <2>1, <2>2, Peers
<1> QED BY <1>3, <1>4, <1>11 DEF WithinTerms

-----------------------------------------------------------------------------
(* Each call gets its own answer                                           *)

\* What each property says of the calls.
Whose == Agreement /\ Singly /\ OwnAnswer /\ SlotIsOwed

LEMMA UnderIs ==
    \A a : Under(a) <=> Toward("Client", a) \/ Toward("Server", a)
<1>1. \A a : Toward("Client", a) \/ Toward("Server", a) <=> \E r \in Roles : Toward(r, a)
  BY Peers
<1>2. \A a : (\E r \in Roles : Toward(r, a)) <=> Under(a)
  BY DEF Toward, Within, Carries, Under
<1> QED BY <1>1, <1>2

\* The wires and the pieces are sequences of TPDUs.
LEMMA WireTypes ==
    ASSUME Agreement
    PROVE  /\ wire["Client"] \in Seq(Tpdus) /\ wire["Server"] \in Seq(Tpdus)
           /\ end["Client"].parts \in Seq(Tpdus) /\ end["Server"].parts \in Seq(Tpdus)
           /\ end["Client"].events \in Seq(Events)
           /\ MaxCalls \in Nat
           /\ log.number \in [1 .. MaxCalls -> InvokeIds \cup {NoId}] /\ log.late \subseteq 1 .. MaxCalls
<1>1. Types /\ MaxCalls \in Nat
  BY LinkAssumption DEF Agreement
<1>2. end["Client"] \in Ends /\ end["Server"] \in Ends
  BY <1>1, Peers DEF Types
<1> QED BY <1>1, <1>2, Peers DEF Types, Ends

LEMMA EarlyGrows ==
    ASSUME NEW number, NEW late, NEW more, NEW a, Early(number, late, a)
    PROVE  Early(number, late \cup more, a)
BY DEF Early

\* A call with the same identifier that came before was early makes this early.
LEMMA EarlyAfter ==
    ASSUME NEW number, NEW late, late \subseteq 1 .. MaxCalls, MaxCalls \in Nat,
           NEW a \in 1 .. MaxCalls, NEW b \in 1 .. MaxCalls, b <= a, number[b] = number[a], Early(number, late, b)
    PROVE  Early(number, late, a)
<1>1. PICK l \in late : l <= b /\ number[l] = number[b]
  BY DEF Early
<1>2. l \in Nat /\ a \in Nat /\ b \in Nat
  OBVIOUS
<1>3. l <= a
  BY <1>1, <1>2
<1> QED BY <1>1, <1>3 DEF Early

\* The call that has an identifier is the newest it was given to.
LEMMA NewestIsLatest ==
    ASSUME NEW number, NEW a \in 1 .. MaxCalls, MaxCalls \in Nat, Newest(number, a)
    PROVE  Latest({b \in 1 .. MaxCalls : number[b] = number[a]}) = a
<1> DEFINE S == {b \in 1 .. MaxCalls : number[b] = number[a]}
<1>1. a \in S /\ S \subseteq 1 .. MaxCalls
  OBVIOUS
<1> HIDE DEF S
<1>2. Latest(S) \in S /\ a <= Latest(S)
  BY <1>1, FirstOf
<1>3. Latest(S) \in 1 .. MaxCalls /\ number[Latest(S)] = number[a]
  BY <1>2 DEF S
<1> DEFINE l == Latest(S)
<1> HIDE DEF l
<1>4. l \in Nat /\ a \in Nat /\ a <= l
  BY <1>2, <1>3 DEF l
<1>5. ~(l > a)
  BY <1>3 DEF Newest, l
<1>6. l = a
  BY <1>4, <1>5
<1> QED BY <1>6 DEF l, S

\* What the client's turn finds when it has read, or when time has passed.
Takes(e, read, timedOut) ==
    LET d == end["Client"]
        s == SubSeq(wire["Client"], 1, read)
    IN  /\ ClientFits(History, e) /\ Quiet(e.out) /\ Gathers(d, s, read, e)
        /\ d.state = "Closed" => e.state = "Closed"
        /\ \A a \in Answers(e.events) :
               a \in Answers(d.events) \/ (d.state # "Closed" /\ a \in 1 .. MaxCalls /\ Ended(s, read, a))
        /\ Outstanding(e) \subseteq Outstanding(d)
        /\ e.state # "Closed" =>
               \A id \in Outstanding(d) :
                   /\ id \in Outstanding(e) => ~\E a \in 1 .. MaxCalls : Ended(s, read, a) /\ log.number[a] = id
                   /\ id \notin Outstanding(e) =>
                          CallOf(id) \in timedOut \/ \E a \in 1 .. MaxCalls : Ended(s, read, a) /\ log.number[a] = id

LEMMA TakesAfterRead ==
    ASSUME Agreement, NEW n \in Reads("Client"), NEW e, e = AfterRead("Client", n)
    PROVE  Takes(e, n, {})
<1> DEFINE d == end["Client"]
           s == SubSeq(wire["Client"], 1, n)
<1>1. ClientHas(History, d, s, n, e)
  BY ClientReadIs
<1>2. Quiet(d.out)
  <2>1. d.out = <<>>
    BY DEF Agreement
  <2> QED BY <2>1 DEF Quiet
<1>3. PICK h \in Histories : h = History
  BY HistoryOf
<1>4. h.number = log.number
  BY <1>3 DEF History
<1>5. d.state = "Closed" => e = d
  BY <1>1 DEF ClientHas
<1> HIDE DEF d, s
<1>6. /\ ClientFits(h, e) /\ Quiet(e.out) /\ Gathers(d, s, n, e)
      /\ \A a \in Answers(e.events) : a \in Answers(d.events) \/ (a \in 1 .. MaxCalls /\ Ended(s, n, a))
      /\ Outstanding(e) \subseteq Outstanding(d)
      /\ e.state # "Closed" =>
             \A id \in Outstanding(d) : id \in Outstanding(e) <=> ~\E a \in 1 .. MaxCalls : Ended(s, n, a) /\ log.number[a] = id
  BY <1>1, <1>2, <1>3, <1>4 DEF ClientHas
<1>7. \A a \in Answers(e.events) : a \in Answers(d.events) \/ (d.state # "Closed" /\ a \in 1 .. MaxCalls /\ Ended(s, n, a))
  BY <1>5, <1>6
<1> QED BY <1>3, <1>5, <1>6, <1>7 DEF Takes, d, s

LEMMA TakesAfterTime ==
    ASSUME Agreement, NEW late \in BOOLEAN, NEW n \in 0 .. Len(end["Client"].outstanding),
           NEW e, e = OnTimeout(end["Client"], late, n)
    PROVE  Takes(e, 0, {CallOf(id) : id \in Outstanding(end["Client"]) \ Outstanding(e)})
<1> DEFINE d == end["Client"]
           s == SubSeq(wire["Client"], 1, 0)
           timedOut == {CallOf(id) : id \in Outstanding(d) \ Outstanding(e)}
<1>1. /\ ClientFits(History, e) /\ e.out = <<>> /\ e.state \in {d.state, "Closed"}
      /\ e.parts \in {d.parts, <<>>} /\ (e.state # "Closed" => e.parts = d.parts)
      /\ Outstanding(e) \subseteq Outstanding(d) /\ Answers(e.events) \subseteq Answers(d.events)
  BY ClientHearsIs
<1> HIDE DEF d, s
<1>2. \A a : ~Ended(s, 0, a) /\ ~Carried(s, 0, a)
  BY DEF Ended, Carried
<1>3. \A a : ~Within(<<>>, a)
  BY DEF Within
<1>4. Gathers(d, s, 0, e)
  BY <1>1, <1>2, <1>3 DEF Gathers
<1>5. Quiet(e.out)
  BY <1>1 DEF Quiet
<1>6. \A id \in Outstanding(d) : id \notin Outstanding(e) => CallOf(id) \in timedOut
  OBVIOUS
<1> QED BY <1>1, <1>2, <1>4, <1>5, <1>6 DEF Takes, d, s

\* What a turn of the client takes off its side, and puts on neither.
Received(e, read) ==
    LET s == SubSeq(wire["Client"], 1, read)
    IN  /\ Once(wire'["Server"]) /\ Once(wire'["Client"])
        /\ \A a \in 1 .. MaxCalls :
               /\ Toward("Client", a)' => Toward("Client", a)
               /\ Toward("Server", a)' <=> Toward("Server", a)
               /\ Ended(s, read, a) => Toward("Client", a)
               /\ e.state # "Closed" =>
                      /\ Toward("Client", a) => Toward("Client", a)' \/ Ended(s, read, a)
                      /\ Toward("Client", a)' => ~Ended(s, read, a)

LEMMA ClientReceives ==
    ASSUME Agreement, Once(wire["Server"]), Once(wire["Client"]), NEW e, NEW read \in 0 .. Len(wire["Client"]),
           NEW timedOut, Takes(e, read, timedOut),
           NEW f, f.parts = e.parts, f.out = e.out, Good(f), Turn("Client", f, read)
    PROVE  Received(e, read)
<1> DEFINE q == wire["Client"]
           s == SubSeq(q, 1, read)
           rest == SubSeq(q, read + 1, Len(q))
           d == end["Client"]
<1>1. Turned("Client", "Server", f, read)
  <2>1. end \in [Roles -> Ends] /\ wire \in [Roles -> Seq(Tpdus)]
    BY DEF Agreement, Types
  <2> QED BY <2>1, Peers, TurnFits
<1>2. /\ end'["Client"] = Flushed(f) /\ end'["Server"] = end["Server"] /\ wire'["Client"] = rest
      /\ wire'["Server"] = IF open["Server"] THEN wire["Server"] \o f.out ELSE wire["Server"]
  BY <1>1 DEF Turned
<1>3. end'["Client"].parts = e.parts
  BY <1>2, FlushedIs
<1>4. wire["Server"] \in Seq(Tpdus) /\ q \in Seq(Tpdus) /\ f.out \in Seq(Tpdus)
  BY WireTypes DEF Good, Ends
<1>5. Quiet(f.out) /\ Gathers(d, s, read, e)
  BY DEF Takes
<1>6. /\ Once(wire'["Server"])
      /\ \A a : Within(wire'["Server"], a) <=> Within(wire["Server"], a)
  <2>1. CASE ~open["Server"]
    BY <1>2, <2>1
  <2>2. CASE open["Server"]
    <3>1. wire'["Server"] = wire["Server"] \o f.out
      BY <1>2, <2>2
    <3>2. /\ \A a : Within(wire["Server"] \o f.out, a) <=> Within(wire["Server"], a)
          /\ Once(wire["Server"] \o f.out)
      BY <1>4, <1>5, QuietConcat
    <3> QED BY <3>1, <3>2
  <2> QED BY <2>1, <2>2
<1>7. /\ Once(rest)
      /\ \A a : Within(q, a) <=> Carried(s, read, a) \/ Within(rest, a)
      /\ \A a \in 1 .. MaxCalls : ~(Ended(s, read, a) /\ Within(rest, a))
      /\ Once(s)
  BY <1>4, RestOf
<1> HIDE DEF s, rest, q, d
<1>8. \A a : Ended(s, read, a) => Carried(s, read, a)
  BY DEF Ended, Carried
<1>9. \A a \in 1 .. MaxCalls : Toward("Server", a)' <=> Toward("Server", a)
  BY <1>2, <1>6 DEF Toward
<1>10. \A a : Toward("Client", a)' <=> Within(rest, a) \/ Within(e.parts, a)
  BY <1>2, <1>3 DEF Toward
<1>11. \A a : Toward("Client", a) <=> Within(q, a) \/ Within(d.parts, a)
  BY DEF Toward, q, d
<1>12. \A a \in 1 .. MaxCalls :
           /\ Within(e.parts, a) => Within(d.parts, a) \/ Carried(s, read, a)
           /\ e.state # "Closed" /\ (Within(d.parts, a) \/ Carried(s, read, a)) => Within(e.parts, a) \/ Ended(s, read, a)
           /\ e.state # "Closed" => ~(Within(e.parts, a) /\ Ended(s, read, a))
  BY <1>5, <1>7 DEF Gathers
<1>13. \A a \in 1 .. MaxCalls :
           /\ Toward("Client", a)' => Toward("Client", a)
           /\ Ended(s, read, a) => Toward("Client", a)
           /\ e.state # "Closed" =>
                  /\ Toward("Client", a) => Toward("Client", a)' \/ Ended(s, read, a)
                  /\ Toward("Client", a)' => ~Ended(s, read, a)
  BY <1>7, <1>8, <1>10, <1>11, <1>12
<1>14. Once(wire'["Client"])
  BY <1>2, <1>7
<1> QED BY <1>6, <1>9, <1>13, <1>14 DEF Received, s, q

\* A turn of the client, as the calls see it.
ClientTurns(e, read, timedOut) ==
    /\ Received(e, read)
    /\ end'["Client"].state = e.state /\ Outstanding(end'["Client"]) = Outstanding(e)
    /\ end'["Client"].events = Leaves(client, e.events)
    /\ client' = Drained(client, e)
    /\ log'.number = log.number /\ log'.unanswered = log.unanswered
    /\ log'.late = log.late \cup timedOut \cup Answers(Leaves(client, e.events))
    /\ open'["Server"] = open["Server"] /\ (open'["Client"] => open["Client"])

LEMMA ClientTurnIs ==
    ASSUME Agreement, Once(wire["Server"]), Once(wire["Client"]), NEW e, NEW read \in 0 .. Len(wire["Client"]),
           NEW timedOut, Takes(e, read, timedOut), ClientTurn(e, read, timedOut)
    PROVE  ClientTurns(e, read, timedOut)
<1> DEFINE f == [e EXCEPT !.events = Leaves(client, @)]
<1>1. PICK h \in Histories : h = History
  BY HistoryOf
<1>2. Types /\ ClientFits(h, e)
  BY <1>1 DEF Agreement, Takes
<1>3. /\ client' = Drained(client, e) /\ Turn("Client", f, read)
      /\ log' = [log EXCEPT !.late = @ \cup timedOut \cup Answers(Leaves(client, e.events))]
      /\ open' = [open EXCEPT !["Client"] = FALSE] \/ open' = open
  BY DEF ClientTurn, Left
<1>4. Good(e) /\ e.events \in Seq(Events) /\ Heeded(h, e.events)
  BY <1>2 DEF ClientFits, Good, Ends
<1>5. Leaves(client, e.events) \in Seq(Events)
  BY <1>4, LeavesAre
<1>6. /\ Good(f) /\ f.state = e.state /\ f.out = e.out /\ f.parts = e.parts
      /\ f.outstanding = e.outstanding /\ f.events = Leaves(client, e.events)
  BY <1>4, <1>5, EventsSet
<1> HIDE DEF f
<1>7. /\ Flushed(f).state = f.state /\ Flushed(f).outstanding = f.outstanding /\ Flushed(f).events = f.events
  BY <1>6, FlushedIs
<1>8. Received(e, read)
  BY <1>3, <1>6, ClientReceives
<1>9. end'["Client"] = Flushed(f)
  <2>1. end \in [Roles -> Ends] /\ wire \in [Roles -> Seq(Tpdus)]
    BY <1>2 DEF Types
  <2>2. Turned("Client", "Server", f, read)
    BY <1>3, <1>6, <2>1, Peers, TurnFits
  <2> QED BY <2>2 DEF Turned
<1>10. /\ log'.number = log.number /\ log'.unanswered = log.unanswered
       /\ log'.late = log.late \cup timedOut \cup Answers(Leaves(client, e.events))
  BY <1>2, <1>3 DEF Types
<1>11. open'["Server"] = open["Server"] /\ (open'["Client"] => open["Client"])
  BY <1>2, <1>3, Peers DEF Types
<1>12. Outstanding(end'["Client"]) = Outstanding(e)
  BY <1>6, <1>7, <1>9 DEF Outstanding
<1> QED BY <1>3, <1>6, <1>7, <1>8, <1>9, <1>10, <1>11, <1>12 DEF ClientTurns

\* A call whose identifier is free again is early, or nothing of it comes.
LEMMA FreedIsEarly ==
    ASSUME Whose, open["Client"], NEW e, NEW read \in 0 .. Len(wire["Client"]), NEW timedOut, timedOut \subseteq 1 .. MaxCalls,
           Takes(e, read, timedOut), ClientTurns(e, read, timedOut), e.state # "Closed",
           NEW a \in 1 .. MaxCalls, Newest(log.number, a), log.number[a] \in Outstanding(end["Client"]),
           log.number[a] \notin Outstanding(e),
           Toward("Client", a)' \/ (open["Server"] /\ Toward("Server", a))
    PROVE  Early(log.number, log'.late, a)
<1> DEFINE s == SubSeq(wire["Client"], 1, read)
           id == log.number[a]
<1>1. Agreement /\ Singly /\ MaxCalls \in Nat
  BY WireTypes DEF Whose
<1>2. end["Client"].state # "Closed"
  BY DEF Takes
<1>3. a \in Nat /\ log'.late = log.late \cup timedOut \cup Answers(Leaves(client, e.events))
  BY DEF ClientTurns
<1>4. CallOf(id) = a
  BY <1>1, NewestIsLatest DEF CallOf
<1> HIDE DEF s
<1>5. CallOf(id) \in timedOut \/ \E b \in 1 .. MaxCalls : Ended(s, read, b) /\ log.number[b] = id
  BY DEF Takes, s
<1>6. CASE a \in timedOut
  <2>1. a \in log'.late /\ a <= a
    BY <1>3, <1>6
  <2> QED BY <2>1 DEF Early
<1>7. CASE \E b \in 1 .. MaxCalls : Ended(s, read, b) /\ log.number[b] = id
  <2>1. PICK b \in 1 .. MaxCalls : Ended(s, read, b) /\ log.number[b] = id
    BY <1>7
  <2>2. Toward("Client", b)
    BY <2>1 DEF ClientTurns, Received, s
  <2>3. b # a
    <3>1. SUFFICES ASSUME b = a PROVE FALSE
      OBVIOUS
    <3>2. ~Toward("Client", a)'
      BY <2>1, <3>1 DEF ClientTurns, Received, s
    <3>3. open["Server"] => ~(Toward("Server", a) /\ Toward("Client", a))
      BY <1>1 DEF Singly
    <3> QED BY <2>2, <3>1, <3>2, <3>3
  <2>4. b \in Nat /\ ~(b > a)
    BY <2>1, <1>1 DEF Newest
  <2>5. a > b /\ b <= a
    BY <1>3, <2>3, <2>4
  <2>6. ~Newest(log.number, b)
    BY <2>1, <2>5 DEF Newest
  <2>7. Early(log.number, log.late, b)
    BY <1>1, <1>2, <2>2, <2>6 DEF Singly
  <2>8. Early(log.number, log.late, a)
    <3>1. log.late \subseteq 1 .. MaxCalls
      BY <1>1, WireTypes
    <3> QED BY <1>1, <2>1, <2>5, <2>7, <3>1, EarlyAfter
  <2> QED BY <1>3, <2>8 DEF Early
<1> QED BY <1>4, <1>5, <1>6, <1>7

LEMMA SinglyAfterClient ==
    ASSUME Whose, open["Client"], NEW e, NEW read \in 0 .. Len(wire["Client"]), NEW timedOut, timedOut \subseteq 1 .. MaxCalls,
           Takes(e, read, timedOut), ClientTurns(e, read, timedOut)
    PROVE  Singly'
<1>1. Agreement /\ Singly /\ MaxCalls \in Nat
  BY WireTypes DEF Whose
<1>2. /\ Received(e, read) /\ end'["Client"].state = e.state /\ Outstanding(end'["Client"]) = Outstanding(e)
      /\ end'["Client"].events = Leaves(client, e.events)
      /\ log'.number = log.number
      /\ log'.late = log.late \cup timedOut \cup Answers(Leaves(client, e.events))
      /\ open'["Server"] = open["Server"]
  BY DEF ClientTurns
<1>3. /\ Once(wire'["Server"]) /\ Once(wire'["Client"])
      /\ \A a \in 1 .. MaxCalls :
             /\ Toward("Client", a)' => Toward("Client", a)
             /\ Toward("Server", a)' <=> Toward("Server", a)
  BY <1>2 DEF Received
<1>4. open'["Server"] => \A a \in 1 .. MaxCalls : ~(Toward("Server", a)' /\ Toward("Client", a)')
  BY <1>1, <1>2, <1>3 DEF Singly
<1>5. ASSUME e.state # "Closed", NEW a \in 1 .. MaxCalls, Toward("Client", a)' \/ (open["Server"] /\ Toward("Server", a))
      PROVE  \/ Early(log.number, log'.late, a)
             \/ log.number[a] \in Outstanding(e) /\ Newest(log.number, a)
  <2>1. end["Client"].state # "Closed"
    BY <1>5 DEF Takes
  <2>2. Toward("Client", a) \/ (open["Server"] /\ Toward("Server", a))
    BY <1>3, <1>5
  <2>3. \/ Early(log.number, log.late, a)
        \/ log.number[a] \in Outstanding(end["Client"]) /\ Newest(log.number, a)
    BY <1>1, <2>1, <2>2 DEF Singly
  <2>4. CASE Early(log.number, log.late, a)
    BY <1>2, <2>4 DEF Early
  <2>5. CASE log.number[a] \in Outstanding(end["Client"]) /\ Newest(log.number, a) /\ log.number[a] \notin Outstanding(e)
    BY <1>5, <2>5, FreedIsEarly
  <2> QED BY <2>3, <2>4, <2>5
<1>6. \A i \in DOMAIN end'["Client"].events :
          end'["Client"].events[i].k = "Response" => end'["Client"].events[i].pdu.says \in log'.late
  BY <1>2 DEF Answers
<1>7. e.state # "Closed" =>
          \A a \in 1 .. MaxCalls :
              Toward("Client", a)' \/ (open["Server"] /\ Toward("Server", a)') =>
                  Early(log.number, log'.late, a) \/ (log.number[a] \in Outstanding(e) /\ Newest(log.number, a))
  BY <1>3, <1>5
<1>8. (/\ open["Client"] /\ end["Client"].state # "Closed"
       => \A a \in 1 .. MaxCalls :
              Toward("Client", a) \/ (open["Server"] /\ Toward("Server", a)) =>
                   \/ Early(log.number, log.late, a)
                   \/ log.number[a] \in Outstanding(end["Client"]) /\ Newest(log.number, a))'
  BY <1>2, <1>7
<1> QED BY <1>3, <1>4, <1>6, <1>8 DEF Singly

\* Only a call that is in progress takes an answer.
LEMMA AnswerOfCall ==
    ASSUME NEW h \in Histories, NEW e, ClientFits(h, e), NEW c,
           c \in [phase : Phases, id : InvokeIds \cup {NoId}, ask : 0 .. MaxCalls, last : Payloads, asked : 0 .. MaxCalls]
    PROVE  LET d == Drained(c, e)
           IN  /\ d.ask = c.ask
               /\ \/ d.last = c.last
                  \/ d.last = 0
                  \/ c.phase = "calling" /\ \E i \in Answering(e.events, c.id) : d.last = e.events[i].pdu.says
<1> DEFINE d == Drained(c, e)
<1>1. /\ d.ask = c.ask
      /\ d.last = c.last \/ d.last = 0 \/ \E i \in Answering(e.events, c.id) : d.last = e.events[i].pdu.says
  BY DrainedIs
<1>2. c.phase # "calling" => d = [c EXCEPT !.phase = "gone"] \/ d = [c EXCEPT !.phase = "idle"] \/ d = c
  BY DEF Drained
<1> HIDE DEF d
<1>3. c.phase # "calling" => d.last = c.last
  BY <1>2
<1> QED BY <1>1, <1>3 DEF d

LEMMA OwnAfterClient ==
    ASSUME Whose, open["Client"], NEW e, NEW read \in 0 .. Len(wire["Client"]), NEW timedOut, timedOut \subseteq 1 .. MaxCalls,
           Takes(e, read, timedOut), ClientTurns(e, read, timedOut)
    PROVE  OwnAnswer'
<1> DEFINE s == SubSeq(wire["Client"], 1, read)
           number == log.number
<1>1. Agreement /\ Singly /\ OwnAnswer /\ MaxCalls \in Nat
  BY WireTypes DEF Whose
<1>2. PICK h \in Histories : h = History
  BY <1>1, HistoryOf
<1>3. ClientFits(h, e) /\ h.asked = client.asked /\ h.number = number
  BY <1>1, <1>2, HistoryOf DEF Takes
<1>4. /\ client' = Drained(client, e) /\ log'.number = number
      /\ log'.late = log.late \cup timedOut \cup Answers(Leaves(client, e.events))
  BY DEF ClientTurns
<1>5. client \in [phase : Phases, id : InvokeIds \cup {NoId}, ask : 0 .. MaxCalls, last : Payloads, asked : 0 .. MaxCalls]
  BY <1>1 DEF Agreement, Types
<1>6. /\ client'.ask = client.ask
      /\ \/ client'.last = client.last
         \/ client'.last = 0
         \/ client.phase = "calling" /\ \E i \in Answering(e.events, client.id) : client'.last = e.events[i].pdu.says
  BY <1>3, <1>4, <1>5, AnswerOfCall
<1> HIDE DEF number
<1>7. CASE client'.last = client.last
  <2>1. client.last \notin {0, client.ask} =>
            /\ number[client.last] = number[client.ask]
            /\ \E a \in log.late : a <= client.last /\ number[a] = number[client.ask]
    BY <1>1 DEF OwnAnswer, number
  <2> QED BY <1>4, <1>6, <1>7, <2>1 DEF OwnAnswer
<1>8. CASE client'.last = 0
  BY <1>8 DEF OwnAnswer
<1>9. CASE client.phase = "calling" /\ client'.last # client.ask
           /\ \E i \in Answering(e.events, client.id) : client'.last = e.events[i].pdu.says
  <2>1. PICK i \in Answering(e.events, client.id) : client'.last = e.events[i].pdu.says
    BY <1>9
  <2> DEFINE b == e.events[i].pdu.says
             ask == client.ask
  <2>2. i \in DOMAIN e.events /\ e.events[i].k = "Response" /\ e.events[i].id = client.id
    BY DEF Answering
  <2>3. e.events[i].id = e.events[i].pdu.id /\ Called(h, e.events[i].pdu)
    BY <1>3, <2>2 DEF ClientFits, Heeded
  <2>4. b \in 1 .. client.asked /\ client.id = number[b]
    BY <1>3, <2>2, <2>3 DEF Called
  <2>5. ask = client.asked /\ client.id = number[ask]
    BY <1>1, <1>9 DEF Agreement, Calling, number
  <2>6. client.asked \in 0 .. MaxCalls
    BY <1>5
  <2>7. b \in Answers(e.events)
    BY <2>2 DEF Answers
  <2>8. b # ask
    BY <1>9, <2>1
  <2>9. client'.last = b
    BY <2>1
  <2> HIDE DEF b, ask, s
  <2>10. b \in 1 .. MaxCalls /\ ask \in 1 .. MaxCalls /\ ask > b /\ number[b] = number[ask]
    BY <1>1, <2>4, <2>5, <2>6, <2>8
  <2>11. Early(number, log.late, b)
    <3>1. b \in Answers(end["Client"].events) \/ (end["Client"].state # "Closed" /\ Ended(s, read, b))
      BY <2>7 DEF Takes, s
    <3>2. CASE b \in Answers(end["Client"].events)
      <4>1. b \in log.late
        BY <1>1, <3>2 DEF Singly, Answers
      <4>2. b <= b
        BY <2>10
      <4> QED BY <4>1, <4>2 DEF Early
    <3>3. CASE end["Client"].state # "Closed" /\ Ended(s, read, b)
      <4>1. Toward("Client", b)
        BY <2>10, <3>3 DEF ClientTurns, Received, s
      <4>2. ~Newest(number, b)
        BY <2>10 DEF Newest
      <4> QED BY <1>1, <2>10, <3>3, <4>1, <4>2 DEF Singly, number
    <3> QED BY <3>1, <3>2, <3>3
  <2>12. \E a \in log'.late : a <= b /\ number[a] = number[ask]
    BY <1>4, <2>10, <2>11 DEF Early
  <2>13. client'.ask = ask
    BY <1>6 DEF ask
  <2> QED BY <1>4, <2>9, <2>10, <2>12, <2>13 DEF OwnAnswer
<1>10. CASE client'.last = client.ask
  BY <1>6, <1>10 DEF OwnAnswer
<1> QED BY <1>6, <1>7, <1>8, <1>9, <1>10

LEMMA UnderNext ==
    \A a : Under(a)' <=> Toward("Client", a)' \/ Toward("Server", a)'
<1>1. \A a : Toward("Client", a)' \/ Toward("Server", a)' <=> \E r \in Roles : Toward(r, a)'
  BY Peers
<1>2. \A a : (\E r \in Roles : Toward(r, a)') <=> Under(a)'
  BY DEF Toward, Within, Carries, Under
<1> QED BY <1>1, <1>2

\* A slot is owed the answer of the call that its identifier was given to.
LEMMA SlotFrom ==
    ASSUME log'.number = log.number,
           end'["Client"].state # "Closed" /\ open'["Client"] /\ open'["Server"] =>
               \A id \in Outstanding(end'["Client"]) :
                   \E a \in {CallOf(id)} : Toward("Client", a)' \/ Toward("Server", a)' \/ a \in log'.unanswered
    PROVE  SlotIsOwed'
<1> SUFFICES ASSUME end'["Client"].state # "Closed" /\ open'["Client"] /\ open'["Server"]
             PROVE  \A id \in Outstanding(end'["Client"]) : Under(CallOf(id))' \/ CallOf(id)' \in log'.unanswered
  BY DEF SlotIsOwed
<1>1. \A id : CallOf(id)' = CallOf(id)
  BY DEF CallOf
<1>2. \A id \in Outstanding(end'["Client"]) : \E a : a = CallOf(id)' /\ (Under(a)' \/ a \in log'.unanswered)
  BY <1>1, UnderNext
<1>3. \A id \in Outstanding(end'["Client"]) : Under(CallOf(id))' \/ CallOf(id)' \in log'.unanswered
  BY <1>2 DEF Under
<1> QED BY <1>3

LEMMA SlotTo ==
    ASSUME Agreement, SlotIsOwed, end["Client"].state # "Closed", open["Client"], open["Server"],
           NEW id \in Outstanding(end["Client"])
    PROVE  /\ CallOf(id) \in 1 .. MaxCalls /\ log.number[CallOf(id)] = id
           /\ Toward("Client", CallOf(id)) \/ Toward("Server", CallOf(id)) \/ CallOf(id) \in log.unanswered
<1>1. CallOf(id) \in 1 .. MaxCalls /\ log.number[CallOf(id)] = id
  BY CallOfIs
<1>2. Under(CallOf(id)) \/ CallOf(id) \in log.unanswered
  BY DEF SlotIsOwed
<1> QED BY <1>1, <1>2, UnderIs

LEMMA SlotAfterClient ==
    ASSUME Whose, open["Client"], NEW e, NEW read \in 0 .. Len(wire["Client"]), NEW timedOut,
           Takes(e, read, timedOut), ClientTurns(e, read, timedOut)
    PROVE  SlotIsOwed'
<1>1. Agreement /\ SlotIsOwed
  BY DEF Whose
<1> DEFINE s == SubSeq(wire["Client"], 1, read)
<1> SUFFICES ASSUME e.state # "Closed", open["Server"], NEW id \in Outstanding(e)
             PROVE  \E a \in {CallOf(id)} : Toward("Client", a)' \/ Toward("Server", a)' \/ a \in log'.unanswered
  <2>1. log'.number = log.number /\ end'["Client"].state = e.state /\ Outstanding(end'["Client"]) = Outstanding(e)
        /\ open'["Server"] = open["Server"]
    BY DEF ClientTurns
  <2>2. e.state # "Closed" /\ open["Server"] =>
            \A id \in Outstanding(e) : \E a \in {CallOf(id)} : Toward("Client", a)' \/ Toward("Server", a)' \/ a \in log'.unanswered
    OBVIOUS
  <2> QED BY <2>1, <2>2, SlotFrom
<1>2. PICK a : a = CallOf(id)
  OBVIOUS
<1>3. id \in Outstanding(end["Client"]) /\ end["Client"].state # "Closed"
  BY DEF Takes
<1>4. /\ a \in 1 .. MaxCalls /\ log.number[a] = id
      /\ Toward("Client", a) \/ Toward("Server", a) \/ a \in log.unanswered
  BY <1>1, <1>2, <1>3, SlotTo
<1>5. ~Ended(s, read, a)
  BY <1>3, <1>4 DEF Takes
<1> HIDE DEF s
<1>6. Toward("Client", a)' \/ Toward("Server", a)' \/ a \in log'.unanswered
  BY <1>4, <1>5 DEF ClientTurns, Received, s
<1> QED BY <1>2, <1>6

LEMMA ClientTurnOwns ==
    ASSUME Whose, open["Client"], NEW e, NEW read \in 0 .. Len(wire["Client"]), NEW timedOut, timedOut \subseteq 1 .. MaxCalls,
           Takes(e, read, timedOut), ClientTurn(e, read, timedOut)
    PROVE  Singly' /\ OwnAnswer' /\ SlotIsOwed'
<1>1. ClientTurns(e, read, timedOut)
  BY ClientTurnIs DEF Whose, Singly
<1> QED BY <1>1, SinglyAfterClient, OwnAfterClient, SlotAfterClient

LEMMA ClientHearsOwns ==
    ASSUME Whose, ClientRead \/ ClientWaits
    PROVE  Singly' /\ OwnAnswer' /\ SlotIsOwed'
<1>1. Agreement
  BY DEF Whose
<1>2. CASE ClientRead
  <2>1. PICK n \in Reads("Client") : \E e \in {AfterRead("Client", n)} : ClientTurn(e, n, {})
    BY <1>2 DEF ClientRead
  <2>2. PICK e \in {AfterRead("Client", n)} : ClientTurn(e, n, {})
    BY <2>1
  <2>3. Takes(e, n, {}) /\ n \in 0 .. Len(wire["Client"])
    BY <1>1, <2>2, TakesAfterRead, ReadsAre, Peers
  <2>4. open["Client"] /\ {} \subseteq 1 .. MaxCalls
    BY <1>2 DEF ClientRead
  <2> QED BY <2>2, <2>3, <2>4, ClientTurnOwns
<1>3. CASE ClientWaits
  <2>1. PICK late \in BOOLEAN, n \in 0 .. Len(end["Client"].outstanding) : ClientHears(late, n)
    BY <1>3 DEF ClientWaits
  <2> DEFINE timedOut(e) == {CallOf(id) : id \in Outstanding(end["Client"]) \ Outstanding(e)}
  <2>2. PICK e \in {OnTimeout(end["Client"], late, n)} : ClientTurn(e, 0, timedOut(e))
    BY <2>1 DEF ClientHears
  <2>3. timedOut(e) \subseteq 1 .. MaxCalls /\ Takes(e, 0, timedOut(e))
    BY <1>1, <2>2, ClientHearsIs, TakesAfterTime
  <2>4. open["Client"]
    BY <2>1 DEF ClientHears
  <2>5. 0 \in 0 .. Len(wire["Client"])
    <3>1. wire["Client"] \in Seq(Tpdus)
      BY <1>1, WireTypes
    <3> QED BY <3>1
  <2> HIDE DEF timedOut
  <2> QED BY <2>2, <2>3, <2>4, <2>5, ClientTurnOwns
<1> QED BY <1>2, <1>3

\* What the server's thread finds when it has read, or when time has passed.
Finds(e, read) ==
    LET d == end["Server"]
        s == SubSeq(wire["Server"], 1, read)
    IN  /\ Ready(e, read) /\ Gathers(d, s, read, e)
        /\ e.state # "Closed" =>
               \A i \in Requests(e.events) :
                   e.events[i].pdu.says \in 1 .. MaxCalls /\ Ended(s, read, e.events[i].pdu.says)
        /\ e.state # "Closed" /\ Once(s) => Apart(e.events)

LEMMA FindsAfterRead ==
    ASSUME Agreement, open["Server"], NEW n \in Reads("Server"), NEW e, e = AfterRead("Server", n)
    PROVE  Finds(e, n) /\ n \in 0 .. Len(wire["Server"])
<1>1. Ready(e, n) /\ n \in 0 .. Len(wire["Server"])
  BY ReadyAfterRead
<1>2. ServerHas(History, end["Server"], SubSeq(wire["Server"], 1, n), n, e)
  BY ServerReadIs
<1> QED BY <1>1, <1>2 DEF Finds, ServerHas, Apart

LEMMA FindsAfterWait ==
    ASSUME Agreement, ServerWaits
    PROVE  \E e : open["Server"] /\ Finds(e, 0) /\ ServeTurn(e, 0) /\ 0 \in 0 .. Len(wire["Server"])
<1> DEFINE d == end["Server"]
           s == SubSeq(wire["Server"], 1, 0)
<1>1. PICK e : /\ open["Server"] /\ Ready(e, 0) /\ ServeTurn(e, 0) /\ 0 \in 0 .. Len(wire["Server"])
               /\ e = d \/ Shut(History, d, e)
  BY ServerWaitsIs
<1>2. d.events = <<>>
  BY DEF Agreement
<1> HIDE DEF s, d
<1>3. CASE e = d
  <2>1. Gathers(d, s, 0, e)
    BY <1>3, GathersNothing
  <2>2. Requests(e.events) = {}
    BY <1>2, <1>3 DEF Requests
  <2>3. Finds(e, 0)
    BY <1>1, <2>1, <2>2 DEF Finds, Apart, d, s
  <2> QED BY <1>1, <2>3
<1>4. CASE Shut(History, d, e)
  <2>1. e.state = "Closed" /\ e.parts = <<>>
    BY <1>4 DEF Shut
  <2>2. Gathers(d, s, 0, e)
    BY <2>1 DEF Gathers, Within
  <2>3. Finds(e, 0)
    BY <1>1, <2>1, <2>2 DEF Finds, d, s
  <2> QED BY <1>1, <2>3
<1> QED BY <1>1, <1>3, <1>4

\* What comes to its end at the server is a request.
LEMMA EndedCame ==
    ASSUME Agreement, NEW read \in 0 .. Len(wire["Server"]), NEW a, Ended(SubSeq(wire["Server"], 1, read), read, a)
    PROVE  a \in Came(read)
<1>1. PICK h \in Histories : h = History
  BY HistoryOf
<1>2. wire["Server"] \in Seq(Tpdus) /\ AllToServer(h, wire["Server"])
  BY <1>1, WireTypes DEF Agreement
<1>3. Len(wire["Server"]) \in Nat /\ DOMAIN wire["Server"] = 1 .. Len(wire["Server"])
  BY <1>2
<1>4. \A i \in 1 .. read : i \in DOMAIN wire["Server"] /\ SubSeq(wire["Server"], 1, read)[i] = wire["Server"][i]
  <2>1. \A i \in 1 .. read : SubSeq(wire["Server"], 1, read)[i] = wire["Server"][i]
    BY <1>2, RestOf
  <2>2. \A i \in 1 .. read : i \in DOMAIN wire["Server"]
    BY <1>3
  <2> QED BY <2>1, <2>2
<1>5. PICK i \in 1 .. read : wire["Server"][i].eot /\ Carries(wire["Server"][i], a)
  BY <1>4 DEF Ended
<1>6. PICK x : x = wire["Server"][i]
  OBVIOUS
<1>7. TpduToServer(h, x) /\ Carries(x, a)
  BY <1>2, <1>4, <1>5, <1>6 DEF AllToServer
<1>8. x.of.mms.k = "Request" /\ x.of.mms.says = a
  <2>1. ~Mute(x.of)
    BY <1>7 DEF Carries, Mute
  <2>2. x # Transport("CR", h.client.exp) /\ x.of \notin {Associate("Connect", Proposal(h.client)), Control("Finish", "Release")}
    BY <2>1, MuteTsdus
  <2> QED BY <1>7, <2>2 DEF TpduToServer, TsduToServer, Carries
<1> QED BY <1>5, <1>6, <1>8, CameAre

\* A turn of the server's thread, as the calls see it.
Answered(e, read) ==
    LET s == SubSeq(wire["Server"], 1, read)
    IN  /\ Once(wire'["Server"]) /\ Once(wire'["Client"])
        /\ \A a \in 1 .. MaxCalls :
               /\ Toward("Server", a)' => Toward("Server", a)
               /\ Toward("Client", a) => Toward("Client", a)'
               /\ Toward("Client", a)' => Toward("Client", a) \/ (e.state # "Closed" /\ Ended(s, read, a))
               /\ Ended(s, read, a) => Toward("Server", a)
               /\ e.state # "Closed" =>
                      /\ Toward("Server", a) => Toward("Server", a)' \/ Ended(s, read, a)
                      /\ Toward("Server", a)' => ~Ended(s, read, a)
                      /\ open["Client"] /\ Ended(s, read, a) => Toward("Client", a)' \/ a \in log'.unanswered

\* What the server's thread writes in a turn: what the calls it answers are.
LEMMA ServerWrites ==
    ASSUME Agreement, NEW e, NEW read \in 0 .. Len(wire["Server"]), Finds(e, read), Once(wire["Server"]),
           NEW kind, NEW size, NEW out, NEW f, Serves(e, read, kind, size, out, f)
    PROVE  LET s == SubSeq(wire["Server"], 1, read)
           IN  /\ f.out \in Seq(Tpdus) /\ Once(f.out)
               /\ \A a : Within(f.out, a) => e.state # "Closed" /\ Ended(s, read, a)
               /\ \A a : e.state # "Closed" /\ Ended(s, read, a) => Within(f.out, a) \/ a \in log'.unanswered
<1> DEFINE s == SubSeq(wire["Server"], 1, read)
<1>1. PICK h \in Histories : h = History
  BY HistoryOf
<1>2. /\ ServerFits(h, e) /\ Quiet(e.out)
      /\ e.state # "Closed" => \A i \in Requests(e.events) : Ended(s, read, e.events[i].pdu.says)
      /\ e.state # "Closed" => Apart(e.events)
  <2>1. Once(s)
    BY RestOf, WireTypes
  <2> QED BY <1>1, <2>1 DEF Finds, Ready
<1> HIDE DEF s
<1>3. /\ ServerFits(h, f) /\ (e.state # "Established" => f.out = e.out)
      /\ \A a : Within(f.out, a) <=> Within(out.out, a)
      /\ Once(out.out) => Once(f.out)
      /\ log' = [log EXCEPT !.unanswered = @ \cup (Came(read) \ Served(e, kind, size))]
  BY <1>1 DEF Serves
<1>4. /\ \A a : Within(out.out, a) => \E j \in Requests(e.events) : e.events[j].pdu.says = a
      /\ \A j \in Requests(e.events) :
             j <= Len(e.events) /\ MaySend(e, Reply(kind, size, e.events[j]).size) => Within(out.out, e.events[j].pdu.says)
      /\ Apart(e.events) => Once(out.out)
  BY DEF Serves, Sent
<1>5. f.out \in Seq(Tpdus) /\ e.events \in Seq(Events)
  BY <1>2, <1>3 DEF ServerFits, Good, Ends
<1>6. CASE e.state = "Closed"
  <2>1. Quiet(f.out)
    BY <1>2, <1>3, <1>6
  <2>2. Once(f.out) /\ \A a : ~Within(f.out, a)
    BY <2>1 DEF Quiet, Once, Within, Carries
  <2> QED BY <1>5, <1>6, <2>2
<1>7. CASE e.state # "Closed"
  <2>1. Once(f.out)
    BY <1>2, <1>3, <1>4, <1>7
  <2>2. \A a : Within(f.out, a) => Ended(s, read, a)
    BY <1>2, <1>3, <1>4, <1>7
  <2>3. \A a : Ended(s, read, a) => Within(f.out, a) \/ a \in log'.unanswered
    <3> SUFFICES ASSUME NEW a, Ended(s, read, a), a \notin log'.unanswered PROVE Within(f.out, a)
      OBVIOUS
    <3>1. a \in Came(read)
      BY EndedCame DEF s
    <3>2. log'.unanswered = log.unanswered \cup (Came(read) \ Served(e, kind, size))
      BY <1>3 DEF Agreement, Types
    <3>3. a \in Served(e, kind, size)
      BY <3>1, <3>2
    <3>4. PICK j \in Requests(e.events) : a = e.events[j].pdu.says /\ MaySend(e, Reply(kind, size, e.events[j]).size)
      BY <3>3 DEF Served
    <3>5. j <= Len(e.events)
      BY <1>5 DEF Requests
    <3> QED BY <1>3, <1>4, <3>4, <3>5
  <2> QED BY <1>5, <1>7, <2>1, <2>2, <2>3 DEF s
<1> QED BY <1>6, <1>7

LEMMA ServerAnswers ==
    ASSUME Agreement, Singly, open["Server"], NEW e, NEW read \in 0 .. Len(wire["Server"]), Finds(e, read),
           NEW kind, NEW size, NEW out, NEW f, Serves(e, read, kind, size, out, f)
    PROVE  Answered(e, read)
<1> DEFINE q == wire["Server"]
           s == SubSeq(q, 1, read)
           rest == SubSeq(q, read + 1, Len(q))
           d == end["Server"]
<1>1. Once(q) /\ Once(wire["Client"]) /\ \A a \in 1 .. MaxCalls : ~(Toward("Server", a) /\ Toward("Client", a))
  BY DEF Singly
<1>2. PICK h \in Histories : h = History
  BY HistoryOf
<1>3. ServerFits(h, f) /\ f.parts = e.parts /\ Turn("Server", f, read)
  BY <1>2 DEF Serves
<1>4. Good(f)
  BY <1>3 DEF ServerFits
<1>5. Turned("Server", "Client", f, read)
  <2>1. end \in [Roles -> Ends] /\ wire \in [Roles -> Seq(Tpdus)]
    BY DEF Agreement, Types
  <2> QED BY <1>3, <1>4, <2>1, Peers, TurnFits
<1>6. /\ end'["Server"] = Flushed(f) /\ end'["Client"] = end["Client"] /\ wire'["Server"] = rest
      /\ wire'["Client"] = IF open["Client"] THEN wire["Client"] \o f.out ELSE wire["Client"]
  BY <1>5 DEF Turned
<1>7. end'["Server"].parts = e.parts
  BY <1>3, <1>4, <1>6, FlushedIs
<1>8. wire["Client"] \in Seq(Tpdus) /\ q \in Seq(Tpdus)
  BY WireTypes
<1>9. /\ f.out \in Seq(Tpdus) /\ Once(f.out)
      /\ \A a : Within(f.out, a) => e.state # "Closed" /\ Ended(s, read, a)
      /\ \A a : e.state # "Closed" /\ Ended(s, read, a) => Within(f.out, a) \/ a \in log'.unanswered
  BY <1>1, ServerWrites
<1>10. Gathers(d, s, read, e)
  BY DEF Finds
<1>11. /\ Once(rest)
       /\ \A a : Within(q, a) <=> Carried(s, read, a) \/ Within(rest, a)
       /\ \A a \in 1 .. MaxCalls : ~(Ended(s, read, a) /\ Within(rest, a))
       /\ Once(s)
  BY <1>1, <1>8, RestOf
<1> HIDE DEF s, rest, q, d
<1>12. \A a : Ended(s, read, a) => Carried(s, read, a)
  BY DEF Ended, Carried
<1>13. \A a : Toward("Server", a)' <=> Within(rest, a) \/ Within(e.parts, a)
  BY <1>6, <1>7 DEF Toward
<1>14. \A a : Toward("Server", a) <=> Within(q, a) \/ Within(d.parts, a)
  BY DEF Toward, q, d
<1>15. \A a : Ended(s, read, a) => Toward("Server", a)
  BY <1>11, <1>12, <1>14
<1>16. \A a \in 1 .. MaxCalls : ~(Within(wire["Client"], a) /\ Within(f.out, a))
  BY <1>1, <1>9, <1>15 DEF Toward
<1>17. /\ Once(wire'["Client"])
       /\ \A a : Within(wire'["Client"], a) <=> Within(wire["Client"], a) \/ (open["Client"] /\ Within(f.out, a))
  <2>1. CASE ~open["Client"]
    BY <1>1, <1>6, <2>1
  <2>2. CASE open["Client"]
    <3>1. wire'["Client"] = wire["Client"] \o f.out
      BY <1>6, <2>2
    <3> QED BY <1>1, <1>8, <1>9, <1>16, <2>2, <3>1, WithinConcat, OnceConcat
  <2> QED BY <2>1, <2>2
<1>18. \A a : Toward("Client", a)' <=> Toward("Client", a) \/ (open["Client"] /\ Within(f.out, a))
  BY <1>6, <1>17 DEF Toward
<1>19. \A a \in 1 .. MaxCalls :
           /\ Within(e.parts, a) => Within(d.parts, a) \/ Carried(s, read, a)
           /\ e.state # "Closed" /\ (Within(d.parts, a) \/ Carried(s, read, a)) => Within(e.parts, a) \/ Ended(s, read, a)
           /\ e.state # "Closed" => ~(Within(e.parts, a) /\ Ended(s, read, a))
  BY <1>10, <1>11 DEF Gathers
<1>20. \A a \in 1 .. MaxCalls :
           /\ Toward("Server", a)' => Toward("Server", a)
           /\ e.state # "Closed" =>
                  /\ Toward("Server", a) => Toward("Server", a)' \/ Ended(s, read, a)
                  /\ Toward("Server", a)' => ~Ended(s, read, a)
  BY <1>11, <1>13, <1>14, <1>19
<1>21. \A a \in 1 .. MaxCalls :
           /\ Toward("Client", a) => Toward("Client", a)'
           /\ Toward("Client", a)' => Toward("Client", a) \/ (e.state # "Closed" /\ Ended(s, read, a))
           /\ e.state # "Closed" /\ open["Client"] /\ Ended(s, read, a) => Toward("Client", a)' \/ a \in log'.unanswered
  BY <1>9, <1>18
<1>22. Once(wire'["Server"])
  BY <1>6, <1>11
<1> QED BY <1>15, <1>17, <1>20, <1>21, <1>22 DEF Answered, s, q

LEMMA ServerTurnOwns ==
    ASSUME Whose, open["Server"], NEW e, NEW read \in 0 .. Len(wire["Server"]), Finds(e, read), ServeTurn(e, read)
    PROVE  Singly' /\ OwnAnswer' /\ SlotIsOwed'
<1> DEFINE s == SubSeq(wire["Server"], 1, read)
<1>1. Agreement /\ Singly /\ OwnAnswer /\ SlotIsOwed /\ MaxCalls \in Nat
  BY WireTypes DEF Whose
<1>2. PICK kind, size, out, f : Serves(e, read, kind, size, out, f)
  <2>1. ServerFits(History, e) /\ Quiet(e.out)
    BY DEF Finds, Ready
  <2> QED BY <1>1, <2>1, ServeTurnIs
<1>3. Answered(e, read)
  BY <1>1, <1>2, ServerAnswers
<1>4. PICK h \in Histories : h = History
  BY <1>1, HistoryOf
<1>5. /\ client' = client /\ log'.number = log.number /\ log'.late = log.late
      /\ log'.unanswered = log.unanswered \cup (Came(read) \ Served(e, kind, size))
      /\ open' = IF \E i \in DOMAIN e.events : e.events[i].k = "Closed" THEN [open EXCEPT !["Server"] = FALSE] ELSE open
  BY <1>1, <1>2 DEF Serves, Agreement, Types
<1>6. end'["Client"] = end["Client"]
  <2>1. Turn("Server", f, read) /\ ServerFits(h, f)
    BY <1>2, <1>4 DEF Serves
  <2>2. end \in [Roles -> Ends] /\ wire \in [Roles -> Seq(Tpdus)] /\ Good(f)
    BY <1>1, <2>1 DEF Agreement, Types, ServerFits
  <2>3. Turned("Server", "Client", f, read)
    BY <2>1, <2>2, Peers, TurnFits
  <2> QED BY <2>3 DEF Turned
<1>7. open'["Client"] = open["Client"] /\ (e.state = "Closed" => ~open'["Server"])
  <2>1. open \in [Roles -> BOOLEAN]
    BY <1>1 DEF Agreement, Types
  <2>2. e.state = "Closed" => \E i \in DOMAIN e.events : e.events[i].k = "Closed"
    BY DEF Finds, Ready
  <2> QED BY <1>5, <2>1, <2>2, Peers
<1> HIDE DEF s
<1>8. /\ Once(wire'["Server"]) /\ Once(wire'["Client"])
      /\ \A a \in 1 .. MaxCalls :
             /\ Toward("Server", a)' => Toward("Server", a)
             /\ Toward("Client", a) => Toward("Client", a)'
             /\ Toward("Client", a)' => Toward("Client", a) \/ Ended(s, read, a)
             /\ Ended(s, read, a) => Toward("Server", a)
             /\ e.state # "Closed" =>
                    /\ Toward("Server", a) => Toward("Server", a)' \/ Ended(s, read, a)
                    /\ Toward("Server", a)' => ~Ended(s, read, a)
                    /\ open["Client"] /\ Ended(s, read, a) => Toward("Client", a)' \/ a \in log'.unanswered
  BY <1>3 DEF Answered, s
<1>9. \A a \in 1 .. MaxCalls : ~(Toward("Server", a) /\ Toward("Client", a))
  BY <1>1 DEF Singly
<1>10. Singly'
  <2>1. open'["Server"] => \A a \in 1 .. MaxCalls : ~(Toward("Server", a)' /\ Toward("Client", a)')
    BY <1>7, <1>8, <1>9
  <2>2. open["Client"] /\ end["Client"].state # "Closed" =>
            \A a \in 1 .. MaxCalls :
                Toward("Client", a) \/ Toward("Server", a) =>
                    Early(log.number, log.late, a) \/ (log.number[a] \in Outstanding(end["Client"]) /\ Newest(log.number, a))
    BY <1>1 DEF Singly
  <2>3. open["Client"] /\ end["Client"].state # "Closed" =>
            \A a \in 1 .. MaxCalls :
                Toward("Client", a)' \/ Toward("Server", a)' =>
                    Early(log.number, log.late, a) \/ (log.number[a] \in Outstanding(end["Client"]) /\ Newest(log.number, a))
    BY <1>8, <2>2
  <2>4. (open["Client"] /\ end["Client"].state # "Closed" =>
            \A a \in 1 .. MaxCalls :
                Toward("Client", a) \/ (open["Server"] /\ Toward("Server", a)) =>
                    \/ Early(log.number, log.late, a)
                    \/ log.number[a] \in Outstanding(end["Client"]) /\ Newest(log.number, a))'
    BY <1>5, <1>6, <1>7, <2>3
  <2>5. \A i \in DOMAIN end'["Client"].events :
            end'["Client"].events[i].k = "Response" => end'["Client"].events[i].pdu.says \in log'.late
    BY <1>1, <1>5, <1>6 DEF Singly
  <2> QED BY <1>8, <2>1, <2>4, <2>5 DEF Singly
<1>11. OwnAnswer'
  BY <1>1, <1>5 DEF OwnAnswer
<1>12. SlotIsOwed'
  <2> SUFFICES ASSUME end["Client"].state # "Closed", open["Client"], e.state # "Closed", NEW id \in Outstanding(end["Client"])
               PROVE  \E a \in {CallOf(id)} : Toward("Client", a)' \/ Toward("Server", a)' \/ a \in log'.unanswered
    <3>1. end["Client"].state # "Closed" /\ open["Client"] /\ e.state # "Closed" =>
              \A id \in Outstanding(end["Client"]) :
                  \E a \in {CallOf(id)} : Toward("Client", a)' \/ Toward("Server", a)' \/ a \in log'.unanswered
      OBVIOUS
    <3> QED BY <1>5, <1>6, <1>7, <3>1, SlotFrom
  <2>1. PICK a : a = CallOf(id)
    OBVIOUS
  <2>2. a \in 1 .. MaxCalls /\ (Toward("Client", a) \/ Toward("Server", a) \/ a \in log.unanswered)
    BY <1>1, <2>1, SlotTo
  <2>3. Toward("Client", a)' \/ Toward("Server", a)' \/ a \in log'.unanswered
    BY <1>5, <1>8, <2>2
  <2> QED BY <2>1, <2>3
<1> QED BY <1>10, <1>11, <1>12

LEMMA ServerHearsOwns ==
    ASSUME Whose, ServerRead \/ ServerWaits
    PROVE  Singly' /\ OwnAnswer' /\ SlotIsOwed'
<1>1. Agreement
  BY DEF Whose
<1>2. CASE ServerRead
  <2>1. PICK n \in Reads("Server") : \E e \in {AfterRead("Server", n)} : ServeTurn(e, n)
    BY <1>2 DEF ServerRead
  <2>2. PICK e \in {AfterRead("Server", n)} : ServeTurn(e, n)
    BY <2>1
  <2>3. open["Server"]
    BY <1>2 DEF ServerRead
  <2>4. Finds(e, n) /\ n \in 0 .. Len(wire["Server"])
    BY <1>1, <2>2, <2>3, FindsAfterRead
  <2> QED BY <2>2, <2>3, <2>4, ServerTurnOwns
<1>3. CASE ServerWaits
  BY <1>1, <1>3, FindsAfterWait, ServerTurnOwns
<1> QED BY <1>2, <1>3

\* A step that takes calls off the association, or none, and starts none.
LEMMA FewerSingly ==
    ASSUME Singly, Once(wire'["Server"]), Once(wire'["Client"]),
           \A a \in 1 .. MaxCalls : (Toward("Client", a)' => Toward("Client", a)) /\ (Toward("Server", a)' => Toward("Server", a)),
           open'["Server"] => open["Server"], open'["Client"] => open["Client"],
           end'["Client"].state # "Closed" =>
               end["Client"].state # "Closed" /\ Outstanding(end'["Client"]) = Outstanding(end["Client"]),
           end'["Client"].events \in {end["Client"].events, <<>>},
           log'.number = log.number, log'.late = log.late
    PROVE  Singly'
<1>1. open'["Server"] => \A a \in 1 .. MaxCalls : ~(Toward("Server", a)' /\ Toward("Client", a)')
  BY DEF Singly
<1>2. open["Client"] /\ end["Client"].state # "Closed" =>
          \A a \in 1 .. MaxCalls :
              Toward("Client", a) \/ (open["Server"] /\ Toward("Server", a)) =>
                  Early(log.number, log.late, a) \/ (log.number[a] \in Outstanding(end["Client"]) /\ Newest(log.number, a))
  BY DEF Singly
<1>3. open'["Client"] /\ end'["Client"].state # "Closed" =>
          \A a \in 1 .. MaxCalls :
              Toward("Client", a)' \/ (open'["Server"] /\ Toward("Server", a)') =>
                  Early(log.number, log.late, a) \/ (log.number[a] \in Outstanding(end'["Client"]) /\ Newest(log.number, a))
  BY <1>2
<1>4. (open["Client"] /\ end["Client"].state # "Closed" =>
          \A a \in 1 .. MaxCalls :
              Toward("Client", a) \/ (open["Server"] /\ Toward("Server", a)) =>
                  \/ Early(log.number, log.late, a)
                  \/ log.number[a] \in Outstanding(end["Client"]) /\ Newest(log.number, a))'
  BY <1>3
<1>5. \A i \in DOMAIN end'["Client"].events :
          end'["Client"].events[i].k = "Response" => end'["Client"].events[i].pdu.says \in log'.late
  <2>1. \A i \in DOMAIN end["Client"].events :
            end["Client"].events[i].k = "Response" => end["Client"].events[i].pdu.says \in log.late
    BY DEF Singly
  <2>2. DOMAIN <<>> = {}
    OBVIOUS
  <2> QED BY <2>1, <2>2
<1> QED BY <1>1, <1>4, <1>5 DEF Singly

\* A step after which no call has taken another answer.
LEMMA FewerOwn ==
    ASSUME OwnAnswer, log'.number = log.number, log'.late = log.late,
           client'.last = 0 \/ (client'.last = client.last /\ client'.ask = client.ask)
    PROVE  OwnAnswer'
BY DEF OwnAnswer

\* A step after which the association carries what it did.
LEMMA FewerSlots ==
    ASSUME Agreement, SlotIsOwed, log'.number = log.number, log.unanswered \subseteq log'.unanswered,
           end'["Client"].state # "Closed" /\ open'["Client"] /\ open'["Server"] =>
               /\ end["Client"].state # "Closed" /\ open["Client"] /\ open["Server"]
               /\ Outstanding(end'["Client"]) \subseteq Outstanding(end["Client"])
               /\ \A a \in 1 .. MaxCalls :
                      (Toward("Client", a) => Toward("Client", a)') /\ (Toward("Server", a) => Toward("Server", a)')
    PROVE  SlotIsOwed'
<1>1. ASSUME end'["Client"].state # "Closed" /\ open'["Client"] /\ open'["Server"], NEW id \in Outstanding(end'["Client"])
      PROVE  \E a \in {CallOf(id)} : Toward("Client", a)' \/ Toward("Server", a)' \/ a \in log'.unanswered
  <2>1. PICK a : a = CallOf(id)
    OBVIOUS
  <2>2. a \in 1 .. MaxCalls /\ (Toward("Client", a) \/ Toward("Server", a) \/ a \in log.unanswered)
    BY <1>1, <2>1, SlotTo
  <2>3. Toward("Client", a)' \/ Toward("Server", a)' \/ a \in log'.unanswered
    BY <1>1, <2>2
  <2> QED BY <2>1, <2>3
<1> QED BY <1>1, SlotFrom

\* The steps that touch neither end and write nothing.
LEMMA QuietStepsOwn ==
    ASSUME Whose, GiveUp \/ ClientLeaves \/ ServerEof \/ ServerLeaves \/ Reset \/ UNCHANGED vars
    PROVE  Singly' /\ OwnAnswer' /\ SlotIsOwed'
<1>1. Agreement /\ Singly /\ OwnAnswer /\ SlotIsOwed /\ Types
  BY DEF Whose, Agreement
<1>2. /\ end' = end /\ log' = log
      /\ client'.last = 0 \/ (client'.last = client.last /\ client'.ask = client.ask)
      /\ \A r \in Roles : open'[r] => open[r]
  <2>1. end' = end /\ log' = log
    BY DEF GiveUp, ClientLeaves, ServerEof, ServerLeaves, Reset, vars
  <2>2. client' = client \/ client' = [client EXCEPT !.phase = "idle", !.last = 0] \/ client' = [client EXCEPT !.phase = "gone"]
    BY DEF GiveUp, ClientLeaves, ServerEof, ServerLeaves, Reset, vars
  <2>3. client'.last = 0 \/ (client'.last = client.last /\ client'.ask = client.ask)
    BY <1>1, <2>2 DEF Types
  <2>4. open' = open \/ \E r \in Roles : open' = [open EXCEPT ![r] = FALSE]
    BY Peers DEF GiveUp, ClientLeaves, ServerEof, ServerLeaves, Reset, Left, vars
  <2>5. \A r \in Roles : open'[r] => open[r]
    BY <1>1, <2>4 DEF Types
  <2> QED BY <2>1, <2>3, <2>5
<1>3. \/ wire' = wire
      \/ \E r \in Roles : wire' = [wire EXCEPT ![r] = <<>>] /\ open' = open /\ ~open[Peer(r)]
  BY DEF GiveUp, ClientLeaves, ServerEof, ServerLeaves, Reset, vars
<1>4. \A r \in Roles : wire'[r] = wire[r] \/ wire'[r] = <<>>
  BY <1>1, <1>3 DEF Types
<1>5. open'["Client"] /\ open'["Server"] => wire' = wire
  BY <1>3, Peers
<1>6. Once(<<>>) /\ \A a : ~Within(<<>>, a)
  BY DEF Once, Within
<1>7. /\ Once(wire'["Server"]) /\ Once(wire'["Client"])
      /\ \A r \in Roles : \A a : Within(wire'[r], a) => Within(wire[r], a)
  BY <1>1, <1>4, <1>6, Peers DEF Singly
<1>8. \A a : (Toward("Client", a)' => Toward("Client", a)) /\ (Toward("Server", a)' => Toward("Server", a))
  BY <1>2, <1>7, Peers DEF Toward
<1>9. Singly'
  BY <1>1, <1>2, <1>7, <1>8, Peers, FewerSingly
<1>10. OwnAnswer'
  BY <1>1, <1>2, FewerOwn
<1>11. SlotIsOwed'
  <2>1. wire' = wire => \A a : (Toward("Client", a) => Toward("Client", a)') /\ (Toward("Server", a) => Toward("Server", a)')
    BY <1>2 DEF Toward
  <2> QED BY <1>1, <1>2, <1>5, <2>1, Peers, FewerSlots
<1> QED BY <1>9, <1>10, <1>11

LEMMA ClientEofOwns ==
    ASSUME Whose, ClientEof
    PROVE  Singly' /\ OwnAnswer' /\ SlotIsOwed'
<1>1. Agreement /\ Singly /\ OwnAnswer /\ SlotIsOwed /\ Types
  BY DEF Whose, Agreement
<1>2. /\ end' = [end EXCEPT !["Client"] = end'["Client"]] /\ end'["Client"].state = "Closed"
      /\ end'["Client"].parts = <<>> /\ end'["Client"].events = <<>>
  BY <1>1, ClientEofIs
<1>3. /\ client' = [client EXCEPT !.phase = IF @ = "calling" THEN "idle" ELSE "gone", !.last = 0]
      /\ open' = [open EXCEPT !["Client"] = FALSE] \/ open' = open
      /\ UNCHANGED <<wire, reports, log>>
  BY DEF ClientEof, Left
<1>4. client'.last = 0 /\ end'["Server"] = end["Server"] /\ open'["Server"] = open["Server"] /\ (open'["Client"] => open["Client"])
  BY <1>1, <1>2, <1>3, Peers DEF Types
<1>5. \A a : (Toward("Client", a)' => Toward("Client", a)) /\ (Toward("Server", a)' => Toward("Server", a))
  <2>1. \A a : ~Within(<<>>, a)
    BY DEF Within
  <2> QED BY <1>2, <1>3, <1>4, <2>1 DEF Toward
<1>6. Once(wire'["Server"]) /\ Once(wire'["Client"])
  BY <1>1, <1>3 DEF Singly
<1>7. Singly'
  BY <1>1, <1>2, <1>3, <1>4, <1>5, <1>6, FewerSingly
<1>8. OwnAnswer'
  BY <1>1, <1>3, <1>4, FewerOwn
<1>9. SlotIsOwed'
  BY <1>2 DEF SlotIsOwed
<1> QED BY <1>7, <1>8, <1>9

\* What the client writes joins what is under way to the server.
Writes(f) ==
    /\ end'["Client"] = Flushed(f) /\ end'["Client"].state = f.state /\ end'["Client"].events = f.events
    /\ Outstanding(end'["Client"]) = Outstanding(f)
    /\ Once(wire'["Server"]) /\ Once(wire'["Client"])
    /\ \A a : /\ Toward("Client", a)' <=> Toward("Client", a)
              /\ Toward("Server", a)' <=> Toward("Server", a) \/ (open["Server"] /\ Within(f.out, a))

LEMMA ClientWrites ==
    ASSUME Agreement, Singly, NEW f, Good(f), f.parts = end["Client"].parts, Turn("Client", f, 0), Once(f.out),
           \A a \in 1 .. MaxCalls : ~(Within(wire["Server"], a) /\ Within(f.out, a))
    PROVE  Writes(f)
<1> DEFINE q == wire["Client"]
           s == SubSeq(q, 1, 0)
           rest == SubSeq(q, 0 + 1, Len(q))
<1>1. Once(q) /\ Once(wire["Server"])
  BY DEF Singly
<1>2. wire["Server"] \in Seq(Tpdus) /\ q \in Seq(Tpdus) /\ f.out \in Seq(Tpdus)
  BY WireTypes DEF Good, Ends
<1>3. 0 \in 0 .. Len(q)
  BY <1>2
<1>4. Turned("Client", "Server", f, 0)
  <2>1. end \in [Roles -> Ends] /\ wire \in [Roles -> Seq(Tpdus)]
    BY DEF Agreement, Types
  <2> QED BY <1>3, <2>1, Peers, TurnFits
<1>5. /\ end'["Client"] = Flushed(f) /\ end'["Server"] = end["Server"] /\ wire'["Client"] = rest
      /\ wire'["Server"] = IF open["Server"] THEN wire["Server"] \o f.out ELSE wire["Server"]
  BY <1>4 DEF Turned
<1>6. /\ end'["Client"].parts = f.parts /\ end'["Client"].state = f.state /\ end'["Client"].events = f.events
      /\ end'["Client"].outstanding = f.outstanding
  BY <1>5, FlushedIs
<1>7. /\ Once(rest)
      /\ \A a : Within(q, a) <=> Carried(s, 0, a) \/ Within(rest, a)
  BY <1>1, <1>2, <1>3, RestOf
<1> HIDE DEF s, rest, q
<1>8. \A a : ~Carried(s, 0, a)
  BY DEF Carried
<1>9. \A a : Toward("Client", a)' <=> Toward("Client", a)
  BY <1>5, <1>6, <1>7, <1>8 DEF Toward, q
<1>10. /\ Once(wire'["Server"])
       /\ \A a : Within(wire'["Server"], a) <=> Within(wire["Server"], a) \/ (open["Server"] /\ Within(f.out, a))
  <2>1. CASE ~open["Server"]
    BY <1>1, <1>5, <2>1
  <2>2. CASE open["Server"]
    <3>1. wire'["Server"] = wire["Server"] \o f.out
      BY <1>5, <2>2
    <3> QED BY <1>1, <1>2, <2>2, <3>1, WithinConcat, OnceConcat
  <2> QED BY <2>1, <2>2
<1>11. \A a : Toward("Server", a)' <=> Toward("Server", a) \/ (open["Server"] /\ Within(f.out, a))
  BY <1>5, <1>10 DEF Toward
<1> QED BY <1>5, <1>6, <1>7, <1>9, <1>10, <1>11 DEF Writes, Outstanding

\* A write of the client that carries no call.
LEMMA QuietWriteOwns ==
    ASSUME Whose, NEW f, Good(f), f.parts = end["Client"].parts, f.events = end["Client"].events,
           Outstanding(f) = Outstanding(end["Client"]), end["Client"].state # "Closed", f.state # "Closed",
           Turn("Client", f, 0), \A a : ~Within(f.out, a),
           open' = open, log'.number = log.number, log'.late = log.late, log'.unanswered = log.unanswered,
           client'.last = 0 \/ (client'.last = client.last /\ client'.ask = client.ask)
    PROVE  Singly' /\ OwnAnswer' /\ SlotIsOwed'
<1>1. Agreement /\ Singly /\ OwnAnswer /\ SlotIsOwed
  BY DEF Whose
<1>2. Once(f.out)
  BY DEF Once, Within
<1>3. Writes(f)
  BY <1>1, <1>2, ClientWrites
<1>4. \A a : (Toward("Client", a)' <=> Toward("Client", a)) /\ (Toward("Server", a)' <=> Toward("Server", a))
  BY <1>3 DEF Writes
<1>5. /\ end'["Client"].state = f.state /\ end'["Client"].events = end["Client"].events
      /\ Outstanding(end'["Client"]) = Outstanding(end["Client"])
      /\ Once(wire'["Server"]) /\ Once(wire'["Client"])
  BY <1>3 DEF Writes
<1>6. Singly'
  BY <1>1, <1>4, <1>5, FewerSingly
<1>7. OwnAnswer'
  BY <1>1, FewerOwn
<1>8. SlotIsOwed'
  BY <1>1, <1>4, <1>5, FewerSlots
<1> QED BY <1>6, <1>7, <1>8

LEMMA ClientReleasesOwns ==
    ASSUME Whose, ClientReleases
    PROVE  Singly' /\ OwnAnswer' /\ SlotIsOwed'
<1>1. Agreement /\ Types
  BY DEF Whose, Agreement
<1>2. PICK h \in Histories : h = History
  BY <1>1, HistoryOf
<1> DEFINE d == end["Client"]
           t == Control("Finish", "Release")
<1>3. ClientFits(h, d) /\ d.state = "Established" /\ d.out = <<>>
  BY <1>1, <1>2 DEF Agreement, ClientReleases
<1>4. PICK f : f = Release(d)
  OBVIOUS
<1>5. /\ Turn("Client", f, 0) /\ client' = [client EXCEPT !.phase = "releasing"] /\ open' = open /\ log' = log
  BY <1>4 DEF ClientReleases
<1>6. client'.last = client.last /\ client'.ask = client.ask
  BY <1>1, <1>5 DEF Types
<1> HIDE DEF d
<1>7. /\ ClientFits(h, f) /\ f.state = "Releasing" /\ f.parts = d.parts /\ f.events = d.events
      /\ f.out = d.out \o Segments(t, Chunk(h)) /\ Outstanding(f) = Outstanding(d)
  BY <1>3, <1>4, ClientFinishes
<1>8. Good(f)
  BY <1>7 DEF ClientFits
<1>9. t \in Tsdus /\ Mute(t)
  BY MuteTsdus, TsduTypes
<1> HIDE DEF t
<1>10. \A a : ~Within(f.out, a)
  <2> DEFINE s == Segments(t, Chunk(h))
  <2>1. s \in Seq(Tpdus) /\ \A a : ~Within(s, a)
    BY <1>9, SegmentsCarry
  <2>2. <<>> \in Seq(Tpdus) /\ \A a : ~Within(<<>>, a)
    BY DEF Within
  <2> HIDE DEF s
  <2>3. f.out = <<>> \o s
    BY <1>3, <1>7 DEF s
  <2> QED BY <2>1, <2>2, <2>3, WithinConcat
<1> QED BY <1>3, <1>5, <1>6, <1>7, <1>8, <1>10, QuietWriteOwns DEF d

\* The identifiers of the calls after one more of them.
Renumbered(number, more, a0, id, late) ==
    /\ Newest(more, a0) /\ more[a0] = id
    /\ \A a \in 1 .. MaxCalls : a < a0 =>
           /\ more[a] = number[a]
           /\ Early(number, late, a) => Early(more, late, a)
           /\ Newest(number, a) /\ number[a] # id => Newest(more, a)
    /\ \A i \in InvokeIds : i # id => {a \in 1 .. MaxCalls : more[a] = i} = {a \in 1 .. MaxCalls : number[a] = i}

LEMMA NewNumber ==
    ASSUME NEW number \in [1 .. MaxCalls -> InvokeIds \cup {NoId}], MaxCalls \in Nat, NEW a0 \in 1 .. MaxCalls,
           \A a \in 1 .. MaxCalls : a >= a0 => number[a] = NoId, NEW id \in InvokeIds,
           NEW more, more = [number EXCEPT ![a0] = id], NEW late, late \subseteq 1 .. MaxCalls
    PROVE  Renumbered(number, more, a0, id, late)
<1>1. more[a0] = id /\ \A a \in 1 .. MaxCalls : a # a0 => more[a] = number[a]
  OBVIOUS
<1>2. NoId \notin InvokeIds
  BY AssociationAssumption DEF NoId, InvokeIds
<1>3. \A a \in 1 .. MaxCalls : a \in Nat
  OBVIOUS
<1>4. Newest(more, a0)
  <2> SUFFICES ASSUME NEW b \in 1 .. MaxCalls, b > a0 PROVE more[b] # more[a0]
    BY DEF Newest
  <2>1. b # a0 /\ b >= a0
    BY <1>3
  <2>2. more[b] = NoId
    BY <1>1, <2>1
  <2> QED BY <1>1, <1>2, <2>2
<1>5. ASSUME NEW a \in 1 .. MaxCalls, a < a0
      PROVE  /\ more[a] = number[a]
             /\ Early(number, late, a) => Early(more, late, a)
             /\ Newest(number, a) /\ number[a] # id => Newest(more, a)
  <2>1. more[a] = number[a]
    BY <1>1, <1>3, <1>5
  <2>2. \A l \in late : l <= a => more[l] = number[l]
    <3> SUFFICES ASSUME NEW l \in late, l <= a PROVE more[l] = number[l]
      OBVIOUS
    <3>1. l \in 1 .. MaxCalls /\ l # a0
      BY <1>3, <1>5
    <3> QED BY <1>1, <3>1
  <2>3. Early(number, late, a) => Early(more, late, a)
    BY <2>1, <2>2 DEF Early
  <2>4. Newest(number, a) /\ number[a] # id => Newest(more, a)
    BY <1>1, <2>1 DEF Newest
  <2> QED BY <2>1, <2>3, <2>4
<1>6. \A i \in InvokeIds : i # id => {a \in 1 .. MaxCalls : more[a] = i} = {a \in 1 .. MaxCalls : number[a] = i}
  <2> SUFFICES ASSUME NEW i \in InvokeIds, i # id, NEW a \in 1 .. MaxCalls PROVE more[a] = i <=> number[a] = i
    OBVIOUS
  <2>1. CASE a = a0
    <3>1. number[a0] = NoId
      <4>1. a0 >= a0
        BY <1>3
      <4> QED BY <4>1
    <3> QED BY <1>1, <1>2, <2>1, <3>1
  <2> QED BY <1>1, <2>1
<1> QED BY <1>1, <1>4, <1>5, <1>6 DEF Renumbered

\* Nothing of a call is under way before it is made.
LEMMA NothingAhead ==
    ASSUME Agreement, NEW a, Toward("Client", a) \/ Toward("Server", a)
    PROVE  a \in 1 .. MaxCalls /\ a <= client.asked
<1>1. PICK h \in Histories : h = History
  BY HistoryOf
<1>2. /\ AllToServer(h, wire["Server"]) /\ AllToClient(h, wire["Client"])
      /\ AllToServer(h, end["Server"].parts) /\ AllToClient(h, end["Client"].parts) /\ h.asked = client.asked
  BY <1>1, HistoryOf DEF Agreement, ClientFits, ServerFits
<1>3. \E x : (TpduToServer(h, x) \/ TpduToClient(h, x)) /\ Carries(x, a)
  BY <1>2 DEF Toward, Within, AllToServer, AllToClient
<1>4. a \in 1 .. MaxCalls /\ a \in 1 .. h.asked
  BY <1>3, CarriesCalled
<1>5. h.asked \in Nat
  BY HistoryTypes
<1> QED BY <1>2, <1>4, <1>5

\* The start of a call, as the calls see it.
Begins(a0, id, e) ==
    LET d == end["Client"]
    IN  /\ a0 = client.asked + 1 /\ a0 \in 1 .. MaxCalls /\ id \in InvokeIds \ Outstanding(d)
        /\ Writes(e) /\ d.state # "Closed" /\ e.state # "Closed" /\ e.events = d.events
        /\ Outstanding(e) = Outstanding(d) \cup {id}
        /\ \A a : Within(e.out, a) <=> a = a0
        /\ log'.number = [log.number EXCEPT ![a0] = id] /\ log'.late = log.late
        /\ log'.unanswered = log.unanswered /\ open' = open /\ client'.last = 0

LEMMA StartCallBegins ==
    ASSUME Agreement, Singly, NEW size, NEW g \in Histories, NEW e, Starts(size, g, e), MaySend(end["Client"], size)
    PROVE  Begins(g.asked, Taken(end["Client"]), e)
<1> DEFINE d == end["Client"]
           id == Taken(d)
           t == UserData(Pdu("Request", id, size, g.asked))
<1>1. /\ g.asked = client.asked + 1 /\ g.asked \in 1 .. MaxCalls
      /\ d.state = "Established" /\ ClientFits(g, e) /\ e.state = d.state
      /\ e.parts = d.parts /\ e.events = d.events /\ Turn("Client", e, 0)
      /\ id \in InvokeIds \ Outstanding(d)
      /\ t \in Tsdus /\ t.mms.k = "Request" /\ t.mms.says = g.asked
      /\ log'.number = [log.number EXCEPT ![g.asked] = id] /\ log'.late = log.late /\ log'.unanswered = log.unanswered
      /\ client'.last = 0 /\ open' = open
      /\ e.out = Segments(t, Chunk(g)) /\ Outstanding(e) = Outstanding(d) \cup {id}
  BY DEF Starts
<1> HIDE DEF t, id
<1>2. Once(e.out) /\ \A a : Within(e.out, a) <=> a = g.asked
  <2>1. ~Mute(t)
    BY <1>1 DEF Mute
  <2>2. LET s == Segments(t, Chunk(g))
        IN  s \in Seq(Tpdus) /\ Once(s) /\ \A a : Within(s, a) <=> ~Mute(t) /\ a = t.mms.says
    BY <1>1, SegmentsCarry
  <2> QED BY <1>1, <2>1, <2>2
<1>3. client.asked \in Nat
  <2>1. client.asked \in 0 .. MaxCalls /\ MaxCalls \in Nat
    BY WireTypes DEF Agreement, Types
  <2> QED BY <2>1
<1>4. \A a \in 1 .. MaxCalls : ~(Within(wire["Server"], a) /\ Within(e.out, a))
  <2>1. ~Toward("Server", g.asked)
    <3>1. ~(g.asked <= client.asked)
      BY <1>1, <1>3
    <3> QED BY <3>1, NothingAhead
  <2> QED BY <1>2, <2>1 DEF Toward
<1>5. Writes(e)
  <2>1. Good(e)
    BY <1>1 DEF ClientFits
  <2> QED BY <1>1, <1>2, <1>4, <2>1, ClientWrites
<1> QED BY <1>1, <1>2, <1>5 DEF Begins, id

LEMMA BeginsOwns ==
    ASSUME Whose, NEW a0, NEW id, NEW e, Begins(a0, id, e)
    PROVE  Singly' /\ OwnAnswer' /\ SlotIsOwed'
<1> DEFINE d == end["Client"]
           number == log.number
           more == [number EXCEPT ![a0] = id]
<1>1. Agreement /\ Singly /\ SlotIsOwed
  BY DEF Whose
<1>2. /\ a0 = client.asked + 1 /\ a0 \in 1 .. MaxCalls /\ id \in InvokeIds /\ id \notin Outstanding(d)
      /\ d.state # "Closed" /\ e.state # "Closed" /\ e.events = d.events
      /\ Outstanding(e) = Outstanding(d) \cup {id}
      /\ \A a : Within(e.out, a) <=> a = a0
      /\ log'.number = more /\ log'.late = log.late
      /\ log'.unanswered = log.unanswered /\ open' = open /\ client'.last = 0
  BY DEF Begins
<1>3. /\ end'["Client"].state = e.state /\ end'["Client"].events = d.events
      /\ Outstanding(end'["Client"]) = Outstanding(d) \cup {id}
      /\ Once(wire'["Server"]) /\ Once(wire'["Client"])
      /\ \A a : /\ Toward("Client", a)' <=> Toward("Client", a)
                /\ Toward("Server", a)' <=> Toward("Server", a) \/ (open["Server"] /\ a = a0)
  BY <1>2 DEF Begins, Writes
<1>4. client.asked \in Nat /\ MaxCalls \in Nat /\ log.late \subseteq 1 .. MaxCalls
      /\ number \in [1 .. MaxCalls -> InvokeIds \cup {NoId}]
  <2>1. client.asked \in 0 .. MaxCalls /\ MaxCalls \in Nat
    BY <1>1, WireTypes DEF Agreement, Types
  <2> QED BY <1>1, <2>1, WireTypes
<1>5. \A a \in 1 .. MaxCalls : a >= a0 => number[a] = NoId
  <2>1. \A a \in 1 .. MaxCalls : a >= a0 => a > client.asked
    BY <1>2, <1>4
  <2> QED BY <1>1, <2>1 DEF Agreement, Calling
<1> HIDE DEF number, more
<1>6. /\ Newest(more, a0) /\ more[a0] = id
      /\ \A a \in 1 .. MaxCalls : a < a0 =>
             /\ more[a] = number[a]
             /\ Early(number, log.late, a) => Early(more, log.late, a)
             /\ Newest(number, a) /\ number[a] # id => Newest(more, a)
      /\ \A i \in InvokeIds : i # id => {a \in 1 .. MaxCalls : more[a] = i} = {a \in 1 .. MaxCalls : number[a] = i}
  <2>1. PICK n, late, m : n \in [1 .. MaxCalls -> InvokeIds \cup {NoId}] /\ n = number /\ late = log.late /\ m = [n EXCEPT ![a0] = id]
    BY <1>4
  <2>2. (\A a \in 1 .. MaxCalls : a >= a0 => n[a] = NoId) /\ late \subseteq 1 .. MaxCalls
    BY <1>4, <1>5, <2>1
  <2>3. Renumbered(n, m, a0, id, late)
    BY <1>2, <1>4, <2>1, <2>2, NewNumber
  <2>4. m = more
    BY <2>1 DEF more
  <2> QED BY <2>1, <2>3, <2>4 DEF Renumbered
<1>7. \A a : Toward("Client", a) \/ Toward("Server", a) => a \in 1 .. MaxCalls /\ a < a0
  <2> TAKE a
  <2> HAVE Toward("Client", a) \/ Toward("Server", a)
  <2>1. a \in 1 .. MaxCalls /\ a <= client.asked
    BY <1>1, NothingAhead
  <2> QED BY <1>2, <1>4, <2>1
<1>8. ~(a0 < a0)
  BY <1>2
<1>9. Singly'
  <2>1. open'["Server"] => \A a \in 1 .. MaxCalls : ~(Toward("Server", a)' /\ Toward("Client", a)')
    <3>1. open["Server"] => \A a \in 1 .. MaxCalls : ~(Toward("Server", a) /\ Toward("Client", a))
      BY <1>1 DEF Singly
    <3> QED BY <1>2, <1>3, <1>7, <1>8, <3>1
  <2>2. ASSUME open["Client"], NEW a \in 1 .. MaxCalls, Toward("Client", a) \/ (open["Server"] /\ Toward("Server", a))
        PROVE  Early(more, log.late, a) \/ (more[a] \in Outstanding(d) \cup {id} /\ Newest(more, a))
    <3>1. Early(number, log.late, a) \/ (number[a] \in Outstanding(d) /\ Newest(number, a))
      BY <1>1, <1>2, <2>2 DEF Singly, number
    <3>2. a < a0
      BY <1>7, <2>2
    <3> QED BY <1>2, <1>6, <3>1, <3>2
  <2>3. open["Client"] =>
            \A a \in 1 .. MaxCalls :
                Toward("Client", a)' \/ (open["Server"] /\ Toward("Server", a)') =>
                    Early(more, log.late, a) \/ (more[a] \in Outstanding(d) \cup {id} /\ Newest(more, a))
    BY <1>3, <1>6, <2>2
  <2>4. (open["Client"] /\ end["Client"].state # "Closed" =>
            \A a \in 1 .. MaxCalls :
                Toward("Client", a) \/ (open["Server"] /\ Toward("Server", a)) =>
                    \/ Early(log.number, log.late, a)
                    \/ log.number[a] \in Outstanding(end["Client"]) /\ Newest(log.number, a))'
    BY <1>2, <1>3, <2>3
  <2>5. \A i \in DOMAIN end'["Client"].events :
            end'["Client"].events[i].k = "Response" => end'["Client"].events[i].pdu.says \in log'.late
    BY <1>1, <1>2, <1>3 DEF Singly
  <2> QED BY <1>3, <2>1, <2>4, <2>5 DEF Singly
<1>10. OwnAnswer'
  BY <1>2 DEF OwnAnswer
<1>11. SlotIsOwed'
  <2>1. CallOf(id)' = a0
    <3>1. Latest({a \in 1 .. MaxCalls : more[a] = more[a0]}) = a0
      BY <1>2, <1>4, <1>6, NewestIsLatest
    <3> QED BY <1>2, <1>6, <3>1 DEF CallOf
  <2>2. \A i \in InvokeIds : i # id => CallOf(i)' = CallOf(i)
    BY <1>2, <1>6 DEF CallOf, number
  <2>3. ASSUME open["Client"], open["Server"], NEW i \in Outstanding(d) \cup {id}
        PROVE  \E a : a = CallOf(i)' /\ (Under(a)' \/ a \in log'.unanswered)
    <3>1. CASE i = id
      BY <1>3, <2>1, <2>3, <3>1, UnderNext
    <3>2. CASE i # id
      <4>1. i \in Outstanding(d) /\ i \in InvokeIds
        BY <1>1, <2>3, <3>2, CallOfIs
      <4>2. PICK a : a = CallOf(i)
        OBVIOUS
      <4>3. a = CallOf(i)'
        BY <2>2, <3>2, <4>1, <4>2
      <4>4. Toward("Client", a) \/ Toward("Server", a) \/ a \in log.unanswered
        BY <1>1, <1>2, <2>3, <4>1, <4>2, SlotTo
      <4>5. Under(a)' \/ a \in log'.unanswered
        BY <1>2, <1>3, <4>4, UnderNext
      <4> QED BY <4>3, <4>5
    <3> QED BY <3>1, <3>2
  <2>4. open'["Client"] /\ open'["Server"] =>
            \A i \in Outstanding(end'["Client"]) : Under(CallOf(i))' \/ CallOf(i)' \in log'.unanswered
    <3>1. open["Client"] /\ open["Server"] =>
              \A i \in Outstanding(end'["Client"]) : \E a : a = CallOf(i)' /\ (Under(a)' \/ a \in log'.unanswered)
      BY <1>3, <2>3
    <3> QED BY <1>2, <3>1 DEF Under
  <2> QED BY <2>4 DEF SlotIsOwed
<1> QED BY <1>9, <1>10, <1>11

LEMMA StartCallOwns ==
    ASSUME Whose, StartCall
    PROVE  Singly' /\ OwnAnswer' /\ SlotIsOwed'
<1>1. Agreement /\ Singly
  BY DEF Whose
<1>2. PICK size, g, e : size \in RequestSizes /\ g \in Histories /\ Starts(size, g, e)
  BY <1>1, StartCallIs
<1>3. CASE MaySend(end["Client"], size)
  BY <1>1, <1>2, <1>3, StartCallBegins, BeginsOwns
<1>4. CASE ~MaySend(end["Client"], size)
  <2>1. /\ end["Client"].state = "Established" /\ ClientFits(g, e) /\ e.state = "Established"
        /\ e.parts = end["Client"].parts /\ e.events = end["Client"].events /\ Turn("Client", e, 0)
        /\ log'.number = log.number /\ log'.late = log.late /\ log'.unanswered = log.unanswered
        /\ client'.last = 0 /\ open' = open
        /\ e.out = <<>> /\ Outstanding(e) = Outstanding(end["Client"])
    BY <1>2, <1>4 DEF Starts
  <2>2. Good(e)
    BY <2>1 DEF ClientFits
  <2>3. \A a : ~Within(e.out, a)
    BY <2>1 DEF Within
  <2> QED BY <2>1, <2>2, <2>3, QuietWriteOwns
<1> QED BY <1>3, <1>4

LEMMA WhoseKept ==
    ASSUME Whose, [Next]_vars
    PROVE  Whose'
<1>1. Agreement'
  BY AgreementKept DEF Whose
<1>2. Singly' /\ OwnAnswer' /\ SlotIsOwed'
  <2>1. CASE Next
    BY <2>1, ClientHearsOwns, ClientEofOwns, StartCallOwns, QuietStepsOwn, ClientReleasesOwns, ServerHearsOwns DEF Next
  <2>2. CASE UNCHANGED vars
    BY <2>2, QuietStepsOwn
  <2> QED BY <2>1, <2>2
<1> QED BY <1>1, <1>2 DEF Whose

LEMMA WhoseInitially ==
    ASSUME Init
    PROVE  Whose
<1>1. Agreement
  BY AgreementInitially
<1>2. client.asked = 0 /\ client.last = 0
  BY DEF Init
<1>3. PICK h \in Histories : h = History
  BY <1>1, HistoryOf
<1>4. ClientFits(h, end["Client"]) /\ h.asked = 0
  BY <1>1, <1>2, <1>3, HistoryOf
<1>5. \A a : ~Toward("Client", a) /\ ~Toward("Server", a)
  <2> SUFFICES ASSUME NEW a, Toward("Client", a) \/ Toward("Server", a) PROVE FALSE
    OBVIOUS
  <2>1. a \in 1 .. MaxCalls /\ a <= 0
    BY <1>1, <1>2, NothingAhead
  <2> QED BY <2>1
<1>6. Outstanding(end["Client"]) = {}
  BY <1>4 DEF ClientFits
<1>7. \A i \in DOMAIN end["Client"].events : end["Client"].events[i].k # "Response"
  BY <1>4 DEF ClientFits, Heeded, Called
<1>8. Once(wire["Server"]) /\ Once(wire["Client"])
  BY <1>5 DEF Toward, Within, Once
<1>9. Singly
  BY <1>5, <1>7, <1>8 DEF Singly
<1>10. OwnAnswer /\ SlotIsOwed
  BY <1>2, <1>6 DEF OwnAnswer, SlotIsOwed
<1> QED BY <1>1, <1>9, <1>10 DEF Whose

\* What answer_associate grants and on_session_accept takes binds both ends; a
\* call of the client gets the answer serve wrote to it, unless the identifier
\* take_invoke_id gave it had come free while an older answer was still due;
\* and, while both are there, a slot of the budget is held only by a request
\* whose answer is to come or that serve has dropped.
THEOREM CallsKept == Spec => []CallsKeepTheTerms
<1>1. Init => Whose
  BY WhoseInitially
<1>2. Whose /\ [Next]_vars => Whose'
  BY WhoseKept
<1>3. Whose => CallsKeepTheTerms
  BY AgreementGivesTerms DEF Whose, CallsKeepTheTerms
<1> QED BY <1>1, <1>2, <1>3, PTL DEF Spec
=============================================================================
