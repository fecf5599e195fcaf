----------------------------- MODULE Association -----------------------------
(***************************************************************************)
(* One end of an MMS association (proto/mms/association.rs): the transport *)
(* connection of proto/osi/cotp.rs, the handshake of the layers above it,  *)
(* confirmed requests by invoke identifier, release, abort and timeouts.   *)
(*                                                                         *)
(* The end is a sans-io machine.  An operation takes it, a record, and     *)
(* returns the record it leaves: TPDUs to write are in `out`, events for   *)
(* the layer above in `events`.  Time is what the caller says it is: a     *)
(* deadline is armed or not, and the caller says which have passed.        *)
(***************************************************************************)
EXTENDS Integers, Sequences, FiniteSets, SequencesExt

CONSTANTS
    MaxInvoke,   \* the last invoke identifier before they wrap, u32::MAX
    MaxTsdu,     \* AssociationConfig::max_tsdu
    Capacity,    \* AssociationConfig::event_capacity
    Payloads     \* what a PDU carries, as far as anybody compares it

ASSUME AssociationAssumption ==
    /\ MaxInvoke \in Nat \ {0} /\ MaxTsdu \in Nat \ {0} /\ Capacity \in Nat
    /\ Payloads # {}

Roles == {"Client", "Server"}
States == {"Idle", "Connecting", "Associating", "Established", "Releasing", "Closed"}
InvokeIds == 1 .. MaxInvoke
NoId == 0
Reasons == {"Released", "PeerReleased", "Aborted", "ConnectTimeout", "Refused", "ProtocolError"}

\* AssociationConfig.  A timeout is set or 0; budgets above 0.
Configs == [maxPdu : Nat \ {0}, exp : Nat, budget : Nat \ {0}, connect : BOOLEAN, request : BOOLEAN]

-----------------------------------------------------------------------------
(* What is on the wire.                                                    *)

PduKinds == {"Request", "Response", "Unconfirmed", "Reject", "CancelRequest", "CancelResponse",
             "CancelError", "ConcludeRequest", "ConcludeResponse", "Bad"}

\* An MMS PDU: the identifier it names, if it names one, its octets, and what
\* it says.  A confirmed error is a Response; Bad does not decode.
Pdus == [k : PduKinds, id : InvokeIds \cup {NoId}, size : Nat, says : Payloads]

Pdu(k, id, size, says) == [k |-> k, id |-> id, size |-> size, says |-> says]

\* The parameters of an Initiate that are negotiated; `pdu` is 0 when
\* localDetail is absent.
Initiates == [pdu : Nat, calling : Nat, called : Nat]
NoInitiate == [pdu |-> 0, calling |-> 0, called |-> 0]

SpduKinds == {"Connect", "Accept", "Refuse", "Data", "Finish", "Disconnect", "Abort", "Other", "Bad"}

\* How far the presentation, ACSE and MMS layers inside an SPDU decode: the
\* PDU that belongs there, one that refuses, one of another kind, one with a
\* layer missing; and for Data the APDU or the MMS PDU in it.
Insides == {"initiate", "refused", "wrong", "missing", "Release", "ReleaseResponse", "AbortApdu", "otherApdu", "mms"}

NoPdu == [k |-> "Bad", id |-> NoId, size |-> 0, says |-> CHOOSE p \in Payloads : TRUE]

Tsdus == [spdu : SpduKinds, inside : Insides, init : Initiates, mms : Pdus, size : Nat]

\* Octets of an associate request or answer and of a release: the layers' own
\* headers are left out of the size of a TSDU that carries an MMS PDU.
AssociateSize == 200
ReleaseSize == 20

Control(spdu, inside) == [spdu |-> spdu, inside |-> inside, init |-> NoInitiate, mms |-> NoPdu, size |-> ReleaseSize]
Associate(spdu, init) == [spdu |-> spdu, inside |-> "initiate", init |-> init, mms |-> NoPdu, size |-> AssociateSize]
UserData(p) == [spdu |-> "Data", inside |-> "mms", init |-> NoInitiate, mms |-> p, size |-> p.size]

TpduKinds == {"CR", "CC", "DR", "DT", "Other", "Bad"}
NoTsdu == Control("Bad", "missing")

\* A TPDU.  `exp` is the proposed TPDU size of a CR or CC, 0 when absent; a DT
\* is the `at`-th piece of a TSDU, `len` octets of it.
Tpdus == [k : TpduKinds, exp : Nat, of : Tsdus, at : Int, len : Int, eot : BOOLEAN]

Transport(k, exp) == [k |-> k, exp |-> exp, of |-> NoTsdu, at |-> 0, len |-> 0, eot |-> TRUE]

TpduSizeMinExp == 7
TpduSizeMaxExp == 13

Least(a, b) == IF a < b THEN a ELSE b
Most(a, b) == IF a < b THEN b ELSE a

\* tpdu_size, less the three octets of the DT header.
Room == <<128, 256, 512, 1024, 2048, 4096, 8192>>
TpduData(exp) == Room[Least(Most(exp, TpduSizeMinExp), TpduSizeMaxExp) - 6] - 3

\* send_tsdu: one DT per chunk, the last one, which may be empty, ends it.
Pieces(size, chunk) == Most(1, (size + chunk - 1) \div chunk)
Segments(t, chunk) ==
    LET n == Pieces(t.size, chunk)
    IN  [i \in 1 .. n |->
            [k |-> "DT", exp |-> 0, of |-> t, at |-> i,
             len |-> IF i < n THEN chunk ELSE t.size - (n - 1) * chunk, eot |-> i = n]]

-----------------------------------------------------------------------------
(* The end.                                                                *)

EventKinds == {"Established", "Refused", "Response", "Request", "Cancelled", "CancelRefused",
               "Unconfirmed", "Malformed", "Rejected", "Timeout", "Closed"}
\* `why` is the reason of a Closed, and otherwise "none".
Events == [k : EventKinds, id : InvokeIds \cup {NoId}, pdu : Pdus, why : Reasons \cup {"none"}]

Event(k, id) == [k |-> k, id |-> id, pdu |-> NoPdu, why |-> "none"]
Carrying(k, p) == [k |-> k, id |-> p.id, pdu |-> p, why |-> "none"]

\* Negotiated; `budget` 0 before there is an agreement.
Terms == [maxPdu : Nat, budget : Nat]
NoTerms == [maxPdu |-> 0, budget |-> 0]

\* `outstanding` is in the order of the calls, which is that of their deadlines.
Ends == [cfg : Configs, role : Roles, state : States, chunk : Nat \ {0}, peerMaxPdu : Nat,
         out : Seq(Tpdus), events : Seq(Events), outstanding : Seq(InvokeIds), next : InvokeIds,
         terms : Terms, armed : BOOLEAN, parts : Seq(Tpdus)]

New(cfg, role) ==
    [cfg |-> cfg, role |-> role, state |-> "Idle", chunk |-> TpduData(cfg.exp), peerMaxPdu |-> 0,
     out |-> <<>>, events |-> <<>>, outstanding |-> <<>>, next |-> 1,
     terms |-> NoTerms, armed |-> FALSE, parts |-> <<>>]

\* EventQueue::push: a full queue drops its oldest event.
Pushed(q, ev) == Append(IF Len(q) >= Most(1, Capacity) THEN Tail(q) ELSE q, ev)

\* What a queue keeps of events pushed one after another.
LastOf(q) == SubSeq(q, Most(0, Len(q) - Most(1, Capacity)) + 1, Len(q))

Emit(e, ev) == [e EXCEPT !.events = Pushed(@, ev)]

\* Mutant: a request that is waiting survives the close.
CloseKeeping(e, why) ==
    IF e.state = "Closed" THEN e
    ELSE Emit([e EXCEPT !.state = "Closed", !.armed = FALSE, !.parts = <<>>],
              [k |-> "Closed", id |-> NoId, pdu |-> NoPdu, why |-> why])

Close(e, why) ==
    IF e.state = "Closed" THEN e
    ELSE Emit([e EXCEPT !.state = "Closed", !.armed = FALSE, !.outstanding = <<>>, !.parts = <<>>],
              [k |-> "Closed", id |-> NoId, pdu |-> NoPdu, why |-> why])

\* An error inside on_tpdu.
Fail(e) == Close(Emit(e, Event("Malformed", NoId)), "ProtocolError")

Queue(e, tpdus) == [e EXCEPT !.out = @ \o tpdus]
SendTsdu(e, t) == Queue(e, Segments(t, e.chunk))
SendUnchecked(e, p) == SendTsdu(e, UserData(p))

Established(e, terms) == Emit([e EXCEPT !.state = "Established", !.armed = FALSE, !.terms = terms], Event("Established", NoId))

Outstanding(e) == {e.outstanding[i] : i \in DOMAIN e.outstanding}
Place(e, id) == CHOOSE i \in DOMAIN e.outstanding : e.outstanding[i] = id
Settled(e, id) ==
    IF id \in Outstanding(e) THEN [e EXCEPT !.outstanding = RemoveAt(@, Place(e, id))] ELSE e

-----------------------------------------------------------------------------
(* What the layer above asks for.                                          *)

Start(e) ==
    IF e.role # "Client" \/ e.state # "Idle" THEN e
    ELSE [Queue(e, <<Transport("CR", e.cfg.exp)>>) EXCEPT !.state = "Connecting", !.armed = e.cfg.connect]

MaySend(e, size) == e.state = "Established" /\ (e.peerMaxPdu = 0 \/ size <= e.peerMaxPdu)

\* send, send_encoded and respond: an error, and nothing sent, when it may not.
Send(e, p) == IF MaySend(e, p.size) THEN SendTsdu(e, UserData(p)) ELSE e

\* take_invoke_id: the next identifier that no outstanding request has.
Successor(id) == IF id >= MaxInvoke THEN 1 ELSE id + 1
Candidate(e, k) == IF e.next + k > MaxInvoke THEN e.next + k - MaxInvoke ELSE e.next + k
Free(e) == {k \in 0 .. Len(e.outstanding) : Candidate(e, k) \notin Outstanding(e)}
Skipped(e) == CHOOSE k \in Free(e) : \A j \in Free(e) : k <= j

\* Mutant: the number after a wrap is taken though a request still has it.
TakenAnyway(e) == e.next

Taken(e) == IF Free(e) = {} THEN e.next ELSE Candidate(e, Skipped(e))

MayCall(e) == e.state = "Established" /\ Len(e.outstanding) < e.terms.budget

\* call: the identifier is taken before the size is checked, and not given back.
Call(e, size, says) ==
    IF ~MayCall(e) THEN e
    ELSE LET id == Taken(e)
             moved == [e EXCEPT !.next = Successor(id)]
         IN  IF MaySend(e, size)
             THEN [Send(moved, Pdu("Request", id, size, says)) EXCEPT !.outstanding = Append(@, id)]
             ELSE moved

Cancel(e, id) == IF id \in Outstanding(e) THEN Send(e, Pdu("CancelRequest", id, 10, NoPdu.says)) ELSE e

Release(e) ==
    IF e.state # "Established" THEN e
    ELSE [SendTsdu(e, Control("Finish", "Release")) EXCEPT !.state = "Releasing", !.armed = TRUE]

Abort(e) == IF e.state = "Closed" THEN e ELSE Close(Queue(e, <<Transport("DR", 0)>>), "Aborted")

\* on_timeout; `late` when the connect deadline has passed, and the first `n`
\* requests have waited too long.  The code expires those in the order of their
\* identifiers, which differs from that of the calls across a wrap.
\* Mutant: the slots are released and nobody is told.
ExpireQuietly(e, n) ==
    IF ~e.cfg.request THEN e ELSE [e EXCEPT !.outstanding = SubSeq(@, n + 1, Len(@))]

Expire(e, n) ==
    IF ~e.cfg.request \/ n = 0 THEN e
    ELSE [e EXCEPT !.outstanding = SubSeq(@, n + 1, Len(@)),
                   !.events = LastOf(@ \o [i \in 1 .. n |-> Event("Timeout", e.outstanding[i])])]

OnTimeout(e, late, n) ==
    IF e.armed /\ late /\ e.state = "Releasing" THEN Close(e, "Released")
    ELSE IF e.armed /\ late /\ e.state \notin {"Established", "Closed"} THEN Close(e, "ConnectTimeout")
    ELSE Expire(e, n)

-----------------------------------------------------------------------------
(* What the peer sends.                                                    *)

\* The client's proposal and the server's answer to it.
Proposal(cfg) == [pdu |-> cfg.maxPdu, calling |-> cfg.budget, called |-> cfg.budget]

Answer(cfg, init) ==
    [pdu |-> IF init.pdu = 0 THEN cfg.maxPdu ELSE Least(cfg.maxPdu, init.pdu),
     calling |-> Least(cfg.budget, Most(init.calling, 1)),
     called |-> Least(cfg.budget, Most(init.called, 1))]

Clamp(n, lo, hi) == Least(Most(n, lo), hi)
Agreed(e, init, mine) ==
    [maxPdu |-> IF init.pdu = 0 THEN e.cfg.maxPdu ELSE init.pdu, budget |-> Clamp(mine, 1, e.cfg.budget)]

\* Class 0 negotiates the TPDU size down, and 128 octets where none is named.
SizeExp(e, exp) == Least(IF exp = 0 THEN TpduSizeMinExp ELSE exp, e.cfg.exp)

OnConnectionRequest(e, exp) ==
    IF e.role # "Server" THEN Close(e, "ProtocolError")
    ELSE LET x == SizeExp(e, exp)
         IN  [Queue(e, <<Transport("CC", x)>>) EXCEPT
                !.chunk = TpduData(x), !.state = "Associating", !.armed = e.cfg.connect \/ @]

OnConnectionConfirm(e, exp) ==
    IF e.role # "Client" \/ e.state # "Connecting" THEN Close(e, "ProtocolError")
    ELSE SendTsdu([e EXCEPT !.chunk = TpduData(SizeExp(e, exp)), !.state = "Associating"],
                  Associate("Connect", Proposal(e.cfg)))

OnSessionConnect(e, t) ==
    IF e.role # "Server" \/ t.inside \notin {"initiate", "missing"} THEN Close(e, "ProtocolError")
    ELSE IF t.inside = "missing" THEN Fail(e)
    ELSE Established(SendTsdu([e EXCEPT !.peerMaxPdu = t.init.pdu], Associate("Accept", Answer(e.cfg, t.init))),
                     Agreed(e, t.init, t.init.called))

Refused(e) == Close(Emit(e, Event("Refused", NoId)), "Refused")

\* negotiatedMaxServOutstandingCalling is what limits the calling end.
OnSessionAccept(e, t) ==
    IF e.role # "Client" THEN Close(e, "ProtocolError")
    ELSE CASE t.inside = "initiate" -> Established([e EXCEPT !.peerMaxPdu = t.init.pdu], Agreed(e, t.init, t.init.calling))
           [] t.inside = "refused" -> Refused(e)
           [] t.inside = "missing" -> Fail(e)
           [] OTHER -> Close(e, "ProtocolError")

OnPeerFinish(e) == Close(SendTsdu(e, Control("Disconnect", "ReleaseResponse")), "PeerReleased")

\* What an MMS PDU makes of the request it names, and what the application hears.
EndsRequest == {"Response", "Reject", "CancelResponse", "Bad"}
Heard(e, p) ==
    CASE p.k = "Response" -> Carrying("Response", p)
      [] p.k = "Request" -> Carrying("Request", p)
      [] p.k = "Reject" -> Carrying("Rejected", p)
      [] p.k \in {"CancelRequest", "CancelError"} -> Event("CancelRefused", p.id)
      [] p.k = "CancelResponse" -> Event("Cancelled", p.id)
      [] p.k = "Bad" -> Event("Malformed", IF p.id \in Outstanding(e) THEN p.id ELSE NoId)
      [] OTHER -> Carrying("Unconfirmed", p)

DeliverMms(e, p) ==
    CASE p.k = "ConcludeRequest" -> Close(SendUnchecked(e, Pdu("ConcludeResponse", NoId, 2, NoPdu.says)), "PeerReleased")
      [] p.k = "ConcludeResponse" -> Close(e, "Released")
      [] p.k = "CancelRequest" -> Emit(SendUnchecked(e, Pdu("CancelError", p.id, 10, NoPdu.says)), Heard(e, p))
      [] p.k \in EndsRequest -> Emit(Settled(e, p.id), Heard(e, p))
      [] OTHER -> Emit(e, Heard(e, p))

\* A presentation User-data with one value in it.
OnUserData(e, t) ==
    CASE t.inside = "mms" -> DeliverMms(e, t.mms)
      [] t.inside = "Release" -> OnPeerFinish(e)
      [] t.inside = "ReleaseResponse" -> Close(e, "Released")
      [] t.inside = "AbortApdu" -> Close(e, "Aborted")
      [] t.inside = "otherApdu" -> e
      [] t.inside = "missing" -> Fail(e)
      [] OTHER -> Close(e, "ProtocolError")

OnTsdu(e, t) ==
    CASE t.spdu = "Connect" -> OnSessionConnect(e, t)
      [] t.spdu = "Accept" -> OnSessionAccept(e, t)
      [] t.spdu = "Refuse" -> Refused(e)
      [] t.spdu = "Data" -> OnUserData(e, t)
      [] t.spdu = "Finish" -> OnPeerFinish(e)
      [] t.spdu = "Disconnect" -> Close(e, "Released")
      [] t.spdu = "Abort" -> Close(e, "Aborted")
      [] t.spdu = "Other" -> Close(e, "ProtocolError")
      [] t.spdu = "Bad" -> Fail(e)

\* What a row of pieces spells: the TSDU they are of, if they are all of it.
Whole(parts) ==
    LET t == parts[1].of
    IN  IF /\ parts[Len(parts)].eot /\ parts[Len(parts)].at = Len(parts)
           /\ \A i \in DOMAIN parts : parts[i].of = t /\ parts[i].at = i
        THEN t ELSE NoTsdu

Held(parts) == FoldLeft(LAMBDA n, p : n + p.len, 0, parts)

\* Reassembler::push and take.  A TSDU of one piece is never held, nor measured.
OnData(e, d) ==
    LET all == Append(e.parts, d)
    IN  IF ~(e.parts = <<>> /\ d.eot) /\ Held(all) > MaxTsdu THEN Fail(e)
        ELSE IF d.eot THEN OnTsdu([e EXCEPT !.parts = <<>>], Whole(all))
        ELSE [e EXCEPT !.parts = all]

OnTpdu(e, d) ==
    CASE d.k = "CR" -> OnConnectionRequest(e, d.exp)
      [] d.k = "CC" -> OnConnectionConfirm(e, d.exp)
      [] d.k = "DR" -> Close(e, "Aborted")
      [] d.k = "DT" -> OnData(e, d)
      [] d.k = "Other" -> Close(e, "ProtocolError")
      [] d.k = "Bad" -> Fail(e)

\* on_bytes: what a read brought, up to the packet that closes the association.
Fed(d, x) == IF d.state = "Closed" THEN d ELSE OnTpdu(d, x)
OnBytes(e, tpdus) ==
    LET after[n \in 0 .. Len(tpdus)] == IF n = 0 THEN e ELSE Fed(after[n - 1], tpdus[n])
    IN  after[Len(tpdus)]
=============================================================================
