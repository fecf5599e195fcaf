---------------------------- MODULE AssociationEnd ---------------------------
(***************************************************************************)
(* One end of an association that is used as the code allows, by a peer    *)
(* that sends whatever decodes and what does not (proto/mms/               *)
(* association.rs).  An event is taken and a TPDU written as soon, or as   *)
(* late, as the layer above likes.                                         *)
(***************************************************************************)
EXTENDS Association

CONSTANTS
    Cfgs,     \* the configurations
    Sizes,    \* octets of what either side sends
    Peers     \* the TPDUs the peer may send

\* A budget is an octet, an identifier a number of 32 bits.
ASSUME EndAssumption ==
    /\ Cfgs \subseteq Configs /\ Sizes \subseteq Nat /\ Peers \subseteq Tpdus
    /\ \A cfg \in Cfgs : cfg.budget <= MaxInvoke

VARIABLE e

Init == \E cfg \in Cfgs, r \in Roles : e = New(cfg, r)

Starts == e' = Start(e)
Calls == \E size \in Sizes, says \in Payloads : e' = Call(e, size, says)
Sends == \E size \in Sizes, says \in Payloads, id \in InvokeIds : e' = Send(e, Pdu("Response", id, size, says))
Cancels == \E id \in InvokeIds : e' = Cancel(e, id)
Releases == e' = Release(e)
Aborts == e' = Abort(e)
Receives == e.state # "Closed" /\ \E d \in Peers : e' = OnTpdu(e, d)
TimePasses == \E late \in BOOLEAN, n \in 0 .. Len(e.outstanding) : e' = OnTimeout(e, late, n)
Polls == e.events # <<>> /\ e' = [e EXCEPT !.events = Tail(@)]
Writes == e.out # <<>> /\ e' = [e EXCEPT !.out = Tail(@)]

Next == Starts \/ Calls \/ Sends \/ Cancels \/ Releases \/ Aborts \/ Receives \/ TimePasses \/ Polls \/ Writes

Spec == Init /\ [][Next]_e

-----------------------------------------------------------------------------

TypeOK == e \in Ends

\* No two requests that wait for an answer have the same identifier, also
\* after the identifiers have wrapped (take_invoke_id): an answer names one
\* call.  There are never more of them than this end was configured for.
OneNumberEach ==
    /\ \A i, j \in DOMAIN e.outstanding : e.outstanding[i] = e.outstanding[j] => i = j
    /\ Len(e.outstanding) <= e.cfg.budget

\* The events by which a request that waited is over.
Telling(id) == {ev \in {e.events[i] : i \in DOMAIN e.events} :
                   ev.k = "Closed" \/ (ev.id = id /\ ev.k \in {"Response", "Rejected", "Cancelled", "Malformed", "Timeout"})}

\* A request does not just vanish: when one stops waiting, an event that says
\* so is there for the layer above, unless younger ones filled the queue.
ToldWhenOver ==
    [][\A id \in Outstanding(e) \ {e'.outstanding[i] : i \in DOMAIN e'.outstanding} :
          Telling(id)' # {} \/ Len(e'.events) = Most(1, Capacity)]_e

Polled(p, q) == q = p \/ (p # <<>> /\ q = Tail(p))

\* After its Closed event an association says nothing and sends nothing: no
\* timeout of a request that went with it, no answer to what still arrives.
QuietWhenClosed ==
    [][e.state = "Closed" =>
          /\ e'.state = "Closed"
          /\ e'.outstanding = <<>> /\ ~e'.armed
          /\ Polled(e.events, e'.events) /\ Polled(e.out, e'.out)]_e

\* How an association ends, for one request or for all: heard once, then never
\* again.
EndsAreHeard == ToldWhenOver /\ QuietWhenClosed
=============================================================================
