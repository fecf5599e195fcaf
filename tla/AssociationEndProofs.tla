-------------------------- MODULE AssociationEndProofs ------------------------
(***************************************************************************)
(* Theorems about AssociationEnd, for every set of configurations, every    *)
(* peer and every size of the event queue.                                  *)
(***************************************************************************)
EXTENDS AssociationEnd, AssociationProofs

IInv == Good(e)

LEMMA EndInit == Init => IInv
BY EndAssumption, NewGood DEF Init, IInv

LEMMA PollsFine == Good(e) /\ Polls => Fine(e, e')
<1> SUFFICES ASSUME Good(e), Polls PROVE Fine(e, e')
  OBVIOUS
<1> DEFINE x == [e EXCEPT !.events = Tail(e.events)]
<1>1. e \in Ends /\ e' = x
  BY DEF Good, Polls
<1>2. Tail(e.events) \in Seq(Events)
  BY <1>1 DEF Polls, Ends
<1>3. x \in Ends
  BY <1>1, <1>2 DEF Ends
<1>4. /\ x.cfg = e.cfg /\ x.state = e.state /\ x.outstanding = e.outstanding
      /\ x.terms = e.terms /\ x.armed = e.armed
  BY <1>1 DEF Ends
<1> HIDE DEF x
<1>5. Kept(e, x)
  BY <1>3, <1>4 DEF Kept, Good, Numbers
<1> QED BY <1>1, <1>5, KeptIsFine

LEMMA WritesFine == Good(e) /\ Writes => Fine(e, e')
<1> SUFFICES ASSUME Good(e), Writes PROVE Fine(e, e')
  OBVIOUS
<1> DEFINE x == [e EXCEPT !.out = Tail(e.out)]
<1>1. e \in Ends /\ e' = x
  BY DEF Good, Writes
<1>2. Tail(e.out) \in Seq(Tpdus)
  BY <1>1 DEF Writes, Ends
<1>3. x \in Ends
  BY <1>1, <1>2 DEF Ends
<1>4. /\ x.cfg = e.cfg /\ x.state = e.state /\ x.outstanding = e.outstanding
      /\ x.terms = e.terms /\ x.armed = e.armed
  BY <1>1 DEF Ends
<1> HIDE DEF x
<1>5. Kept(e, x)
  BY <1>3, <1>4 DEF Kept, Good, Numbers
<1> QED BY <1>1, <1>5, KeptIsFine

LEMMA NextFine == IInv /\ Next => Fine(e, e')
<1> SUFFICES ASSUME Good(e), Next PROVE Fine(e, e')
  BY DEF IInv
<1>1. CASE Starts
  BY <1>1, StartFine DEF Starts
<1>2. CASE Calls
  <2>1. PICK size \in Sizes, says \in Payloads : e' = Call(e, size, says)
    BY <1>2 DEF Calls
  <2>2. size \in Nat
    BY EndAssumption
  <2> QED BY <2>1, <2>2, CallFine
<1>3. CASE Sends
  <2>1. PICK size \in Sizes, says \in Payloads, id \in InvokeIds : e' = Send(e, Pdu("Response", id, size, says))
    BY <1>3 DEF Sends
  <2>2. size \in Nat
    BY EndAssumption
  <2>3. Pdu("Response", id, size, says) \in Pdus
    BY <2>2, PduType DEF PduKinds
  <2> QED BY <2>1, <2>3, SendKeeps, KeptIsFine
<1>4. CASE Cancels
  BY <1>4, CancelFine DEF Cancels
<1>5. CASE Releases
  BY <1>5, ReleaseFine DEF Releases
<1>6. CASE Aborts
  BY <1>6, AbortFine DEF Aborts
<1>7. CASE Receives
  <2>1. PICK d \in Peers : e' = OnTpdu(e, d)
    BY <1>7 DEF Receives
  <2>2. d \in Tpdus
    BY EndAssumption
  <2> QED BY <2>1, <2>2, OnTpduFine
<1>8. CASE TimePasses
  BY <1>8, OnTimeoutFine DEF TimePasses
<1>9. CASE Polls
  BY <1>9, PollsFine
<1>10. CASE Writes
  BY <1>10, WritesFine
<1> QED BY <1>1, <1>2, <1>3, <1>4, <1>5, <1>6, <1>7, <1>8, <1>9, <1>10 DEF Next

LEMMA EndStep == IInv /\ [Next]_e => IInv'
<1>1. IInv /\ Next => IInv'
  BY NextFine DEF Fine, IInv
<1>2. IInv /\ e' = e => IInv'
  BY DEF IInv
<1> QED BY <1>1, <1>2

\* An end is of its types whatever the peer sends: no event or TPDU the code
\* makes is malformed.
THEOREM EndIsWellTyped == Spec => []TypeOK
<1>1. IInv => TypeOK
  BY DEF IInv, Good, TypeOK
<1> QED BY EndInit, EndStep, <1>1, PTL DEF Spec

\* The identifiers of the requests that wait are told apart, for every number
\* of identifiers above the budget, and never more than the budget
\* (take_invoke_id and call).
THEOREM OneNumberEachAlways == Spec => []OneNumberEach
<1>1. IInv => OneNumberEach
  BY DEF IInv, Good, Numbers, OneNumberEach
<1> QED BY EndInit, EndStep, <1>1, PTL DEF Spec

LEMMA ToldStep ==
    IInv /\ [Next]_e =>
        [\A id \in Outstanding(e) \ {e'.outstanding[i] : i \in DOMAIN e'.outstanding} :
            Telling(id)' # {} \/ Len(e'.events) = Most(1, Capacity)]_e
<1> SUFFICES ASSUME IInv, Next
             PROVE  \A id \in Outstanding(e) \ {e'.outstanding[i] : i \in DOMAIN e'.outstanding} :
                        Telling(id)' # {} \/ Len(e'.events) = Most(1, Capacity)
  OBVIOUS
<1>1. Told(e, e')
  BY NextFine DEF Fine
<1> TAKE id \in Outstanding(e) \ {e'.outstanding[i] : i \in DOMAIN e'.outstanding}
<1>2. id \in Outstanding(e) \ Outstanding(e')
  BY DEF Outstanding
<1>3. CASE Len(e'.events) = Most(1, Capacity)
  BY <1>3
<1>4. CASE Len(e'.events) # Most(1, Capacity)
  <2>1. PICK i \in DOMAIN e'.events : Over(e'.events[i], id)
    BY <1>1, <1>2, <1>4 DEF Told
  <2>2. e'.events[i] \in Telling(id)'
    BY <2>1 DEF Telling, Over
  <2> QED BY <2>2
<1> QED BY <1>3, <1>4

LEMMA QuietStep ==
    IInv /\ [Next]_e =>
        [e.state = "Closed" =>
            /\ e'.state = "Closed"
            /\ e'.outstanding = <<>> /\ ~e'.armed
            /\ Polled(e.events, e'.events) /\ Polled(e.out, e'.out)]_e
<1> SUFFICES ASSUME IInv, Next, e.state = "Closed"
             PROVE  /\ e'.state = "Closed"
                    /\ e'.outstanding = <<>> /\ ~e'.armed
                    /\ Polled(e.events, e'.events) /\ Polled(e.out, e'.out)
  OBVIOUS
<1>1. e \in Ends /\ e.outstanding = <<>> /\ ~e.armed /\ Outstanding(e) = {} /\ Len(e.outstanding) = 0
  BY EmptySeq DEF IInv, Good, Outstanding
<1>2. e' = e => e'.outstanding = <<>> /\ ~e'.armed /\ Polled(e.events, e'.events) /\ Polled(e.out, e'.out)
  BY <1>1 DEF Polled
<1>3. CASE Starts \/ Calls \/ Sends \/ Cancels \/ Releases \/ Aborts \/ TimePasses
  <2> SUFFICES e' = e
    BY <1>2
  <2>1. CASE Starts
    BY <2>1 DEF Starts, Start
  <2>2. CASE Calls
    BY <2>2 DEF Calls, Call, MayCall
  <2>3. CASE Sends
    BY <2>3 DEF Sends, Send, MaySend
  <2>4. CASE Cancels
    BY <2>4, <1>1 DEF Cancels, Cancel
  <2>5. CASE Releases
    BY <2>5 DEF Releases, Release
  <2>6. CASE Aborts
    BY <2>6 DEF Aborts, Abort
  <2>7. CASE TimePasses
    <3>1. PICK late \in BOOLEAN, n \in 0 .. Len(e.outstanding) : e' = OnTimeout(e, late, n)
      BY <2>7 DEF TimePasses
    <3>2. n = 0
      BY <1>1
    <3> QED BY <3>1, <3>2, <1>1 DEF OnTimeout, Expire
  <2> QED BY <1>3, <2>1, <2>2, <2>3, <2>4, <2>5, <2>6, <2>7
<1>4. CASE Receives
  BY <1>4 DEF Receives
<1>5. CASE Polls
  <2>1. e' = [e EXCEPT !.events = Tail(e.events)] /\ e.events # <<>>
    BY <1>5 DEF Polls
  <2>2. /\ e'.state = e.state /\ e'.outstanding = e.outstanding /\ e'.armed = e.armed
        /\ e'.events = Tail(e.events) /\ e'.out = e.out
    BY <1>1, <2>1 DEF Ends
  <2> QED BY <1>1, <2>1, <2>2 DEF Polled
<1>6. CASE Writes
  <2>1. e' = [e EXCEPT !.out = Tail(e.out)] /\ e.out # <<>>
    BY <1>6 DEF Writes
  <2>2. /\ e'.state = e.state /\ e'.outstanding = e.outstanding /\ e'.armed = e.armed
        /\ e'.events = e.events /\ e'.out = Tail(e.out)
    BY <1>1, <2>1 DEF Ends
  <2> QED BY <1>1, <2>1, <2>2 DEF Polled
<1> QED BY <1>3, <1>4, <1>5, <1>6 DEF Next

\* However an association and its requests end - answered, rejected, cancelled,
\* timed out, released, aborted by either side, or by octets that do not decode -
\* an event says so unless younger ones crowd it out, and after Closed there is
\* nothing more.
THEOREM EndsAreAlwaysHeard == Spec => EndsAreHeard
<1>1. Spec => ToldWhenOver
  BY EndInit, EndStep, ToldStep, PTL DEF Spec, ToldWhenOver
<1>2. Spec => QuietWhenClosed
  BY EndInit, EndStep, QuietStep, PTL DEF Spec, QuietWhenClosed
<1> QED BY <1>1, <1>2, PTL DEF EndsAreHeard
=============================================================================
