------------------------------ MODULE MmsLink --------------------------------
(***************************************************************************)
(* A blocking client (client/mod.rs) and the thread that serves it         *)
(* (server/net.rs), each with its end of the association, over a TCP       *)
(* connection.                                                             *)
(*                                                                         *)
(* A wire holds the TPDUs written to one end and not yet read; a read      *)
(* brings one or several of them.  Each end is used by one thread, so a    *)
(* turn of a thread - read, handle what was read, write - touches nothing  *)
(* the other sees before it writes, and is one step.                       *)
(***************************************************************************)
EXTENDS Association

CONSTANTS
    ClientConfigs, ServerConfigs, \* the configurations that may meet
    RequestSizes, AnswerSizes,    \* octets of requests, of answers and reports
    MaxCalls,                     \* bound: calls of the client
    MaxReports,                   \* bound: reports of the server
    MaxRead                       \* bound: TPDUs one read brings

ASSUME LinkAssumption ==
    /\ ClientConfigs \subseteq Configs /\ ServerConfigs \subseteq Configs
    /\ \A cfg \in ClientConfigs \cup ServerConfigs : cfg.budget <= MaxInvoke
    /\ RequestSizes \subseteq Nat /\ AnswerSizes \subseteq Nat
    /\ MaxCalls \in Nat /\ MaxReports \in Nat /\ MaxRead \in Nat \ {0}
    /\ 0 .. MaxCalls \subseteq Payloads /\ 0 .. MaxReports \subseteq Payloads

VARIABLES
    end,      \* the association of each side
    wire,     \* what was written to each side and is not yet read
    open,     \* whether a side still holds its socket
    client,   \* what the client is doing
    reports,  \* how many reports the server has published
    log       \* history: the identifier each call was given, the calls that
              \* lost theirs before their answer was taken, and those that the
              \* server's thread answered not

vars == <<end, wire, open, client, reports, log>>

Peer(r) == CHOOSE p \in Roles : p # r

\* `id` and `ask` are of the call in progress; `last` is what the last one
\* returned: the answer's payload, or 0 for an error.
Phases == {"connecting", "idle", "calling", "releasing", "gone"}

Init ==
    /\ \E c \in ClientConfigs, s \in ServerConfigs :
           end = [r \in Roles |-> IF r = "Client" THEN [Start(New(c, r)) EXCEPT !.out = <<>>] ELSE New(s, r)]
    /\ wire = [r \in Roles |-> IF r = "Server" THEN Start(end["Client"]).out \o <<Transport("CR", end["Client"].cfg.exp)>> ELSE <<>>]
    /\ open = [r \in Roles |-> TRUE]
    /\ client = [phase |-> "connecting", id |-> NoId, ask |-> 0, last |-> 0, asked |-> 0]
    /\ reports = 0
    /\ log = [number |-> [a \in 1 .. MaxCalls |-> NoId], late |-> {}, unanswered |-> {}]

\* poll_transmit until nothing is left.
Flushed(e) == [e EXCEPT !.out = <<>>]

\* A turn of side r that leaves it with e: what it queued is written, unless
\* the other side has closed its socket.
Turn(r, e, read) ==
    /\ end' = [end EXCEPT ![r] = Flushed(e)]
    /\ wire' = [wire EXCEPT ![r] = SubSeq(@, read + 1, Len(@)),
                            ![Peer(r)] = IF open[Peer(r)] THEN @ \o e.out ELSE @]

\* The side closes its socket; what it had not read is lost to it.
Left(r) == open' = [open EXCEPT ![r] = FALSE]

Reads(r) == 1 .. Least(MaxRead, Len(wire[r]))
AfterRead(r, n) == OnBytes(end[r], SubSeq(wire[r], 1, n))
AtEnd(r) == wire[r] = <<>> /\ ~open[Peer(r)]

-----------------------------------------------------------------------------
(* The client.                                                             *)

\* take_answer ends at the first event that ends the call or the association.
Fatal(ev) == ev.k \in {"Closed", "Refused"}
EndsCall(ev, id) ==
    \/ Fatal(ev)
    \/ ev.k = "Rejected" /\ ev.id \in {id, NoId}
    \/ ev.k \in {"Timeout", "Cancelled", "Malformed"} /\ ev.id = id
Ending(q, id) == {i \in DOMAIN q : EndsCall(q[i], id)}

\* Mutant: any answer is the answer.
AnsweringAny(q, id) == {i \in DOMAIN q : q[i].k = "Response"}

Answering(q, id) == {i \in DOMAIN q : q[i].k = "Response" /\ q[i].id = id}

First(S) == CHOOSE i \in S : \A j \in S : i <= j
Latest(S) == CHOOSE i \in S : \A j \in S : j <= i

\* The client after draining its events in a call, and the events it left.
TakeAnswer(c, q) ==
    CASE Ending(q, c.id) # {} -> [c EXCEPT !.phase = "idle", !.last = 0]
      [] Ending(q, c.id) = {} /\ Answering(q, c.id) # {} ->
             [c EXCEPT !.phase = "idle", !.last = q[Latest(Answering(q, c.id))].pdu.says]
      [] OTHER -> c
Leaves(c, q) ==
    IF c.phase = "calling" /\ Ending(q, c.id) # {} THEN SubSeq(q, First(Ending(q, c.id)) + 1, Len(q)) ELSE <<>>

\* The calls whose answers are in a queue.
Answers(q) == {q[i].pdu.says : i \in {j \in DOMAIN q : q[j].k = "Response"}}

\* drain_events outside a call; an error while connecting drops the client.
Drained(c, e) ==
    CASE c.phase = "connecting" /\ (\E i \in DOMAIN e.events : Fatal(e.events[i])) -> [c EXCEPT !.phase = "gone"]
      [] c.phase = "connecting" /\ e.state = "Established" -> [c EXCEPT !.phase = "idle"]
      [] c.phase = "releasing" /\ e.state = "Closed" -> [c EXCEPT !.phase = "gone"]
      [] c.phase = "calling" -> TakeAnswer(c, e.events)
      [] OTHER -> c

\* The call that has an identifier now: the last one it was given to.
CallOf(id) == Latest({a \in 1 .. MaxCalls : log.number[a] = id})

\* The client's turn after the association was fed or the requests of some calls
\* timed out.  Their identifiers are free, and so is that of an answer which a
\* call that ends before it leaves in the queue.
ClientTurn(e, read, timedOut) ==
    /\ client' = Drained(client, e)
    /\ Turn("Client", [e EXCEPT !.events = Leaves(client, @)], read)
    /\ log' = [log EXCEPT !.late = @ \cup timedOut \cup Answers(Leaves(client, e.events))]
    /\ IF client'.phase = "gone" THEN Left("Client") ELSE UNCHANGED open
    /\ UNCHANGED reports

ClientRead == open["Client"] /\ \E n \in Reads("Client") : \E e \in {AfterRead("Client", n)} : ClientTurn(e, n, {})

\* read_once brings nothing in time: the association hears that time passed,
\* to the connect deadline or to the deadlines of the first n requests.
ClientHears(late, n) ==
    /\ open["Client"]
    /\ late \/ n > 0
    /\ \E e \in {OnTimeout(end["Client"], late, n)} :
           ClientTurn(e, 0, {CallOf(id) : id \in Outstanding(end["Client"]) \ Outstanding(e)})
ClientWaits == \E late \in BOOLEAN, n \in 0 .. Len(end["Client"].outstanding) : ClientHears(late, n)

\* The peer has closed: read_once aborts the association and fails the call.
ClientEof ==
    /\ open["Client"] /\ AtEnd("Client") /\ end["Client"].state # "Closed"
    /\ end' = [end EXCEPT !["Client"] = Flushed([Abort(@) EXCEPT !.events = <<>>])]
    /\ client' = [client EXCEPT !.phase = IF @ = "calling" THEN "idle" ELSE "gone", !.last = 0]
    /\ IF client'.phase = "gone" THEN Left("Client") ELSE UNCHANGED open
    /\ UNCHANGED <<wire, reports, log>>

\* Client::call: one at a time.
StartCall ==
    /\ client.phase = "idle" /\ client.asked < MaxCalls
    /\ MayCall(end["Client"])
    /\ \E size \in RequestSizes :
           LET e == Call(end["Client"], size, client.asked + 1)
           IN  /\ Turn("Client", e, 0)
               /\ client' = IF MaySend(end["Client"], size)
                            THEN [client EXCEPT !.phase = "calling", !.asked = @ + 1, !.last = 0, !.ask = client.asked + 1,
                                                !.id = Taken(end["Client"])]
                            ELSE [client EXCEPT !.asked = @ + 1, !.last = 0]
               /\ log' = IF MaySend(end["Client"], size)
                         THEN [log EXCEPT !.number[client.asked + 1] = Taken(end["Client"])] ELSE log
    /\ UNCHANGED <<open, reports>>

\* The caller's own deadline: the call fails and its request stays outstanding.
GiveUp ==
    /\ client.phase = "calling"
    /\ client' = [client EXCEPT !.phase = "idle", !.last = 0]
    /\ UNCHANGED <<end, wire, open, reports, log>>

\* Client::release, and the two seconds it waits for the confirmation.
ClientReleases ==
    /\ client.phase = "idle" /\ end["Client"].state = "Established"
    /\ Turn("Client", Release(end["Client"]), 0)
    /\ client' = [client EXCEPT !.phase = "releasing"]
    /\ UNCHANGED <<open, reports, log>>

\* The wait of release or of connect ends, or the client is dropped.
ClientLeaves ==
    /\ client.phase \in {"releasing", "connecting", "idle"} /\ open["Client"]
    /\ client' = [client EXCEPT !.phase = "gone"]
    /\ Left("Client")
    /\ UNCHANGED <<end, wire, reports, log>>

-----------------------------------------------------------------------------
(* The thread of the server.                                               *)

Requests(q) == {i \in DOMAIN q : q[i].k = "Request"}

\* What the ACSI layer makes of a request: an answer or a confirmed error of
\* some size, or a reject of a PDU it cannot act on.
Replies == {"answer", "reject"}
Reply(kind, size, ev) ==
    IF kind = "answer" THEN Pdu("Response", ev.id, size, ev.pdu.says) ELSE Pdu("Reject", ev.id, 10, ev.pdu.says)

\* The events in turn, send_encoded for each request; a reply that is too large
\* is dropped.
Replied(e, kind, size) ==
    LET sent[n \in 0 .. Len(e.events)] ==
            CASE n = 0 -> [e EXCEPT !.events = <<>>]
              [] n > 0 /\ n \in Requests(e.events) -> Send(sent[n - 1], Reply(kind, size, e.events[n]))
              [] OTHER -> sent[n - 1]
    IN  sent[Len(e.events)]

\* The calls whose requests a read brought, and those that are replied to.
Came(read) == {wire["Server"][i].of.mms.says :
                  i \in {j \in 1 .. read : wire["Server"][j].eot /\ wire["Server"][j].of.mms.k = "Request"}}
Served(e, kind, size) ==
    {e.events[i].pdu.says : i \in {j \in Requests(e.events) : MaySend(e, Reply(kind, size, e.events[j]).size)}}

\* The turn of `serve` after its read: the answers, then the reports that are
\* queued for this association, then the socket; a close ends the thread.
ServeTurn(e, read) ==
    \E kind \in Replies, size \in AnswerSizes, report \in {0, 1} :
        /\ Requests(e.events) = {} => kind = "answer"
        /\ Requests(e.events) = {} /\ report = 0 => size = First(AnswerSizes)
        /\ reports + report <= MaxReports
        /\ report = 1 => e.state = "Established"
        /\ reports' = reports + report
        /\ log' = [log EXCEPT !.unanswered = @ \cup (Came(read) \ Served(e, kind, size))]
        /\ \E out \in {Replied(e, kind, size)} :
               Turn("Server", IF report = 1 THEN Send(out, Pdu("Unconfirmed", NoId, size, reports + 1)) ELSE out, read)
        /\ IF \E i \in DOMAIN e.events : e.events[i].k = "Closed" THEN Left("Server") ELSE UNCHANGED open
        /\ UNCHANGED client

ServerRead == open["Server"] /\ \E n \in Reads("Server") : \E e \in {AfterRead("Server", n)} : ServeTurn(e, n)

\* The read times out after poll_interval, or was a turn for reports alone.
ServerTimesOut == open["Server"] /\ end["Server"].armed /\ ServeTurn(OnTimeout(end["Server"], TRUE, 0), 0)
ServerWaits == ServerTimesOut \/ (open["Server"] /\ ServeTurn(end["Server"], 0))

\* Mutant: a read of no octets is taken for a quiet one.
ServerEofUnseen == open["Server"] /\ AtEnd("Server") /\ UNCHANGED vars

ServerEof ==
    /\ open["Server"] /\ AtEnd("Server")
    /\ Left("Server")
    /\ UNCHANGED <<end, wire, client, reports, log>>

\* A stalled client, a failed write or the end of the process: the thread
\* returns and its socket goes.
ServerLeaves ==
    /\ open["Server"]
    /\ Left("Server")
    /\ UNCHANGED <<end, wire, client, reports, log>>

\* A socket closed with octets unread resets the connection: what the peer
\* has not read either is lost.
Reset ==
    /\ \E r \in Roles :
           /\ ~open[Peer(r)] /\ wire[Peer(r)] # <<>> /\ wire[r] # <<>>
           /\ wire' = [wire EXCEPT ![r] = <<>>]
    /\ UNCHANGED <<end, open, client, reports, log>>

Next ==
    \/ Reset \/ ClientRead \/ ClientWaits \/ ClientEof \/ StartCall \/ GiveUp \/ ClientReleases \/ ClientLeaves
    \/ ServerRead \/ ServerWaits \/ ServerEof \/ ServerLeaves

\* A thread that has something to read reads it - the server's only once the
\* handshake is over, so that a peer that never answers one is allowed - and
\* the client's, when its read times out, hears of it.  The client that polls
\* nothing hears of nothing: its fairness is that of a caller who keeps
\* calling or waiting for reports.
Fairness ==
    /\ WF_vars(ClientRead) /\ WF_vars(ClientEof)
    /\ WF_vars(ClientHears(TRUE, Len(end["Client"].outstanding)))
    /\ WF_vars(client.phase # "connecting" /\ ServerRead) /\ WF_vars(ServerEof)

Spec == Init /\ [][Next]_vars
FairSpec == Spec /\ Fairness

-----------------------------------------------------------------------------
(* What the association promises.                                          *)

TypeOK ==
    /\ \A r \in Roles : end[r] \in Ends
    /\ client.phase \in Phases /\ client.asked \in 0 .. MaxCalls /\ client.last \in Payloads
    /\ reports \in 0 .. MaxReports
    /\ log.late \subseteq 1 .. MaxCalls /\ log.unanswered \subseteq 1 .. MaxCalls

Both(state) == \A r \in Roles : end[r].state = state

\* Once both ends are established they hold one agreement: TPDUs of one size,
\* no larger than either asked for; no more requests at once than either
\* accepts; and no PDU or TPDU under way is larger than its reader accepts
\* (the negotiations of on_connection_*, answer_associate and
\* on_session_accept, and the checks of call and send).
WithinTerms ==
    /\ Both("Established") =>
           /\ end["Client"].chunk = end["Server"].chunk
           /\ end["Client"].terms.budget <= Least(end["Client"].cfg.budget, end["Server"].cfg.budget)
           /\ Len(end["Client"].outstanding) <= end["Client"].terms.budget
    /\ \A r \in Roles : \A i \in DOMAIN wire[r] :
           /\ wire[r][i].len <= TpduData(end[r].cfg.exp)
           /\ wire[r][i].of.mms.size <= end[r].cfg.maxPdu

\* A call that returns an answer returns its own, also after the identifiers
\* have wrapped.  It returns another one's only if that had the same identifier,
\* and if this identifier was once free before its answer had been taken, by
\* on_timeout or by a call that left it in the queue: that answer then gives it
\* free too early for the next call, and so on.
OwnAnswer ==
    client.last \notin {0, client.ask} =>
        /\ log.number[client.last] = log.number[client.ask]
        /\ \E a \in log.late : a <= client.last /\ log.number[a] = log.number[client.ask]

\* The server's part of the association that carries call a's request or its
\* answer, in whatever pieces.
Under(a) ==
    \/ \E r \in Roles : \E i \in DOMAIN wire[r] :
           wire[r][i].of.mms.k \in {"Request", "Response", "Reject"} /\ wire[r][i].of.mms.says = a
    \/ \E r \in Roles : \E i \in DOMAIN end[r].parts :
           end[r].parts[i].of.mms.k \in {"Request", "Response", "Reject"} /\ end[r].parts[i].of.mms.says = a

\* A slot a request holds against the budget is owed an answer that can still
\* come: the request or its answer is under way, unless the server's thread
\* dropped it or one of the two is gone.  Otherwise the budget would leak.
SlotIsOwed ==
    end["Client"].state # "Closed" /\ open["Client"] /\ open["Server"] =>
        \A id \in Outstanding(end["Client"]) : Under(CallOf(id)) \/ CallOf(id) \in log.unanswered

\* What was negotiated binds both ends, and every identifier the client holds
\* is of one request, whose answer is the one its caller gets.
CallsKeepTheTerms == TypeOK /\ WithinTerms /\ OwnAnswer /\ SlotIsOwed

\* The client's handshake ends, whatever the server does or does not do.
HandshakeEnds == (client.phase = "connecting") ~> (client.phase # "connecting")

\* A call comes back without the help of its caller's deadline unless the
\* server's thread dropped it: with an answer, or because the request timed
\* out or the connection went.
AnswerComes == \A a \in 1 .. MaxCalls :
    (client.phase = "calling" /\ client.ask = a) ~> (client.phase # "calling" \/ client.ask # a)

\* The client waits for nothing that cannot come, before it is connected and
\* after.
ClientNeverHangs == HandshakeEnds /\ AnswerComes

\* A side that is gone is noticed: the thread of the server ends when its
\* client has, in whatever state the handshake or a release was.
ServerLearns == ~open["Client"] ~> ~open["Server"]
=============================================================================
