---------------------------- MODULE ControlService ----------------------------
(***************************************************************************)
(* Clients that operate (client/control.rs), each on an association that   *)
(* a thread of the server serves (server/net.rs), and the controls they    *)
(* share behind one lock.                                                  *)
(*                                                                         *)
(* A thread reads its socket, lets time pass, serves the request it read,  *)
(* publishes, drains the association's queue and writes the socket; the    *)
(* lock is held for the poll, for the request and for the publication, and *)
(* the threads interleave between them.  What is owed to a client is put   *)
(* in the queue of its association by whichever thread comes upon it.      *)
(***************************************************************************)
EXTENDS Control

CONSTANTS
    Engineered, \* the control models the objects may be engineered with
    Modes,      \* the behaviours the application puts the objects' node in
    Bars,       \* the sets of stages at which the hook refuses
    Waits,      \* how far in the future an operTm is
    Tests,      \* the Test flag of a command
    MaxCalls,   \* bound: calls of all clients together
    MaxChanges, \* bound: changes of the behaviour and of the hook
    QueueCap,   \* ServerConfig::outbound_queue
    SocketCap   \* PDUs on their way to a client before a write blocks

ASSUME ServiceAssumption ==
    /\ Engineered \subseteq Models
    /\ Modes \subseteq Behaviours
    /\ Bars \subseteq SUBSET Stages
    /\ Waits \subseteq Nat
    /\ Tests \subseteq BOOLEAN
    /\ MaxCalls \in Nat /\ MaxChanges \in Nat
    /\ None \notin [command : Commands, object : Objects, req : Requests]
    /\ QueueCap \in Nat \ {0} /\ SocketCap \in Nat \ {0}

VARIABLES
    server,   \* the controls, behind the lock
    conn,     \* what the server keeps for an association, and its thread
    inbox,    \* the request in the server's end of the socket
    client,   \* the client at the other end
    told,     \* what the callers were told of their commands
    changes   \* how often the application changed its mind

vars == <<server, conn, inbox, client, told, changes>>

Answer(ok) == [kind |-> "answer", ok |-> ok]

FreshConn == [at |-> "read", queue |-> <<>>, stalled |-> FALSE, unsent |-> <<>>, wire |-> <<>>]

\* A client between two calls.  `plan` is what is left of the call, its head
\* in flight; `num` is the last ctlNum it took, and `object` what for.
FreshClient ==
    [phase |-> "idle", plan |-> <<>>, awaits |-> FALSE, req |-> None,
     num |-> 0, object |-> None, selects |-> FALSE, unsolicited |-> <<>>, calls |-> 0]

Init ==
    /\ \E model \in [Objects -> Engineered] : server = NewControls(model, CHOOSE v \in Values : TRUE)
    /\ conn = [a \in Assoc |-> FreshConn]
    /\ inbox = [a \in Assoc |-> None]
    /\ client = [a \in Assoc |-> FreshClient]
    /\ told = [a \in Assoc |-> [n \in Nums |-> "nothing"]]
    /\ changes = 0

Open(a) == conn[a].at # "closed"
Gone(a) == client[a].phase = "gone"

-----------------------------------------------------------------------------
(* The threads of the server *)

\* dispatch: what is owed goes to the queues of the associations still open,
\* and a queue that is full marks its association as stalled.
Dispatched(s) ==
    [a \in Assoc |->
        LET all == conn[a].queue \o s.pending[a]
        IN  IF Open(a)
            THEN [conn[a] EXCEPT !.queue = SubSeq(all, 1, Min({QueueCap, Len(all)})),
                                 !.stalled = @ \/ Len(all) > QueueCap]
            ELSE conn[a]]

\* As much as the socket takes.  The thread waits in the write for the rest,
\* and looks at `stalled` only when it has written everything.
Written(c, gone) ==
    LET n == Min({SocketCap - Len(c.wire), Len(c.unsent)})
    IN  IF gone /\ c.unsent # <<>> THEN [c EXCEPT !.at = "ended"]
        ELSE [c EXCEPT !.wire = @ \o SubSeq(c.unsent, 1, n),
                       !.unsent = SubSeq(c.unsent, n + 1, Len(c.unsent)),
                       !.at = IF n < Len(c.unsent) THEN "blocked"
                              ELSE IF c.stalled THEN "ended" ELSE "read"]

\* The thread drains the queue of its association and writes the socket.
Flushed(c, gone) == Written([c EXCEPT !.unsent = @ \o c.queue, !.queue = <<>>], gone)

\* Under the lock what `s` owes is dispatched; then the thread of `a` flushes.
PublishAndFlush(s, a) ==
    /\ conn' = [Dispatched(s) EXCEPT ![a] = Flushed(@, Gone(a))]
    /\ server' = [s EXCEPT !.pending = NothingOwed]

\* Mutant: a poll that lets time pass leaves what is owed to the next commit.
PollUnsent(a) ==
    /\ conn[a].at = "read"
    /\ inbox[a] = None /\ ~Gone(a)
    /\ server' = Elapsed(server)
    /\ conn' = [conn EXCEPT ![a] = Flushed(@, FALSE)]
    /\ UNCHANGED <<inbox, client, told, changes>>

\* Mutant: time passes for the controls only when somebody commands.
PollIdle(a) ==
    /\ conn[a].at = "read"
    /\ inbox[a] = None /\ ~Gone(a)
    /\ PublishAndFlush(server, a)
    /\ UNCHANGED <<inbox, client, told, changes>>

\* The socket read ends without a request, and the thread polls.
Poll(a) ==
    /\ conn[a].at = "read"
    /\ inbox[a] = None /\ ~Gone(a)
    /\ PublishAndFlush(Elapsed(server), a)
    /\ UNCHANGED <<inbox, client, told, changes>>

\* The socket read ends with a request; the thread polls before it serves it.
Wake(a) ==
    /\ conn[a].at = "read"
    /\ inbox[a] # None
    /\ LET s == Elapsed(server) IN
        /\ conn' = [Dispatched(s) EXCEPT ![a].at = "serve"]
        /\ server' = [s EXCEPT !.pending = NothingOwed]
    /\ UNCHANGED <<inbox, client, told, changes>>

\* The socket read says that the client has gone.
Hangup(a) ==
    /\ conn[a].at = "read"
    /\ inbox[a] = None /\ Gone(a)
    /\ conn' = [conn EXCEPT ![a].at = "ended"]
    /\ UNCHANGED <<server, inbox, client, told, changes>>

\* The request is served under the lock, and its answer is the next to go out.
Serve(a) ==
    /\ conn[a].at = "serve"
    /\ LET q == inbox[a] IN
        /\ server' = Served(server, a, q.object, q.command, q.req)
        /\ conn' = [conn EXCEPT
             ![a].unsent = Append(@, Answer(ServedOk(server, a, q.object, q.command, q.req))),
             ![a].at = "publish"]
    /\ inbox' = [inbox EXCEPT ![a] = None]
    /\ UNCHANGED <<client, told, changes>>

Publish(a) ==
    /\ conn[a].at = "publish"
    /\ PublishAndFlush(server, a)
    /\ UNCHANGED <<inbox, client, told, changes>>

\* The write that blocked goes on when the client has read, or fails.
Unblock(a) ==
    /\ conn[a].at = "blocked"
    /\ Len(conn[a].wire) < SocketCap \/ Gone(a)
    /\ conn' = [conn EXCEPT ![a] = Written(@, Gone(a))]
    /\ UNCHANGED <<server, inbox, client, told, changes>>

\* The thread is done: the association is closed, and what it held released.
End(a) ==
    /\ conn[a].at = "ended"
    /\ server' = Dropped(server, a)
    /\ conn' = [conn EXCEPT ![a] = [FreshConn EXCEPT !.at = "closed", !.wire = conn[a].wire]]
    /\ UNCHANGED <<inbox, client, told, changes>>

Thread(a) == Poll(a) \/ Wake(a) \/ Hangup(a) \/ Serve(a) \/ Publish(a) \/ Unblock(a) \/ End(a)

-----------------------------------------------------------------------------
(* The application, and time *)

\* A transaction on the model publishes what is owed as well.
ChangeMode(o, mode) ==
    /\ server.mode[o] # mode
    /\ changes < MaxChanges /\ changes' = changes + 1
    /\ conn' = Dispatched(server)
    /\ server' = [server EXCEPT !.mode[o] = mode, !.pending = NothingOwed]
    /\ UNCHANGED <<inbox, client, told>>

ChangeHook(stages) ==
    /\ server.barred # stages
    /\ changes < MaxChanges /\ changes' = changes + 1
    /\ server' = [server EXCEPT !.barred = stages]
    /\ UNCHANGED <<conn, inbox, client, told>>

Tick ==
    /\ server' = LetTimePass(server)
    /\ UNCHANGED <<conn, inbox, client, told, changes>>

-----------------------------------------------------------------------------
(* The clients *)

\* A call: its first command goes out, and the others when it is answered.
Calls(a, plan, awaits, o, r) ==
    /\ client[a].phase = "idle"
    /\ Open(a)
    /\ SumFunction([b \in Assoc |-> client[b].calls]) < MaxCalls
    /\ LET c == client[a] IN
       client' = [client EXCEPT ![a] =
                    [c EXCEPT !.phase = "calling", !.plan = plan, !.awaits = awaits, !.req = r,
                              !.num = r.num, !.object = o, !.selects = FALSE,
                              !.calls = c.calls + 1]]
    /\ inbox' = [inbox EXCEPT ![a] = [command |-> Head(plan), object |-> o, req |-> r]]
    /\ told' = IF Head(plan) = "Cancel" THEN told ELSE [told EXCEPT ![a][r.num] = "nothing"]
    /\ UNCHANGED <<server, conn, changes>>

\* The call is over.
Idle(c) == [c EXCEPT !.phase = "idle", !.plan = <<>>, !.awaits = FALSE, !.req = None]

FreshRequests(a) ==
    [num : {client[a].num + 1} \cap Nums, val : Values, wait : Waits, test : Tests]

\* Control::execute does what the control model requires.
Sequence(model) ==
    CASE model = "SboNormal"   -> <<"SBO", "Oper">>
      [] model = "SboEnhanced" -> <<"SBOw", "Oper">>
      [] OTHER                 -> <<"Oper">>

Execute(a, o) ==
    /\ server.model[o] # "StatusOnly"
    /\ \E r \in FreshRequests(a) :
        Calls(a, Sequence(server.model[o]), Enhanced(server.model[o]), o, r)

\* The single services: a select, an operate, on its own or after a select of
\* the same Control, and a cancel under the ctlNum of the last command.
Select(a, o) ==
    \E r \in FreshRequests(a), command \in {"SBO", "SBOw"} :
        Calls(a, <<command>>, FALSE, o, r)

Operate(a, o) ==
    \E r \in FreshRequests(a) : Calls(a, <<"Oper">>, FALSE, o, r)

OperateSelected(a) ==
    /\ client[a].selects
    /\ \E v \in Values, w \in Waits, x \in Tests :
        Calls(a, <<"Oper">>, FALSE, client[a].object,
              [num |-> client[a].num, val |-> v, wait |-> w, test |-> x])

\* Of the request of a Cancel only the ctlNum plays a part.
Cancel(a) ==
    /\ client[a].object # None
    /\ Calls(a, <<"Cancel">>, FALSE, client[a].object,
             [num |-> client[a].num, val |-> CHOOSE v \in Values : TRUE, wait |-> 0, test |-> FALSE])

Tell(a, what) == told' = [told EXCEPT ![a][client[a].num] = what]

\* A refusal says that the command will not run; of a Cancel it says nothing.
TellRefused(a) ==
    IF Head(client[a].plan) = "Cancel" THEN UNCHANGED told ELSE Tell(a, "refused")

Unread(a) == [conn EXCEPT ![a].wire = Tail(@)]

\* A termination is kept until somebody asks for it.
ReadTermination(a) ==
    /\ ~Gone(a)
    /\ conn[a].wire # <<>> /\ Head(conn[a].wire).kind = "termination"
    /\ conn' = Unread(a)
    /\ client' = [client EXCEPT ![a].unsolicited = Append(@, Head(conn[a].wire))]
    /\ UNCHANGED <<server, inbox, told, changes>>

\* The answer to the command in flight: the next one goes out, the call is
\* over, or the wait begins for the outcome or for the reason of the refusal.
ReadAnswer(a) ==
    /\ client[a].phase = "calling"
    /\ conn[a].wire # <<>> /\ Head(conn[a].wire).kind = "answer"
    /\ conn' = Unread(a)
    /\ LET c  == client[a]
           ok == Head(conn[a].wire).ok
       IN
        \/ /\ ok /\ Len(c.plan) > 1
           /\ client' = [client EXCEPT ![a].plan = Tail(@)]
           /\ inbox' = [inbox EXCEPT ![a] =
                           [command |-> c.plan[2], object |-> c.object, req |-> c.req]]
           /\ UNCHANGED told
        \/ /\ ok /\ Len(c.plan) = 1
           /\ client' = [client EXCEPT ![a] =
                 IF c.awaits THEN [c EXCEPT !.phase = "awaiting", !.plan = <<>>]
                 ELSE [Idle(c) EXCEPT !.selects = Head(c.plan) \in {"SBO", "SBOw"}]]
           /\ IF Head(c.plan) = "Oper" /\ ~Enhanced(server.model[c.object])
              THEN Tell(a, IF c.req.wait = 0 THEN "done" ELSE "accepted")
              ELSE UNCHANGED told
           /\ UNCHANGED inbox
        \/ /\ ~ok
           /\ client' = [client EXCEPT ![a] =
                 IF Head(c.plan) = "SBO" THEN Idle(c) ELSE [c EXCEPT !.phase = "explaining"]]
           /\ IF Head(c.plan) = "SBO" THEN TellRefused(a) ELSE UNCHANGED told
           /\ UNCHANGED inbox
    /\ UNCHANGED <<server, changes>>

\* Mutant: the next termination is taken for the command's.
MatchingAny(a) == DOMAIN client[a].unsolicited

Matching(a) ==
    {i \in DOMAIN client[a].unsolicited : client[a].unsolicited[i].num = client[a].num}

\* next_termination_for: the first termination under the command's ctlNum.
TakeTermination(a) ==
    /\ client[a].phase \in {"awaiting", "explaining"}
    /\ Matching(a) # {}
    /\ LET i == Min(Matching(a))
           c == client[a]
       IN
        /\ client' = [client EXCEPT ![a] =
                         [Idle(c) EXCEPT !.unsolicited = RemoveAt(c.unsolicited, i)]]
        /\ IF c.phase = "explaining" THEN TellRefused(a)
           ELSE Tell(a, IF c.unsolicited[i].ok THEN "done" ELSE "refused")
    /\ UNCHANGED <<server, conn, inbox, changes>>

\* The wait ends without one: a refusal stands unexplained, and of a command
\* that was accepted the caller knows nothing.
GiveUp(a) ==
    /\ client[a].phase \in {"awaiting", "explaining"}
    /\ Matching(a) = {}
    /\ client' = [client EXCEPT ![a] = Idle(@)]
    /\ IF client[a].phase = "explaining" THEN TellRefused(a) ELSE Tell(a, "unknown")
    /\ UNCHANGED <<server, conn, inbox, changes>>

\* The client goes away, or finds that the server has closed the connection.
Leave(a) ==
    /\ ~Gone(a)
    /\ client' = [client EXCEPT
                     ![a] = [FreshClient EXCEPT !.phase = "gone", !.calls = client[a].calls]]
    /\ conn' = [conn EXCEPT ![a].wire = <<>>]
    /\ told' = [told EXCEPT ![a] = [n \in Nums |-> "nothing"]]
    /\ UNCHANGED <<server, inbox, changes>>

FindClosed(a) ==
    /\ ~Open(a) /\ conn[a].wire = <<>>
    /\ Leave(a)

Client(a) ==
    \/ \E o \in Objects : Execute(a, o) \/ Select(a, o) \/ Operate(a, o)
    \/ OperateSelected(a) \/ Cancel(a)
    \/ ReadTermination(a) \/ ReadAnswer(a) \/ TakeTermination(a) \/ GiveUp(a)
    \/ Leave(a)

Next ==
    \/ \E a \in Assoc : Thread(a) \/ Client(a)
    \/ \E o \in Objects, mode \in Modes : ChangeMode(o, mode)
    \/ \E stages \in Bars : ChangeHook(stages)
    \/ Tick

\* The threads run, time passes, and clients read their sockets; nobody need
\* call, give up, change the model or leave.
Fairness ==
    /\ WF_vars(Tick)
    /\ \A a \in Assoc :
        /\ WF_vars(Thread(a))
        /\ WF_vars(ReadTermination(a) \/ ReadAnswer(a))
        /\ WF_vars(TakeTermination(a))
        /\ WF_vars(FindClosed(a))

Spec == Init /\ [][Next]_vars
FairSpec == Spec /\ Fairness

-----------------------------------------------------------------------------
(* Correctness *)

Pdus == [kind : {"answer"}, ok : BOOLEAN]
        \cup [kind : {"termination"}, num : Nums, ok : BOOLEAN]

\* The shape of the state: the controls' tables, and the threads' positions.
ServerOK ==
    /\ server.sel \in [Objects -> Selections \cup {None}]
    /\ server.timed \subseteq Timed
    /\ server.armed \in Nat
    /\ server.model \in [Objects -> Models]

TypeOK ==
    /\ ServerOK
    /\ \A a \in Assoc :
        /\ conn[a].at \in {"read", "serve", "publish", "blocked", "ended", "closed"}
        /\ Len(conn[a].queue) <= QueueCap
        /\ Len(conn[a].wire) <= SocketCap
        /\ client[a].phase \in {"idle", "calling", "explaining", "awaiting", "gone"}
        /\ \A x \in {conn[a].queue, conn[a].wire, conn[a].unsent, client[a].unsolicited} :
               x \in Seq(Pdus)

\* What the callers were told of their commands is so: "done" that the command
\* ran, "refused" that it did not and no longer can.  Control::execute answers
\* by the termination next_termination_for finds under its ctlNum.
ToldTheTruth ==
    \A a \in Assoc, n \in Nums :
        LET ran   == [assoc |-> a, num |-> n] \in server.ran
            armed == \E t \in server.timed : t.assoc = a /\ t.req.num = n
        IN  /\ told[a][n] = "done" => ran
            /\ told[a][n] = "refused" => ~ran /\ ~armed

\* Everything between the controls and the caller of `a`, the oldest first.
Pipeline(a) ==
    client[a].unsolicited \o conn[a].wire \o conn[a].unsent \o conn[a].queue
    \o server.pending[a]

Owing(a, n) ==
    {i \in DOMAIN Pipeline(a) :
        Pipeline(a)[i].kind = "termination" /\ Pipeline(a)[i].num = n}

\* A command that is waited for is armed, or else exactly one termination is on
\* its way, and it says whether the command ran; unless the association
\* stalled, or ended.  on_timeout and operate make it, publish and the poll of
\* any thread carry it on.
ResultIsOnItsWay ==
    \A a \in Assoc :
        client[a].phase = "awaiting" /\ Open(a) /\ ~conn[a].stalled =>
            LET n == client[a].num IN
            IF \E t \in server.timed : t.assoc = a /\ t.req.num = n
            THEN Owing(a, n) = {}
            ELSE \E i \in Owing(a, n) :
                    /\ Owing(a, n) = {i}
                    /\ Pipeline(a)[i].ok <=> [assoc |-> a, num |-> n] \in server.ran

\* A client never has the termination of a command whose write is unanswered,
\* although any thread may queue it as soon as the request is served: serve
\* drains the queue behind the answer (net.rs:462-477).
AnswerBeforeTermination ==
    \A a \in Assoc :
        client[a].phase = "calling" /\ client[a].awaits =>
            \A i \in DOMAIN client[a].unsolicited :
                client[a].unsolicited[i].num # client[a].num

\* The results of commands come back once, whole and in order, through the
\* queues of every thread, which stay within their bounds.
ResultsComeBack == TypeOK /\ ResultIsOnItsWay /\ AnswerBeforeTermination

\* What is selected and what is armed belongs to associations that are open
\* (Controls::on_association_closed).
ClaimsAreOpen ==
    /\ \A o \in Objects : server.sel[o] # None => Open(server.sel[o].assoc)
    /\ \A t \in server.timed : Open(t.assoc)

\* What a step owes to the holders of selections that have not expired.
HolderKeeps ==
    \A a \in Assoc, o \in Objects :
        SelectedBy(server, a, o) /\ server.sel[o].left > 0 =>
            LET served(b) == inbox[b] # None /\ inbox'[b] = None
                armed == {[assoc |-> t.assoc, num |-> t.req.num] : t \in server.timed}
            IN  /\ SelectedBy(server', a, o) \/ served(a) \/ conn'[a].at = "closed"
                /\ \A b \in Assoc \ {a} :
                     served(b) /\ inbox[b].object = o => server'.ran \subseteq server.ran \cup armed

\* Between its selection and its expiry an object is its holder's: only a
\* request of the holder or its end lets go of it, and meanwhile nobody else's
\* command runs that was not armed before.
ReservedForHolder == [][HolderKeeps]_vars

\* A claim on an object is its holder's, and nobody's who has left.
ClaimsAreTheHolders == []ClaimsAreOpen /\ ReservedForHolder

\* What a step that runs an armed command asks first.
AsksAgain ==
    \A t \in server.timed :
        [assoc |-> t.assoc, num |-> t.req.num] \in server'.ran \ server.ran =>
            /\ ~ModeRefuses(server, t.object, t.req.test)
            /\ Agrees(server, "Operate")

\* A command that was armed runs only if the bay and the hook would take it
\* at that moment, whatever they said when it was accepted (on_timeout asks
\* again, control.rs:197-201).
ArmedObeysTheBay == [][AsksAgain]_vars

\* A client that waits for a termination gets it, or learns that the
\* connection is closed, without having to give up: the poll of some thread
\* makes and queues it, and the thread of the association writes it.
AwaitedComes ==
    \A a \in Assoc : client[a].phase = "awaiting" ~> client[a].phase # "awaiting"

\* Nothing stays armed: whichever thread polls runs what is due, and a client
\* that goes takes what it armed along.
ArmedEnds ==
    \A a \in Assoc : (\E t \in server.timed : t.assoc = a) ~> (\A t \in server.timed : t.assoc # a)
=============================================================================
