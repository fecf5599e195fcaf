------------------------- MODULE SettingGroupService -------------------------
(***************************************************************************)
(* Clients that edit, confirm and activate setting groups (client/sg.rs),  *)
(* each on an association that a thread of the server serves               *)
(* (server/net.rs), and the setting groups they share behind one lock.     *)
(*                                                                         *)
(* A thread reads its clock, waits for its socket, polls, and serves the   *)
(* request it has read; the poll and the request are two critical          *)
(* sections, on the clock read before the wait.                            *)
(***************************************************************************)
EXTENDS SettingGroups, Sequences

CONSTANTS
    Act,      \* the group engineered as active
    Writes,   \* the settings a client edits together, some of them misfits
    Structures, \* what clients write when they write the SGCB as a structure
    Secs,     \* what a client writes to ResvTms, and what is engineered
    Stale,    \* bound: how late the clock of a thread may be
    MaxCalls  \* bound: calls of all clients together

ASSUME ServiceAssumption ==
    /\ Act \in Groups
    /\ Writes \subseteq {w \in [settings : SUBSET Settings, misfits : SUBSET Settings] :
                              w.misfits \subseteq w.settings}
    /\ Structures \subseteq Structure
    /\ Secs \subseteq Nat
    /\ Stale \in Nat /\ MaxCalls \in Nat

VARIABLES
    server,  \* the setting groups, behind the lock
    conn,    \* the thread of an association, and how late its clock is
    inbox,   \* the request in the server's end of the socket
    reply,   \* the answer on its way to the client
    client,  \* the client at the other end, and what is left of its call
    calls    \* how many calls were made

vars == <<server, conn, inbox, reply, client, calls>>

Answers == {"none", "ok", "refused"}

Init ==
    /\ \E secs \in Secs : server = NewGroups(Act, secs)
    /\ conn = [a \in Assoc |-> [at |-> "read", late |-> 0]]
    /\ inbox = [a \in Assoc |-> None]
    /\ reply = [a \in Assoc |-> "none"]
    /\ client = [a \in Assoc |-> [phase |-> "idle", plan |-> <<>>]]
    /\ calls = 0

Open(a) == conn[a].at # "closed"

-----------------------------------------------------------------------------
(* The threads of the server *)

\* Mutant: no poll looks at the setting groups.
PollNothing(a) ==
    /\ conn[a].at = "read" /\ inbox[a] = None
    /\ UNCHANGED vars

\* The socket read ends without a request.
Poll(a) ==
    /\ conn[a].at = "read" /\ inbox[a] = None
    /\ \E late \in 0..Stale : server' = TimedOut(server, late)
    /\ UNCHANGED <<conn, inbox, reply, client, calls>>

\* The socket read ends with a request: the poll comes first.
Wake(a) ==
    /\ conn[a].at = "read" /\ inbox[a] # None
    /\ \E late \in 0..Stale :
        /\ server' = TimedOut(server, late)
        /\ conn' = [conn EXCEPT ![a] = [at |-> "serve", late |-> late]]
    /\ UNCHANGED <<inbox, reply, client, calls>>

Serve(a) ==
    /\ conn[a].at = "serve"
    /\ server' = Served(server, a, inbox[a], conn[a].late)
    /\ reply' = [reply EXCEPT ![a] =
                    IF ServedOk(server, a, inbox[a], conn[a].late) THEN "ok" ELSE "refused"]
    /\ inbox' = [inbox EXCEPT ![a] = None]
    /\ conn' = [conn EXCEPT ![a] = [at |-> "read", late |-> 0]]
    /\ UNCHANGED <<client, calls>>

\* The client has gone, and its association ends.
End(a) ==
    /\ conn[a].at = "read" /\ inbox[a] = None
    /\ client[a].phase = "gone"
    /\ server' = Closed(server, a)
    /\ conn' = [conn EXCEPT ![a] = [at |-> "closed", late |-> 0]]
    /\ UNCHANGED <<inbox, reply, client, calls>>

Thread(a) == Poll(a) \/ Wake(a) \/ Serve(a) \/ End(a)

\* The bound on how late a clock may be keeps time from passing over a thread.
Tick ==
    /\ \A a \in Assoc : conn[a].at = "serve" => conn[a].late < Stale
    /\ server' = Older(server, 0 - Stale)
    /\ conn' = [a \in Assoc |->
                   IF conn[a].at = "serve" THEN [conn[a] EXCEPT !.late = @ + 1] ELSE conn[a]]
    /\ UNCHANGED <<inbox, reply, client, calls>>

-----------------------------------------------------------------------------
(* The clients *)

Request(kind, group, settings, secs) ==
    [kind |-> kind, group |-> group, settings |-> settings, misfits |-> {}, secs |-> secs,
     block |-> None]

\* To select group 0 is to release.
Selecting(g) == Request("EditSG", g, {}, 0)

\* edit_setting_group: select, write every setting in one Write, confirm,
\* release.
EditPlan(g, xs, misfits) ==
    LET write   == [Request("SE", g, xs, 0) EXCEPT !.misfits = misfits]
        confirm == Request("CnfEdit", g, xs, 0)
    IN  IF xs = {} THEN <<Selecting(g), confirm, Selecting(0)>>
        ELSE <<Selecting(g), write, confirm, Selecting(0)>>

MayCall(a) == client[a].phase = "idle" /\ calls < MaxCalls

Calls(a, plan) ==
    /\ calls' = calls + 1
    /\ client' = [client EXCEPT ![a] = [phase |-> "calling", plan |-> plan]]
    /\ inbox' = [inbox EXCEPT ![a] = Head(plan)]
    /\ UNCHANGED <<server, conn, reply>>

Edit(a) ==
    /\ MayCall(a)
    /\ \E g \in Groups, w \in Writes : Calls(a, EditPlan(g, w.settings, w.misfits))

SelectActive(a) ==
    /\ MayCall(a)
    /\ \E g \in Groups : Calls(a, <<Request("ActSG", g, {}, 0)>>)

\* The single services.  A CnfEdit of its own names nothing it means to confirm.
SelectEdit(a) == MayCall(a) /\ \E g \in 0..Count : Calls(a, <<Selecting(g)>>)

WriteSetting(a) ==
    MayCall(a) /\ \E x \in Settings : Calls(a, <<Request("SE", 0, {x}, 0)>>)

Confirm(a) == MayCall(a) /\ Calls(a, <<Request("CnfEdit", 0, {}, 0)>>)

Reserve(a) ==
    MayCall(a) /\ \E n \in Secs : Calls(a, <<Request("ResvTms", 0, {}, n)>>)

\* The SGCB as a structure.
WriteStructure(a) ==
    /\ MayCall(a)
    /\ \E w \in Structures :
         Calls(a, <<[Request("SGCB", 0, {}, 0) EXCEPT !.block = w]>>)

\* Mutant: an edit goes on to its confirmation whatever was refused.
RestAnyway(plan, ok) == Tail(plan)

\* What follows an answer: an edit that was refused its settings is released
\* unconfirmed, one that was refused the group is over.
Rest(plan, ok) ==
    IF ok \/ Head(plan).kind = "CnfEdit" THEN Tail(plan)
    ELSE IF Head(plan).kind = "SE" /\ Len(plan) > 1 THEN <<Selecting(0)>>
    ELSE <<>>

ReadReply(a) ==
    /\ client[a].phase = "calling" /\ reply[a] # "none"
    /\ reply' = [reply EXCEPT ![a] = "none"]
    /\ LET rest == Rest(client[a].plan, reply[a] = "ok")
       IN  /\ client' = [client EXCEPT ![a] =
                  [phase |-> IF rest = <<>> THEN "idle" ELSE "calling", plan |-> rest]]
           /\ inbox' = IF rest = <<>> THEN inbox ELSE [inbox EXCEPT ![a] = Head(rest)]
    /\ UNCHANGED <<server, conn, calls>>

\* The client goes away, and what it has just sent may be lost with it.
Leave(a) ==
    /\ client[a].phase # "gone"
    /\ client' = [client EXCEPT ![a] = [phase |-> "gone", plan |-> <<>>]]
    /\ reply' = [reply EXCEPT ![a] = "none"]
    /\ inbox' \in {inbox, [inbox EXCEPT ![a] = IF conn[a].at = "read" THEN None ELSE @]}
    /\ UNCHANGED <<server, conn, calls>>

Client(a) ==
    \/ Edit(a) \/ SelectActive(a) \/ SelectEdit(a) \/ WriteSetting(a) \/ Confirm(a)
    \/ Reserve(a) \/ WriteStructure(a) \/ ReadReply(a) \/ Leave(a)

Next == (\E a \in Assoc : Thread(a) \/ Client(a)) \/ Tick

\* Time passes and the threads run; nothing is assumed of the clients.
Fairness == WF_vars(Tick) /\ \A a \in Assoc : WF_vars(Thread(a))

Spec == Init /\ [][Next]_vars
FairSpec == Spec /\ Fairness

-----------------------------------------------------------------------------
(* Correctness *)

\* The shape of the state.
TypeOK ==
    /\ server \in Server
    /\ server.until # Never => server.editor # None
    /\ \A a \in Assoc :
        /\ conn[a].at \in {"read", "serve", "closed"} /\ conn[a].late \in 0..Stale
        /\ inbox[a] # None => inbox[a] \in Requests
        /\ reply[a] \in Answers

\* What the device protects with is what the group it shows as active holds,
\* after every activation and every edit of the group in force (apply_group).  A
\* Write of the SGCB as a structure shows another group without applying it
\* (acsi.rs:1143-1157); the next activation, or confirmation of the group shown,
\* makes the two agree again.
InForceIsActive ==
    "ActSG" \notin server.stray =>
        /\ server.actSG \in Groups
        /\ server.inForce = server.values[server.actSG]

\* Who holds the reservation is there, has a group selected, and finds in the
\* edit copy what that group holds and what it wrote itself, and nothing else
\* (the select of sg.rs:147-157): so whatever it confirms is its own.  A Write
\* of the SGCB as a structure, by whomever, may name another group (acsi.rs:
\* 1143-1157), until the next selection.
EditorSeesItsGroup ==
    server.editor # None =>
        /\ Open(server.editor)
        /\ "EditSG" \notin server.stray =>
             /\ server.editSG \in Groups
             /\ \A x \in Settings :
                  server.copy[x] \in {server.values[server.editSG][x], server.editor}

\* What is shown of the setting groups is so: to the device by the group in
\* force, to the editor by its copy.
GroupsAreAsShown == TypeOK /\ InForceIsActive /\ EditorSeesItsGroup

\* While a reservation runs nobody but its holder touches what is edited: the
\* groups, the edit copy and the reservation stay as the holder's own requests
\* left them, until its association ends (the refusals of sg.rs:134-202 and 240).
\* The selection stays, too, unless another client writes it as a part of the
\* whole SGCB, which asks for no holder (acsi.rs:1143-1157).
HolderEdits ==
    \A a \in Assoc :
        /\ server.editor = a /\ (server.until = Never \/ server.until > 0)
        /\ ~(inbox[a] # None /\ inbox'[a] = None)
        => /\ server'.values = server.values /\ server'.copy = server.copy
           /\ server'.editSG = server.editSG \/ "EditSG" \in server'.stray
           /\ \/ server'.editor = a
              \/ server'.editor = None /\ conn'[a].at = "closed"

EditIsExclusive == [][HolderEdits]_vars

\* A confirmation that is accepted from the holder changes the group it
\* selected and every setting it wrote, and no other group.  Where the selection
\* was overwritten with the whole SGCB it is the group named there that changes.
EditLands ==
    [][\A a \in Assoc :
        /\ server.editor = a /\ "EditSG" \notin server.stray
        /\ inbox[a] # None /\ inbox'[a] = None /\ reply'[a] = "ok"
        /\ inbox[a].kind = "CnfEdit" /\ inbox[a].group # 0
        => /\ \A x \in inbox[a].settings : server'.values[inbox[a].group][x] = a
           /\ \A g \in Groups \ {inbox[a].group} : server'.values[g] = server.values[g]
       ]_vars

\* A reservation with a deadline ends, or is made anew, whether its holder
\* goes on or not: a poll of some thread lets it lapse.
ReservationEnds ==
    \A a \in Assoc : server.editor = a /\ server.until # Never ~>
                        server.editor # a \/ server.until = Never
=============================================================================
