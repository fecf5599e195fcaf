------------------------------- MODULE Control -------------------------------
(***************************************************************************)
(* Controls on the server (server/control.rs): selecting, operating and    *)
(* cancelling, for each of the four control models, with the expiry of     *)
(* selections and the commands that wait for their operTm.                 *)
(*                                                                         *)
(* An operation takes the server's part of the state, a record, and        *)
(* returns the record it leaves.  Deadlines count down: `left` is the time *)
(* that remains, and the deadline has come when it is 0.                   *)
(***************************************************************************)
EXTENDS Naturals, Sequences, FiniteSetsExt, Functions, SequencesExt

CONSTANTS
    Assoc,       \* associations, as the server numbers them
    Objects,     \* controllable objects
    Values,      \* what an object can be told to become
    Nums,        \* the ctlNum of a command
    SboTimeout,  \* how long a selection is held
    None         \* no selection, no value

ASSUME ControlAssumption ==
    /\ None \notin Values
    /\ None \notin [assoc : Assoc, val : Values \cup {None}, num : Nums \cup {0}, left : Nat]
    /\ Values # {}
    /\ Nums \subseteq Nat \ {0}
    /\ SboTimeout \in Nat \ {0}

Models == {"StatusOnly", "DirectNormal", "SboNormal", "DirectEnhanced", "SboEnhanced"}
NeedsSelect(m) == m \in {"SboNormal", "SboEnhanced"}
Enhanced(m) == m \in {"DirectEnhanced", "SboEnhanced"}

\* The stages at which the application's hook is asked.
Stages == {"Select", "Operate", "Cancel"}

\* The behaviour (Beh) of the logical node an object lives in.
Behaviours == {"on", "blocked", "test", "testBlocked", "off"}

\* What a client writes to SBOw, Oper or Cancel; `wait` is the time until its
\* operTm, 0 when it has none or it has passed.
Requests == [num : Nums, val : Values, wait : Nat, test : BOOLEAN]

\* A reservation; a bare SBO makes one without a value and with ctlNum 0.
Selections == [assoc : Assoc, val : Values \cup {None}, num : Nums \cup {0}, left : Nat]

\* A command that waits for its operTm; `rank` is its place in the list.
Timed == [assoc : Assoc, object : Objects, req : Requests, left : Nat, rank : Nat]

\* A CommandTermination, or the LastApplError of a refusal.
Termination(n, ok) == [kind |-> "termination", num |-> n, ok |-> ok]

\* What is owed waits for the next publish, which hands each association its
\* own: only the order within an association can be told.
NothingOwed == [a \in Assoc |-> <<>>]

\* The server at start: no selection, nothing waits, the device where the
\* status says it is, and a hook that agrees to everything.
NewControls(model, value) ==
    [ sel     |-> [o \in Objects |-> None],
      timed   |-> {},
      armed   |-> 0,
      pending |-> NothingOwed,
      model   |-> model,
      mode    |-> [o \in Objects |-> "on"],
      barred  |-> {},
      status  |-> [o \in Objects |-> value],
      device  |-> [o \in Objects |-> value],
      ran     |-> {} ]

-----------------------------------------------------------------------------
(* What a command is refused for *)

\* The behaviour of the node must take commands and agree with Test.
ModeRefuses(s, o, test) ==
    \/ s.mode[o] \notin {"on", "test"}
    \/ test # (s.mode[o] = "test")

Agrees(s, stage) == stage \notin s.barred

SelectedBy(s, a, o) == s.sel[o] # None /\ s.sel[o].assoc = a

HeldByOther(s, a, o) ==
    s.sel[o] # None /\ s.sel[o].assoc # a /\ s.sel[o].left > 0

\* Mutant: any selection will do.
SelectionFitsAny(s, a, o, r) ==
    s.sel[o] # None /\ s.sel[o].val \in {None, r.val}

\* The selection an Oper relies on is the client's own, for this value and,
\* unless a bare SBO made it, under this ctlNum.
SelectionFits(s, a, o, r) ==
    /\ SelectedBy(s, a, o)
    /\ s.sel[o].val \in {None, r.val}
    /\ s.sel[o].num \in {0, r.num}

MaySelect(s, a, o) ==
    /\ s.model[o] = "SboNormal"
    /\ ~HeldByOther(s, a, o)
    /\ ~ModeRefuses(s, o, FALSE)
    /\ Agrees(s, "Select")

MaySelectWithValue(s, a, o, r) ==
    /\ ~ModeRefuses(s, o, r.test)
    /\ s.model[o] = "SboEnhanced"
    /\ ~HeldByOther(s, a, o)
    /\ Agrees(s, "Select")

MayOperate(s, a, o, r) ==
    /\ ~ModeRefuses(s, o, r.test)
    /\ s.model[o] # "StatusOnly"
    /\ NeedsSelect(s.model[o]) => SelectionFits(s, a, o, r)
    /\ Agrees(s, "Operate")

Armed(s, a, o) == {t \in s.timed : t.assoc = a /\ t.object = o}

\* Cancel is exempt from the behaviour, and must find something to withdraw.
MayCancel(s, a, o) ==
    /\ Agrees(s, "Cancel")
    /\ Armed(s, a, o) # {} \/ SelectedBy(s, a, o)

Commands == {"SBO", "SBOw", "Oper", "Cancel"}

May(s, a, o, command, r) ==
    CASE command = "SBO"    -> MaySelect(s, a, o)
      [] command = "SBOw"   -> MaySelectWithValue(s, a, o, r)
      [] command = "Oper"   -> MayOperate(s, a, o, r)
      [] command = "Cancel" -> MayCancel(s, a, o)

-----------------------------------------------------------------------------
(* What a command does *)

Reserved(s, a, o, val, num) ==
    [s EXCEPT !.sel[o] = [assoc |-> a, val |-> val, num |-> num, left |-> SboTimeout]]

\* The status follows the command, and so does the device: the hook that was
\* asked for the operate is what drives it.
Applied(s, a, o, r) ==
    [s EXCEPT !.status[o] = r.val,
              !.ran = @ \cup {[assoc |-> a, num |-> r.num]},
              !.pending[a] = IF Enhanced(s.model[o])
                             THEN Append(@, Termination(r.num, TRUE)) ELSE @]

\* An operTm in the future arms the command, in place of one the client had
\* armed for the object.
ArmedWith(s, a, o, r) ==
    [s EXCEPT !.timed = (@ \ Armed(s, a, o)) \cup
                  {[assoc |-> a, object |-> o, req |-> r, left |-> r.wait, rank |-> s.armed]},
              !.armed = @ + 1]

\* The hook has been asked and agreed: the device has been driven, whatever
\* the operTm says.
Driven(s, o, r) == [s EXCEPT !.device[o] = r.val]

Operated(s, a, o, r) ==
    LET asked == Driven([s EXCEPT !.sel[o] = None], o, r)
    IN  IF r.wait > 0 THEN ArmedWith(asked, a, o, r) ELSE Applied(asked, a, o, r)

Cancelled(s, a, o) ==
    [s EXCEPT !.timed = @ \ Armed(s, a, o),
              !.sel[o] = IF SelectedBy(s, a, o) THEN None ELSE @]

Done(s, a, o, command, r) ==
    CASE command = "SBO"    -> Reserved(s, a, o, None, 0)
      [] command = "SBOw"   -> Reserved(s, a, o, r.val, r.num)
      [] command = "Oper"   -> Operated(s, a, o, r)
      [] command = "Cancel" -> Cancelled(s, a, o)

\* A refusal leaves a LastApplError; a bare SBO is refused without one.
Refused(s, a, command, r) ==
    IF command = "SBO" THEN s
    ELSE [s EXCEPT !.pending[a] = Append(@, Termination(r.num, FALSE))]

\* The write of a refused operate succeeds when the model owes a termination.
Answered(s, a, o, command, r) ==
    \/ May(s, a, o, command, r)
    \/ command = "Oper" /\ Enhanced(s.model[o])

-----------------------------------------------------------------------------
(* The passing of time *)

Due(s) == {t \in s.timed : t.left = 0}

\* Mutant: what was accepted is run.
RunsAsAccepted(s) == Due(s)

\* The behaviour and the hook are asked again when the command runs.
Runs(s) ==
    {t \in Due(s) : ~ModeRefuses(s, t.object, t.req.test) /\ Agrees(s, "Operate")}

\* Of several commands that run for one object the last in the list prevails.
Prevails(s, o, was) ==
    LET mine == {t \in Runs(s) : t.object = o}
    IN  IF mine = {} THEN was
        ELSE (CHOOSE t \in mine : \A u \in mine : u.rank <= t.rank).req.val

\* Commands in the order of the list they are kept in.
InOrder(S) ==
    CHOOSE q \in [1 .. Cardinality(S) -> S] :
        \A i, j \in 1 .. Cardinality(S) : i < j => q[i].rank < q[j].rank

\* Mutant: a command refused when its time has come is dropped in silence.
OwedIfRun(s, a) ==
    LET list == InOrder({t \in Runs(s) : t.assoc = a /\ Enhanced(s.model[t.object])})
    IN  [i \in DOMAIN list |-> Termination(list[i].req.num, TRUE)]

\* What the due commands owe a client, in the order of the list: a termination
\* for each that is refused and for each that runs with enhanced security.
Owed(s, a) ==
    LET list == InOrder({t \in Due(s) : /\ t.assoc = a
                                        /\ t \in Runs(s) => Enhanced(s.model[t.object])})
    IN  [i \in DOMAIN list |-> Termination(list[i].req.num, list[i] \in Runs(s))]

Unexpired(s) ==
    [o \in Objects |-> IF s.sel[o] # None /\ s.sel[o].left = 0 THEN None ELSE s.sel[o]]

\* on_timeout: selections expire, and commands whose time has come run or are
\* refused.
Elapsed(s) ==
    [s EXCEPT
        !.sel     = Unexpired(s),
        !.timed   = @ \ Due(s),
        !.status  = [o \in Objects |-> Prevails(s, o, @[o])],
        !.device  = [o \in Objects |-> Prevails(s, o, @[o])],
        !.ran     = @ \cup {[assoc |-> t.assoc, num |-> t.req.num] : t \in Runs(s)},
        !.pending = [a \in Assoc |-> @[a] \o Owed(s, a)]]

\* A Write of SBOw, Oper or Cancel lets time pass first; a Read of SBO does not.
Before(s, command) == IF command = "SBO" THEN s ELSE Elapsed(s)

\* One control service: a Read of SBO or a Write of SBOw, Oper or Cancel.
Served(s, a, o, command, r) ==
    LET t == Before(s, command)
    IN  IF May(t, a, o, command, r) THEN Done(t, a, o, command, r)
        ELSE Refused(t, a, command, r)

ServedOk(s, a, o, command, r) == Answered(Before(s, command), a, o, command, r)

\* An association ended: what it selected and what it armed goes with it.
Dropped(s, a) ==
    [s EXCEPT !.sel = [o \in Objects |-> IF SelectedBy(s, a, o) THEN None ELSE @[o]],
              !.timed = {t \in @ : t.assoc # a}]

\* One unit of time, for what counts down.
Older(n) == IF n > 0 THEN n - 1 ELSE 0

Aged(x) == [x EXCEPT !.left = Older(@)]

LetTimePass(s) ==
    [s EXCEPT !.sel = [o \in Objects |-> IF s.sel[o] = None THEN None ELSE Aged(s.sel[o])],
              !.timed = {Aged(t) : t \in s.timed}]
=============================================================================
