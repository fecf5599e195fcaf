----------------------------- MODULE ControlProofs -----------------------------
(***************************************************************************)
(* That what is selected and armed always belongs to an association that   *)
(* is open, and that an object is its holder's while it is selected, for   *)
(* any number of associations, objects and values, and any bounds.         *)
(***************************************************************************)
EXTENDS ControlService, SequenceTheorems, FiniteSetTheorems, WellFoundedInduction, TLAPS

ServerFields == {"sel", "timed", "armed", "pending", "model", "mode", "barred",
                 "status", "device", "ran"}

\* The controls as records: the tables that the theorems are about have their
\* types, the other fields are only there.
Shaped(s) ==
    /\ DOMAIN s = ServerFields
    /\ s = [f \in ServerFields |-> s[f]]
    /\ s.sel \in [Objects -> Selections \cup {None}]
    /\ s.timed \subseteq Timed
    /\ s.armed \in Nat
    /\ s.model \in [Objects -> Models]

\* Only what has to be selected before it is operated is ever selected.
SelectableOnly(s) == \A o \in Objects : s.sel[o] # None => NeedsSelect(s.model[o])

-----------------------------------------------------------------------------
(* The operations on the controls *)

\* What the passing of time does to the tables: selections that have expired
\* and commands that are due leave them.
LEMMA ElapsedTables ==
    ASSUME NEW s, Shaped(s)
    PROVE  /\ Shaped(Elapsed(s))
           /\ Elapsed(s).sel = Unexpired(s)
           /\ Elapsed(s).timed = s.timed \ Due(s)
           /\ Elapsed(s).model = s.model
           /\ Elapsed(s).ran = s.ran \cup {[assoc |-> t.assoc, num |-> t.req.num] : t \in Runs(s)}
           /\ Elapsed(s).armed = s.armed
           /\ Elapsed(s).pending = [a \in Assoc |-> s.pending[a] \o Owed(s, a)]
  <1> DEFINE status == [o \in Objects |-> Prevails(s, o, s.status[o])]
             device == [o \in Objects |-> Prevails(s, o, s.device[o])]
             ran == s.ran \cup {[assoc |-> t.assoc, num |-> t.req.num] : t \in Runs(s)}
             pending == [a \in Assoc |-> s.pending[a] \o Owed(s, a)]
             timed == s.timed \ Due(s)
             sel == Unexpired(s)
  <1>1. Elapsed(s) = [s EXCEPT !.sel = sel, !.timed = timed, !.status = status,
                               !.device = device, !.ran = ran, !.pending = pending]
    BY Zenon DEF Elapsed
  <1>2. sel \in [Objects -> Selections \cup {None}]
    BY DEF Shaped, Unexpired
  <1>3. timed \subseteq Timed
    BY DEF Shaped
  <1> HIDE DEF status, device, ran, pending, timed, sel
  <1>4. /\ Elapsed(s).sel = sel /\ Elapsed(s).timed = timed /\ Elapsed(s).ran = ran
        /\ Elapsed(s).model = s.model /\ Elapsed(s).armed = s.armed
        /\ Elapsed(s).pending = pending
        /\ DOMAIN Elapsed(s) = ServerFields
        /\ Elapsed(s) = [f \in ServerFields |-> Elapsed(s)[f]]
    BY <1>1 DEF Shaped, ServerFields
  <1> QED
    BY <1>2, <1>3, <1>4 DEF Shaped, sel, timed, ran, pending

\* The tables after an operation for `a`: what is new in them is of `a`.
OnlyOf(a, s, t) ==
    /\ Shaped(t)
    /\ t.model = s.model
    /\ \A o \in Objects : t.sel[o] # None =>
          t.sel[o].assoc = a \/ (s.sel[o] # None /\ t.sel[o].assoc = s.sel[o].assoc)
    /\ \A x \in t.timed : x.assoc = a \/ x \in s.timed

\* A reservation is of its client, and touches no other object.
LEMMA ReservedTables ==
    ASSUME NEW s, Shaped(s), NEW a \in Assoc, NEW o \in Objects,
           NEW val \in Values \cup {None}, NEW num \in Nums \cup {0}
    PROVE  /\ OnlyOf(a, s, Reserved(s, a, o, val, num))
           /\ Reserved(s, a, o, val, num).ran = s.ran
           /\ Reserved(s, a, o, val, num).timed = s.timed
           /\ Reserved(s, a, o, val, num).armed = s.armed
           /\ Reserved(s, a, o, val, num).pending = s.pending
           /\ \A x \in Objects \ {o} : Reserved(s, a, o, val, num).sel[x] = s.sel[x]
  <1> DEFINE new == [assoc |-> a, val |-> val, num |-> num, left |-> SboTimeout]
             sel == [s.sel EXCEPT ![o] = new]
  <1>1. Reserved(s, a, o, val, num) = [s EXCEPT !.sel = sel]
    BY DEF Reserved, Shaped, ServerFields
  <1>2. new \in Selections /\ new.assoc = a
    BY ControlAssumption DEF Selections
  <1> HIDE DEF new
  <1>3. sel \in [Objects -> Selections \cup {None}]
    BY <1>2 DEF Shaped
  <1>4. /\ \A x \in Objects \ {o} : sel[x] = s.sel[x]
        /\ sel[o] = new
    BY DEF Shaped
  <1> HIDE DEF sel
  <1>5. /\ Reserved(s, a, o, val, num).sel = sel
        /\ Reserved(s, a, o, val, num).timed = s.timed
        /\ Reserved(s, a, o, val, num).ran = s.ran
        /\ Reserved(s, a, o, val, num).armed = s.armed
        /\ Reserved(s, a, o, val, num).pending = s.pending
        /\ Shaped(Reserved(s, a, o, val, num))
        /\ Reserved(s, a, o, val, num).model = s.model
    BY <1>1, <1>3 DEF Shaped, ServerFields
  <1> QED
    BY <1>2, <1>4, <1>5 DEF OnlyOf

\* The books after an operation: the command is in the list, or it has run.
OperatedBooks(s, t, a, o, r) ==
    IF r.wait > 0
    THEN /\ t.timed = (s.timed \ Armed(s, a, o)) \cup
               {[assoc |-> a, object |-> o, req |-> r, left |-> r.wait, rank |-> s.armed]}
         /\ t.armed = s.armed + 1 /\ t.ran = s.ran /\ t.pending = s.pending
    ELSE /\ t.timed = s.timed /\ t.armed = s.armed
         /\ t.ran = s.ran \cup {[assoc |-> a, num |-> r.num]}
         /\ t.pending = [s.pending EXCEPT ![a] =
               IF Enhanced(s.model[o]) THEN Append(s.pending[a], Termination(r.num, TRUE))
               ELSE s.pending[a]]

\* An operation lets go of the selection of its object, whoever's it was, and
\* may arm a command of its client.
LEMMA OperatedTables ==
    ASSUME NEW s, Shaped(s), NEW a \in Assoc, NEW o \in Objects, NEW r \in Requests
    PROVE  /\ OnlyOf(a, s, Operated(s, a, o, r))
           /\ \A x \in Objects \ {o} : Operated(s, a, o, r).sel[x] = s.sel[x]
           /\ Operated(s, a, o, r).sel[o] = None
           /\ OperatedBooks(s, Operated(s, a, o, r), a, o, r)
  <1> DEFINE sel == [s.sel EXCEPT ![o] = None]
             device == [s.device EXCEPT ![o] = r.val]
             asked == Driven([s EXCEPT !.sel[o] = None], o, r)
             new == [assoc |-> a, object |-> o, req |-> r, left |-> r.wait, rank |-> s.armed]
             timed == (s.timed \ Armed(asked, a, o)) \cup {new}
  <1>1. asked = [s EXCEPT !.sel = sel, !.device = device]
    BY DEF Driven, Shaped, ServerFields
  <1>2. sel \in [Objects -> Selections \cup {None}]
    BY DEF Shaped
  <1>3. /\ \A x \in Objects \ {o} : sel[x] = s.sel[x]
        /\ sel[o] = None
    BY DEF Shaped
  <1>4. new \in Timed /\ new.assoc = a
    BY DEF Timed, Requests, Shaped
  <1> HIDE DEF sel, device, new
  <1>5. /\ DOMAIN asked = ServerFields
        /\ asked = [f \in ServerFields |-> asked[f]]
        /\ asked.sel = sel /\ asked.timed = s.timed /\ asked.armed = s.armed
        /\ asked.model = s.model /\ asked.ran = s.ran /\ asked.pending = s.pending
    BY <1>1 DEF Shaped, ServerFields
  <1> HIDE DEF asked
  <1>6. CASE r.wait > 0
    <2>1. Operated(s, a, o, r) = [asked EXCEPT !.timed = timed, !.armed = s.armed + 1]
      <3>1. Operated(s, a, o, r) = ArmedWith(asked, a, o, r)
        BY <1>6 DEF Operated, asked
      <3> QED
        BY <3>1, <1>5 DEF ArmedWith, new, ServerFields
    <2>2. timed \subseteq Timed /\ \A x \in timed : x.assoc = a \/ x \in s.timed
      BY <1>4 DEF Shaped
    <2> HIDE DEF timed
    <2>3. /\ DOMAIN Operated(s, a, o, r) = ServerFields
          /\ Operated(s, a, o, r) = [f \in ServerFields |-> Operated(s, a, o, r)[f]]
          /\ Operated(s, a, o, r).sel = sel
          /\ Operated(s, a, o, r).timed = timed
          /\ Operated(s, a, o, r).armed = s.armed + 1
          /\ Operated(s, a, o, r).model = s.model
          /\ Operated(s, a, o, r).ran = s.ran
          /\ Operated(s, a, o, r).pending = s.pending
      BY <2>1, <1>5 DEF ServerFields
    <2>4. timed = (s.timed \ Armed(s, a, o)) \cup {new}
      BY <1>5 DEF Armed, timed
    <2>5. /\ OnlyOf(a, s, Operated(s, a, o, r))
          /\ \A x \in Objects \ {o} : Operated(s, a, o, r).sel[x] = s.sel[x]
          /\ Operated(s, a, o, r).sel[o] = None
      <3>1. Shaped(Operated(s, a, o, r))
        BY <1>2, <2>2, <2>3 DEF Shaped
      <3> QED
        BY <1>3, <2>2, <2>3, <3>1 DEF OnlyOf
    <2>6. OperatedBooks(s, Operated(s, a, o, r), a, o, r)
      BY <1>6, <2>3, <2>4 DEF new, OperatedBooks
    <2> QED
      BY <2>5, <2>6
  <1>7. CASE ~(r.wait > 0)
    <2> DEFINE status == [asked.status EXCEPT ![o] = r.val]
               ran == asked.ran \cup {[assoc |-> a, num |-> r.num]}
               owed == IF Enhanced(asked.model[o])
                       THEN Append(asked.pending[a], Termination(r.num, TRUE))
                       ELSE asked.pending[a]
               pending == [asked.pending EXCEPT ![a] = owed]
    <2>1. Operated(s, a, o, r) =
              [asked EXCEPT !.status = status, !.ran = ran, !.pending = pending]
      <3>1. Operated(s, a, o, r) = Applied(asked, a, o, r)
        BY <1>7 DEF Operated, asked
      <3> QED
        BY <3>1, <1>5 DEF Applied, ServerFields
    <2> HIDE DEF status, ran, pending
    <2>2. /\ DOMAIN Operated(s, a, o, r) = ServerFields
          /\ Operated(s, a, o, r) = [f \in ServerFields |-> Operated(s, a, o, r)[f]]
          /\ Operated(s, a, o, r).sel = sel
          /\ Operated(s, a, o, r).timed = s.timed
          /\ Operated(s, a, o, r).armed = s.armed
          /\ Operated(s, a, o, r).model = s.model
          /\ Operated(s, a, o, r).ran = ran
          /\ Operated(s, a, o, r).pending = pending
      BY <2>1, <1>5 DEF ServerFields
    <2>3. /\ ran = s.ran \cup {[assoc |-> a, num |-> r.num]}
          /\ pending = [s.pending EXCEPT ![a] =
                IF Enhanced(s.model[o]) THEN Append(s.pending[a], Termination(r.num, TRUE))
                ELSE s.pending[a]]
      BY <1>5 DEF ran, pending
    <2>4. /\ OnlyOf(a, s, Operated(s, a, o, r))
          /\ \A x \in Objects \ {o} : Operated(s, a, o, r).sel[x] = s.sel[x]
          /\ Operated(s, a, o, r).sel[o] = None
      BY <1>2, <1>3, <2>2 DEF OnlyOf, Shaped
    <2>5. OperatedBooks(s, Operated(s, a, o, r), a, o, r)
      BY <1>7, <2>2, <2>3 DEF OperatedBooks
    <2> QED
      BY <2>4, <2>5
  <1> QED
    BY <1>6, <1>7

\* A Cancel touches only what its client holds.
LEMMA CancelledTables ==
    ASSUME NEW s, Shaped(s), NEW a \in Assoc, NEW o \in Objects
    PROVE  /\ OnlyOf(a, s, Cancelled(s, a, o))
           /\ \A x \in Objects : ~SelectedBy(s, a, x) => Cancelled(s, a, o).sel[x] = s.sel[x]
           /\ Cancelled(s, a, o).ran = s.ran
           /\ Cancelled(s, a, o).timed = s.timed \ Armed(s, a, o)
           /\ Cancelled(s, a, o).armed = s.armed
           /\ Cancelled(s, a, o).pending = s.pending
  <1> DEFINE sel == [s.sel EXCEPT ![o] = IF SelectedBy(s, a, o) THEN None ELSE s.sel[o]]
             timed == s.timed \ Armed(s, a, o)
  <1>1. Cancelled(s, a, o) = [s EXCEPT !.timed = timed, !.sel = sel]
    BY DEF Cancelled, Shaped, ServerFields
  <1>2. sel \in [Objects -> Selections \cup {None}]
    BY DEF Shaped
  <1>3. /\ \A x \in Objects : ~SelectedBy(s, a, x) => sel[x] = s.sel[x]
        /\ \A x \in Objects : sel[x] \in {None, s.sel[x]}
    BY DEF Shaped
  <1>4. timed \subseteq Timed /\ timed \subseteq s.timed
    BY DEF Shaped
  <1> HIDE DEF sel, timed
  <1>5. /\ Cancelled(s, a, o).sel = sel
        /\ Cancelled(s, a, o).timed = timed
        /\ Cancelled(s, a, o).ran = s.ran
        /\ Cancelled(s, a, o).armed = s.armed
        /\ Cancelled(s, a, o).pending = s.pending
        /\ Cancelled(s, a, o).model = s.model
        /\ Shaped(Cancelled(s, a, o))
    BY <1>1, <1>2, <1>4 DEF Shaped, ServerFields
  <1> QED
    BY <1>3, <1>4, <1>5 DEF OnlyOf, timed

\* The books after a refusal: it is owed to the client.
RefusedBooks(s, t, a, command, r) ==
    /\ t.armed = s.armed
    /\ t.pending = IF command = "SBO" THEN s.pending
                   ELSE [s.pending EXCEPT ![a] = Append(s.pending[a], Termination(r.num, FALSE))]

\* A refusal leaves the tables alone.
LEMMA RefusedTables ==
    ASSUME NEW s, Shaped(s), NEW a \in Assoc, NEW command, NEW r \in Requests
    PROVE  /\ Shaped(Refused(s, a, command, r))
           /\ Refused(s, a, command, r).sel = s.sel
           /\ Refused(s, a, command, r).timed = s.timed
           /\ Refused(s, a, command, r).model = s.model
           /\ Refused(s, a, command, r).ran = s.ran
           /\ RefusedBooks(s, Refused(s, a, command, r), a, command, r)
  <1> DEFINE pending == [s.pending EXCEPT ![a] = Append(s.pending[a], Termination(r.num, FALSE))]
  <1>1. CASE command = "SBO"
    BY <1>1 DEF Refused, RefusedBooks
  <1>2. CASE command # "SBO"
    <2>1. Refused(s, a, command, r) = [s EXCEPT !.pending = pending]
      BY <1>2 DEF Refused, Shaped, ServerFields
    <2> HIDE DEF pending
    <2>2. /\ Shaped(Refused(s, a, command, r))
          /\ Refused(s, a, command, r).sel = s.sel
          /\ Refused(s, a, command, r).timed = s.timed
          /\ Refused(s, a, command, r).model = s.model
          /\ Refused(s, a, command, r).ran = s.ran
          /\ Refused(s, a, command, r).armed = s.armed
          /\ Refused(s, a, command, r).pending = pending
      BY <2>1 DEF Shaped, ServerFields
    <2>3. RefusedBooks(s, Refused(s, a, command, r), a, command, r)
      BY <1>2, <2>2 DEF pending, RefusedBooks
    <2> QED
      BY <2>2, <2>3
  <1> QED
    BY <1>1, <1>2

\* The end of an association leaves nothing of its own, and all the rest.
LEMMA DroppedTables ==
    ASSUME NEW s, Shaped(s), NEW a \in Assoc
    PROVE  /\ Shaped(Dropped(s, a))
           /\ Dropped(s, a).model = s.model
           /\ \A o \in Objects : IF SelectedBy(s, a, o) THEN Dropped(s, a).sel[o] = None
                                ELSE Dropped(s, a).sel[o] = s.sel[o]
           /\ Dropped(s, a).timed = {t \in s.timed : t.assoc # a}
           /\ Dropped(s, a).ran = s.ran /\ Dropped(s, a).armed = s.armed
           /\ Dropped(s, a).pending = s.pending
  <1> DEFINE sel == [o \in Objects |-> IF SelectedBy(s, a, o) THEN None ELSE s.sel[o]]
             timed == {t \in s.timed : t.assoc # a}
  <1>1. Dropped(s, a) = [s EXCEPT !.sel = sel, !.timed = timed]
    BY DEF Dropped, Shaped, ServerFields
  <1>2. sel \in [Objects -> Selections \cup {None}]
    BY DEF Shaped
  <1>3. \A o \in Objects : sel[o] = IF SelectedBy(s, a, o) THEN None ELSE s.sel[o]
    OBVIOUS
  <1>4. timed \subseteq Timed /\ \A t \in timed : t \in s.timed /\ t.assoc # a
    BY DEF Shaped
  <1> HIDE DEF sel, timed
  <1>5. /\ Dropped(s, a).sel = sel
        /\ Dropped(s, a).timed = timed
        /\ Dropped(s, a).model = s.model
        /\ Dropped(s, a).ran = s.ran /\ Dropped(s, a).armed = s.armed
        /\ Dropped(s, a).pending = s.pending
        /\ Shaped(Dropped(s, a))
    BY <1>1, <1>2, <1>4 DEF Shaped, ServerFields
  <1> QED
    BY <1>3, <1>5 DEF timed

\* Time passing takes nothing away: what has come due is left to a poll.
LEMMA TimePassesTables ==
    ASSUME NEW s, Shaped(s)
    PROVE  /\ Shaped(LetTimePass(s))
           /\ LetTimePass(s).model = s.model
           /\ \A o \in Objects : s.sel[o] = None => LetTimePass(s).sel[o] = None
           /\ \A o \in Objects : s.sel[o] # None =>
                 LetTimePass(s).sel[o] # None /\ LetTimePass(s).sel[o].assoc = s.sel[o].assoc
           /\ \A t \in LetTimePass(s).timed : \E u \in s.timed : t.assoc = u.assoc
           /\ LetTimePass(s).timed = {Aged(t) : t \in s.timed}
           /\ LetTimePass(s).ran = s.ran /\ LetTimePass(s).armed = s.armed
           /\ LetTimePass(s).pending = s.pending
  <1> DEFINE sel == [o \in Objects |-> IF s.sel[o] = None THEN None ELSE Aged(s.sel[o])]
             timed == {Aged(t) : t \in s.timed}
  <1>1. LetTimePass(s) = [s EXCEPT !.sel = sel, !.timed = timed]
    BY Zenon DEF LetTimePass
  <1>2. \A x \in Selections : Aged(x) \in Selections /\ Aged(x).assoc = x.assoc
    BY DEF Selections, Older, Aged
  <1>3. \A t \in Timed : Aged(t) \in Timed /\ Aged(t).assoc = t.assoc
    BY DEF Timed, Older, Aged
  <1>4. sel \in [Objects -> Selections \cup {None}]
    BY <1>2 DEF Shaped
  <1>5. None \notin Selections
    BY ControlAssumption DEF Selections
  <1>6. \A o \in Objects : IF s.sel[o] = None THEN sel[o] = None
                           ELSE sel[o] # None /\ sel[o].assoc = s.sel[o].assoc
    BY <1>2, <1>5 DEF Shaped
  <1>7. timed \subseteq Timed /\ \A t \in timed : \E u \in s.timed : t.assoc = u.assoc
    BY <1>3 DEF Shaped
  <1> HIDE DEF sel, timed
  <1>8. /\ LetTimePass(s).sel = sel
        /\ LetTimePass(s).timed = timed
        /\ LetTimePass(s).model = s.model
        /\ LetTimePass(s).ran = s.ran /\ LetTimePass(s).armed = s.armed
        /\ LetTimePass(s).pending = s.pending
        /\ Shaped(LetTimePass(s))
    BY <1>1, <1>4, <1>7 DEF Shaped, ServerFields
  <1> QED
    BY <1>6, <1>7, <1>8 DEF timed

\* Time may pass before a service.
LEMMA BeforeTables ==
    ASSUME NEW s, Shaped(s), NEW command
    PROVE  /\ Shaped(Before(s, command))
           /\ Before(s, command).model = s.model
           /\ Before(s, command).sel \in {s.sel, Unexpired(s)}
           /\ Before(s, command).timed \subseteq s.timed
           /\ Before(s, command).ran \subseteq
                 s.ran \cup {[assoc |-> t.assoc, num |-> t.req.num] : t \in s.timed}
  <1>1. CASE command = "SBO"
    BY <1>1 DEF Before
  <1>2. CASE command # "SBO"
    <2>1. Before(s, command) = Elapsed(s)
      BY <1>2 DEF Before
    <2>2. {[assoc |-> t.assoc, num |-> t.req.num] : t \in Runs(s)} \subseteq
          {[assoc |-> t.assoc, num |-> t.req.num] : t \in s.timed}
      BY DEF Runs, Due
    <2> QED
      BY <2>1, <2>2, ElapsedTables
  <1> QED
    BY <1>1, <1>2

\* One service: what is new is of the client that asked for it.
LEMMA ServedTables ==
    ASSUME NEW s, Shaped(s), NEW a \in Assoc, NEW o \in Objects,
           NEW command \in Commands, NEW r \in Requests
    PROVE  OnlyOf(a, s, Served(s, a, o, command, r))
  <1> DEFINE t == Before(s, command)
  <1>1. /\ Shaped(t) /\ t.model = s.model
        /\ \A x \in Objects : t.sel[x] \in {None, s.sel[x]}
        /\ t.timed \subseteq s.timed
    BY BeforeTables DEF Unexpired, Shaped
  <1>2. Served(s, a, o, command, r) \in
          {Done(t, a, o, command, r), Refused(t, a, command, r)}
    BY DEF Served
  <1> HIDE DEF t
  <1>3. OnlyOf(a, t, Done(t, a, o, command, r))
    <2>1. CASE command = "SBO"
      BY <1>1, <2>1, ReservedTables DEF Done
    <2>2. CASE command = "SBOw"
      BY <1>1, <2>2, ReservedTables DEF Done, Requests
    <2>3. CASE command = "Oper"
      BY <1>1, <2>3, OperatedTables DEF Done
    <2>4. CASE command = "Cancel"
      BY <1>1, <2>4, CancelledTables DEF Done
    <2> QED
      BY <2>1, <2>2, <2>3, <2>4 DEF Commands
  <1>4. OnlyOf(a, t, Refused(t, a, command, r))
    BY <1>1, RefusedTables DEF OnlyOf
  <1> QED
    BY <1>1, <1>2, <1>3, <1>4 DEF OnlyOf

\* Only objects that have to be selected are.
LEMMA ServedSelectable ==
    ASSUME NEW s, Shaped(s), SelectableOnly(s), NEW a \in Assoc, NEW o \in Objects,
           NEW command \in Commands, NEW r \in Requests
    PROVE  SelectableOnly(Served(s, a, o, command, r))
  <1> DEFINE t == Before(s, command)
  <1>1. Shaped(t) /\ t.model = s.model /\ SelectableOnly(t)
    <2>1. /\ Shaped(t) /\ t.model = s.model
          /\ t.sel \in {s.sel, Unexpired(s)}
      BY BeforeTables
    <2> QED
      BY <2>1 DEF Unexpired, SelectableOnly
  <1>2. IF May(t, a, o, command, r)
        THEN Served(s, a, o, command, r) = Done(t, a, o, command, r)
        ELSE Served(s, a, o, command, r) = Refused(t, a, command, r)
    BY DEF Served
  <1> HIDE DEF t
  <1>3. ASSUME May(t, a, o, command, r)
        PROVE  SelectableOnly(Done(t, a, o, command, r))
    <2>1. CASE command = "SBO"
      BY <1>1, <1>3, <2>1, ReservedTables
      DEF Done, May, MaySelect, NeedsSelect, SelectableOnly, OnlyOf
    <2>2. CASE command = "SBOw"
      BY <1>1, <1>3, <2>2, ReservedTables
      DEF Done, May, MaySelectWithValue, NeedsSelect, SelectableOnly, OnlyOf, Requests
    <2>3. CASE command = "Oper"
      <3>1. \A x \in Objects : Operated(t, a, o, r).sel[x] # None => t.sel[x] # None
        BY <1>1, OperatedTables
      <3> QED
        BY <1>1, <2>3, <3>1, OperatedTables DEF Done, SelectableOnly, OnlyOf
    <2>4. CASE command = "Cancel"
      <3>1. \A x \in Objects : Cancelled(t, a, o).sel[x] # None => t.sel[x] # None
        BY <1>1, CancelledTables DEF SelectedBy
      <3> QED
        BY <1>1, <2>4, <3>1, CancelledTables DEF Done, SelectableOnly, OnlyOf
    <2> QED
      BY <2>1, <2>2, <2>3, <2>4 DEF Commands
  <1>4. SelectableOnly(Refused(t, a, command, r))
    BY <1>1, RefusedTables DEF SelectableOnly
  <1> QED
    BY <1>2, <1>3, <1>4

\* A selection that has not expired survives every service of another client,
\* and none of them runs on its object a command that was not armed.
LEMMA ServedRespects ==
    ASSUME NEW s, Shaped(s), SelectableOnly(s), NEW a \in Assoc, NEW o \in Objects,
           NEW command \in Commands, NEW r \in Requests,
           NEW b \in Assoc \ {a}, NEW x \in Objects,
           SelectedBy(s, b, x), s.sel[x].left > 0
    PROVE  /\ SelectedBy(Served(s, a, o, command, r), b, x)
           /\ x = o => Served(s, a, o, command, r).ran \subseteq
                s.ran \cup {[assoc |-> t.assoc, num |-> t.req.num] : t \in s.timed}
  <1> DEFINE t == Before(s, command)
  <1>1. /\ Shaped(t) /\ t.model = s.model /\ t.sel \in {s.sel, Unexpired(s)}
        /\ t.ran \subseteq s.ran \cup {[assoc |-> u.assoc, num |-> u.req.num] : u \in s.timed}
    BY BeforeTables
  <1>2. IF May(t, a, o, command, r)
        THEN Served(s, a, o, command, r) = Done(t, a, o, command, r)
        ELSE Served(s, a, o, command, r) = Refused(t, a, command, r)
    BY DEF Served
  <1> HIDE DEF t
  <1>3. t.sel[x] = s.sel[x]
    BY <1>1 DEF Unexpired, SelectedBy
  <1>4. SelectedBy(t, b, x) /\ ~SelectedBy(t, a, x) /\ HeldByOther(t, a, x)
    BY <1>3 DEF SelectedBy, HeldByOther
  <1>5. NeedsSelect(t.model[x])
    BY <1>1 DEF SelectableOnly, SelectedBy
  <1>6. CASE May(t, a, o, command, r)
    <2>1. CASE command = "SBO"
      <3>1. x # o
        BY <1>4, <1>6, <2>1 DEF May, MaySelect
      <3>2. /\ Done(t, a, o, command, r).sel[x] = t.sel[x]
            /\ Done(t, a, o, command, r).ran = t.ran
        BY <1>1, <2>1, <3>1, ReservedTables DEF Done
      <3> QED
        BY <1>2, <1>4, <1>6, <3>1, <3>2 DEF SelectedBy
    <2>2. CASE command = "SBOw"
      <3>1. x # o
        BY <1>4, <1>6, <2>2 DEF May, MaySelectWithValue
      <3>2. /\ Done(t, a, o, command, r).sel[x] = t.sel[x]
            /\ Done(t, a, o, command, r).ran = t.ran
        BY <1>1, <2>2, <3>1, ReservedTables DEF Done, Requests
      <3> QED
        BY <1>2, <1>4, <1>6, <3>1, <3>2 DEF SelectedBy
    <2>3. CASE command = "Oper"
      <3>1. x # o
        BY <1>4, <1>5, <1>6, <2>3 DEF May, MayOperate, SelectionFits
      <3>2. Done(t, a, o, command, r).sel[x] = t.sel[x]
        BY <1>1, <2>3, <3>1, OperatedTables DEF Done
      <3> QED
        BY <1>2, <1>4, <1>6, <3>1, <3>2 DEF SelectedBy
    <2>4. CASE command = "Cancel"
      <3>1. /\ Done(t, a, o, command, r).sel[x] = t.sel[x]
            /\ Done(t, a, o, command, r).ran = t.ran
        BY <1>1, <1>4, <2>4, CancelledTables DEF Done
      <3> QED
        BY <1>1, <1>2, <1>4, <1>6, <3>1 DEF SelectedBy
    <2> QED
      BY <2>1, <2>2, <2>3, <2>4 DEF Commands
  <1>7. CASE ~May(t, a, o, command, r)
    <2>1. /\ Refused(t, a, command, r).sel = t.sel
          /\ Refused(t, a, command, r).ran = t.ran
      BY <1>1, RefusedTables
    <2> QED
      BY <1>1, <1>2, <1>4, <1>7, <2>1 DEF SelectedBy
  <1> QED
    BY <1>6, <1>7

-----------------------------------------------------------------------------
(* The threads *)

ConnFields == {"at", "queue", "stalled", "unsent", "wire"}

ConnShaped(c) == DOMAIN c = ConnFields /\ c = [f \in ConnFields |-> c[f]]

Conns(cs) == cs = [a \in Assoc |-> cs[a]] /\ \A a \in Assoc : ConnShaped(cs[a])

\* To publish moves no thread.
LEMMA DispatchedPlaces ==
    ASSUME Conns(conn), NEW s
    PROVE  /\ Conns(Dispatched(s))
           /\ \A a \in Assoc : Dispatched(s)[a].at = conn[a].at
  <1> DEFINE all(a) == conn[a].queue \o s.pending[a]
             queue(a) == SubSeq(all(a), 1, Min({QueueCap, Len(all(a))}))
             stalled(a) == conn[a].stalled \/ Len(all(a)) > QueueCap
  <1>1. Dispatched(s) = [a \in Assoc |->
           IF Open(a) THEN [conn[a] EXCEPT !.queue = queue(a), !.stalled = stalled(a)]
           ELSE conn[a]]
    BY Zenon DEF Dispatched
  <1> HIDE DEF queue, stalled
  <1> QED
    BY <1>1 DEF Conns, ConnShaped, ConnFields

\* A thread that has flushed reads again, waits in the write, or is done.
LEMMA FlushedPlaces ==
    ASSUME NEW c, ConnShaped(c), NEW gone
    PROVE  /\ ConnShaped(Written(c, gone)) /\ ConnShaped(Flushed(c, gone))
           /\ Written(c, gone).at \in {"read", "blocked", "ended"}
           /\ Flushed(c, gone).at \in {"read", "blocked", "ended"}
  <1>1. ASSUME NEW d, ConnShaped(d)
        PROVE  ConnShaped(Written(d, gone)) /\ Written(d, gone).at \in {"read", "blocked", "ended"}
    <2> DEFINE n == Min({SocketCap - Len(d.wire), Len(d.unsent)})
               wire == d.wire \o SubSeq(d.unsent, 1, n)
               unsent == SubSeq(d.unsent, n + 1, Len(d.unsent))
               at == IF n < Len(d.unsent) THEN "blocked" ELSE IF d.stalled THEN "ended" ELSE "read"
    <2>1. \/ Written(d, gone) = [d EXCEPT !.at = "ended"]
          \/ Written(d, gone) = [d EXCEPT !.wire = wire, !.unsent = unsent, !.at = at]
      BY Zenon DEF Written
    <2>2. at \in {"read", "blocked", "ended"}
      BY Zenon
    <2> HIDE DEF n, wire, unsent, at
    <2> QED
      BY <1>1, <2>1, <2>2 DEF ConnShaped, ConnFields
  <1> DEFINE unsent == c.unsent \o c.queue
             d == [c EXCEPT !.unsent = unsent, !.queue = <<>>]
  <1>2. Flushed(c, gone) = Written(d, gone)
    BY Zenon DEF Flushed
  <1> HIDE DEF unsent
  <1>3. ConnShaped(d)
    BY DEF ConnShaped, ConnFields
  <1> QED
    BY <1>1, <1>2, <1>3

-----------------------------------------------------------------------------
(* The invariant *)

Requested == [command : Commands, object : Objects, req : Requests]

Places == {"read", "serve", "publish", "blocked", "ended", "closed"}

\* A thread that serves has a request, and a request is one.
InboxOK ==
    /\ inbox = [a \in Assoc |-> inbox[a]]
    /\ \A a \in Assoc : inbox[a] # None => inbox[a] \in Requested
    /\ \A a \in Assoc : conn[a].at = "serve" => inbox[a] # None

ClientFields == {"phase", "plan", "awaits", "req", "num", "object", "selects",
                 "unsolicited", "calls"}

\* A client's calls are made of commands, of an object and a ctlNum it has.
ClientShaped(c) ==
    /\ DOMAIN c = ClientFields /\ c = [f \in ClientFields |-> c[f]]
    /\ c.phase = "calling" =>
          /\ c.plan \in Seq(Commands) /\ c.plan # <<>> /\ c.req \in Requests
          /\ c.object \in Objects /\ c.num \in Nums
    /\ c.object # None \/ c.selects => c.object \in Objects /\ c.num \in Nums

ClientsOK ==
    /\ client = [a \in Assoc |-> client[a]]
    /\ \A a \in Assoc : ClientShaped(client[a])

ThreadsOK == Conns(conn) /\ \A a \in Assoc : conn[a].at \in Places

IInv ==
    /\ Shaped(server) /\ SelectableOnly(server)
    /\ ThreadsOK /\ InboxOK /\ ClientsOK /\ ClaimsAreOpen

\* From s to t no claim is new, and no selection that has not expired is gone.
Keeps(s, t) ==
    /\ Shaped(t) /\ SelectableOnly(t)
    /\ \A o \in Objects : t.sel[o] # None => s.sel[o] # None /\ t.sel[o].assoc = s.sel[o].assoc
    /\ \A x \in t.timed : \E u \in s.timed : x.assoc = u.assoc
    /\ \A o \in Objects : s.sel[o] # None /\ s.sel[o].left > 0 =>
          t.sel[o] # None /\ t.sel[o].assoc = s.sel[o].assoc

\* To publish is to empty what is owed.
LEMMA PublishedTables ==
    ASSUME NEW s, Shaped(s)
    PROVE  LET t == [s EXCEPT !.pending = NothingOwed] IN
           /\ Shaped(t) /\ t.sel = s.sel /\ t.timed = s.timed
           /\ t.model = s.model /\ t.ran = s.ran /\ t.armed = s.armed
           /\ t.pending = NothingOwed
  BY DEF Shaped, ServerFields

\* A step that only publishes keeps every claim.
LEMMA SameKeeps ==
    ASSUME NEW s, Shaped(s), SelectableOnly(s)
    PROVE  Keeps(s, s) /\ Keeps(s, [s EXCEPT !.pending = NothingOwed])
  BY PublishedTables DEF Keeps, SelectableOnly

\* A poll keeps what has not expired.
LEMMA ElapsedKeeps ==
    ASSUME NEW s, Shaped(s), SelectableOnly(s)
    PROVE  Keeps(s, [Elapsed(s) EXCEPT !.pending = NothingOwed])
  <1> DEFINE t == [Elapsed(s) EXCEPT !.pending = NothingOwed]
  <1>1. /\ Shaped(t) /\ t.model = s.model
        /\ t.sel = Unexpired(s) /\ t.timed = s.timed \ Due(s)
    BY ElapsedTables, PublishedTables
  <1> HIDE DEF t
  <1>2. \A o \in Objects : t.sel[o] = IF s.sel[o] # None /\ s.sel[o].left = 0 THEN None ELSE s.sel[o]
    BY <1>1 DEF Unexpired
  <1>3. Keeps(s, t)
    BY <1>1, <1>2 DEF Keeps, SelectableOnly
  <1> QED
    BY <1>3 DEF t

\* Time passing keeps every claim.
LEMMA TimePassesKeeps ==
    ASSUME NEW s, Shaped(s), SelectableOnly(s)
    PROVE  Keeps(s, LetTimePass(s))
  BY TimePassesTables DEF Keeps, SelectableOnly

\* A step that keeps the claims, closes no association and serves no request
\* keeps the invariant, and what it owes to the holders.
LEMMA QuietStep ==
    ASSUME IInv, Keeps(server, server'), ThreadsOK', InboxOK', ClientsOK',
           \A a \in Assoc : conn[a].at # "closed" => conn'[a].at # "closed",
           \A a \in Assoc : inbox[a] # None => inbox'[a] # None
    PROVE  IInv' /\ HolderKeeps
  <1>1. ClaimsAreOpen'
    <2>1. ASSUME NEW o \in Objects, server'.sel[o] # None
          PROVE  conn'[server'.sel[o].assoc].at # "closed"
      BY <2>1 DEF IInv, Keeps, ClaimsAreOpen, Open, Shaped, Selections
    <2>2. ASSUME NEW t \in server'.timed
          PROVE  conn'[t.assoc].at # "closed"
      BY <2>2 DEF IInv, Keeps, ClaimsAreOpen, Open, Shaped, Timed
    <2> QED
      BY <2>1, <2>2 DEF ClaimsAreOpen, Open
  <1>2. HolderKeeps
    BY DEF HolderKeeps, Keeps, SelectedBy
  <1> QED
    BY <1>1, <1>2 DEF IInv, Keeps

-----------------------------------------------------------------------------
(* The threads' steps *)

\* A thread that publishes leaves the others where they are.
LEMMA PublishedThreads ==
    ASSUME IInv, NEW s, NEW a \in Assoc, conn[a].at # "closed", PublishAndFlush(s, a)
    PROVE  /\ ThreadsOK'
           /\ \A b \in Assoc : conn[b].at # "closed" => conn'[b].at # "closed"
           /\ \A b \in Assoc : conn'[b].at = "serve" => conn[b].at = "serve"
  <1> DEFINE d == Dispatched(s)
             f == Flushed(d[a], Gone(a))
  <1>1. Conns(d) /\ \A b \in Assoc : d[b].at = conn[b].at
    BY DispatchedPlaces DEF IInv, ThreadsOK
  <1>2. conn' = [d EXCEPT ![a] = f]
    BY Zenon DEF PublishAndFlush
  <1> HIDE DEF d
  <1>3. ConnShaped(f) /\ f.at \in {"read", "blocked", "ended"}
    BY <1>1, FlushedPlaces DEF Conns
  <1> HIDE DEF f
  <1>4. /\ conn' = [b \in Assoc |-> conn'[b]]
        /\ conn'[a] = f
        /\ \A b \in Assoc \ {a} : conn'[b] = d[b]
    BY <1>1, <1>2 DEF Conns
  <1>5. \A b \in Assoc : ConnShaped(conn'[b])
    BY <1>1, <1>3, <1>4 DEF Conns
  <1> QED
    BY <1>1, <1>3, <1>4, <1>5 DEF IInv, ThreadsOK, Conns, Places

\* One thread moves on its own.
LEMMA MovedThread ==
    ASSUME ThreadsOK, NEW a \in Assoc, NEW c, ConnShaped(c), c.at \in Places,
           conn' = [conn EXCEPT ![a] = c]
    PROVE  /\ ThreadsOK'
           /\ conn'[a] = c
           /\ \A b \in Assoc \ {a} : conn'[b] = conn[b]
  BY DEF ThreadsOK, Conns

\* A poll, or a publication.
LEMMA PollStep ==
    ASSUME IInv, NEW a \in Assoc, Poll(a) \/ Publish(a)
    PROVE  IInv' /\ HolderKeeps
  <1>1. PICK s \in {Elapsed(server), server} : PublishAndFlush(s, a)
    BY DEF Poll, Publish
  <1>2. /\ conn[a].at # "closed"
        /\ inbox' = inbox /\ client' = client
    BY DEF Poll, Publish
  <1>3. Keeps(server, server')
    BY <1>1, ElapsedKeeps, SameKeeps DEF PublishAndFlush, IInv
  <1>4. InboxOK' /\ ClientsOK'
    BY <1>1, <1>2, PublishedThreads DEF IInv, InboxOK, ClientsOK
  <1> QED
    BY <1>1, <1>2, <1>3, <1>4, PublishedThreads, QuietStep

\* A poll before a request is served.
LEMMA WakeStep ==
    ASSUME IInv, NEW a \in Assoc, Wake(a)
    PROVE  IInv' /\ HolderKeeps
  <1> DEFINE s == Elapsed(server)
             d == Dispatched(s)
             c == [d[a] EXCEPT !.at = "serve"]
  <1>1. /\ conn[a].at = "read" /\ inbox[a] # None
        /\ server' = [Elapsed(server) EXCEPT !.pending = NothingOwed]
        /\ inbox' = inbox /\ client' = client
    BY DEF Wake
  <1>2. Conns(d) /\ \A b \in Assoc : d[b].at = conn[b].at
    BY DispatchedPlaces DEF IInv, ThreadsOK
  <1>3. conn' = [d EXCEPT ![a].at = "serve"]
    BY Zenon DEF Wake
  <1> HIDE DEF d
  <1>4. ConnShaped(c) /\ c.at = "serve"
    BY <1>2 DEF Conns, ConnShaped, ConnFields
  <1>5. conn' = [d EXCEPT ![a] = c]
    BY <1>2, <1>3 DEF Conns
  <1> HIDE DEF c
  <1>6. /\ conn' = [b \in Assoc |-> conn'[b]]
        /\ conn'[a] = c
        /\ \A b \in Assoc \ {a} : conn'[b] = d[b]
    BY <1>2, <1>5 DEF Conns
  <1>7. ThreadsOK'
    BY <1>2, <1>4, <1>6 DEF IInv, ThreadsOK, Conns, Places
  <1>8. Keeps(server, server')
    BY <1>1, ElapsedKeeps DEF IInv
  <1>9. InboxOK' /\ ClientsOK'
    BY <1>1, <1>2, <1>6 DEF IInv, InboxOK, ClientsOK
  <1>10. \A b \in Assoc : conn[b].at # "closed" => conn'[b].at # "closed"
    BY <1>2, <1>4, <1>6
  <1> QED
    BY <1>1, <1>7, <1>8, <1>9, <1>10, QuietStep

\* A thread that only looks at its socket or goes on with its write.
LEMMA SocketStep ==
    ASSUME IInv, NEW a \in Assoc, Hangup(a) \/ Unblock(a)
    PROVE  IInv' /\ HolderKeeps
  <1> DEFINE h == [conn[a] EXCEPT !.at = "ended"]
             w == Written(conn[a], Gone(a))
  <1>1. /\ conn[a].at # "closed"
        /\ server' = server /\ inbox' = inbox /\ client' = client
    BY DEF Hangup, Unblock
  <1>2. /\ ConnShaped(h) /\ h.at = "ended"
        /\ ConnShaped(w) /\ w.at \in {"read", "blocked", "ended"}
    <2>1. ConnShaped(conn[a])
      BY DEF IInv, ThreadsOK, Conns
    <2>2. ConnShaped(h) /\ h.at = "ended"
      BY <2>1 DEF ConnShaped, ConnFields
    <2> QED
      BY <2>1, <2>2, FlushedPlaces
  <1>3. \/ conn' = [conn EXCEPT ![a] = h]
        \/ conn' = [conn EXCEPT ![a] = w]
    <2>1. CASE Hangup(a)
      BY <2>1 DEF Hangup, IInv, ThreadsOK, Conns
    <2>2. CASE Unblock(a)
      BY Zenon, <2>2 DEF Unblock
    <2> QED
      BY <2>1, <2>2
  <1> HIDE DEF h, w
  <1>4. /\ ThreadsOK'
        /\ conn'[a].at \in {"read", "blocked", "ended"}
        /\ \A b \in Assoc \ {a} : conn'[b] = conn[b]
    BY <1>2, <1>3, MovedThread DEF IInv, Places
  <1>5. InboxOK' /\ ClientsOK'
    BY <1>1, <1>4 DEF IInv, InboxOK, ClientsOK
  <1>6. Keeps(server, server')
    BY <1>1, SameKeeps DEF IInv
  <1> QED
    BY <1>1, <1>4, <1>5, <1>6, QuietStep

\* The service of a request: what it claims is its client's, which is there,
\* and it leaves alone what another holds.
LEMMA ServeStep ==
    ASSUME IInv, NEW a \in Assoc, Serve(a)
    PROVE  IInv' /\ HolderKeeps
  <1> DEFINE q == inbox[a]
             ok == Answer(ServedOk(server, a, q.object, q.command, q.req))
             unsent == Append(conn[a].unsent, ok)
             c == [conn[a] EXCEPT !.unsent = unsent, !.at = "publish"]
  <1>1. /\ conn[a].at = "serve"
        /\ server' = Served(server, a, q.object, q.command, q.req)
        /\ inbox' = [inbox EXCEPT ![a] = None] /\ client' = client
    BY DEF Serve
  <1>2. q.command \in Commands /\ q.object \in Objects /\ q.req \in Requests
    BY <1>1 DEF IInv, InboxOK, Requested
  <1>3. conn' = [conn EXCEPT ![a] = c]
    BY DEF Serve, IInv, ThreadsOK, Conns, ConnShaped, ConnFields
  <1> HIDE DEF q, unsent
  <1>4. ConnShaped(c) /\ c.at = "publish"
    BY DEF IInv, ThreadsOK, Conns, ConnShaped, ConnFields
  <1> HIDE DEF c
  <1>5. /\ ThreadsOK' /\ conn'[a].at = "publish"
        /\ \A b \in Assoc \ {a} : conn'[b] = conn[b]
    BY <1>3, <1>4, MovedThread DEF IInv, Places
  <1>6. /\ \A b \in Assoc \ {a} : inbox'[b] = inbox[b]
        /\ InboxOK' /\ ClientsOK'
    BY <1>1, <1>5 DEF IInv, InboxOK, ClientsOK
  <1>7. /\ OnlyOf(a, server, server') /\ Shaped(server') /\ SelectableOnly(server')
    BY <1>1, <1>2, ServedTables, ServedSelectable DEF IInv, OnlyOf
  <1>8. ClaimsAreOpen'
    <2>1. ASSUME NEW o \in Objects, server'.sel[o] # None
          PROVE  conn'[server'.sel[o].assoc].at # "closed"
      BY ZenonT(40), <1>5, <1>7, <2>1 DEF IInv, ClaimsAreOpen, Open, OnlyOf, Shaped, Selections
    <2>2. ASSUME NEW t \in server'.timed
          PROVE  conn'[t.assoc].at # "closed"
      BY <1>5, <1>7, <2>2 DEF IInv, ClaimsAreOpen, Open, OnlyOf, Shaped, Timed
    <2> QED
      BY <2>1, <2>2 DEF ClaimsAreOpen, Open
  <1>9. HolderKeeps
    <2> SUFFICES ASSUME NEW b \in Assoc, NEW x \in Objects,
                        SelectedBy(server, b, x), server.sel[x].left > 0
                 PROVE  LET served(e) == inbox[e] # None /\ inbox'[e] = None
                            armed == {[assoc |-> t.assoc, num |-> t.req.num] : t \in server.timed}
                        IN  /\ SelectedBy(server', b, x) \/ served(b) \/ conn'[b].at = "closed"
                            /\ \A e \in Assoc \ {b} :
                                 served(e) /\ inbox[e].object = x =>
                                   server'.ran \subseteq server.ran \cup armed
      BY DEF HolderKeeps
    <2>1. CASE b = a
      <3>1. inbox[a] # None /\ inbox'[a] = None
        BY <1>1 DEF IInv, InboxOK
      <3> QED
        BY <1>6, <2>1, <3>1
    <2>2. CASE b # a
      <3>1. /\ SelectedBy(server', b, x)
            /\ x = q.object => server'.ran \subseteq
                 server.ran \cup {[assoc |-> t.assoc, num |-> t.req.num] : t \in server.timed}
        BY <1>1, <1>2, <2>2, ServedRespects DEF IInv
      <3> QED
        BY <1>6, <3>1 DEF q
    <2> QED
      BY <2>1, <2>2
  <1> QED
    BY <1>5, <1>6, <1>7, <1>8, <1>9 DEF IInv

\* The end of an association takes its claims along, and no others.
LEMMA EndStep ==
    ASSUME IInv, NEW a \in Assoc, End(a)
    PROVE  IInv' /\ HolderKeeps
  <1> DEFINE c == [FreshConn EXCEPT !.at = "closed", !.wire = conn[a].wire]
  <1>1. /\ server' = Dropped(server, a)
        /\ conn' = [conn EXCEPT ![a] = c]
        /\ inbox' = inbox /\ client' = client
    BY DEF End
  <1>2. ConnShaped(c) /\ c.at = "closed"
    BY DEF FreshConn, ConnShaped, ConnFields
  <1> HIDE DEF c
  <1>3. /\ ThreadsOK' /\ conn'[a].at = "closed"
        /\ \A b \in Assoc \ {a} : conn'[b] = conn[b]
    BY <1>1, <1>2, MovedThread DEF IInv, Places
  <1>4. InboxOK' /\ ClientsOK'
    BY <1>1, <1>3 DEF IInv, InboxOK, ClientsOK
  <1>5. /\ Shaped(server') /\ server'.model = server.model
        /\ \A o \in Objects : IF SelectedBy(server, a, o) THEN server'.sel[o] = None
                                ELSE server'.sel[o] = server.sel[o]
        /\ \A t \in server'.timed : t \in server.timed /\ t.assoc # a
    BY <1>1, DroppedTables DEF IInv
  <1>6. SelectableOnly(server')
    BY <1>5 DEF IInv, SelectableOnly
  <1>7. ClaimsAreOpen'
    <2>1. ASSUME NEW o \in Objects, server'.sel[o] # None
          PROVE  conn'[server'.sel[o].assoc].at # "closed"
      <3>1. server.sel[o] # None /\ server'.sel[o] = server.sel[o] /\ server.sel[o].assoc # a
        BY <1>5, <2>1 DEF SelectedBy
      <3>2. server.sel[o].assoc \in Assoc /\ conn[server.sel[o].assoc].at # "closed"
        BY <3>1 DEF IInv, Shaped, Selections, ClaimsAreOpen, Open
      <3> QED
        BY <1>3, <3>1, <3>2
    <2>2. ASSUME NEW t \in server'.timed
          PROVE  conn'[t.assoc].at # "closed"
      BY <1>3, <1>5, <2>2 DEF IInv, ClaimsAreOpen, Open, Shaped, Timed
    <2> QED
      BY <2>1, <2>2 DEF ClaimsAreOpen, Open
  <1>8. HolderKeeps
    BY <1>1, <1>3, <1>5 DEF HolderKeeps, SelectedBy
  <1> QED
    BY <1>3, <1>4, <1>5, <1>6, <1>7, <1>8 DEF IInv

-----------------------------------------------------------------------------
(* The application, and time *)

\* The application changes the behaviour or the hook, or time passes.
LEMMA OutsideStep ==
    ASSUME IInv,
           \/ \E o \in Objects, mode \in Modes : ChangeMode(o, mode)
           \/ \E stages \in Bars : ChangeHook(stages)
           \/ Tick
    PROVE  IInv' /\ HolderKeeps
  <1>1. Keeps(server, server')
    <2>1. CASE \E o \in Objects, mode \in Modes : ChangeMode(o, mode)
      <3>1. PICK o \in Objects, mode \in Modes : ChangeMode(o, mode)
        BY SMTT(30), <2>1
      <3> DEFINE modes == [server.mode EXCEPT ![o] = mode]
      <3>2. server' = [server EXCEPT !.mode = modes, !.pending = NothingOwed]
        BY <3>1 DEF ChangeMode, IInv, Shaped, ServerFields
      <3> HIDE DEF modes
      <3>3. /\ Shaped(server') /\ server'.sel = server.sel
            /\ server'.timed = server.timed /\ server'.model = server.model
        BY <3>2 DEF IInv, Shaped, ServerFields
      <3> QED
        BY <3>3 DEF Keeps, SelectableOnly, IInv
    <2>2. CASE \E stages \in Bars : ChangeHook(stages)
      <3>1. PICK stages \in Bars : server' = [server EXCEPT !.barred = stages]
        BY <2>2 DEF ChangeHook
      <3>2. /\ Shaped(server') /\ server'.sel = server.sel
            /\ server'.timed = server.timed /\ server'.model = server.model
        BY <3>1 DEF IInv, Shaped, ServerFields
      <3> QED
        BY <3>2 DEF Keeps, SelectableOnly, IInv
    <2>3. CASE Tick
      BY <2>3, TimePassesKeeps DEF Tick, IInv
    <2> QED
      BY <2>1, <2>2, <2>3
  <1>2. inbox' = inbox /\ client' = client
    BY DEF ChangeMode, ChangeHook, Tick
  <1>3. conn' = conn \/ conn' = Dispatched(server)
    BY DEF ChangeMode, ChangeHook, Tick
  <1>4. ThreadsOK' /\ \A a \in Assoc : conn'[a].at = conn[a].at
    BY <1>3, DispatchedPlaces DEF IInv, ThreadsOK, Conns
  <1>5. InboxOK' /\ ClientsOK'
    BY <1>2, <1>4 DEF IInv, InboxOK, ClientsOK
  <1> QED
    BY <1>1, <1>2, <1>4, <1>5, QuietStep

-----------------------------------------------------------------------------
(* The clients *)

\* A client that reads what is on the wire, or drops it, moves no thread.
LEMMA UnreadThreads ==
    ASSUME ThreadsOK, NEW a \in Assoc,
           \/ conn' = conn
           \/ conn' = Unread(a)
           \/ conn' = [conn EXCEPT ![a].wire = <<>>]
    PROVE  ThreadsOK' /\ \A b \in Assoc : conn'[b].at = conn[b].at
  <1>1. CASE conn' = conn
    BY <1>1 DEF ThreadsOK, Conns
  <1>2. ASSUME NEW w, conn' = [conn EXCEPT ![a].wire = w]
        PROVE  ThreadsOK' /\ \A b \in Assoc : conn'[b].at = conn[b].at
    <2> DEFINE d == [conn[a] EXCEPT !.wire = w]
    <2>1. ConnShaped(d) /\ d.at = conn[a].at
      BY DEF ThreadsOK, Conns, ConnShaped, ConnFields
    <2>2. conn' = [conn EXCEPT ![a] = d]
      BY <1>2 DEF ThreadsOK, Conns
    <2> HIDE DEF d
    <2> QED
      BY <2>1, <2>2, MovedThread DEF ThreadsOK
  <1>3. CASE conn' = Unread(a)
    <2> DEFINE w == Tail(conn[a].wire)
    <2>1. conn' = [conn EXCEPT ![a].wire = w]
      BY Zenon, <1>3 DEF Unread
    <2> HIDE DEF w
    <2> QED
      BY Zenon, <1>2, <2>1
  <1>4. CASE conn' = [conn EXCEPT ![a].wire = <<>>]
    BY Zenon, <1>2, <1>4
  <1> QED
    BY <1>1, <1>3, <1>4

\* A client changes, and may write a request: the server's tables and the
\* places of its threads stay.
LEMMA ClientMoves ==
    ASSUME IInv, NEW a \in Assoc, server' = server,
           ThreadsOK', \A b \in Assoc : conn'[b].at = conn[b].at,
           NEW c, ClientShaped(c), client' = [client EXCEPT ![a] = c],
           inbox' = inbox \/ \E q \in Requested : inbox' = [inbox EXCEPT ![a] = q]
    PROVE  IInv' /\ HolderKeeps
  <1>4. None \notin Requested
    BY ServiceAssumption DEF Requested
  <1>5. InboxOK' /\ \A b \in Assoc : inbox[b] # None => inbox'[b] # None
    BY <1>4 DEF IInv, InboxOK
  <1>6. ClientsOK'
    BY DEF IInv, ClientsOK
  <1>7. Keeps(server, server')
    BY SameKeeps DEF IInv
  <1> QED
    BY <1>5, <1>6, <1>7, QuietStep

\* A call, of a plan made of commands.
LEMMA CallsStep ==
    ASSUME IInv, NEW a \in Assoc, NEW plan \in Seq(Commands), plan # <<>>,
           NEW awaits, NEW o \in Objects, NEW r \in Requests, Calls(a, plan, awaits, o, r)
    PROVE  IInv' /\ HolderKeeps
  <1> DEFINE calls == client[a].calls + 1
             c == [client[a] EXCEPT !.phase = "calling", !.plan = plan, !.awaits = awaits,
                                    !.req = r, !.num = r.num, !.object = o,
                                    !.selects = FALSE, !.calls = calls]
             q == [command |-> Head(plan), object |-> o, req |-> r]
  <1>1. /\ client' = [client EXCEPT ![a] = c]
        /\ inbox' = [inbox EXCEPT ![a] = q]
        /\ server' = server /\ conn' = conn
    BY Zenon DEF Calls
  <1> HIDE DEF calls
  <1>2. r.num \in Nums
    BY DEF Requests
  <1>3. ClientShaped(c)
    BY <1>2 DEF IInv, ClientsOK, ClientShaped, ClientFields
  <1>4. q \in Requested
    BY DEF Requested
  <1> HIDE DEF c, q
  <1>5. ThreadsOK' /\ \A b \in Assoc : conn'[b].at = conn[b].at
    BY <1>1, UnreadThreads DEF IInv
  <1> QED
    BY <1>1, <1>3, <1>4, <1>5, ClientMoves

\* The calls a client makes are of commands, and of requests.
LEMMA CallStep ==
    ASSUME IInv, NEW a \in Assoc,
           \/ \E o \in Objects : Execute(a, o) \/ Select(a, o) \/ Operate(a, o)
           \/ OperateSelected(a) \/ Cancel(a)
    PROVE  IInv' /\ HolderKeeps
  <1>1. FreshRequests(a) \subseteq Requests
    BY ServiceAssumption DEF FreshRequests, Requests
  <1>2. \A k \in Commands : <<k>> \in Seq(Commands) /\ <<k>> # <<>>
    OBVIOUS
  <1>3. {"SBO", "SBOw", "Oper", "Cancel"} \subseteq Commands
    BY DEF Commands
  <1>4. ClientShaped(client[a])
    BY DEF IInv, ClientsOK
  <1>5. CASE \E o \in Objects : Execute(a, o)
    <2>1. PICK o \in Objects, r \in Requests :
             Calls(a, Sequence(server.model[o]), Enhanced(server.model[o]), o, r)
      BY <1>1, <1>5 DEF Execute
    <2>2. Sequence(server.model[o]) \in {<<"SBO", "Oper">>, <<"SBOw", "Oper">>, <<"Oper">>}
      BY DEF Sequence
    <2>3. \A k, m \in Commands : <<k, m>> \in Seq(Commands) /\ <<k, m>> # <<>>
      OBVIOUS
    <2> QED
      BY <1>2, <1>3, <2>1, <2>2, <2>3, CallsStep
  <1>6. CASE \E o \in Objects : Select(a, o)
    <2>1. PICK o \in Objects, r \in Requests, k \in Commands : Calls(a, <<k>>, FALSE, o, r)
      BY <1>1, <1>3, <1>6 DEF Select
    <2> QED
      BY <1>2, <2>1, CallsStep
  <1>7. CASE \E o \in Objects : Operate(a, o)
    <2>1. PICK o \in Objects, r \in Requests : Calls(a, <<"Oper">>, FALSE, o, r)
      BY <1>1, <1>7 DEF Operate
    <2> QED
      BY <1>2, <1>3, <2>1, CallsStep
  <1>8. CASE OperateSelected(a)
    <2>1. client[a].object \in Objects /\ client[a].num \in Nums
      BY <1>4, <1>8 DEF OperateSelected, ClientShaped
    <2>2. PICK r \in Requests : Calls(a, <<"Oper">>, FALSE, client[a].object, r)
      BY <1>8, <2>1, ServiceAssumption DEF OperateSelected, Requests
    <2> QED
      BY <1>2, <1>3, <2>1, <2>2, CallsStep
  <1>9. CASE Cancel(a)
    <2>1. client[a].object \in Objects /\ client[a].num \in Nums
      BY <1>4, <1>9 DEF Cancel, ClientShaped
    <2>2. (CHOOSE v \in Values : TRUE) \in Values
      BY ControlAssumption
    <2> DEFINE v == CHOOSE v \in Values : TRUE
               r == [num |-> client[a].num, val |-> v, wait |-> 0, test |-> FALSE]
    <2>3. Calls(a, <<"Cancel">>, FALSE, client[a].object, r)
      BY Zenon, <1>9 DEF Cancel
    <2> HIDE DEF v
    <2>4. r \in Requests
      BY <2>1, <2>2 DEF Requests, v
    <2> HIDE DEF r
    <2> QED
      BY <1>2, <1>3, <2>1, <2>3, <2>4, CallsStep
  <1> QED
    BY <1>5, <1>6, <1>7, <1>8, <1>9

\* What is left of a call whose first command has been answered.
LEMMA TailOfPlan ==
    ASSUME NEW S, NEW p \in Seq(S), Len(p) > 1
    PROVE  Tail(p) \in Seq(S) /\ Tail(p) # <<>> /\ p[2] \in S
  <1>1. 2 \in 1..Len(p)
    OBVIOUS
  <1>2. p[2] \in S
    BY <1>1
  <1>3. Tail(p) \in Seq(S) /\ Len(Tail(p)) = Len(p) - 1
    OBVIOUS
  <1> QED
    BY <1>2, <1>3

\* A client reads its socket.
LEMMA ReadStep ==
    ASSUME IInv, NEW a \in Assoc, ReadTermination(a) \/ ReadAnswer(a)
    PROVE  IInv' /\ HolderKeeps
  <1> DEFINE c == client[a]
  <1>1. ClientShaped(c)
    BY DEF IInv, ClientsOK
  <1>2. /\ server' = server
        /\ ThreadsOK' /\ \A b \in Assoc : conn'[b].at = conn[b].at
    BY UnreadThreads DEF ReadTermination, ReadAnswer, IInv
  <1>3. CASE ReadTermination(a)
    <2> DEFINE kept == Append(c.unsolicited, Head(conn[a].wire))
               d == [c EXCEPT !.unsolicited = kept]
    <2>1. client' = [client EXCEPT ![a] = d] /\ inbox' = inbox
      BY <1>3 DEF ReadTermination, IInv, ClientsOK
    <2> HIDE DEF kept, c
    <2>2. ClientShaped(d)
      BY <1>1 DEF ClientShaped, ClientFields
    <2> HIDE DEF d
    <2> QED
      BY <1>2, <2>1, <2>2, ClientMoves
  <1>4. CASE ReadAnswer(a)
    <2> DEFINE ok == Head(conn[a].wire).ok
               next == [c EXCEPT !.plan = Tail(c.plan)]
               waits == [c EXCEPT !.phase = "awaiting", !.plan = <<>>]
               selects == Head(c.plan) \in {"SBO", "SBOw"}
               over == [Idle(c) EXCEPT !.selects = selects]
               explains == [c EXCEPT !.phase = "explaining"]
               q == [command |-> c.plan[2], object |-> c.object, req |-> c.req]
    <2>1. /\ c.phase = "calling"
          /\ c.plan \in Seq(Commands) /\ c.plan # <<>> /\ c.req \in Requests
          /\ c.object \in Objects /\ c.num \in Nums
      BY <1>1, <1>4 DEF ReadAnswer, ClientShaped
    <2>2. \/ /\ Len(c.plan) > 1
             /\ client' = [client EXCEPT ![a].plan = Tail(@)]
             /\ inbox' = [inbox EXCEPT ![a] = q]
          \/ /\ inbox' = inbox
             /\ \/ client' = [client EXCEPT ![a] = waits]
                \/ client' = [client EXCEPT ![a] = over]
                \/ client' = [client EXCEPT ![a] = Idle(c)]
                \/ client' = [client EXCEPT ![a] = explains]
      BY Zenon, <1>4 DEF ReadAnswer
    <2>3. [client EXCEPT ![a].plan = Tail(@)] = [client EXCEPT ![a] = next]
      BY DEF IInv, ClientsOK
    <2> HIDE DEF c, ok, selects
    <2>4. ClientShaped(waits) /\ ClientShaped(explains)
      BY <1>1, <2>1 DEF ClientShaped, ClientFields
    <2>5. ClientShaped(Idle(c)) /\ ClientShaped(over)
      BY <1>1, <2>1 DEF ClientShaped, ClientFields, Idle
    <2>6. Len(c.plan) > 1 => ClientShaped(next) /\ q \in Requested
      <3>1. Len(c.plan) > 1 =>
              /\ Tail(c.plan) \in Seq(Commands) /\ Tail(c.plan) # <<>>
              /\ c.plan[2] \in Commands
        BY <2>1, TailOfPlan
      <3> DEFINE plan == Tail(c.plan)
      <3>2. q.command = c.plan[2] /\ (c.plan[2] \in Commands => q \in Requested)
        BY <2>1 DEF Requested
      <3> HIDE DEF plan
      <3>3. plan \in Seq(Commands) /\ plan # <<>> => ClientShaped([c EXCEPT !.plan = plan])
        BY <1>1, <2>1 DEF ClientShaped, ClientFields
      <3> QED
        BY <3>1, <3>2, <3>3 DEF plan
    <2> HIDE DEF next, waits, over, explains, q
    <2> QED
      BY <1>2, <2>2, <2>3, <2>4, <2>5, <2>6, ClientMoves
  <1> QED
    BY <1>3, <1>4

\* A client takes what it waits for, gives up, or leaves.
LEMMA OverStep ==
    ASSUME IInv, NEW a \in Assoc, TakeTermination(a) \/ GiveUp(a) \/ Leave(a)
    PROVE  IInv' /\ HolderKeeps
  <1> DEFINE calls == client[a].calls
             gone == [FreshClient EXCEPT !.phase = "gone", !.calls = calls]
             over == Idle(client[a])
             rest == RemoveAt(client[a].unsolicited, Min(Matching(a)))
             taken == [over EXCEPT !.unsolicited = rest]
  <1>1. /\ server' = server /\ inbox' = inbox
        /\ ThreadsOK' /\ \A b \in Assoc : conn'[b].at = conn[b].at
    <2>1. conn' = conn \/ conn' = [conn EXCEPT ![a].wire = <<>>]
      BY DEF TakeTermination, GiveUp, Leave
    <2> QED
      BY <2>1, UnreadThreads DEF TakeTermination, GiveUp, Leave, IInv
  <1>2. \/ client' = [client EXCEPT ![a] = taken]
        \/ client' = [client EXCEPT ![a] = over]
        \/ client' = [client EXCEPT ![a] = gone]
    <2>1. CASE TakeTermination(a)
      BY Zenon, <2>1 DEF TakeTermination
    <2>2. CASE GiveUp(a)
      BY Zenon, <2>2 DEF GiveUp
    <2>3. CASE Leave(a)
      BY Zenon, <2>3 DEF Leave
    <2> QED
      BY <2>1, <2>2, <2>3
  <1> HIDE DEF calls, rest
  <1>3. ClientShaped(over)
    BY DEF Idle, IInv, ClientsOK, ClientShaped, ClientFields
  <1>4. ClientShaped(gone)
    BY DEF FreshClient, ClientShaped, ClientFields
  <1> HIDE DEF over
  <1>5. ClientShaped(taken)
    BY <1>3 DEF ClientShaped, ClientFields
  <1> HIDE DEF taken, gone
  <1> QED
    BY <1>1, <1>2, <1>3, <1>4, <1>5, ClientMoves

-----------------------------------------------------------------------------
(* The theorems *)

\* The server starts without claims.
LEMMA ServiceInit == Init => IInv
  <1> SUFFICES ASSUME Init PROVE IInv
    OBVIOUS
  <1>1. Values # {} /\ (CHOOSE v \in Values : TRUE) \in Values
    BY ControlAssumption
  <1>2. PICK model \in [Objects -> Engineered] : server = NewControls(model, CHOOSE v \in Values : TRUE)
    BY Zenon DEF Init
  <1>3. /\ Shaped(server)
        /\ \A o \in Objects : server.sel[o] = None
        /\ server.timed = {}
    BY <1>2, ServiceAssumption DEF NewControls, Shaped, ServerFields
  <1>4. SelectableOnly(server) /\ ClaimsAreOpen
    BY <1>3 DEF SelectableOnly, ClaimsAreOpen
  <1>5. ThreadsOK /\ \A a \in Assoc : conn[a].at = "read"
    BY DEF Init, FreshConn, ThreadsOK, Conns, ConnShaped, ConnFields, Places
  <1>6. InboxOK
    BY <1>5 DEF Init, InboxOK
  <1>7. ClientsOK
    BY DEF Init, FreshClient, ClientsOK, ClientShaped, ClientFields
  <1> QED
    BY <1>3, <1>4, <1>5, <1>6, <1>7 DEF IInv

\* Every step keeps the invariant and what is owed to the holders.
LEMMA ServiceStep == IInv /\ [Next]_vars => IInv' /\ [HolderKeeps]_vars
  <1> SUFFICES ASSUME IInv, [Next]_vars PROVE IInv' /\ [HolderKeeps]_vars
    OBVIOUS
  <1>1. ASSUME NEW a \in Assoc, Thread(a)
        PROVE  IInv' /\ HolderKeeps
    BY <1>1, PollStep, WakeStep, SocketStep, ServeStep, EndStep DEF Thread
  <1>2. ASSUME NEW a \in Assoc, Client(a)
        PROVE  IInv' /\ HolderKeeps
    BY <1>2, CallStep, ReadStep, OverStep DEF Client
  <1>3. CASE \/ \E o \in Objects, mode \in Modes : ChangeMode(o, mode)
             \/ \E stages \in Bars : ChangeHook(stages)
             \/ Tick
    BY <1>3, OutsideStep
  <1>4. CASE UNCHANGED vars
    <2>1. /\ server' = server /\ conn' = conn
          /\ inbox' = inbox /\ client' = client
      BY <1>4 DEF vars
    <2> QED
      BY <1>4, <2>1 DEF IInv, ThreadsOK, Conns, InboxOK, ClientsOK, ClaimsAreOpen, Open
  <1> QED
    BY <1>1, <1>2, <1>3, <1>4 DEF Next

\* A selection or a command that waits for its operTm never outlives the
\* association that made it (on_association_closed, control.rs:180-190).
THEOREM ClaimsAlwaysOpen == Spec => []ClaimsAreOpen
  <1>1. IInv => ClaimsAreOpen
    BY DEF IInv
  <1> QED
    BY <1>1, ServiceInit, ServiceStep, PTL DEF Spec

\* A selection that has not expired is let go of by its holder's own request
\* or end alone, and until then no other client's request operates the object.
THEOREM HolderIsRespected == Spec => ReservedForHolder
  BY ServiceInit, ServiceStep, PTL DEF Spec, ReservedForHolder

\* A claim on an object is its holder's until it expires, and nobody's who has
\* left (control.rs:184-195, 267-331).
THEOREM ClaimsAreAlwaysTheHolders == Spec => ClaimsAreTheHolders
  BY ClaimsAlwaysOpen, HolderIsRespected, PTL DEF ClaimsAreTheHolders

-----------------------------------------------------------------------------
(***************************************************************************)
(* That what the callers of a control are told is so, that the result of   *)
(* every awaited command is on its way and comes once, and that a command  *)
(* which was armed runs only if bay and hook take it then: for any number  *)
(* of associations, objects, values and calls, and any bounds.             *)
(***************************************************************************)

-----------------------------------------------------------------------------
(* Commands in the order of their list *)

\* Every set of numbers that is not empty has a least one.
LEMMA LeastNumber ==
    ASSUME NEW T \in SUBSET Nat, T # {}
    PROVE  \E n \in T : \A m \in T : n <= m
  <1> DEFINE R == OpToRel(<, Nat)
  <1>1. IsWellFoundedOn(R, Nat)
    BY NatLessThanWellFounded
  <1>2. \A x, y \in Nat : x < y => <<x, y>> \in R
    BY DEF OpToRel
  <1> HIDE DEF R
  <1>3. PICK x \in T : \A y \in T : ~(<<y, x>> \in R)
    BY <1>1, WFMin
  <1>4. ASSUME NEW m \in T
        PROVE  x <= m
    <2>1. x \in Nat /\ m \in Nat /\ ~(m < x)
      BY <1>2, <1>3
    <2> QED
      BY <2>1
  <1> QED
    BY <1>4

\* Induction, for sets of numbers.
LEMMA NumbersByInduction ==
    ASSUME NEW S, 0 \in S, \A n \in Nat : n \in S => n + 1 \in S
    PROVE  Nat \subseteq S
  <1> SUFFICES ASSUME Nat \ S # {} PROVE FALSE
    OBVIOUS
  <1>1. PICK n \in Nat \ S : \A m \in Nat \ S : n <= m
    BY LeastNumber, Nat \ S \in SUBSET Nat
  <1>2. n # 0 /\ n - 1 \in Nat
    BY <1>1
  <1>3. n - 1 \in S /\ (n - 1) + 1 = n
    BY <1>1, <1>2
  <1> QED
    BY <1>1, <1>2, <1>3

\* Members of a list, each with a place of its own.
Ranked(S) ==
    /\ IsFiniteSet(S)
    /\ \A t \in S : t.rank \in Nat
    /\ \A t, u \in S : t.rank = u.rank => t = u

\* q has the members of S in the order of their places.
Rises(q, S) == \A i, j \in 1 .. Cardinality(S) : i < j => q[i].rank < q[j].rank

\* Such an order exists: the member with the least rank comes first.
LEMMA OrderExists ==
    ASSUME NEW S, Ranked(S)
    PROVE  \E q \in [1 .. Cardinality(S) -> S] : Rises(q, S)
  <1> DEFINE Good(n) == \A X \in SUBSET S :
                Cardinality(X) = n => \E q \in [1 .. Cardinality(X) -> X] : Rises(q, X)
             G == {n \in Nat : Good(n)}
  <1>1. 0 \in G
    <2> SUFFICES ASSUME NEW X \in SUBSET S, Cardinality(X) = 0
                 PROVE  \E q \in [1 .. Cardinality(X) -> X] : Rises(q, X)
      OBVIOUS
    <2> DEFINE q == [i \in 1 .. 0 |-> CHOOSE x \in X : TRUE]
    <2>1. q \in [1 .. 0 -> X] /\ \A i \in 1 .. 0 : FALSE
      OBVIOUS
    <2> HIDE DEF q
    <2> QED
      BY <2>1 DEF Rises
  <1>2. ASSUME NEW n \in Nat, n \in G
        PROVE  n + 1 \in G
    <2> SUFFICES ASSUME NEW X \in SUBSET S, Cardinality(X) = n + 1
                 PROVE  \E q \in [1 .. Cardinality(X) -> X] : Rises(q, X)
      OBVIOUS
    <2>1. IsFiniteSet(X) /\ X # {}
      BY FS_Subset, FS_EmptySet DEF Ranked
    <2> DEFINE ranks == {x.rank : x \in X}
    <2>2. ranks \in SUBSET Nat /\ ranks # {}
      BY <2>1 DEF Ranked
    <2> HIDE DEF ranks
    <2>2a. PICK k \in ranks : \A m \in ranks : k <= m
      BY <2>2, LeastNumber
    <2>2b. PICK x \in X : k = x.rank
      BY DEF ranks
    <2>2c. \A y \in X : x.rank <= y.rank
      BY <2>2a, <2>2b DEF ranks
    <2>3. \A y \in X \ {x} : x.rank < y.rank
      BY <2>2c DEF Ranked
    <2> DEFINE Y == X \ {x}
    <2>4. Y \in SUBSET S /\ Cardinality(Y) = n
      <3>1. Cardinality(X \ {x}) = Cardinality(X) - 1
        BY <2>1, FS_RemoveElement
      <3> QED
        BY <3>1
    <2>4a. Good(n)
      BY <1>2
    <2> HIDE DEF Y
    <2>5. PICK p \in [1 .. n -> Y] : Rises(p, Y)
      BY <2>4, <2>4a
    <2> USE DEF Y
    <2> DEFINE q == [i \in 1 .. n + 1 |-> IF i = 1 THEN x ELSE p[i - 1]]
    <2>6. \A i \in 1 .. n + 1 : i # 1 => i - 1 \in 1 .. n
      OBVIOUS
    <2>7. q \in [1 .. n + 1 -> X]
      BY <2>5, <2>6
    <2>8. \A i, j \in 1 .. n + 1 : i < j => q[i].rank < q[j].rank
      <3> SUFFICES ASSUME NEW i \in 1 .. n + 1, NEW j \in 1 .. n + 1, i < j
                   PROVE  q[i].rank < q[j].rank
        OBVIOUS
      <3>1. j # 1 /\ j - 1 \in 1 .. n /\ q[j] = p[j - 1] /\ p[j - 1] \in Y
        BY <2>5, <2>6
      <3>2. CASE i = 1
        BY <2>3, <3>1, <3>2
      <3>3. CASE i # 1
        <4>1. q[i] = p[i - 1] /\ i - 1 \in 1 .. n /\ i - 1 < j - 1
          BY <2>6, <3>3
        <4> QED
          BY <2>4, <2>5, <3>1, <4>1 DEF Rises
      <3> QED
        BY <3>2, <3>3
    <2> QED
      BY <2>7, <2>8 DEF Rises
  <1>3. Nat \subseteq G
    <2> HIDE DEF G
    <2> QED
      BY <1>1, <1>2, NumbersByInduction
  <1>4. Cardinality(S) \in Nat
    BY FS_CardinalityType DEF Ranked
  <1>5. Good(Cardinality(S))
    BY <1>3, <1>4
  <1> QED
    BY <1>5

\* A set in its order: each member once, nothing else.
LEMMA InOrderLists ==
    ASSUME NEW S, Ranked(S)
    PROVE  /\ Cardinality(S) \in Nat
           /\ InOrder(S) \in [1 .. Cardinality(S) -> S]
           /\ \A i, j \in 1 .. Cardinality(S) : InOrder(S)[i] = InOrder(S)[j] => i = j
           /\ \A t \in S : \E i \in 1 .. Cardinality(S) : InOrder(S)[i] = t
  <1> DEFINE n == Cardinality(S)
             q == InOrder(S)
  <1>1. n \in Nat /\ IsFiniteSet(S)
    BY FS_CardinalityType DEF Ranked
  <1>2. q \in [1 .. n -> S] /\ Rises(q, S)
    BY OrderExists DEF InOrder, Rises
  <1> HIDE DEF q
  <1>3. \A i, j \in 1 .. n : q[i] = q[j] => i = j
    <2> SUFFICES ASSUME NEW i \in 1 .. n, NEW j \in 1 .. n, q[i] = q[j], i # j
                 PROVE  FALSE
      OBVIOUS
    <2>1. q[i].rank \in Nat /\ q[j].rank = q[i].rank
      BY <1>2 DEF Ranked
    <2>2. i < j \/ j < i
      OBVIOUS
    <2>3. q[i].rank < q[j].rank \/ q[j].rank < q[i].rank
      BY <1>2, <2>2 DEF Rises
    <2> QED
      BY <2>1, <2>3
  <1>4. q \in Injection(1 .. n, S)
    BY <1>2, <1>3 DEF Injection, IsInjective
  <1>5. Cardinality(1 .. n) = n
    BY <1>1, FS_Interval
  <1>6. q \in Surjection(1 .. n, S)
    BY <1>1, <1>4, <1>5, FS_Injection
  <1>7. \A t \in S : \E i \in 1 .. n : q[i] = t
    BY <1>6 DEF Surjection
  <1> QED
    BY <1>1, <1>2, <1>3, <1>7 DEF q

-----------------------------------------------------------------------------
(* What a sequence of PDUs says *)

\* Where q speaks of the command under the ctlNum n.
Says(q, n) == {i \in DOMAIN q : q[i].kind = "termination" /\ q[i].num = n}

Mute(q, n) == Says(q, n) = {}
SaysOnly(q, n, ok) == \A i \in Says(q, n) : q[i].ok <=> ok
SaysOnce(q, n, ok) == \E i \in DOMAIN q : Says(q, n) = {i} /\ (q[i].ok <=> ok)

Answers(q) == {i \in DOMAIN q : q[i].kind = "answer"}

\* Everything in x is in y.
Within(x, y) == \A i \in DOMAIN x : \E j \in DOMAIN y : x[i] = y[j]

\* The places of a concatenation.
LEMMA Joined ==
    ASSUME NEW S, NEW x \in Seq(S), NEW y \in Seq(S)
    PROVE  /\ x \o y \in Seq(S)
           /\ Len(x) \in Nat /\ Len(y) \in Nat /\ Len(x \o y) = Len(x) + Len(y)
           /\ DOMAIN x = 1 .. Len(x) /\ DOMAIN y = 1 .. Len(y)
           /\ DOMAIN (x \o y) = 1 .. Len(x) + Len(y)
           /\ \A i \in DOMAIN x : i \in DOMAIN (x \o y) /\ (x \o y)[i] = x[i]
           /\ \A j \in DOMAIN y : Len(x) + j \in DOMAIN (x \o y) /\ (x \o y)[Len(x) + j] = y[j]
           /\ \A i \in DOMAIN (x \o y) :
                 \/ i \in DOMAIN x
                 \/ \E j \in DOMAIN y : i = Len(x) + j
  <1>1. /\ x \o y \in Seq(S) /\ Len(x \o y) = Len(x) + Len(y)
        /\ \A i \in 1 .. Len(x) + Len(y) : (x \o y)[i] =
              IF i <= Len(x) THEN x[i] ELSE y[i - Len(x)]
    BY ConcatProperties
  <1>2. /\ Len(x) \in Nat /\ Len(y) \in Nat
        /\ DOMAIN x = 1 .. Len(x) /\ DOMAIN y = 1 .. Len(y)
        /\ DOMAIN (x \o y) = 1 .. Len(x \o y)
    BY <1>1, LenProperties
  <1>3. \A i \in DOMAIN x : i \in DOMAIN (x \o y) /\ (x \o y)[i] = x[i]
    BY <1>1, <1>2
  <1>4. \A j \in DOMAIN y : Len(x) + j \in DOMAIN (x \o y) /\ (x \o y)[Len(x) + j] = y[j]
    <2> SUFFICES ASSUME NEW j \in DOMAIN y
                 PROVE  Len(x) + j \in DOMAIN (x \o y) /\ (x \o y)[Len(x) + j] = y[j]
      OBVIOUS
    <2>1. /\ Len(x) + j \in 1 .. Len(x) + Len(y) /\ ~(Len(x) + j <= Len(x))
          /\ (Len(x) + j) - Len(x) = j
      BY <1>2
    <2> QED
      BY <1>1, <1>2, <2>1
  <1>5. ASSUME NEW i \in DOMAIN (x \o y), i \notin DOMAIN x
        PROVE  \E j \in DOMAIN y : i = Len(x) + j
    <2>1. i - Len(x) \in 1 .. Len(y) /\ i = Len(x) + (i - Len(x))
      BY <1>1, <1>2, <1>5
    <2> QED
      BY <1>2, <2>1
  <1> QED
    BY <1>1, <1>2, <1>3, <1>4, <1>5

\* What a concatenation says is what its parts say.
LEMMA JoinedSays ==
    ASSUME NEW S, NEW x \in Seq(S), NEW y \in Seq(S), NEW n
    PROVE  /\ Mute(x \o y, n) <=> Mute(x, n) /\ Mute(y, n)
           /\ Answers(x \o y) = {} <=> Answers(x) = {} /\ Answers(y) = {}
           /\ \A i \in Says(x, n) : i \in Says(x \o y, n)
           /\ \A j \in Says(y, n) : Len(x) + j \in Says(x \o y, n)
           /\ \A i \in Says(x \o y, n) :
                 i \in Says(x, n) \/ \E j \in Says(y, n) : i = Len(x) + j
  <1> DEFINE z == x \o y
  <1>1. /\ \A i \in DOMAIN x : i \in DOMAIN z /\ z[i] = x[i]
        /\ \A j \in DOMAIN y : Len(x) + j \in DOMAIN z /\ z[Len(x) + j] = y[j]
        /\ \A i \in DOMAIN z : i \in DOMAIN x \/ \E j \in DOMAIN y : i = Len(x) + j
    BY Joined
  <1> HIDE DEF z
  <1>2. /\ \A i \in Says(x, n) : i \in Says(z, n)
        /\ \A j \in Says(y, n) : Len(x) + j \in Says(z, n)
        /\ \A i \in Says(z, n) : i \in Says(x, n) \/ \E j \in Says(y, n) : i = Len(x) + j
    BY <1>1 DEF Says
  <1>3. Mute(z, n) <=> Mute(x, n) /\ Mute(y, n)
    BY <1>2 DEF Mute
  <1>4. /\ \A i \in Answers(x) : i \in Answers(z)
        /\ \A j \in Answers(y) : Len(x) + j \in Answers(z)
        /\ \A i \in Answers(z) : i \in Answers(x) \/ \E j \in Answers(y) : i = Len(x) + j
    BY <1>1 DEF Answers
  <1> QED
    BY <1>2, <1>3, <1>4 DEF z

LEMMA JoinedSaysOnly ==
    ASSUME NEW S, NEW x \in Seq(S), NEW y \in Seq(S), NEW n, NEW ok
    PROVE  SaysOnly(x \o y, n, ok) <=> SaysOnly(x, n, ok) /\ SaysOnly(y, n, ok)
  <1> DEFINE z == x \o y
  <1>1. /\ \A i \in DOMAIN x : i \in DOMAIN z /\ z[i] = x[i]
        /\ \A j \in DOMAIN y : Len(x) + j \in DOMAIN z /\ z[Len(x) + j] = y[j]
        /\ \A i \in DOMAIN z : i \in DOMAIN x \/ \E j \in DOMAIN y : i = Len(x) + j
    BY Joined
  <1> HIDE DEF z
  <1>2. SaysOnly(z, n, ok) <=> SaysOnly(x, n, ok) /\ SaysOnly(y, n, ok)
    BY <1>1 DEF SaysOnly, Says
  <1> QED
    BY <1>2 DEF z

LEMMA JoinedSaysOnce ==
    ASSUME NEW S, NEW x \in Seq(S), NEW y \in Seq(S), NEW n, NEW ok
    PROVE  SaysOnce(x \o y, n, ok) <=> \/ SaysOnce(x, n, ok) /\ Mute(y, n)
                                       \/ Mute(x, n) /\ SaysOnce(y, n, ok)
  <1> DEFINE z == x \o y
  <1>1. /\ \A i \in DOMAIN x : i \in DOMAIN z /\ z[i] = x[i]
        /\ \A j \in DOMAIN y : Len(x) + j \in DOMAIN z /\ z[Len(x) + j] = y[j]
        /\ \A i \in DOMAIN z : i \in DOMAIN x \/ \E j \in DOMAIN y : i = Len(x) + j
        /\ \A j \in DOMAIN y : Len(x) + j \notin DOMAIN x
        /\ \A i, j \in DOMAIN y : Len(x) + i = Len(x) + j => i = j
    BY Joined
  <1>2. /\ \A i \in Says(x, n) : i \in DOMAIN x /\ i \in Says(z, n)
        /\ \A j \in Says(y, n) : j \in DOMAIN y /\ Len(x) + j \in Says(z, n)
        /\ \A i \in Says(z, n) :
              i \in Says(x, n) \/ \E j \in Says(y, n) : i = Len(x) + j
        /\ Says(x, n) \subseteq DOMAIN x /\ Says(y, n) \subseteq DOMAIN y
    BY <1>1, JoinedSays DEF Says
  <1> HIDE DEF z
  <1>3. ASSUME SaysOnce(x, n, ok), Mute(y, n)
        PROVE  SaysOnce(z, n, ok)
    BY <1>1, <1>2, <1>3 DEF SaysOnce, Mute
  <1>4. ASSUME Mute(x, n), SaysOnce(y, n, ok)
        PROVE  SaysOnce(z, n, ok)
    <2>1. PICK j \in DOMAIN y : Says(y, n) = {j} /\ (y[j].ok <=> ok)
      BY <1>4 DEF SaysOnce
    <2>2. Says(z, n) = {Len(x) + j}
      BY <1>2, <1>4, <2>1 DEF Mute
    <2>3. Len(x) + j \in DOMAIN z /\ z[Len(x) + j] = y[j]
      BY <1>1
    <2> QED
      BY <2>1, <2>2, <2>3 DEF SaysOnce
  <1>5. ASSUME SaysOnce(z, n, ok)
        PROVE  \/ SaysOnce(x, n, ok) /\ Mute(y, n)
               \/ Mute(x, n) /\ SaysOnce(y, n, ok)
    <2>1. PICK i \in DOMAIN z : Says(z, n) = {i} /\ (z[i].ok <=> ok)
      BY <1>5 DEF SaysOnce
    <2>2. CASE i \in Says(x, n)
      <3>1. Says(x, n) = {i} /\ Says(y, n) = {}
        BY <1>1, <1>2, <2>1, <2>2
      <3> QED
        BY <1>1, <1>2, <2>1, <2>2, <3>1 DEF SaysOnce, Mute
    <2>3. CASE i \notin Says(x, n)
      <3>1. PICK j \in Says(y, n) : i = Len(x) + j
        BY <1>2, <2>1, <2>3
      <3>2. Says(y, n) = {j} /\ Says(x, n) = {}
        BY <1>1, <1>2, <2>1, <2>3, <3>1
      <3> QED
        BY <1>1, <1>2, <2>1, <3>1, <3>2 DEF SaysOnce, Mute
    <2> QED
      BY <2>2, <2>3
  <1> QED
    BY <1>3, <1>4, <1>5 DEF z

\* A part says nothing that the whole does not say.
LEMMA WithinSays ==
    ASSUME NEW x, NEW y, Within(x, y), NEW n, NEW ok
    PROVE  /\ Mute(y, n) => Mute(x, n)
           /\ SaysOnly(y, n, ok) => SaysOnly(x, n, ok)
           /\ Answers(y) = {} => Answers(x) = {}
  BY DEF Within, Mute, SaysOnly, Says, Answers

-----------------------------------------------------------------------------
(* The invariant, for one association *)

\* What the controls hold for an association: the commands it has armed, the
\* ctlNums under which it has run one, and what it is owed.
Facts(s, a) ==
    [ armed |-> {[num |-> t.req.num, object |-> t.object] : t \in {u \in s.timed : u.assoc = a}},
      ran   |-> {n \in Nums : [assoc |-> a, num |-> n] \in s.ran},
      owed  |-> s.pending[a],
      model |-> s.model ]

IsArmed(f, n) == \E x \in f.armed : x.num = n

\* No command under this ctlNum runs, has run, or waits for its operTm.
Untouched(f, n) == ~IsArmed(f, n) /\ n \notin f.ran

\* What the thread has written or has at hand to write, and everything on its
\* way to the caller, the oldest first.
Line(c) == c.wire \o c.unsent
Way(c, k, p) == k.unsolicited \o c.wire \o c.unsent \o c.queue \o p

FlowOK(f, c, k) ==
    /\ k.unsolicited \in Seq(Pdus) /\ c.wire \in Seq(Pdus) /\ c.unsent \in Seq(Pdus)
    /\ c.queue \in Seq(Pdus) /\ f.owed \in Seq(Pdus)
    /\ Answers(k.unsolicited) = {} /\ Answers(c.queue) = {} /\ Answers(f.owed) = {}
    /\ Len(c.queue) <= QueueCap /\ Len(c.wire) <= SocketCap

Plans == {<<"SBO", "Oper">>, <<"SBOw", "Oper">>, <<"SBO">>, <<"SBOw">>, <<"Oper">>, <<"Cancel">>}

\* What a call is made of; it waits for a termination only of an operate under
\* a model that owes one.
PlanOK(f, k) ==
    /\ k.phase \in {"idle", "calling", "explaining", "awaiting"}
    /\ k.num \in Nat
    /\ k.phase # "idle" => k.num \in Nums /\ k.object \in Objects
    /\ k.phase \in {"calling", "explaining"} =>
          k.plan \in Plans /\ k.req \in Requests /\ k.req.num = k.num
    /\ k.phase = "calling" /\ k.awaits => k.plan \in {<<"SBOw", "Oper">>, <<"Oper">>}
    /\ k.phase \in {"calling", "awaiting"} /\ k.awaits => Enhanced(f.model[k.object])
    /\ k.phase = "awaiting" => k.awaits
    /\ k.phase = "idle" => ~k.awaits
    /\ k.selects => k.phase = "idle"

\* A client in a call has one request or one answer on its way, and otherwise
\* none.
OneAtATime(c, k, q) ==
    /\ \A i, j \in Answers(Line(c)) : i = j
    /\ k.phase # "calling" => q = None /\ Answers(Line(c)) = {}
    /\ q # None => /\ Answers(Line(c)) = {}
                   /\ q.command = Head(k.plan) /\ q.object = k.object /\ q.req = k.req
    /\ k.phase = "calling" /\ q = None /\ c.at # "closed" => Answers(Line(c)) # {}

\* Nothing is under a ctlNum the client has not come to.
NumbersOK(f, c, k) ==
    /\ \A n \in Nums : ~Untouched(f, n) => n <= k.num
    /\ \A n \in Nums : ~Mute(Way(c, k, f.owed), n) => n <= k.num

\* What the phase of a client says of its last command.
PhaseOK(f, c, k, td) ==
    /\ k.selects => Untouched(f, k.num)
    /\ k.phase = "explaining" /\ Head(k.plan) # "Cancel" => Untouched(f, k.num)
    /\ k.phase = "calling" =>
          /\ Head(k.plan) \in {"SBO", "SBOw"} => Untouched(f, k.num)
          /\ Head(k.plan) # "Cancel" => td[k.num] = "nothing"
          /\ \A i \in Answers(Line(c)) :
                /\ ~Line(c)[i].ok /\ Head(k.plan) # "Cancel" => Untouched(f, k.num)
                /\ /\ Line(c)[i].ok /\ Head(k.plan) = "Oper"
                   /\ ~Enhanced(f.model[k.object]) /\ k.req.wait = 0
                   => k.num \in f.ran

\* Before the operate of an awaited command is served nothing speaks of it, and
\* what then does comes behind the answer.
EarlyOK(f, c, k, q) ==
    k.phase = "calling" /\ k.awaits =>
        /\ Mute(k.unsolicited, k.num)
        /\ q # None => Mute(Way(c, k, f.owed), k.num)
        /\ \A i \in Answers(Line(c)) :
              Line(c)[i].ok /\ Len(k.plan) = 2 => Mute(Way(c, k, f.owed), k.num)
        /\ \A j \in Says(Line(c), k.num) : \E i \in Answers(Line(c)) : i < j

\* The operate of an awaited command has been served.
Operating(k, q) ==
    /\ k.awaits
    /\ \/ k.phase = "awaiting"
       \/ k.phase = "calling" /\ k.plan = <<"Oper">> /\ q = None

\* Then it is armed, or what is on its way says once whether it has run.
LateOK(f, c, k, q) ==
    Operating(k, q) =>
        /\ \A x \in f.armed : x.num = k.num => x.object = k.object
        /\ IsArmed(f, k.num) => Mute(Way(c, k, f.owed), k.num)
        /\ SaysOnly(Way(c, k, f.owed), k.num, k.num \in f.ran)
        /\ c.at # "closed" /\ ~c.stalled /\ ~IsArmed(f, k.num) =>
              SaysOnce(Way(c, k, f.owed), k.num, k.num \in f.ran)

ToldOK(f, td) ==
    \A n \in Nums : /\ td[n] = "done" => n \in f.ran
                    /\ td[n] = "refused" => Untouched(f, n)

Story(f, c, k, q, td) ==
    /\ FlowOK(f, c, k)
    /\ q # None /\ q.command # "Cancel" => Untouched(f, q.req.num)
    /\ ToldOK(f, td)
    /\ td = [n \in Nums |-> td[n]]
    /\ k.phase = "gone" => \A n \in Nums : td[n] = "nothing"
    /\ k.phase # "gone" =>
          /\ PlanOK(f, k) /\ OneAtATime(c, k, q) /\ NumbersOK(f, c, k)
          /\ PhaseOK(f, c, k, td) /\ EarlyOK(f, c, k, q) /\ LateOK(f, c, k, q)

\* The way is a sequence, and speaks where one of its parts does.
LEMMA WayParts ==
    ASSUME NEW f, NEW c, NEW k, FlowOK(f, c, k), NEW n
    PROVE  /\ Way(c, k, f.owed) \in Seq(Pdus) /\ Line(c) \in Seq(Pdus)
           /\ Mute(Way(c, k, f.owed), n) <=>
                 /\ Mute(k.unsolicited, n) /\ Mute(c.wire, n) /\ Mute(c.unsent, n)
                 /\ Mute(c.queue, n) /\ Mute(f.owed, n)
           /\ Mute(Line(c), n) <=> Mute(c.wire, n) /\ Mute(c.unsent, n)
  <1> DEFINE u == k.unsolicited
             w == c.wire
             t == c.unsent
             r == c.queue
             p == f.owed
  <1>1. /\ u \in Seq(Pdus) /\ w \in Seq(Pdus) /\ t \in Seq(Pdus) /\ r \in Seq(Pdus)
        /\ p \in Seq(Pdus)
    BY DEF FlowOK
  <1> HIDE DEF u, w, t, r, p
  <1>2. u \o w \in Seq(Pdus) /\ (Mute(u \o w, n) <=> Mute(u, n) /\ Mute(w, n))
    BY <1>1, Joined, JoinedSays
  <1>3. /\ u \o w \o t \in Seq(Pdus)
        /\ Mute(u \o w \o t, n) <=> Mute(u \o w, n) /\ Mute(t, n)
    BY <1>1, <1>2, Joined, JoinedSays
  <1>4. /\ u \o w \o t \o r \in Seq(Pdus)
        /\ Mute(u \o w \o t \o r, n) <=> Mute(u \o w \o t, n) /\ Mute(r, n)
    BY <1>1, <1>3, Joined, JoinedSays
  <1>5. /\ u \o w \o t \o r \o p \in Seq(Pdus)
        /\ Mute(u \o w \o t \o r \o p, n) <=> Mute(u \o w \o t \o r, n) /\ Mute(p, n)
    <2> DEFINE v == u \o w \o t \o r
    <2>1. v \in Seq(Pdus)
      BY <1>4
    <2> HIDE DEF v
    <2>2. v \o p \in Seq(Pdus) /\ (Mute(v \o p, n) <=> Mute(v, n) /\ Mute(p, n))
      BY <1>1, <2>1, Joined, JoinedSays
    <2> QED
      BY <2>2 DEF v
  <1>6. w \o t \in Seq(Pdus) /\ (Mute(w \o t, n) <=> Mute(w, n) /\ Mute(t, n))
    BY <1>1, Joined, JoinedSays
  <1> QED
    BY <1>2, <1>3, <1>4, <1>5, <1>6 DEF Way, Line, u, w, t, r, p

-----------------------------------------------------------------------------
(* What is on its way moves on *)

\* More may follow on the line, but no answer: the places of answers stay, and
\* what speaks in the new part has the old line before it.
LEMMA LongerLine ==
    ASSUME NEW x \in Seq(Pdus), NEW y \in Seq(Pdus), Answers(y) = {}, NEW n
    PROVE  /\ Answers(x \o y) = Answers(x)
           /\ \A i \in Answers(x) : (x \o y)[i] = x[i]
           /\ \A j \in Says(x \o y, n) :
                 j \in Says(x, n) \/ (~Mute(y, n) /\ \A i \in Answers(x) : i < j)
  <1> DEFINE z == x \o y
  <1>1. /\ Len(x) \in Nat /\ DOMAIN x = 1 .. Len(x) /\ DOMAIN y = 1 .. Len(y)
        /\ \A i \in DOMAIN x : i \in DOMAIN z /\ z[i] = x[i]
        /\ \A j \in DOMAIN y : Len(x) + j \in DOMAIN z /\ z[Len(x) + j] = y[j]
        /\ \A i \in DOMAIN z : i \in DOMAIN x \/ \E j \in DOMAIN y : i = Len(x) + j
    BY Joined
  <1>2. \A i \in DOMAIN x, j \in DOMAIN y : i < Len(x) + j
    BY <1>1
  <1> HIDE DEF z
  <1>3. Answers(z) = Answers(x) /\ \A i \in Answers(x) : z[i] = x[i]
    BY <1>1 DEF Answers
  <1>4. \A j \in Says(z, n) : j \in Says(x, n) \/ (~Mute(y, n) /\ \A i \in Answers(x) : i < j)
    BY <1>1, <1>2 DEF Says, Mute, Answers
  <1> QED
    BY <1>3, <1>4 DEF z

\* What is on its way moves on, all of it or, when the association stalls or
\* is closed, a part, and the line may grow by what was in the queue.
LEMMA MovedStory ==
    ASSUME NEW f, NEW g, NEW c, NEW d, NEW k, NEW q, NEW td, Story(f, c, k, q, td),
           g.armed = f.armed, g.ran = f.ran, g.model = f.model, FlowOK(g, d, k),
           d.at = "closed" <=> c.at = "closed",
           c.stalled => d.stalled,
           \/ Way(d, k, g.owed) = Way(c, k, f.owed)
           \/ /\ d.stalled \/ d.at = "closed"
              /\ Within(Way(d, k, g.owed), Way(c, k, f.owed)),
           \/ Line(d) = Line(c)
           \/ /\ c.at # "closed"
              /\ \E y \in Seq(Pdus) : /\ Line(d) = Line(c) \o y /\ Answers(y) = {}
                                      /\ Within(y, Way(c, k, f.owed))
    PROVE  Story(g, d, k, q, td)
  <1> DEFINE w == Way(c, k, f.owed)
             v == Way(d, k, g.owed)
             x == Line(c)
             z == Line(d)
             n == k.num
  <1>1. \A m : /\ Untouched(g, m) <=> Untouched(f, m)
               /\ IsArmed(g, m) <=> IsArmed(f, m)
    BY DEF Untouched, IsArmed
  <1>2. \A m : /\ Mute(w, m) => Mute(v, m)
               /\ SaysOnly(w, m, m \in f.ran) => SaysOnly(v, m, m \in f.ran)
               /\ d.stalled \/ d.at = "closed" \/ (SaysOnce(w, m, m \in f.ran) => SaysOnce(v, m, m \in f.ran))
    <2>1. CASE v = w
      BY <2>1
    <2>2. CASE (d.stalled \/ d.at = "closed") /\ Within(v, w)
      BY <2>2, WithinSays
    <2> QED
      BY <2>1, <2>2
  <1> HIDE DEF w, v
  <1>3. ToldOK(g, td) /\ (q # None /\ q.command # "Cancel" => Untouched(g, q.req.num))
    BY <1>1 DEF Story, ToldOK
  <1>4. CASE k.phase = "gone"
    BY <1>3, <1>4 DEF Story
  <1>5. CASE k.phase # "gone"
    <2>1. /\ PlanOK(f, k) /\ OneAtATime(c, k, q) /\ NumbersOK(f, c, k)
          /\ PhaseOK(f, c, k, td) /\ EarlyOK(f, c, k, q) /\ LateOK(f, c, k, q)
      BY <1>5 DEF Story
    <2>2. /\ Answers(z) = Answers(x) /\ \A i \in Answers(x) : z[i] = x[i]
          /\ \A j \in Says(z, n) :
                \/ j \in Says(x, n)
                \/ c.at # "closed" /\ ~Mute(w, n) /\ \A i \in Answers(x) : i < j
      <3>1. CASE z = x
        BY <3>1
      <3>2. CASE c.at # "closed" /\ \E y \in Seq(Pdus) :
                    z = x \o y /\ Answers(y) = {} /\ Within(y, w)
        <4>1. PICK y \in Seq(Pdus) : z = x \o y /\ Answers(y) = {} /\ Within(y, w)
          BY <3>2
        <4>2. x \in Seq(Pdus)
          BY WayParts DEF Story
        <4>3. ~Mute(y, n) => ~Mute(w, n)
          BY <4>1, WithinSays
        <4> HIDE DEF x, z, n
        <4> QED
          BY <3>2, <4>1, <4>2, <4>3, LongerLine
      <3> QED
        BY <3>1, <3>2 DEF w
    <2> HIDE DEF x, z
    <2>3. PlanOK(g, k)
      BY <2>1 DEF PlanOK
    <2>4. OneAtATime(d, k, q)
      BY <2>1, <2>2 DEF OneAtATime, x, z
    <2>5. NumbersOK(g, d, k)
      BY <1>1, <1>2, <2>1 DEF NumbersOK, w, v
    <2>6. PhaseOK(g, d, k, td)
      BY <1>1, <2>1, <2>2 DEF PhaseOK, x, z
    <2>7. EarlyOK(g, d, k, q)
      <3> SUFFICES ASSUME k.phase = "calling", k.awaits
                   PROVE  /\ Mute(k.unsolicited, n)
                          /\ q # None => Mute(v, n)
                          /\ \A i \in Answers(z) : z[i].ok /\ Len(k.plan) = 2 => Mute(v, n)
                          /\ \A j \in Says(z, n) : \E i \in Answers(z) : i < j
        BY DEF EarlyOK, v, z
      <3>1. /\ Mute(k.unsolicited, n)
            /\ q # None => Mute(w, n)
            /\ \A i \in Answers(x) : x[i].ok /\ Len(k.plan) = 2 => Mute(w, n)
            /\ \A j \in Says(x, n) : \E i \in Answers(x) : i < j
        BY <2>1 DEF EarlyOK, w, x
      <3>2. c.at # "closed" /\ q = None => Answers(x) # {}
        BY <2>1 DEF OneAtATime, x
      <3> QED
        BY <1>2, <2>2, <3>1, <3>2
    <2>8. LateOK(g, d, k, q)
      BY <1>1, <1>2, <2>1 DEF LateOK, w, v
    <2> QED
      BY <1>3, <2>3, <2>4, <2>5, <2>6, <2>7, <2>8 DEF Story
  <1> QED
    BY <1>4, <1>5

LEMMA SmallerOfTwo ==
    ASSUME NEW m \in Nat, NEW n \in Nat
    PROVE  Min({m, n}) = IF m <= n THEN m ELSE n
  <1> DEFINE S == {m, n}
             x == CHOOSE y \in S : \A z \in S : y <= z
  <1>1. Min(S) = x
    BY DEF Min
  <1>2. \E y \in S : \A z \in S : y <= z
    OBVIOUS
  <1>3. x \in S /\ \A z \in S : x <= z
    <2> HIDE DEF S
    <2> QED
      BY <1>2
  <1> QED
    BY <1>1, <1>3

\* The parts of a concatenation are within it.
LEMMA JoinedWithin ==
    ASSUME NEW S, NEW x \in Seq(S), NEW y \in Seq(S)
    PROVE  Within(x, x \o y) /\ Within(y, x \o y)
  <1> DEFINE v == x \o y
  <1>1. /\ \A i \in DOMAIN x : i \in DOMAIN v /\ v[i] = x[i]
        /\ \A j \in DOMAIN y : Len(x) + j \in DOMAIN v /\ v[Len(x) + j] = y[j]
    BY Joined
  <1> HIDE DEF v
  <1>2. Within(x, v) /\ Within(y, v)
    BY <1>1 DEF Within
  <1> QED
    BY <1>2 DEF v

\* A concatenation is within a sequence if its parts are.
LEMMA BothWithin ==
    ASSUME NEW S, NEW x \in Seq(S), NEW y \in Seq(S), NEW z, Within(x, z), Within(y, z)
    PROVE  Within(x \o y, z)
  <1> DEFINE v == x \o y
  <1>1. /\ \A i \in DOMAIN x : v[i] = x[i]
        /\ \A j \in DOMAIN y : v[Len(x) + j] = y[j]
        /\ \A i \in DOMAIN v : i \in DOMAIN x \/ \E j \in DOMAIN y : i = Len(x) + j
    BY Joined
  <1> HIDE DEF v
  <1>2. Within(v, z)
    BY <1>1 DEF Within
  <1> QED
    BY <1>2 DEF v

LEMMA WithinTransitive ==
    ASSUME NEW x, NEW y, NEW z, Within(x, y), Within(y, z)
    PROVE  Within(x, z)
  BY DEF Within

LEMMA ThreeJoined ==
    ASSUME NEW S, NEW x \in Seq(S), NEW y \in Seq(S), NEW z \in Seq(S)
    PROVE  /\ x \o y \in Seq(S) /\ y \o z \in Seq(S) /\ (x \o y) \o z \in Seq(S)
           /\ (x \o y) \o z = x \o (y \o z)
           /\ (x \o y) \o <<>> = x \o y
  <1>1. x \o y \in Seq(S) /\ y \o z \in Seq(S)
    BY Joined
  <1> DEFINE v == x \o y
  <1> HIDE DEF v
  <1>2. v \in Seq(S)
    BY <1>1 DEF v
  <1>3. v \o z \in Seq(S) /\ v \o <<>> = v
    BY <1>2, Joined, ConcatEmptySeq
  <1>4. (x \o y) \o z = x \o (y \o z)
    BY ConcatAssociative
  <1>5. (x \o y) \o z \in Seq(S) /\ (x \o y) \o <<>> = x \o y
    BY <1>3 DEF v
  <1> QED
    BY <1>1, <1>4, <1>5

\* The beginning of a sequence, and how it continues.
LEMMA Cut ==
    ASSUME NEW S, NEW x \in Seq(S), NEW n \in 0 .. Len(x)
    PROVE  /\ SubSeq(x, 1, n) \in Seq(S) /\ Len(SubSeq(x, 1, n)) = n
           /\ SubSeq(x, n + 1, Len(x)) \in Seq(S)
           /\ SubSeq(x, 1, n) \o SubSeq(x, n + 1, Len(x)) = x
           /\ Within(SubSeq(x, 1, n), x)
           /\ n = Len(x) => SubSeq(x, 1, n) = x
  <1>1. Len(x) \in Nat /\ DOMAIN x = 1 .. Len(x) /\ \A i \in 1 .. Len(x) : x[i] \in S
    BY LenProperties, ElementOfSeq
  <1> DEFINE m == Len(x)
             b == SubSeq(x, 1, n)
             e == SubSeq(x, n + 1, m)
  <1>2. /\ b \in Seq(S) /\ Len(b) = n
        /\ \A i \in 1 .. n : b[i] = x[i]
    <2>1. \A i \in 1 .. n : x[i] \in S
      BY <1>1
    <2>2. /\ b \in Seq(S) /\ Len(b) = IF 1 <= n THEN n - 1 + 1 ELSE 0
          /\ \A i \in 1 .. n - 1 + 1 : b[i] = x[1 + i - 1]
      BY <1>1, <2>1, SubSeqProperties
    <2> HIDE DEF b
    <2> QED
      BY <2>2
  <1>3. /\ e \in Seq(S) /\ Len(e) = m - n
        /\ \A i \in 1 .. m - n : e[i] = x[n + i]
    <2>1. \A i \in n + 1 .. m : x[i] \in S
      BY <1>1
    <2> HIDE DEF m
    <2>2. m \in Nat /\ n \in 0 .. m
      BY <1>1 DEF m
    <2>3. /\ e \in Seq(S) /\ Len(e) = IF n + 1 <= m THEN m - (n + 1) + 1 ELSE 0
          /\ \A i \in 1 .. m - (n + 1) + 1 : e[i] = x[n + 1 + i - 1]
      BY <2>1, <2>2, SubSeqProperties
    <2> HIDE DEF e
    <2>4. Len(e) = m - n
      BY <2>2, <2>3
    <2>5. \A i \in 1 .. m - n : e[i] = x[n + i]
      <3> SUFFICES ASSUME NEW i \in 1 .. m - n PROVE e[i] = x[n + i]
        OBVIOUS
      <3>1. i \in 1 .. m - (n + 1) + 1 /\ n + 1 + i - 1 = n + i
        BY <2>2
      <3> QED
        BY <2>3, <3>1
    <2> QED
      BY <2>3, <2>4, <2>5
  <1> HIDE DEF b, e
  <1>4. b \o e = x
    <2>1. /\ b \o e \in Seq(S) /\ Len(b \o e) = m
          /\ \A i \in 1 .. m : (b \o e)[i] = IF i <= n THEN b[i] ELSE e[i - n]
      <3>1. /\ b \o e \in Seq(S) /\ Len(b \o e) = Len(b) + Len(e)
            /\ \A i \in 1 .. Len(b) + Len(e) :
                  (b \o e)[i] = IF i <= Len(b) THEN b[i] ELSE e[i - Len(b)]
        BY <1>2, <1>3, ConcatProperties
      <3>2. Len(b) = n /\ Len(b) + Len(e) = m
        BY <1>1, <1>2, <1>3
      <3> QED
        BY <3>1, <3>2
    <2>2. \A i \in 1 .. m : (b \o e)[i] = x[i]
      <3> SUFFICES ASSUME NEW i \in 1 .. m PROVE (b \o e)[i] = x[i]
        OBVIOUS
      <3>1. CASE i <= n
        BY <1>1, <1>2, <2>1, <3>1
      <3>2. CASE ~(i <= n)
        <4>1. i - n \in 1 .. m - n /\ n + (i - n) = i
          BY <1>1, <3>2
        <4> QED
          BY <1>3, <2>1, <3>2, <4>1
      <3> QED
        BY <3>1, <3>2
    <2> QED
      BY <2>1, <2>2, SeqEqual
  <1>5. Within(b, x)
    BY <1>2, <1>4, <1>3, JoinedWithin
  <1>6. n = Len(x) => b = x
    BY SubSeqFull DEF b
  <1> QED
    BY <1>2, <1>3, <1>4, <1>5, <1>6 DEF b, e

\* What is left of a sequence without answers has none.
LEMMA WithinAnswers ==
    ASSUME NEW x, NEW y, Within(x, y), Answers(y) = {}
    PROVE  Answers(x) = {}
  BY DEF Within, Answers

\* As much as a queue takes.
LEMMA Capped ==
    ASSUME NEW S, NEW x \in Seq(S), NEW cap \in Nat
    PROVE  /\ SubSeq(x, 1, Min({cap, Len(x)})) \in Seq(S)
           /\ Len(SubSeq(x, 1, Min({cap, Len(x)}))) <= cap
           /\ Within(SubSeq(x, 1, Min({cap, Len(x)})), x)
           /\ Len(x) > cap \/ SubSeq(x, 1, Min({cap, Len(x)})) = x
  <1> DEFINE m == Len(x)
             n == Min({cap, m})
  <1>1. m \in Nat
    BY LenProperties
  <1>2. n = IF cap <= m THEN cap ELSE m
    <2> HIDE DEF m
    <2> QED
      BY <1>1, SmallerOfTwo
  <1> HIDE DEF n
  <1>3. /\ n \in 0 .. m /\ n <= cap
        /\ m > cap \/ n = m
    <2> HIDE DEF m
    <2> QED
      BY <1>1, <1>2
  <1>4. PICK h \in 0 .. Len(x) : h = n /\ h <= cap /\ (Len(x) > cap \/ h = Len(x))
    BY <1>3
  <1>5. /\ SubSeq(x, 1, h) \in Seq(S) /\ Len(SubSeq(x, 1, h)) = h
        /\ Within(SubSeq(x, 1, h), x) /\ (h = Len(x) => SubSeq(x, 1, h) = x)
    BY Cut
  <1>6. /\ SubSeq(x, 1, h) \in Seq(S) /\ Len(SubSeq(x, 1, h)) <= cap
        /\ Within(SubSeq(x, 1, h), x) /\ (Len(x) > cap \/ SubSeq(x, 1, h) = x)
    BY <1>4, <1>5
  <1>7. h = Min({cap, Len(x)})
    BY <1>4 DEF n
  <1> QED
    BY Zenon, <1>6, <1>7

\* What is owed goes into the queue, which stalls when it is full
\* (Outbound::send, net.rs:102-110).
LEMMA DispatchedStory ==
    ASSUME NEW f, NEW g, NEW c, NEW d, NEW k, NEW q, NEW td, Story(f, c, k, q, td),
           g.armed = f.armed, g.ran = f.ran, g.model = f.model, g.owed = <<>>,
           d.wire = c.wire, d.unsent = c.unsent, d.at = c.at, NEW all,
           all = c.queue \o f.owed,
           d.queue = SubSeq(all, 1, Min({QueueCap, Len(all)})),
           d.stalled <=> c.stalled \/ Len(all) > QueueCap
    PROVE  Story(g, d, k, q, td)
  <1> DEFINE u == k.unsolicited
             w == c.wire
             t == c.unsent
             x == (u \o w) \o t
             r == c.queue
             p == f.owed
  <1>1. /\ u \in Seq(Pdus) /\ w \in Seq(Pdus) /\ t \in Seq(Pdus)
        /\ r \in Seq(Pdus) /\ p \in Seq(Pdus)
        /\ Answers(r) = {} /\ Answers(p) = {}
    BY DEF Story, FlowOK
  <1>3. Way(c, k, f.owed) = (x \o r) \o p /\ Way(d, k, g.owed) = (x \o d.queue) \o <<>>
    BY DEF Way
  <1> HIDE DEF u, w, t
  <1>2. x \in Seq(Pdus)
    BY <1>1, ThreeJoined
  <1> HIDE DEF x, r, p
  <1>4. all \in Seq(Pdus) /\ Answers(all) = {}
    <2>1. r \o p \in Seq(Pdus) /\ Answers(r \o p) = {}
      BY <1>1, Joined, JoinedSays
    <2> QED
      BY <2>1 DEF r, p
  <1>5. /\ SubSeq(all, 1, Min({QueueCap, Len(all)})) \in Seq(Pdus)
        /\ Len(SubSeq(all, 1, Min({QueueCap, Len(all)}))) <= QueueCap
        /\ Within(SubSeq(all, 1, Min({QueueCap, Len(all)})), all)
        /\ Len(all) > QueueCap \/ SubSeq(all, 1, Min({QueueCap, Len(all)})) = all
    BY <1>4, Capped, ServiceAssumption
  <1>7. /\ d.queue \in Seq(Pdus) /\ Len(d.queue) <= QueueCap /\ Within(d.queue, all)
        /\ Len(all) > QueueCap \/ d.queue = all
    BY Zenon, <1>5
  <1>8. Answers(d.queue) = {}
    BY Zenon, <1>4, <1>7, WithinAnswers
  <1>9. FlowOK(g, d, k)
    <2>1. <<>> \in Seq(Pdus) /\ Answers(<<>>) = {}
      BY DEF Answers
    <2> QED
      BY <1>7, <1>8, <2>1 DEF Story, FlowOK
  <1>10. Way(c, k, f.owed) = x \o all /\ Way(d, k, g.owed) = x \o d.queue
    <2>1. (x \o r) \o p = x \o (r \o p)
      <3>1. x \in Seq(Pdus) /\ r \in Seq(Pdus) /\ p \in Seq(Pdus)
        BY <1>1, <1>2
      <3> QED
        BY <3>1, ThreeJoined
    <2>3. (x \o d.queue) \o <<>> = x \o d.queue
      <3> DEFINE y == d.queue
      <3>1. y \in Seq(Pdus)
        BY Zenon, <1>7
      <3> HIDE DEF y
      <3>2. <<>> \in Seq(Pdus)
        OBVIOUS
      <3>3. (x \o y) \o <<>> = x \o y
        BY <1>2, <3>1, <3>2, ThreeJoined
      <3> QED
        BY Zenon, <3>3 DEF y
    <2> QED
      BY <1>3, <2>1, <2>3 DEF r, p
  <1>11. Within(x \o d.queue, x \o all)
    <2>1. Within(x, x \o all) /\ Within(all, x \o all)
      BY <1>2, <1>4, JoinedWithin
    <2>2. Within(d.queue, x \o all)
      BY <1>7, <2>1, WithinTransitive
    <2> QED
      BY <1>2, <1>7, <2>1, <2>2, BothWithin
  <1>12. \/ Way(d, k, g.owed) = Way(c, k, f.owed)
         \/ d.stalled /\ Within(Way(d, k, g.owed), Way(c, k, f.owed))
    <2>1. CASE d.queue = all
      BY <1>10, <2>1
    <2>2. CASE Len(all) > QueueCap
      BY <1>10, <1>11, <2>2
    <2> QED
      BY <1>7, <2>1, <2>2
  <1>13. Line(d) = Line(c)
    BY DEF Line
  <1> QED
    BY <1>9, <1>12, <1>13, MovedStory

\* What is owed to an association that is closed is dropped.
LEMMA UndeliveredStory ==
    ASSUME NEW f, NEW g, NEW c, NEW k, NEW q, NEW td, Story(f, c, k, q, td),
           g.armed = f.armed, g.ran = f.ran, g.model = f.model, g.owed = <<>>,
           c.at = "closed"
    PROVE  Story(g, c, k, q, td)
  <1> DEFINE x == k.unsolicited \o c.wire \o c.unsent \o c.queue
             p == f.owed
  <1>1. x \in Seq(Pdus) /\ p \in Seq(Pdus)
    BY Joined DEF Story, FlowOK
  <1>2. Way(c, k, f.owed) = x \o p /\ Way(c, k, g.owed) = x \o <<>>
    BY DEF Way
  <1> HIDE DEF x, p
  <1>3. Within(Way(c, k, g.owed), Way(c, k, f.owed))
    BY <1>1, <1>2, ConcatEmptySeq, JoinedWithin
  <1>4. FlowOK(g, c, k)
    BY DEF Story, FlowOK, Answers
  <1> QED
    BY <1>3, <1>4, MovedStory

\* The queue is drained behind what the thread has at hand (net.rs:469-477).
LEMMA DrainedStory ==
    ASSUME NEW f, NEW c, NEW d, NEW k, NEW q, NEW td, Story(f, c, k, q, td),
           c.at # "closed",
           d.wire = c.wire, d.unsent = c.unsent \o c.queue, d.queue = <<>>, d.at = c.at,
           d.stalled = c.stalled
    PROVE  Story(f, d, k, q, td)
  <1> DEFINE u == k.unsolicited
             w == c.wire
             x == u \o w
             t == c.unsent
             r == c.queue
             p == f.owed
  <1>1. /\ u \in Seq(Pdus) /\ w \in Seq(Pdus) /\ t \in Seq(Pdus)
        /\ r \in Seq(Pdus) /\ p \in Seq(Pdus) /\ Answers(r) = {}
    BY DEF Story, FlowOK
  <1>3. /\ Way(c, k, f.owed) = ((x \o t) \o r) \o p
        /\ Way(d, k, f.owed) = ((x \o (t \o r)) \o <<>>) \o p
        /\ Line(c) = w \o t /\ Line(d) = w \o (t \o r)
    BY DEF Way, Line
  <1>4. FlowOK(f, d, k)
    <2>1. c.unsent \o c.queue \in Seq(Pdus)
      BY <1>1, Joined DEF t, r
    <2>2. <<>> \in Seq(Pdus) /\ Answers(<<>>) = {} /\ Len(<<>>) <= QueueCap
      BY ServiceAssumption DEF Answers
    <2> QED
      BY <2>1, <2>2 DEF Story, FlowOK
  <1> HIDE DEF u, w, t, r, p
  <1>2. x \in Seq(Pdus)
    BY <1>1, Joined
  <1> HIDE DEF x
  <1>5. x \o t \in Seq(Pdus) /\ t \o r \in Seq(Pdus) /\ (x \o t) \o r = x \o (t \o r)
    <2>1. x \in Seq(Pdus) /\ t \in Seq(Pdus) /\ r \in Seq(Pdus)
      BY <1>1, <1>2
    <2> QED
      BY SMTT(30), <2>1, ThreeJoined
  <1>6. (x \o (t \o r)) \o <<>> = x \o (t \o r)
    <2> DEFINE y == t \o r
    <2>1. y \in Seq(Pdus)
      BY <1>5
    <2> HIDE DEF y
    <2>2. (x \o y) \o <<>> = x \o y
      BY <1>2, <2>1, ThreeJoined
    <2> QED
      BY <2>2 DEF y
  <1>7. Way(d, k, f.owed) = Way(c, k, f.owed)
    BY <1>3, <1>5, <1>6
  <1>8. Line(d) = Line(c) \o r
    <2>1. (w \o t) \o r = w \o (t \o r)
      BY SMTT(30), <1>1, ThreeJoined
    <2> QED
      BY <1>3, <2>1
  <1>9. Within(r, Way(c, k, f.owed))
    <2> DEFINE y == x \o t
    <2>1. y \in Seq(Pdus)
      BY <1>5
    <2> HIDE DEF y
    <2>2. y \o r \in Seq(Pdus) /\ Within(r, y \o r)
      BY <1>1, <2>1, Joined, JoinedWithin
    <2>3. Within(y \o r, (y \o r) \o p)
      BY <1>1, <2>2, JoinedWithin
    <2> QED
      BY <1>3, <2>2, <2>3, WithinTransitive DEF y
  <1> QED
    BY <1>1, <1>4, <1>7, <1>8, <1>9, MovedStory

\* The socket takes the beginning of what the thread has at hand.
LEMMA WrittenStory ==
    ASSUME NEW f, NEW c, NEW k, NEW q, NEW td, Story(f, c, k, q, td),
           ConnShaped(c), c.at # "closed", NEW gone
    PROVE  Story(f, Written(c, gone), k, q, td)
  <1> DEFINE u == k.unsolicited
             w == c.wire
             t == c.unsent
             n == Min({SocketCap - Len(w), Len(t)})
             b == SubSeq(t, 1, n)
             e == SubSeq(t, n + 1, Len(t))
             wire == w \o b
             at == IF n < Len(t) THEN "blocked" ELSE IF c.stalled THEN "ended" ELSE "read"
             ended == [c EXCEPT !.at = "ended"]
             d == [c EXCEPT !.wire = wire, !.unsent = e, !.at = at]
  <1>1. Written(c, gone) = ended \/ Written(c, gone) = d
    BY Zenon DEF Written
  <1>2. Story(f, ended, k, q, td)
    <2>1. /\ ended.wire = c.wire /\ ended.unsent = c.unsent /\ ended.queue = c.queue
          /\ ended.at = "ended" /\ ended.stalled = c.stalled
      BY DEF ConnShaped, ConnFields
    <2> HIDE DEF ended
    <2>2. FlowOK(f, ended, k) /\ Way(ended, k, f.owed) = Way(c, k, f.owed) /\ Line(ended) = Line(c)
      BY <2>1 DEF Story, FlowOK, Way, Line
    <2> QED
      BY <2>1, <2>2, MovedStory
  <1>3. Story(f, d, k, q, td)
    <2>1. at \in {"read", "blocked", "ended"}
      BY Zenon
    <2>2. u \in Seq(Pdus) /\ w \in Seq(Pdus) /\ t \in Seq(Pdus) /\ Len(w) <= SocketCap
      BY DEF Story, FlowOK
    <2> HIDE DEF u, w, t
    <2>3. n \in 0 .. Len(t) /\ Len(w) + n <= SocketCap
      <3> DEFINE x == SocketCap - Len(w)
                 y == Len(t)
      <3>1. /\ Len(w) \in Nat /\ y \in Nat /\ x \in Nat /\ Len(w) + x = SocketCap
        BY <2>2, LenProperties, ServiceAssumption
      <3> HIDE DEF x, y
      <3>2. n = IF x <= y THEN x ELSE y
        BY <3>1, SmallerOfTwo DEF x, y
      <3> HIDE DEF n
      <3>3. n \in 0 .. y /\ n <= x /\ n \in Nat
        BY <3>1, <3>2
      <3>4. Len(w) + n <= SocketCap
        BY <3>1, <3>3
      <3> QED
        BY <3>3, <3>4 DEF y
    <2> HIDE DEF n
    <2>4. /\ b \in Seq(Pdus) /\ Len(b) = n /\ e \in Seq(Pdus) /\ b \o e = t
      BY <2>2, <2>3, Cut
    <2> HIDE DEF b, e
    <2>5. /\ wire \in Seq(Pdus) /\ Len(wire) <= SocketCap
          /\ wire \o e = w \o t /\ (u \o wire) \o e = (u \o w) \o t
      <3>1. /\ wire \in Seq(Pdus) /\ Len(wire) = Len(w) + Len(b)
            /\ wire \o e = w \o (b \o e) /\ (u \o wire) \o e = (u \o w) \o (b \o e)
        <4>1. b \in Seq(Pdus) /\ e \in Seq(Pdus)
          BY <2>4
        <4>2. u \in Seq(Pdus) /\ w \in Seq(Pdus)
          BY <2>2
        <4>3. wire \in Seq(Pdus) /\ Len(wire) = Len(w) + Len(b) /\ b \o e \in Seq(Pdus)
          BY <4>1, <4>2, Joined
        <4>4. (w \o b) \o e = w \o (b \o e)
          <5>1. w \in Seq(Pdus) /\ b \in Seq(Pdus) /\ e \in Seq(Pdus)
            BY <4>1, <4>2
          <5> QED
            BY <5>1, ConcatAssociative
        <4> DEFINE rest == b \o e
        <4> HIDE DEF wire, rest
        <4>5. rest \in Seq(Pdus) /\ wire \in Seq(Pdus)
          BY <4>3 DEF rest
        <4>6. (u \o w) \o rest = u \o (w \o rest)
          BY <4>2, <4>5, ConcatAssociative
        <4>7. (u \o wire) \o e = u \o (wire \o e)
          <5>1. u \in Seq(Pdus) /\ wire \in Seq(Pdus) /\ e \in Seq(Pdus)
            BY <4>1, <4>2, <4>5
          <5> QED
            BY <5>1, ConcatAssociative
        <4>8. wire \o e = w \o rest
          BY Zenon, <4>4 DEF rest, wire
        <4>9. (u \o wire) \o e = (u \o w) \o rest
          BY Zenon, <4>6, <4>7, <4>8
        <4> QED
          BY Zenon, <4>3, <4>8, <4>9 DEF rest
      <3> HIDE DEF wire
      <3> QED
        BY <2>3, <2>4, <3>1
    <2> HIDE DEF wire, at
    <2>8. /\ d.wire = wire /\ d.unsent = e /\ d.queue = c.queue
          /\ d.at = at /\ d.stalled = c.stalled
      BY DEF ConnShaped, ConnFields
    <2> HIDE DEF d
    <2>9. Way(d, k, f.owed) = Way(c, k, f.owed) /\ Line(d) = Line(c)
      BY <2>5, <2>8 DEF Way, Line, u, w, t
    <2>10. FlowOK(f, d, k)
      BY <2>4, <2>5, <2>8 DEF Story, FlowOK
    <2> QED
      BY <2>1, <2>8, <2>9, <2>10, MovedStory
  <1> QED
    BY <1>1, <1>2, <1>3

\* The thread drains its queue and writes.
LEMMA FlushedStory ==
    ASSUME NEW f, NEW c, NEW k, NEW q, NEW td, Story(f, c, k, q, td),
           ConnShaped(c), c.at # "closed", NEW gone
    PROVE  Story(f, Flushed(c, gone), k, q, td)
  <1> DEFINE unsent == c.unsent \o c.queue
             d == [c EXCEPT !.unsent = unsent, !.queue = <<>>]
  <1>1. Flushed(c, gone) = Written(d, gone)
    BY Zenon DEF Flushed
  <1> HIDE DEF unsent
  <1>2. /\ ConnShaped(d) /\ d.wire = c.wire /\ d.unsent = unsent /\ d.queue = <<>>
        /\ d.at = c.at /\ d.stalled = c.stalled
    BY DEF ConnShaped, ConnFields
  <1> HIDE DEF d
  <1>3. Story(f, d, k, q, td)
    BY <1>2, DrainedStory DEF unsent
  <1> QED
    BY <1>1, <1>2, <1>3, WrittenStory

-----------------------------------------------------------------------------
(* Time passes *)

\* What y adds to what is owed: nothing but terminations, and each of these of
\* a command that was armed and is so no longer.
Reports(f, g, y) ==
    /\ y \in Seq(Pdus) /\ Answers(y) = {}
    /\ \A n \in Nums : ~IsArmed(f, n) \/ IsArmed(g, n) => Mute(y, n)
    /\ \A n \in Nums : SaysOnly(y, n, n \in g.ran)
    /\ \A x \in f.armed : Enhanced(f.model[x.object]) /\ ~IsArmed(g, x.num) =>
          SaysOnce(y, x.num, x.num \in g.ran)

\* What may happen to the commands of an association while time passes: of
\* those that are armed some run or are refused, and that is owed.
Passes(f, g) ==
    /\ g.model = f.model /\ g.armed \subseteq f.armed /\ f.ran \subseteq g.ran
    /\ \A n \in g.ran \ f.ran : IsArmed(f, n) /\ ~IsArmed(g, n)
    /\ \A x \in f.armed : x.num \in Nums
    /\ \E y : Reports(f, g, y) /\ g.owed = f.owed \o y

LEMMA PassedStory ==
    ASSUME NEW f, NEW g, NEW c, NEW k, NEW q, NEW td, Story(f, c, k, q, td), Passes(f, g)
    PROVE  Story(g, c, k, q, td)
  <1>1. PICK y : Reports(f, g, y) /\ g.owed = f.owed \o y
    BY DEF Passes
  <1> DEFINE w == Way(c, k, f.owed)
             v == Way(c, k, g.owed)
             n == k.num
  <1>2. FlowOK(f, c, k) /\ y \in Seq(Pdus) /\ Answers(y) = {}
    BY <1>1 DEF Story, Reports
  <1>3. w \in Seq(Pdus) /\ Line(c) \in Seq(Pdus)
    BY <1>2, WayParts
  <1>4. FlowOK(g, c, k) /\ v = w \o y
    <2> DEFINE x == k.unsolicited \o c.wire \o c.unsent \o c.queue
               p == f.owed
    <2>1. x \in Seq(Pdus) /\ p \in Seq(Pdus) /\ Answers(p) = {}
      BY <1>2, Joined DEF FlowOK
    <2>2. w = x \o p /\ v = x \o (f.owed \o y)
      BY <1>1 DEF Way
    <2> HIDE DEF x, p, w, v
    <2>3. (x \o p) \o y = x \o (p \o y)
      BY <1>2, <2>1, ConcatAssociative
    <2>4. p \o y \in Seq(Pdus) /\ Answers(p \o y) = {}
      BY <1>2, <2>1, Joined, JoinedSays
    <2>5. v = w \o y
      BY <2>2, <2>3 DEF p
    <2> QED
      BY <1>1, <1>2, <2>4, <2>5 DEF FlowOK, p
  <1> HIDE DEF w, v
  <1>5. \A m : /\ Mute(v, m) <=> Mute(w, m) /\ Mute(y, m)
               /\ \A ok : SaysOnly(v, m, ok) <=> SaysOnly(w, m, ok) /\ SaysOnly(y, m, ok)
               /\ \A ok : \/ SaysOnce(w, m, ok) /\ Mute(y, m)
                          \/ Mute(w, m) /\ SaysOnce(y, m, ok)
                          => SaysOnce(v, m, ok)
    BY <1>2, <1>3, <1>4, JoinedSays, JoinedSaysOnly, JoinedSaysOnce
  <1>6. \A m : IsArmed(g, m) => IsArmed(f, m)
    BY DEF Passes, IsArmed
  <1>7. \A m : /\ Untouched(f, m) => Untouched(g, m)
               /\ m \in f.ran => m \in g.ran
               /\ ~IsArmed(f, m) => (m \in f.ran <=> m \in g.ran)
    BY <1>6 DEF Passes, Untouched
  <1>8. \A m \in Nums : ~IsArmed(f, m) => Mute(y, m)
    BY <1>1 DEF Reports
  <1>9. /\ ToldOK(g, td)
        /\ q # None /\ q.command # "Cancel" => Untouched(g, q.req.num)
    BY <1>7 DEF Story, ToldOK
  <1>10. CASE k.phase = "gone"
    BY <1>4, <1>9, <1>10 DEF Story
  <1>11. CASE k.phase # "gone"
    <2>1. /\ PlanOK(f, k) /\ OneAtATime(c, k, q) /\ NumbersOK(f, c, k)
          /\ PhaseOK(f, c, k, td) /\ EarlyOK(f, c, k, q) /\ LateOK(f, c, k, q)
      BY <1>11 DEF Story
    <2>2. PlanOK(g, k)
      BY <2>1 DEF PlanOK, Passes
    <2>3. NumbersOK(g, c, k)
      BY <1>5, <1>7, <1>8, <2>1 DEF NumbersOK, w, v, Untouched
    <2>4. PhaseOK(g, c, k, td)
      BY <1>7, <2>1 DEF PhaseOK, Passes
    <2>5. EarlyOK(g, c, k, q)
      <3> SUFFICES ASSUME k.phase = "calling", k.awaits
                   PROVE  /\ Mute(k.unsolicited, n)
                          /\ q # None => Mute(v, n)
                          /\ \A i \in Answers(Line(c)) :
                                Line(c)[i].ok /\ Len(k.plan) = 2 => Mute(v, n)
                          /\ \A j \in Says(Line(c), n) : \E i \in Answers(Line(c)) : i < j
        BY DEF EarlyOK, v
      <3>1. /\ Mute(k.unsolicited, n)
            /\ q # None => Mute(w, n)
            /\ \A i \in Answers(Line(c)) : Line(c)[i].ok /\ Len(k.plan) = 2 => Mute(w, n)
            /\ \A j \in Says(Line(c), n) : \E i \in Answers(Line(c)) : i < j
        BY <2>1 DEF EarlyOK, w
      <3>2. /\ n \in Nums /\ k.req.num = n
            /\ k.plan \in {<<"SBOw", "Oper">>, <<"Oper">>}
        BY <2>1 DEF PlanOK
      <3>3. q # None => Untouched(f, n)
        BY <2>1, <3>2 DEF OneAtATime, Story
      <3>4. Len(k.plan) = 2 => Untouched(f, n)
        BY <2>1, <3>2 DEF PhaseOK
      <3>5. Untouched(f, n) => Mute(y, n)
        BY <1>8, <3>2 DEF Untouched
      <3> QED
        BY <1>5, <3>1, <3>3, <3>4, <3>5
    <2>6. LateOK(g, c, k, q)
      <3> SUFFICES ASSUME Operating(k, q)
                   PROVE  /\ \A x \in g.armed : x.num = n => x.object = k.object
                          /\ IsArmed(g, n) => Mute(v, n)
                          /\ SaysOnly(v, n, n \in g.ran)
                          /\ c.at # "closed" /\ ~c.stalled /\ ~IsArmed(g, n) =>
                                SaysOnce(v, n, n \in g.ran)
        BY DEF LateOK, v
      <3>1. /\ \A x \in f.armed : x.num = n => x.object = k.object
            /\ IsArmed(f, n) => Mute(w, n)
            /\ SaysOnly(w, n, n \in f.ran)
            /\ c.at # "closed" /\ ~c.stalled /\ ~IsArmed(f, n) => SaysOnce(w, n, n \in f.ran)
        BY <2>1 DEF LateOK, w
      <3>2. n \in Nums /\ Enhanced(f.model[k.object])
        BY <2>1 DEF Operating, PlanOK
      <3>3. CASE IsArmed(f, n)
        <4>1. Mute(w, n) /\ \A ok : SaysOnly(w, n, ok)
          BY <3>1, <3>3 DEF Mute, SaysOnly
        <4>2. SaysOnly(y, n, n \in g.ran) /\ (IsArmed(g, n) => Mute(y, n))
          BY <1>1, <3>2 DEF Reports
        <4>3. ~IsArmed(g, n) => SaysOnce(y, n, n \in g.ran)
          BY <1>1, <3>1, <3>2, <3>3 DEF Reports, IsArmed
        <4>4. \A x \in g.armed : x.num = n => x.object = k.object
          BY <3>1 DEF Passes
        <4> QED
          BY <1>5, <4>1, <4>2, <4>3, <4>4
      <3>4. CASE ~IsArmed(f, n)
        <4>1. Mute(y, n) /\ ~IsArmed(g, n) /\ (n \in f.ran <=> n \in g.ran)
          BY <1>6, <1>7, <1>8, <3>2, <3>4
        <4>2. \A ok : SaysOnly(y, n, ok)
          BY <4>1 DEF Mute, SaysOnly
        <4>3. \A x \in g.armed : x.num = n => x.object = k.object
          BY <3>1 DEF Passes
        <4>4. SaysOnly(w, n, n \in g.ran)
          BY <3>1, <4>1 DEF SaysOnly
        <4>5. SaysOnce(w, n, n \in f.ran) => SaysOnce(w, n, n \in g.ran)
          BY <4>1 DEF SaysOnce
        <4> QED
          BY <1>5, <3>1, <3>4, <4>1, <4>2, <4>3, <4>4, <4>5
      <3> QED
        BY <3>3, <3>4
    <2> QED
      BY <1>4, <1>9, <2>1, <2>2, <2>3, <2>4, <2>5, <2>6 DEF Story
  <1> QED
    BY <1>10, <1>11

\* The list of armed commands: every place is taken once, an association has
\* one command under a ctlNum, and none of them has run.
ListOK(s) ==
    /\ s.pending = [a \in Assoc |-> s.pending[a]]
    /\ IsFiniteSet(s.timed)
    /\ \A t \in s.timed : t.rank < s.armed
    /\ \A t, u \in s.timed : t.rank = u.rank => t = u
    /\ \A t, u \in s.timed : t.assoc = u.assoc /\ t.req.num = u.req.num => t = u
    /\ \A t \in s.timed : [assoc |-> t.assoc, num |-> t.req.num] \notin s.ran

\* What is armed, read off the list.
LEMMA ArmedFacts ==
    ASSUME NEW s, NEW a
    PROVE  /\ \A n : IsArmed(Facts(s, a), n) <=>
                        \E t \in s.timed : t.assoc = a /\ t.req.num = n
           /\ \A x \in Facts(s, a).armed : \E t \in s.timed :
                 t.assoc = a /\ x = [num |-> t.req.num, object |-> t.object]
           /\ \A t \in s.timed : t.assoc = a =>
                 [num |-> t.req.num, object |-> t.object] \in Facts(s, a).armed
           /\ Facts(s, a).ran = {n \in Nums : [assoc |-> a, num |-> n] \in s.ran}
           /\ Facts(s, a).owed = s.pending[a]
           /\ Facts(s, a).model = s.model
  <1> DEFINE armed == {[num |-> t.req.num, object |-> t.object] : t \in {u \in s.timed : u.assoc = a}}
             ran == {n \in Nums : [assoc |-> a, num |-> n] \in s.ran}
  <1>1. /\ Facts(s, a).armed = armed /\ Facts(s, a).ran = ran
        /\ Facts(s, a).owed = s.pending[a] /\ Facts(s, a).model = s.model
    BY DEF Facts
  <1>2. /\ \A x \in armed : \E t \in s.timed :
              t.assoc = a /\ x = [num |-> t.req.num, object |-> t.object]
        /\ \A t \in s.timed : t.assoc = a => [num |-> t.req.num, object |-> t.object] \in armed
    OBVIOUS
  <1> HIDE DEF armed, ran
  <1>3. ASSUME NEW n
        PROVE  (\E x \in armed : x.num = n) <=> \E t \in s.timed : t.assoc = a /\ t.req.num = n
    <2>1. ASSUME NEW x \in armed, x.num = n
          PROVE  \E t \in s.timed : t.assoc = a /\ t.req.num = n
      BY <1>2, <2>1
    <2>2. ASSUME NEW t \in s.timed, t.assoc = a, t.req.num = n
          PROVE  \E x \in armed : x.num = n
      <3>1. [num |-> t.req.num, object |-> t.object] \in armed
        BY <1>2, <2>2
      <3>2. [num |-> t.req.num, object |-> t.object].num = n
        BY <2>2
      <3> QED
        BY Zenon, <3>1, <3>2
    <2> QED
      BY <2>1, <2>2
  <1> QED
    BY <1>1, <1>2, <1>3 DEF IsArmed, ran

\* What the due commands of an association are worth to it: each is reported
\* once, unless it runs with normal security.
LEMMA OwedLists ==
    ASSUME NEW s, Shaped(s), ListOK(s), NEW a \in Assoc
    PROVE  /\ Owed(s, a) \in Seq(Pdus)
           /\ \A i \in DOMAIN Owed(s, a) : \E t \in Due(s) :
                 t.assoc = a /\ Owed(s, a)[i] = Termination(t.req.num, t \in Runs(s))
           /\ \A t \in Due(s) : t.assoc = a /\ (t \in Runs(s) => Enhanced(s.model[t.object])) =>
                 SaysOnce(Owed(s, a), t.req.num, t \in Runs(s))
  <1> DEFINE D == {t \in Due(s) : t.assoc = a /\ (t \in Runs(s) => Enhanced(s.model[t.object]))}
             list == InOrder(D)
             m == Cardinality(D)
             y == [i \in DOMAIN list |-> Termination(list[i].req.num, list[i] \in Runs(s))]
  <1>1. Owed(s, a) = y
    BY Zenon DEF Owed
  <1>2. D \subseteq s.timed /\ D \subseteq Timed
    BY DEF Due, Shaped
  <1>3. Ranked(D)
    <2>1. IsFiniteSet(D)
      BY <1>2, FS_Subset DEF ListOK
    <2>2. \A t \in D : t.rank \in Nat
      BY <1>2 DEF Timed
    <2> HIDE DEF D
    <2> QED
      BY <1>2, <2>1, <2>2 DEF Ranked, ListOK
  <1>4. \A t \in D : t \in Due(s) /\ t.assoc = a
    OBVIOUS
  <1>5. \A t \in Due(s) : t.assoc = a /\ (t \in Runs(s) => Enhanced(s.model[t.object])) => t \in D
    OBVIOUS
  <1> HIDE DEF D
  <1>6. /\ m \in Nat /\ list \in [1 .. m -> D]
        /\ \A i, j \in 1 .. m : list[i] = list[j] => i = j
        /\ \A t \in D : \E i \in 1 .. m : list[i] = t
    BY <1>3, InOrderLists
  <1> HIDE DEF list, m
  <1>7. /\ DOMAIN y = 1 .. m
        /\ \A i \in 1 .. m : y[i] = Termination(list[i].req.num, list[i] \in Runs(s))
    BY <1>6
  <1>8. \A t \in D : t.req.num \in Nums
    BY <1>2 DEF Timed, Requests
  <1>9. y \in Seq(Pdus)
    <2>1. \A i \in 1 .. m : Termination(list[i].req.num, list[i] \in Runs(s)) \in Pdus
      BY <1>6, <1>8 DEF Termination, Pdus
    <2>2. y \in [1 .. m -> Pdus]
      BY <1>6, <2>1
    <2> HIDE DEF y
    <2> QED
      BY <1>6, <2>2, SeqDef
  <1> HIDE DEF y
  <1>10. \A i \in DOMAIN y : \E t \in Due(s) :
             t.assoc = a /\ y[i] = Termination(t.req.num, t \in Runs(s))
    BY <1>4, <1>6, <1>7
  <1>11. ASSUME NEW t \in D
         PROVE  SaysOnce(y, t.req.num, t \in Runs(s))
    <2>1. PICK i \in 1 .. m : list[i] = t
      BY <1>6
    <2>2. /\ y[i].kind = "termination" /\ y[i].num = t.req.num
          /\ y[i].ok <=> t \in Runs(s)
      <3> DEFINE ok == t \in Runs(s)
      <3>1. y[i] = Termination(t.req.num, ok)
        BY Zenon, <1>7, <2>1
      <3> HIDE DEF ok
      <3>2. y[i].kind = "termination" /\ y[i].num = t.req.num /\ y[i].ok = ok
        BY <3>1 DEF Termination
      <3> QED
        BY Zenon, <3>2 DEF ok
    <2>3. ASSUME NEW j \in 1 .. m, y[j].num = t.req.num
          PROVE  j = i
      <3>1. list[j] \in D /\ y[j].num = list[j].req.num
        BY <1>6, <1>7 DEF Termination
      <3>2. list[j].assoc = t.assoc /\ list[j].req.num = t.req.num
        BY <1>4, <2>3, <3>1
      <3>3. list[j] = t
        BY <1>2, <3>1, <3>2 DEF ListOK
      <3> QED
        BY <1>6, <2>1, <3>3
    <2>4. Says(y, t.req.num) = {i}
      BY <1>7, <2>2, <2>3 DEF Says
    <2> QED
      BY <1>7, <2>2, <2>4 DEF SaysOnce
  <1> QED
    BY <1>1, <1>5, <1>9, <1>10, <1>11

\* A poll takes commands from the list and reports them.
LEMMA ElapsedPasses ==
    ASSUME NEW s, Shaped(s), ListOK(s), NEW a \in Assoc
    PROVE  Passes(Facts(s, a), Facts(Elapsed(s), a))
  <1> DEFINE e == Elapsed(s)
             f == Facts(s, a)
             g == Facts(e, a)
             y == Owed(s, a)
             key(t) == [assoc |-> t.assoc, num |-> t.req.num]
  <1>1. /\ e.timed = s.timed \ Due(s) /\ e.model = s.model
        /\ e.ran = s.ran \cup {key(t) : t \in Runs(s)}
        /\ e.pending[a] = s.pending[a] \o y
    <2>1. /\ e.timed = s.timed \ Due(s) /\ e.model = s.model
          /\ e.ran = s.ran \cup {key(t) : t \in Runs(s)}
          /\ e.pending = [b \in Assoc |-> s.pending[b] \o Owed(s, b)]
      BY ElapsedTables
    <2> HIDE DEF e
    <2>2. e.pending[a] = s.pending[a] \o y
      BY <2>1
    <2> QED
      BY <2>1, <2>2
  <1> HIDE DEF e
  <1>2. /\ \A n : IsArmed(f, n) <=> \E t \in s.timed : t.assoc = a /\ t.req.num = n
        /\ \A x \in f.armed : \E t \in s.timed :
              t.assoc = a /\ x = [num |-> t.req.num, object |-> t.object]
        /\ \A t \in s.timed : t.assoc = a => [num |-> t.req.num, object |-> t.object] \in f.armed
        /\ f.ran = {n \in Nums : [assoc |-> a, num |-> n] \in s.ran}
        /\ f.owed = s.pending[a] /\ f.model = s.model
    BY ArmedFacts
  <1>3. /\ \A n : IsArmed(g, n) <=> \E t \in e.timed : t.assoc = a /\ t.req.num = n
        /\ \A x \in g.armed : \E t \in e.timed :
              t.assoc = a /\ x = [num |-> t.req.num, object |-> t.object]
        /\ g.ran = {n \in Nums : [assoc |-> a, num |-> n] \in e.ran}
        /\ g.owed = e.pending[a] /\ g.model = e.model
    BY ArmedFacts
  <1> HIDE DEF f, g
  <1>4. Runs(s) \subseteq Due(s) /\ Due(s) \subseteq s.timed
    BY DEF Runs, Due
  <1>5. \A t \in s.timed : t.req.num \in Nums
    BY DEF Shaped, Timed, Requests
  <1>6. \A t, u \in s.timed : t.assoc = u.assoc /\ t.req.num = u.req.num => t = u
    BY DEF ListOK
  <1>7. g.model = f.model /\ g.armed \subseteq f.armed /\ f.ran \subseteq g.ran
    <2>1. ASSUME NEW x \in g.armed
          PROVE  x \in f.armed
      <3>1. PICK t \in e.timed : t.assoc = a /\ x = [num |-> t.req.num, object |-> t.object]
        BY <1>3
      <3>2. t \in s.timed
        BY <1>1
      <3> QED
        BY <1>2, <3>1, <3>2
    <2>2. f.ran \subseteq g.ran
      BY <1>1, <1>2, <1>3
    <2> QED
      BY <1>1, <1>2, <1>3, <2>1, <2>2
  \* Of the commands of an association the one under a ctlNum is due or not.
  <1>8. \A t \in Due(s) : t.assoc = a => IsArmed(f, t.req.num) /\ ~IsArmed(g, t.req.num)
    BY <1>1, <1>2, <1>3, <1>4, <1>6
  <1>9. \A t \in Runs(s) : t.assoc = a => t.req.num \in g.ran
    BY <1>1, <1>3, <1>4, <1>5
  <1>10. \A n \in g.ran \ f.ran : \E t \in Runs(s) : t.assoc = a /\ t.req.num = n
    <2> SUFFICES ASSUME NEW n \in g.ran, n \notin f.ran
                 PROVE  \E t \in Runs(s) : t.assoc = a /\ t.req.num = n
      OBVIOUS
    <2>1. n \in Nums /\ [assoc |-> a, num |-> n] \in {key(t) : t \in Runs(s)}
      BY <1>1, <1>2, <1>3
    <2>2. PICK t \in Runs(s) : [assoc |-> a, num |-> n] = key(t)
      BY <2>1
    <2> QED
      BY <2>2
  <1>11. \A t \in Due(s) : t.assoc = a => (t \in Runs(s) <=> t.req.num \in g.ran)
    <2> SUFFICES ASSUME NEW t \in Due(s), t.assoc = a, t.req.num \in g.ran
                 PROVE  t \in Runs(s)
      BY <1>9
    <2>1. t.req.num \notin f.ran
      <3>1. [assoc |-> t.assoc, num |-> t.req.num] \notin s.ran
        BY <1>4 DEF ListOK
      <3> QED
        BY <1>2, <3>1
    <2>2. PICK u \in Runs(s) : u.assoc = a /\ u.req.num = t.req.num
      BY <1>10, <2>1
    <2> QED
      BY <1>4, <1>6, <2>2
  <1>12. \A n \in g.ran \ f.ran : IsArmed(f, n) /\ ~IsArmed(g, n)
    BY <1>4, <1>8, <1>10
  <1>13. \A x \in f.armed : x.num \in Nums
    BY <1>2, <1>5
  <1>14. Reports(f, g, y)
    <2>1. /\ y \in Seq(Pdus)
          /\ \A i \in DOMAIN y : \E t \in Due(s) :
                t.assoc = a /\ y[i] = Termination(t.req.num, t \in Runs(s))
          /\ \A t \in Due(s) : t.assoc = a /\ (t \in Runs(s) => Enhanced(s.model[t.object])) =>
                SaysOnce(y, t.req.num, t \in Runs(s))
      BY OwedLists
    <2> HIDE DEF y
    <2>2. ASSUME NEW i \in DOMAIN y
          PROVE  /\ y[i].kind = "termination"
                 /\ \E t \in Due(s) : /\ t.assoc = a /\ y[i].num = t.req.num
                                      /\ y[i].ok <=> t \in Runs(s)
      <3>1. PICK t \in Due(s) : t.assoc = a /\ y[i] = Termination(t.req.num, t \in Runs(s))
        BY <2>1
      <3> DEFINE ok == t \in Runs(s)
      <3>2. y[i] = Termination(t.req.num, ok)
        BY <3>1
      <3> HIDE DEF ok
      <3>3. y[i].kind = "termination" /\ y[i].num = t.req.num /\ y[i].ok = ok
        BY <3>2 DEF Termination
      <3>4. y[i].ok <=> t \in Runs(s)
        BY Zenon, <3>3 DEF ok
      <3> QED
        BY Zenon, <3>1, <3>3, <3>4
    <2>3. Answers(y) = {}
      BY <2>2 DEF Answers
    <2>4. \A n \in Nums : ~IsArmed(f, n) \/ IsArmed(g, n) => Mute(y, n)
      BY <1>8, <2>2 DEF Mute, Says
    <2>5. \A n \in Nums : SaysOnly(y, n, n \in g.ran)
      BY <1>11, <2>2 DEF SaysOnly, Says
    <2>6. ASSUME NEW x \in f.armed, Enhanced(f.model[x.object]), ~IsArmed(g, x.num)
          PROVE  SaysOnce(y, x.num, x.num \in g.ran)
      <3>1. PICK t \in s.timed : t.assoc = a /\ x = [num |-> t.req.num, object |-> t.object]
        BY <1>2
      <3>2. x.num = t.req.num /\ x.object = t.object
        BY <3>1
      <3>3. t \in Due(s)
        BY <1>1, <1>3, <2>6, <3>1, <3>2
      <3>4. SaysOnce(y, t.req.num, t \in Runs(s))
        BY <1>2, <2>1, <2>6, <3>1, <3>2, <3>3
      <3>5. t \in Runs(s) <=> t.req.num \in g.ran
        BY <1>11, <3>1, <3>3
      <3> QED
        BY <3>2, <3>4, <3>5 DEF SaysOnce
    <2> QED
      BY <2>1, <2>3, <2>4, <2>5, <2>6 DEF Reports
  <1>15. g.owed = f.owed \o y
    BY <1>1, <1>2, <1>3
  <1> QED
    BY <1>7, <1>12, <1>13, <1>14, <1>15 DEF Passes, f, g, e

\* A poll leaves the list in order.
LEMMA ElapsedList ==
    ASSUME NEW s, Shaped(s), ListOK(s)
    PROVE  ListOK(Elapsed(s))
  <1> DEFINE e == Elapsed(s)
             key(t) == [assoc |-> t.assoc, num |-> t.req.num]
  <1>1. /\ e.timed = s.timed \ Due(s) /\ e.armed = s.armed
        /\ e.ran = s.ran \cup {key(t) : t \in Runs(s)}
        /\ e.pending = [a \in Assoc |-> s.pending[a] \o Owed(s, a)]
    BY ElapsedTables
  <1> HIDE DEF e
  <1>2. IsFiniteSet(e.timed)
    BY <1>1, FS_Subset DEF ListOK
  <1>3. \A t \in e.timed : [assoc |-> t.assoc, num |-> t.req.num] \notin e.ran
    <2> SUFFICES ASSUME NEW t \in e.timed, key(t) \in e.ran
                 PROVE  FALSE
      OBVIOUS
    <2>1. key(t) \in {key(u) : u \in Runs(s)}
      BY <1>1 DEF ListOK
    <2>2. PICK u \in Runs(s) : key(t) = key(u)
      BY <2>1
    <2>3. t.assoc = u.assoc /\ t.req.num = u.req.num /\ u \in Due(s) /\ u \in s.timed
      BY <2>2 DEF Runs, Due
    <2> QED
      BY <1>1, <2>3 DEF ListOK
  <1>4. e.pending = [a \in Assoc |-> e.pending[a]]
    BY <1>1
  <1> QED
    BY <1>1, <1>2, <1>3, <1>4 DEF ListOK, e

-----------------------------------------------------------------------------
(* A request is served *)

\* What a service adds to what is owed speaks only of its own command, and of
\* an operate that owes a termination it says the outcome, once.
Adds(f, g, command, o, r, ok, y) ==
    /\ y \in Seq(Pdus) /\ Answers(y) = {}
    /\ \A n \in Nums \ {r.num} : Mute(y, n)
    /\ command \in {"SBO", "SBOw"} /\ ok => Mute(y, r.num)
    /\ command = "Oper" /\ Enhanced(f.model[o]) =>
          IF IsArmed(g, r.num) THEN Mute(y, r.num) ELSE SaysOnce(y, r.num, r.num \in g.ran)

\* What a service may do to the commands of the association it is for.
Effects(f, g, command, o, r, ok) ==
    /\ g.model = f.model
    /\ \A x \in g.armed :
          x \in f.armed \/ (command = "Oper" /\ ok /\ x = [num |-> r.num, object |-> o])
    /\ f.ran \subseteq g.ran
    /\ \A n \in g.ran : n \in f.ran \/ (command = "Oper" /\ ok /\ n = r.num)
    /\ ok /\ command = "Oper" /\ ~Enhanced(f.model[o]) /\ r.wait = 0 => r.num \in g.ran
    /\ \E y : Adds(f, g, command, o, r, ok, y) /\ g.owed = f.owed \o y

\* If only the last part of the way speaks, the way says what it says.
LEMMA LastPartSays ==
    ASSUME NEW S, NEW x \in Seq(S), NEW y \in Seq(S), NEW n, NEW ok, Mute(x, n)
    PROVE  /\ SaysOnce(y, n, ok) => SaysOnce(x \o y, n, ok) /\ SaysOnly(x \o y, n, ok)
           /\ Mute(y, n) => Mute(x \o y, n) /\ SaysOnly(x \o y, n, ok)
  <1>1. SaysOnly(x, n, ok)
    BY DEF Mute, SaysOnly
  <1>2. SaysOnce(y, n, ok) \/ Mute(y, n) => SaysOnly(y, n, ok)
    BY DEF Mute, SaysOnly, SaysOnce
  <1> DEFINE z == x \o y
  <1>3. /\ SaysOnly(x, n, ok) /\ SaysOnly(y, n, ok) => SaysOnly(z, n, ok)
        /\ Mute(x, n) /\ SaysOnce(y, n, ok) => SaysOnce(z, n, ok)
        /\ Mute(x, n) /\ Mute(y, n) => Mute(z, n)
    BY JoinedSaysOnly, JoinedSaysOnce, JoinedSays
  <1> HIDE DEF z
  <1> QED
    BY <1>1, <1>2, <1>3 DEF z

\* The answer goes behind what the thread has at hand.
LEMMA AnsweredLine ==
    ASSUME NEW x \in Seq(Pdus), NEW e \in Pdus, e.kind = "answer", Answers(x) = {}, NEW n
    PROVE  LET z == Append(x, e) IN
           /\ z \in Seq(Pdus)
           /\ Answers(z) = {Len(x) + 1} /\ z[Len(x) + 1] = e
           /\ Says(z, n) = Says(x, n)
  <1> DEFINE z == Append(x, e)
  <1>1. /\ z \in Seq(Pdus) /\ Len(z) = Len(x) + 1 /\ Len(x) \in Nat
        /\ \A i \in 1 .. Len(x) : z[i] = x[i]
        /\ z[Len(x) + 1] = e
    BY AppendProperties, LenProperties
  <1> HIDE DEF z
  <1>2. DOMAIN z = 1 .. Len(z) /\ DOMAIN x = 1 .. Len(x)
    BY <1>1, LenProperties
  <1>3. \A i \in DOMAIN z : i \in DOMAIN x \/ i = Len(x) + 1
    BY <1>1, <1>2
  <1>4. /\ Len(x) + 1 \in DOMAIN z /\ Len(x) + 1 \notin DOMAIN x
        /\ \A i \in DOMAIN x : i \in DOMAIN z /\ z[i] = x[i]
    BY <1>1, <1>2
  <1>5. Answers(z) = {Len(x) + 1}
    BY <1>1, <1>3, <1>4 DEF Answers
  <1>6. Says(z, n) = Says(x, n)
    BY <1>1, <1>3, <1>4 DEF Says
  <1> QED
    BY <1>1, <1>5, <1>6 DEF z

LEMMA ServedStory ==
    ASSUME NEW f, NEW g, NEW c, NEW d, NEW k, NEW q, NEW td, Story(f, c, k, q, td),
           q \in Requested, q # None, q.req.num \in Nums, c.at # "closed",
           NEW ok \in BOOLEAN, Effects(f, g, q.command, q.object, q.req, ok),
           d.wire = c.wire, d.unsent = Append(c.unsent, Answer(ok)), d.queue = c.queue,
           d.at # "closed", d.stalled = c.stalled
    PROVE  Story(g, d, k, None, td)
  <1> DEFINE n == q.req.num
             e == Answer(ok)
             x == Line(c)
             z == Line(d)
             way == Way(c, k, f.owed)
             v == Way(d, k, g.owed)
             o == q.object
             r == q.req
             command == q.command
  <1>1. PICK y : Adds(f, g, command, o, r, ok, y) /\ g.owed = f.owed \o y
    BY DEF Effects
  <1>2. e \in Pdus /\ e.kind = "answer" /\ e.ok = ok
    BY DEF Answer, Pdus
  <1>3. FlowOK(f, c, k) /\ y \in Seq(Pdus) /\ Answers(y) = {}
    BY <1>1 DEF Story, Adds
  <1>4. d.unsent \in Seq(Pdus) /\ \A m : Mute(d.unsent, m) <=> Mute(c.unsent, m)
    <2> DEFINE t == c.unsent
    <2>1. t \in Seq(Pdus)
      BY <1>3 DEF FlowOK
    <2> HIDE DEF t, e
    <2>2. Append(t, e) \in Seq(Pdus) /\ Append(t, e) = t \o <<e>> /\ <<e>> \in Seq(Pdus)
      BY <1>2, <2>1, AppendProperties, AppendIsConcat
    <2>3. \A m : Mute(<<e>>, m)
      BY <1>2 DEF Mute, Says
    <2>4. \A m : Mute(t \o <<e>>, m) <=> Mute(t, m)
      BY <2>1, <2>2, <2>3, JoinedSays
    <2> QED
      BY <2>2, <2>4 DEF t, e
  <1>5. /\ FlowOK(g, d, k)
        /\ \A m : Mute(g.owed, m) <=> Mute(f.owed, m) /\ Mute(y, m)
    <2> DEFINE p == f.owed
    <2>1. p \in Seq(Pdus) /\ Answers(p) = {}
      BY <1>3 DEF FlowOK
    <2> HIDE DEF p
    <2>2. /\ p \o y \in Seq(Pdus) /\ Answers(p \o y) = {}
          /\ \A m : Mute(p \o y, m) <=> Mute(p, m) /\ Mute(y, m)
      BY <1>3, <2>1, Joined, JoinedSays
    <2>3. g.owed \in Seq(Pdus) /\ Answers(g.owed) = {}
      BY <1>1, <2>2 DEF p
    <2> QED
      BY <1>1, <1>3, <1>4, <2>2, <2>3 DEF FlowOK, p
  <1>6. \A m : Mute(v, m) <=> Mute(way, m) /\ Mute(y, m)
    <2> SUFFICES ASSUME NEW m PROVE Mute(v, m) <=> Mute(way, m) /\ Mute(y, m)
      OBVIOUS
    <2>1. Mute(way, m) <=> /\ Mute(k.unsolicited, m) /\ Mute(c.wire, m) /\ Mute(c.unsent, m)
                           /\ Mute(c.queue, m) /\ Mute(f.owed, m)
      BY <1>3, WayParts
    <2>2. Mute(v, m) <=> /\ Mute(k.unsolicited, m) /\ Mute(d.wire, m) /\ Mute(d.unsent, m)
                         /\ Mute(d.queue, m) /\ Mute(g.owed, m)
      BY <1>5, WayParts
    <2> HIDE DEF way, v
    <2> QED
      BY <1>4, <1>5, <2>1, <2>2
  <1>7. \A m : /\ Untouched(f, m) /\ ~(command = "Oper" /\ ok /\ m = n) => Untouched(g, m)
               /\ m \in f.ran => m \in g.ran
    BY DEF Effects, Untouched, IsArmed
  <1>8. command # "Cancel" => Untouched(f, n)
    BY DEF Story
  <1>9. CASE k.phase = "gone"
    <2>1. ToldOK(g, td)
      BY <1>9 DEF Story, ToldOK
    <2> QED
      BY <1>5, <1>9, <2>1 DEF Story
  <1>10. CASE k.phase # "gone"
    <2>1. /\ PlanOK(f, k) /\ OneAtATime(c, k, q) /\ NumbersOK(f, c, k)
          /\ PhaseOK(f, c, k, td) /\ EarlyOK(f, c, k, q) /\ LateOK(f, c, k, q)
      BY <1>10 DEF Story
    <2>2. /\ k.phase = "calling" /\ Answers(x) = {}
          /\ command = Head(k.plan) /\ o = k.object /\ r = k.req
      BY <2>1 DEF OneAtATime
    <2>3. n = k.num /\ k.plan \in Plans /\ k.object \in Objects
      BY <2>1, <2>2 DEF PlanOK
    <2>4. /\ z \in Seq(Pdus) /\ Answers(z) = {Len(x) + 1} /\ z[Len(x) + 1] = e
          /\ Says(z, n) = Says(x, n)
      <3> DEFINE w == c.wire
                 t == c.unsent
      <3>1. w \in Seq(Pdus) /\ t \in Seq(Pdus)
        BY <1>3 DEF FlowOK
      <3>2. x = w \o t /\ z = w \o Append(t, e)
        BY DEF Line
      <3> HIDE DEF w, t, e, x, z
      <3>3. <<e>> \in Seq(Pdus) /\ Append(t, e) = t \o <<e>>
        BY <1>2, <3>1, AppendIsConcat
      <3>4. w \o t \in Seq(Pdus)
        BY <3>1, Joined
      <3>5. (w \o t) \o <<e>> = w \o (t \o <<e>>)
        BY <3>1, <3>3, ConcatAssociative
      <3>6. x \in Seq(Pdus)
        BY <3>2, <3>4
      <3>7. Append(x, e) = x \o <<e>>
        BY <1>2, <3>6, AppendIsConcat
      <3>8. z = Append(x, e)
        BY Zenon, <3>2, <3>3, <3>5, <3>7
      <3> QED
        BY <1>2, <2>2, <3>6, <3>8, AnsweredLine
    <2>5. ToldOK(g, td)
      <3>1. command # "Cancel" => td[n] = "nothing"
        BY <2>1, <2>2, <2>3 DEF PhaseOK
      <3> QED
        BY <1>7, <3>1 DEF Story, ToldOK
    <2> HIDE DEF x, z, e, way, v
    <2>6. PlanOK(g, k)
      BY <2>1 DEF PlanOK, Effects
    <2>7. OneAtATime(d, k, None)
      BY <2>2, <2>4 DEF OneAtATime, z
    <2>8. NumbersOK(g, d, k)
      <3>1. k.num \in Nat /\ n <= k.num
        BY <2>1, <2>3 DEF PlanOK
      <3>2. ASSUME NEW m \in Nums, ~Untouched(g, m)
            PROVE  m <= k.num
        BY <1>7, <2>1, <3>1, <3>2 DEF NumbersOK
      <3>3. ASSUME NEW m \in Nums, ~Mute(v, m)
            PROVE  m <= k.num
        <4>1. CASE m = n
          BY <3>1, <4>1
        <4>2. CASE m # n
          <5>1. Mute(y, m)
            BY <1>1, <4>2 DEF Adds
          <5>2. ~Mute(way, m)
            BY <1>6, <3>3, <5>1
          <5> QED
            BY <2>1, <5>2 DEF NumbersOK, way
        <4> QED
          BY <4>1, <4>2
      <3> QED
        BY <3>2, <3>3 DEF NumbersOK, v
    <2>9. PhaseOK(g, d, k, td)
      <3>1. ~ok /\ command # "Cancel" => Untouched(g, n)
        BY <1>7, <1>8
      <3>2. command \in {"SBO", "SBOw"} => Untouched(g, n)
        BY <1>7, <1>8
      <3>3. ok /\ command = "Oper" /\ ~Enhanced(g.model[o]) /\ r.wait = 0 => n \in g.ran
        BY DEF Effects
      <3>4. ~k.selects /\ (command # "Cancel" => td[n] = "nothing")
        BY <2>1, <2>2, <2>3 DEF PhaseOK, PlanOK
      <3> QED
        BY <1>2, <2>2, <2>3, <2>4, <3>1, <3>2, <3>3, <3>4 DEF PhaseOK, z
    <2>10. EarlyOK(g, d, k, None)
      <3> SUFFICES ASSUME k.awaits
                   PROVE  /\ Mute(k.unsolicited, n)
                          /\ z[Len(x) + 1].ok /\ Len(k.plan) = 2 => Mute(v, n)
                          /\ Says(z, n) = {}
        BY <2>2, <2>3, <2>4 DEF EarlyOK, v, z
      <3>1. Mute(k.unsolicited, n) /\ Mute(way, n)
        BY <2>1, <2>2, <2>3 DEF EarlyOK, way
      <3>2. Says(x, n) = {}
        <4>1. Mute(Line(c), n)
          BY <1>3, <3>1, WayParts DEF way
        <4> QED
          BY <4>1 DEF Mute, x
      <3>3. Len(k.plan) = 2 => command = "SBOw"
        <4>1. k.plan \in {<<"SBOw", "Oper">>, <<"Oper">>}
          BY <2>1, <2>2 DEF PlanOK
        <4>2. CASE k.plan = <<"SBOw", "Oper">>
          BY <2>2, <4>2
        <4>3. CASE k.plan = <<"Oper">>
          BY <4>3
        <4> QED
          BY <4>1, <4>2, <4>3
      <3>4. ok /\ command = "SBOw" => Mute(y, n)
        BY <1>1 DEF Adds
      <3> QED
        BY <1>2, <1>6, <2>4, <3>1, <3>2, <3>3, <3>4
    <2>11. LateOK(g, d, k, None)
      <3> SUFFICES ASSUME k.awaits, k.plan = <<"Oper">>
                   PROVE  /\ \A m \in g.armed : m.num = n => m.object = k.object
                          /\ IsArmed(g, n) => Mute(v, n)
                          /\ SaysOnly(v, n, n \in g.ran)
                          /\ ~IsArmed(g, n) => SaysOnce(v, n, n \in g.ran)
        BY <2>2, <2>3 DEF LateOK, Operating, v
      <3>1. command = "Oper" /\ Enhanced(f.model[o]) /\ Untouched(f, n)
        BY <1>8, <2>1, <2>2 DEF PlanOK
      <3>2. Mute(way, n)
        BY <2>1, <2>2, <2>3 DEF EarlyOK, way
      <3>3. ASSUME NEW m \in g.armed, m.num = n
            PROVE  m.object = k.object
        <4>1. m \notin f.armed
          BY <3>1, <3>3 DEF Untouched, IsArmed
        <4> QED
          BY <2>2, <4>1 DEF Effects
      <3>4. IF IsArmed(g, n) THEN Mute(y, n) ELSE SaysOnce(y, n, n \in g.ran)
        BY <1>1, <3>1 DEF Adds
      <3> DEFINE h == Way(d, k, f.owed)
      <3>5. h \in Seq(Pdus) /\ Mute(h, n)
        <4>1. FlowOK(f, d, k)
          BY <1>3, <1>4 DEF FlowOK
        <4>2. /\ Mute(k.unsolicited, n) /\ Mute(c.wire, n) /\ Mute(c.unsent, n)
              /\ Mute(c.queue, n) /\ Mute(f.owed, n)
          BY <1>3, <3>2, WayParts DEF way
        <4>3. /\ h \in Seq(Pdus)
              /\ Mute(h, n) <=>
                    /\ Mute(k.unsolicited, n) /\ Mute(d.wire, n) /\ Mute(d.unsent, n)
                    /\ Mute(d.queue, n) /\ Mute(f.owed, n)
          BY <4>1, WayParts
        <4> HIDE DEF h
        <4> QED
          BY <1>4, <4>2, <4>3
      <3>6. v = h \o y
        <4> DEFINE a == k.unsolicited \o d.wire \o d.unsent \o d.queue
                   p == f.owed
        <4>1. a \in Seq(Pdus) /\ p \in Seq(Pdus)
          <5>1. /\ k.unsolicited \in Seq(Pdus) /\ d.wire \in Seq(Pdus)
                /\ d.unsent \in Seq(Pdus) /\ d.queue \in Seq(Pdus)
            BY <1>5 DEF FlowOK
          <5>2. p \in Seq(Pdus)
            BY <1>3 DEF FlowOK
          <5> QED
            BY <5>1, <5>2, ConcatProperties
        <4>2. h = a \o p /\ v = a \o (p \o y)
          <5>1. h = a \o p /\ v = a \o g.owed
            BY Zenon DEF Way, v
          <5> QED
            BY <1>1, <5>1
        <4> HIDE DEF a, p, h
        <4>3. (a \o p) \o y = a \o (p \o y)
          BY <1>3, <4>1, ConcatAssociative
        <4> QED
          BY Zenon, <4>2, <4>3
      <3> HIDE DEF h
      <3>7. \A b : /\ SaysOnce(y, n, b) => SaysOnce(v, n, b) /\ SaysOnly(v, n, b)
                   /\ Mute(y, n) => Mute(v, n) /\ SaysOnly(v, n, b)
        BY <1>3, <3>5, <3>6, LastPartSays
      <3>8. IsArmed(g, n) => Mute(v, n) /\ SaysOnly(v, n, n \in g.ran)
        BY <3>4, <3>7
      <3>9. ~IsArmed(g, n) => SaysOnce(v, n, n \in g.ran) /\ SaysOnly(v, n, n \in g.ran)
        <4> DEFINE b == n \in g.ran
        <4>1. ~IsArmed(g, n) => SaysOnce(y, n, b)
          BY <3>4
        <4> HIDE DEF b
        <4>2. ~IsArmed(g, n) => SaysOnce(v, n, b) /\ SaysOnly(v, n, b)
          BY <3>7, <4>1
        <4> QED
          BY <4>2 DEF b
      <3> QED
        BY <3>3, <3>8, <3>9
    <2> QED
      BY <1>5, <2>5, <2>6, <2>7, <2>8, <2>9, <2>10, <2>11 DEF Story
  <1> QED
    BY <1>9, <1>10

\* An association of which nothing changes.
LEMMA SameFacts ==
    ASSUME NEW s, NEW t, NEW b, t.model = s.model, t.pending[b] = s.pending[b],
           \A u : u.assoc = b => (u \in t.timed <=> u \in s.timed),
           \A n \in Nums : [assoc |-> b, num |-> n] \in t.ran <=> [assoc |-> b, num |-> n] \in s.ran
    PROVE  Facts(t, b) = Facts(s, b)
  <1>1. {u \in t.timed : u.assoc = b} = {u \in s.timed : u.assoc = b}
    OBVIOUS
  <1>2. {n \in Nums : [assoc |-> b, num |-> n] \in t.ran} =
        {n \in Nums : [assoc |-> b, num |-> n] \in s.ran}
    OBVIOUS
  <1> QED
    BY Zenon, <1>1, <1>2 DEF Facts

\* A termination says its own outcome, and nothing of other commands.
LEMMA OneTermination ==
    ASSUME NEW n \in Nums, NEW ok \in BOOLEAN
    PROVE  LET y == <<Termination(n, ok)>> IN
           /\ y \in Seq(Pdus) /\ Answers(y) = {} /\ SaysOnce(y, n, ok)
           /\ \A m \in Nums \ {n} : Mute(y, m)
  <1> DEFINE e == Termination(n, ok)
             y == <<e>>
  <1>1. e \in Pdus /\ e.kind = "termination" /\ e.num = n /\ e.ok = ok
    BY DEF Termination, Pdus
  <1> HIDE DEF e
  <1>2. y \in Seq(Pdus) /\ DOMAIN y = {1} /\ y[1] = e
    BY <1>1
  <1> HIDE DEF y
  <1>3. Answers(y) = {}
    BY <1>1, <1>2 DEF Answers
  <1>4. Says(y, n) = {1} /\ \A m \in Nums \ {n} : Says(y, m) = {}
    BY <1>1, <1>2 DEF Says
  <1> QED
    BY <1>1, <1>2, <1>3, <1>4 DEF SaysOnce, Mute, y, e

LEMMA NothingSaid ==
    <<>> \in Seq(Pdus) /\ Answers(<<>>) = {} /\ \A n : Mute(<<>>, n)
  BY DEF Answers, Mute, Says

\* What a service of `a` leaves.
Serves(s, t, a, o, command, r, ok) ==
    /\ ListOK(t)
    /\ Effects(Facts(s, a), Facts(t, a), command, o, r, ok)
    /\ \A b \in Assoc \ {a} : Facts(t, b) = Facts(s, b)

\* A select changes no command.
LEMMA ReservedServes ==
    ASSUME NEW s, NEW t, NEW a \in Assoc, NEW o, NEW command \in {"SBO", "SBOw"}, NEW r,
           ListOK(s), s.pending[a] \in Seq(Pdus),
           t.timed = s.timed, t.armed = s.armed, t.ran = s.ran, t.pending = s.pending,
           t.model = s.model
    PROVE  Serves(s, t, a, o, command, r, TRUE)
  <1>1. ListOK(t)
    BY DEF ListOK
  <1>2. \A b \in Assoc : Facts(t, b) = Facts(s, b)
    BY SameFacts
  <1> DEFINE f == Facts(s, a)
  <1>3. f.owed = f.owed \o <<>>
    <2>1. f.owed \in Seq(Pdus)
      BY ArmedFacts
    <2> HIDE DEF f
    <2> QED
      BY <2>1, ConcatEmptySeq
  <1> HIDE DEF f
  <1>4. Adds(f, f, command, o, r, TRUE, <<>>)
    BY NothingSaid DEF Adds
  <1>5. Effects(f, f, command, o, r, TRUE)
    BY <1>3, <1>4 DEF Effects
  <1> QED
    BY <1>1, <1>2, <1>5 DEF Serves, f

\* A refusal changes no command, and is owed.
LEMMA RefusedServes ==
    ASSUME NEW s, Shaped(s), ListOK(s), NEW a \in Assoc, NEW o \in Objects,
           NEW command \in Commands, NEW r \in Requests, s.pending[a] \in Seq(Pdus),
           command # "Cancel" => Untouched(Facts(s, a), r.num)
    PROVE  Serves(s, Refused(s, a, command, r), a, o, command, r,
                  command = "Oper" /\ Enhanced(s.model[o]))
  <1> DEFINE t == Refused(s, a, command, r)
             ok == command = "Oper" /\ Enhanced(s.model[o])
             e == Termination(r.num, FALSE)
             y == IF command = "SBO" THEN <<>> ELSE <<e>>
             f == Facts(s, a)
             g == Facts(t, a)
             p == s.pending[a]
  <1>1. /\ t.timed = s.timed /\ t.model = s.model /\ t.ran = s.ran
        /\ RefusedBooks(s, t, a, command, r)
    BY RefusedTables
  <1> HIDE DEF t
  <1>2. /\ t.armed = s.armed
        /\ t.pending = IF command = "SBO" THEN s.pending ELSE [s.pending EXCEPT ![a] = Append(p, e)]
    BY <1>1 DEF RefusedBooks
  <1>3. s.pending = [b \in Assoc |-> s.pending[b]]
    BY DEF ListOK
  <1>4. r.num \in Nums
    BY DEF Requests
  <1>5. /\ e \in Pdus
        /\ y \in Seq(Pdus) /\ Answers(y) = {} /\ \A m \in Nums \ {r.num} : Mute(y, m)
        /\ command = "SBO" => Mute(y, r.num)
        /\ command # "SBO" => SaysOnce(y, r.num, FALSE)
    <2>1. e \in Pdus
      BY <1>4 DEF Termination, Pdus
    <2>2. CASE command = "SBO"
      BY <2>1, <2>2, NothingSaid
    <2>3. CASE command # "SBO"
      BY <1>4, <2>1, <2>3, OneTermination
    <2> QED
      BY <2>2, <2>3
  <1> HIDE DEF e
  <1>6. /\ t.pending = [b \in Assoc |-> t.pending[b]]
        /\ \A b \in Assoc \ {a} : t.pending[b] = s.pending[b]
    BY <1>2, <1>3
  <1>7. t.pending[a] = p \o y
    <2>1. p \in Seq(Pdus)
      OBVIOUS
    <2> HIDE DEF p
    <2>2. CASE command = "SBO"
      <3>1. p \o <<>> = p
        BY <2>1, ConcatEmptySeq
      <3> QED
        BY <1>2, <2>2, <3>1 DEF p
    <2>3. CASE command # "SBO"
      <3>1. t.pending[a] = Append(p, e)
        BY <1>2, <1>3, <2>3
      <3>2. Append(p, e) = p \o <<e>>
        BY <1>5, <2>1, AppendIsConcat
      <3> QED
        BY <2>3, <3>1, <3>2
    <2> QED
      BY <2>2, <2>3
  <1> HIDE DEF y, p
  <1>8. ListOK(t)
    BY <1>1, <1>2, <1>6 DEF ListOK
  <1>9. \A b \in Assoc \ {a} : Facts(t, b) = Facts(s, b)
    BY <1>1, <1>6, SameFacts
  <1>10. /\ g.armed = f.armed /\ g.ran = f.ran /\ g.model = f.model
         /\ g.owed = f.owed \o y /\ f.model = s.model
    BY <1>1, <1>7 DEF Facts, p
  <1> HIDE DEF f, g
  <1>11. command # "Cancel" => ~IsArmed(g, r.num) /\ r.num \notin g.ran
    BY <1>10 DEF Untouched, IsArmed, f
  <1>12. Adds(f, g, command, o, r, ok, y)
    <2>1. command \in {"SBO", "SBOw"} /\ ok => Mute(y, r.num)
      OBVIOUS
    <2>2. command = "Oper" => SaysOnce(y, r.num, r.num \in g.ran)
      BY <1>5, <1>11 DEF SaysOnce
    <2> QED
      BY <1>5, <1>11, <2>1, <2>2 DEF Adds
  <1>13. Effects(f, g, command, o, r, ok)
    BY <1>10, <1>12 DEF Effects
  <1> QED
    BY <1>8, <1>9, <1>13 DEF Serves, f, g, t

\* An operate with an operTm in the future arms its command.
LEMMA ArmedServes ==
    ASSUME NEW s, Shaped(s), ListOK(s), NEW a \in Assoc, NEW o \in Objects,
           NEW r \in Requests, s.pending[a] \in Seq(Pdus), Untouched(Facts(s, a), r.num),
           r.wait > 0, NEW t, t.model = s.model, OperatedBooks(s, t, a, o, r)
    PROVE  Serves(s, t, a, o, "Oper", r, TRUE)
  <1> DEFINE new == [assoc |-> a, object |-> o, req |-> r, left |-> r.wait, rank |-> s.armed]
             rest == s.timed \ Armed(s, a, o)
             f == Facts(s, a)
             g == Facts(t, a)
  <1>1. /\ t.timed = rest \cup {new} /\ t.armed = s.armed + 1
        /\ t.ran = s.ran /\ t.pending = s.pending
    BY DEF OperatedBooks
  <1>2. /\ new.assoc = a /\ new.req = r /\ new.rank = s.armed
        /\ [num |-> new.req.num, object |-> new.object] = [num |-> r.num, object |-> o]
    OBVIOUS
  <1>3. rest \subseteq s.timed /\ \A u \in s.timed : u.assoc # a => u \in rest
    BY DEF Armed
  <1> HIDE DEF new, rest
  <1>4. /\ \A u \in s.timed : u.assoc = a => u.req.num # r.num
        /\ [assoc |-> a, num |-> r.num] \notin s.ran
    <2>1. ~IsArmed(f, r.num) /\ r.num \notin f.ran
      BY DEF Untouched
    <2>2. r.num \in Nums
      BY DEF Requests
    <2> QED
      BY <2>1, <2>2, ArmedFacts
  <1>5. s.armed \in Nat /\ \A u \in s.timed : u.rank \in Nat /\ u.rank < s.armed
    BY DEF Shaped, Timed, ListOK
  <1>6. ListOK(t)
    <2>1. IsFiniteSet(rest \cup {new})
      BY <1>3, FS_Subset, FS_AddElement DEF ListOK
    <2>2. \A u \in t.timed : u.rank < t.armed
      BY <1>1, <1>2, <1>3, <1>5
    <2>3. \A u, v \in t.timed : u.rank = v.rank => u = v
      BY <1>1, <1>2, <1>3, <1>5 DEF ListOK
    <2>4. \A u, v \in t.timed : u.assoc = v.assoc /\ u.req.num = v.req.num => u = v
      BY <1>1, <1>2, <1>3, <1>4 DEF ListOK
    <2>5. \A u \in t.timed : [assoc |-> u.assoc, num |-> u.req.num] \notin t.ran
      BY <1>1, <1>2, <1>3, <1>4 DEF ListOK
    <2>6. t.pending = [b \in Assoc |-> t.pending[b]]
      BY <1>1 DEF ListOK
    <2> QED
      BY <1>1, <2>1, <2>2, <2>3, <2>4, <2>5, <2>6 DEF ListOK
  <1>7. ASSUME NEW b \in Assoc \ {a}
        PROVE  Facts(t, b) = Facts(s, b)
    <2>1. \A u : u.assoc = b => (u \in t.timed <=> u \in s.timed)
      BY <1>1, <1>2, <1>3
    <2> QED
      BY <1>1, <2>1, SameFacts
  <1>8. /\ g.ran = f.ran /\ g.model = f.model /\ g.owed = f.owed /\ f.owed \in Seq(Pdus)
    BY <1>1 DEF Facts
  <1>9. IsArmed(g, r.num)
    BY <1>1, <1>2, ArmedFacts
  <1>10. ASSUME NEW x \in g.armed
         PROVE  x \in f.armed \/ x = [num |-> r.num, object |-> o]
    <2>1. PICK u \in t.timed : u.assoc = a /\ x = [num |-> u.req.num, object |-> u.object]
      BY ArmedFacts
    <2>2. CASE u = new
      BY <1>2, <2>1, <2>2
    <2>3. CASE u \in s.timed
      BY <2>1, <2>3, ArmedFacts
    <2> QED
      BY <1>1, <1>3, <2>2, <2>3
  <1> HIDE DEF f, g
  <1>11. g.owed = f.owed \o <<>>
    BY <1>8, ConcatEmptySeq
  <1>12. Adds(f, g, "Oper", o, r, TRUE, <<>>)
    BY <1>9, NothingSaid DEF Adds
  <1>13. ~(r.wait = 0)
    BY DEF Requests
  <1>14. Effects(f, g, "Oper", o, r, TRUE)
    BY <1>8, <1>10, <1>11, <1>12, <1>13 DEF Effects
  <1> QED
    BY <1>6, <1>7, <1>14 DEF Serves, f, g

\* Any other operate runs its command.
LEMMA AppliedServes ==
    ASSUME NEW s, Shaped(s), ListOK(s), NEW a \in Assoc, NEW o \in Objects,
           NEW r \in Requests, s.pending[a] \in Seq(Pdus), Untouched(Facts(s, a), r.num),
           ~(r.wait > 0), NEW t, t.model = s.model, OperatedBooks(s, t, a, o, r)
    PROVE  Serves(s, t, a, o, "Oper", r, TRUE)
  <1> DEFINE e == Termination(r.num, TRUE)
             y == IF Enhanced(s.model[o]) THEN <<e>> ELSE <<>>
             f == Facts(s, a)
             g == Facts(t, a)
             p == s.pending[a]
             key == [assoc |-> a, num |-> r.num]
  <1>1. /\ t.timed = s.timed /\ t.armed = s.armed
        /\ t.ran = s.ran \cup {key}
        /\ t.pending = [s.pending EXCEPT ![a] = IF Enhanced(s.model[o]) THEN Append(p, e) ELSE p]
    BY DEF OperatedBooks
  <1>2. s.pending = [b \in Assoc |-> s.pending[b]]
    BY DEF ListOK
  <1>3. r.num \in Nums
    BY DEF Requests
  <1>4. /\ e \in Pdus
        /\ y \in Seq(Pdus) /\ Answers(y) = {} /\ \A m \in Nums \ {r.num} : Mute(y, m)
        /\ Enhanced(s.model[o]) => SaysOnce(y, r.num, TRUE)
    <2>1. e \in Pdus
      BY <1>3 DEF Termination, Pdus
    <2>2. CASE ~Enhanced(s.model[o])
      BY <2>1, <2>2, NothingSaid
    <2>3. CASE Enhanced(s.model[o])
      BY <1>3, <2>1, <2>3, OneTermination
    <2> QED
      BY <2>2, <2>3
  <1> HIDE DEF e
  <1>5. /\ t.pending = [b \in Assoc |-> t.pending[b]]
        /\ \A b \in Assoc \ {a} : t.pending[b] = s.pending[b]
        /\ t.pending[a] = IF Enhanced(s.model[o]) THEN Append(p, e) ELSE p
    BY <1>1, <1>2
  <1>6. t.pending[a] = p \o y
    <2>1. p \in Seq(Pdus)
      OBVIOUS
    <2> HIDE DEF p
    <2>2. p \o <<>> = p /\ Append(p, e) = p \o <<e>>
      BY <1>4, <2>1, ConcatEmptySeq, AppendIsConcat
    <2> QED
      BY <1>5, <2>2
  <1> HIDE DEF y, p
  <1>7. /\ \A u \in s.timed : u.assoc = a => u.req.num # r.num
        /\ ~IsArmed(f, r.num)
    <2>1. ~IsArmed(f, r.num)
      BY DEF Untouched
    <2> QED
      BY <2>1, ArmedFacts
  <1>8. ListOK(t)
    <2>1. ASSUME NEW u \in t.timed
          PROVE  [assoc |-> u.assoc, num |-> u.req.num] \notin t.ran
      BY <1>1, <1>7 DEF ListOK
    <2> QED
      BY <1>1, <1>5, <2>1 DEF ListOK
  <1>9. ASSUME NEW b \in Assoc \ {a}
        PROVE  Facts(t, b) = Facts(s, b)
    <2>1. \A n \in Nums : [assoc |-> b, num |-> n] \in t.ran <=> [assoc |-> b, num |-> n] \in s.ran
      BY <1>1
    <2> QED
      BY <1>1, <1>5, <2>1, SameFacts
  <1>10. /\ g.armed = f.armed /\ g.model = f.model /\ f.model = s.model
         /\ g.owed = f.owed \o y
    BY <1>1, <1>6 DEF Facts, p
  <1>11. /\ r.num \in g.ran /\ f.ran \subseteq g.ran
         /\ \A n \in g.ran : n \in f.ran \/ n = r.num
    <2>1. /\ f.ran = {n \in Nums : [assoc |-> a, num |-> n] \in s.ran}
          /\ g.ran = {n \in Nums : [assoc |-> a, num |-> n] \in t.ran}
      BY ArmedFacts
    <2> QED
      BY <1>1, <1>3, <2>1
  <1> HIDE DEF f, g
  <1>12. ~IsArmed(g, r.num)
    BY <1>7, <1>10 DEF IsArmed
  <1>13. Adds(f, g, "Oper", o, r, TRUE, y)
    <2>1. Enhanced(f.model[o]) => SaysOnce(y, r.num, r.num \in g.ran)
      BY <1>4, <1>10, <1>11 DEF SaysOnce
    <2> QED
      BY <1>4, <1>12, <2>1 DEF Adds
  <1>14. Effects(f, g, "Oper", o, r, TRUE)
    BY <1>10, <1>11, <1>13 DEF Effects
  <1> QED
    BY <1>8, <1>9, <1>14 DEF Serves, f, g

\* A Cancel withdraws what is armed for its object, and owes nothing.
LEMMA CancelledServes ==
    ASSUME NEW s, Shaped(s), ListOK(s), NEW a \in Assoc, NEW o \in Objects,
           NEW r \in Requests, s.pending[a] \in Seq(Pdus)
    PROVE  Serves(s, Cancelled(s, a, o), a, o, "Cancel", r, TRUE)
  <1> DEFINE t == Cancelled(s, a, o)
             f == Facts(s, a)
             g == Facts(t, a)
  <1>1. /\ t.timed = s.timed \ Armed(s, a, o) /\ t.armed = s.armed
        /\ t.ran = s.ran /\ t.pending = s.pending /\ t.model = s.model
    BY CancelledTables DEF OnlyOf
  <1> HIDE DEF t
  <1>2. t.timed \subseteq s.timed /\ \A u \in s.timed : u.assoc # a => u \in t.timed
    BY <1>1 DEF Armed
  <1>3. ListOK(t)
    <2>1. IsFiniteSet(t.timed)
      BY <1>2, FS_Subset DEF ListOK
    <2> QED
      BY <1>1, <1>2, <2>1 DEF ListOK
  <1>4. ASSUME NEW b \in Assoc \ {a}
        PROVE  Facts(t, b) = Facts(s, b)
    <2>1. \A u : u.assoc = b => (u \in t.timed <=> u \in s.timed)
      BY <1>2
    <2> QED
      BY <1>1, <2>1, SameFacts
  <1>5. g.ran = f.ran /\ g.model = f.model /\ g.owed = f.owed /\ f.owed \in Seq(Pdus)
    BY <1>1 DEF Facts
  <1>6. ASSUME NEW x \in g.armed
        PROVE  x \in f.armed
    <2>1. PICK u \in t.timed : u.assoc = a /\ x = [num |-> u.req.num, object |-> u.object]
      BY ArmedFacts
    <2> QED
      BY <1>2, <2>1, ArmedFacts
  <1> HIDE DEF f, g
  <1>7. g.owed = f.owed \o <<>>
    BY <1>5, ConcatEmptySeq
  <1>8. Adds(f, g, "Cancel", o, r, TRUE, <<>>)
    BY NothingSaid DEF Adds
  <1>9. Effects(f, g, "Cancel", o, r, TRUE)
    BY <1>5, <1>6, <1>7, <1>8 DEF Effects
  <1> QED
    BY <1>3, <1>4, <1>9 DEF Serves, f, g, t

\* One control service, after the time that it lets pass.
LEMMA CommandServes ==
    ASSUME NEW s, Shaped(s), ListOK(s), NEW a \in Assoc, NEW o \in Objects,
           NEW command \in Commands, NEW r \in Requests, s.pending[a] \in Seq(Pdus),
           command # "Cancel" => Untouched(Facts(s, a), r.num)
    PROVE  Serves(s, IF May(s, a, o, command, r) THEN Done(s, a, o, command, r)
                     ELSE Refused(s, a, command, r),
                  a, o, command, r, Answered(s, a, o, command, r))
  <1> DEFINE ok == Answered(s, a, o, command, r)
  <1>1. CASE ~May(s, a, o, command, r)
    <2> DEFINE t == Refused(s, a, command, r)
               as == command = "Oper" /\ Enhanced(s.model[o])
    <2>1. Serves(s, t, a, o, command, r, as)
      BY RefusedServes
    <2>2. ok = as
      BY <1>1 DEF Answered
    <2> HIDE DEF t, as, ok
    <2>3. Serves(s, t, a, o, command, r, ok)
      BY Zenon, <2>1, <2>2
    <2> QED
      BY Zenon, <1>1, <2>3 DEF t, ok
  <1>2. CASE May(s, a, o, command, r)
    <2> DEFINE t == Done(s, a, o, command, r)
    <2>1. ok = TRUE
      BY <1>2 DEF Answered
    <2>2. Serves(s, t, a, o, command, r, TRUE)
      <3>1. CASE command = "SBO"
        <4>1. t = Reserved(s, a, o, None, 0)
          BY <3>1 DEF Done
        <4>2. /\ t.timed = s.timed /\ t.armed = s.armed /\ t.ran = s.ran
              /\ t.pending = s.pending /\ t.model = s.model
          <5>0. None \in Values \cup {None} /\ 0 \in Nums \cup {0}
            OBVIOUS
          <5> DEFINE u == Reserved(s, a, o, None, 0)
          <5>1. OnlyOf(a, s, u) /\ u.ran = s.ran /\ u.timed = s.timed /\ u.armed = s.armed /\ u.pending = s.pending
            BY ZenonT(40), <5>0, ReservedTables
          <5>2. t = u
            BY <4>1
          <5> HIDE DEF t, u
          <5> QED
            BY <5>1, <5>2 DEF OnlyOf
        <4> HIDE DEF t
        <4> QED
          BY <3>1, <4>2, ReservedServes
      <3>2. CASE command = "SBOw"
        <4>1. t = Reserved(s, a, o, r.val, r.num)
          BY <3>2 DEF Done
        <4>2. r.val \in Values \cup {None} /\ r.num \in Nums \cup {0}
          BY DEF Requests
        <4>3. /\ t.timed = s.timed /\ t.armed = s.armed /\ t.ran = s.ran
              /\ t.pending = s.pending /\ t.model = s.model
          <5> DEFINE u == Reserved(s, a, o, r.val, r.num)
          <5>1. OnlyOf(a, s, u) /\ u.ran = s.ran /\ u.timed = s.timed /\ u.armed = s.armed /\ u.pending = s.pending
            BY ZenonT(40), <4>2, ReservedTables
          <5>2. t = u
            BY <4>1
          <5> HIDE DEF t, u
          <5> QED
            BY <5>1, <5>2 DEF OnlyOf
        <4> HIDE DEF t
        <4> QED
          BY <3>2, <4>3, ReservedServes
      <3>3. CASE command = "Oper"
        <4>1. t = Operated(s, a, o, r)
          BY <3>3 DEF Done
        <4>2. t.model = s.model /\ OperatedBooks(s, t, a, o, r)
          BY <4>1, OperatedTables DEF OnlyOf
        <4> HIDE DEF t
        <4>3. Untouched(Facts(s, a), r.num)
          BY <3>3
        <4>4. CASE r.wait > 0
          BY <3>3, <4>2, <4>3, <4>4, ArmedServes
        <4>5. CASE ~(r.wait > 0)
          BY <3>3, <4>2, <4>3, <4>5, AppliedServes
        <4> QED
          BY <4>4, <4>5
      <3>4. CASE command = "Cancel"
        <4>1. t = Cancelled(s, a, o)
          BY <3>4 DEF Done
        <4> QED
          BY <3>4, <4>1, CancelledServes
      <3> QED
        BY <3>1, <3>2, <3>3, <3>4 DEF Commands
    <2> HIDE DEF t, ok
    <2> QED
      BY Zenon, <1>2, <2>1, <2>2 DEF t, ok
  <1> QED
    BY <1>1, <1>2

-----------------------------------------------------------------------------
(* The steps of the server *)

\* A poll keeps the story of every association.
LEMMA ElapsedStory ==
    ASSUME NEW s, Shaped(s), ListOK(s), NEW a \in Assoc,
           NEW c, NEW k, NEW q, NEW td, Story(Facts(s, a), c, k, q, td)
    PROVE  Story(Facts(Elapsed(s), a), c, k, q, td)
  <1> DEFINE f == Facts(s, a)
             g == Facts(Elapsed(s), a)
  <1>1. Passes(f, g)
    BY ElapsedPasses
  <1> HIDE DEF f, g
  <1>2. Story(f, c, k, q, td)
    BY DEF f
  <1> QED
    BY <1>1, <1>2, PassedStory DEF g

LEMMA PublishedList ==
    ASSUME NEW s, Shaped(s), ListOK(s)
    PROVE  ListOK([s EXCEPT !.pending = NothingOwed])
  <1> DEFINE t == [s EXCEPT !.pending = NothingOwed]
  <1>1. /\ t.timed = s.timed /\ t.ran = s.ran /\ t.armed = s.armed
        /\ t.pending = NothingOwed
    BY PublishedTables
  <1> HIDE DEF t
  <1>2. t.pending = [a \in Assoc |-> t.pending[a]]
    BY <1>1 DEF NothingOwed
  <1>3. ListOK(t)
    BY <1>1, <1>2 DEF ListOK
  <1> QED
    BY <1>3 DEF t

\* So does a publication.
LEMMA PublishedStory ==
    ASSUME Conns(conn), NEW s, Shaped(s), NEW a \in Assoc,
           NEW k, NEW q, NEW td, Story(Facts(s, a), conn[a], k, q, td),
           NEW t, t.timed = s.timed, t.ran = s.ran, t.model = s.model, t.pending = NothingOwed
    PROVE  Story(Facts(t, a), Dispatched(s)[a], k, q, td)
  <1> DEFINE f == Facts(s, a)
             g == Facts(t, a)
             c == conn[a]
             d == Dispatched(s)[a]
             all == c.queue \o s.pending[a]
             queue == SubSeq(all, 1, Min({QueueCap, Len(all)}))
             stalled == c.stalled \/ Len(all) > QueueCap
  <1>1. /\ g.armed = f.armed /\ g.ran = f.ran /\ g.model = f.model /\ g.owed = <<>>
        /\ f.owed = s.pending[a]
    BY DEF Facts, NothingOwed
  <1>2. d = IF Open(a) THEN [c EXCEPT !.queue = queue, !.stalled = stalled] ELSE c
    BY Zenon DEF Dispatched
  <1>3. ConnShaped(c)
    BY DEF Conns
  <1>4. Story(f, c, k, q, td)
    OBVIOUS
  <1> HIDE DEF f, g, d
  <1>5. CASE Open(a)
    <2> HIDE DEF queue, stalled
    <2>1. /\ d.wire = c.wire /\ d.unsent = c.unsent /\ d.at = c.at
          /\ d.queue = queue /\ d.stalled = stalled
      BY <1>2, <1>3, <1>5 DEF ConnShaped, ConnFields
    <2>2. d.stalled <=> c.stalled \/ Len(all) > QueueCap
      BY Zenon, <2>1 DEF stalled
    <2>3. d.queue = SubSeq(all, 1, Min({QueueCap, Len(all)}))
      BY Zenon, <2>1 DEF queue
    <2>4. all = c.queue \o f.owed
      BY <1>1
    <2> HIDE DEF all, c
    <2>5. Story(g, d, k, q, td)
      BY <1>1, <1>4, <2>1, <2>2, <2>3, <2>4, DispatchedStory
    <2> QED
      BY <2>5 DEF g, d
  <1>6. CASE ~Open(a)
    <2>1. d = c /\ c.at = "closed"
      BY <1>2, <1>6 DEF Open
    <2> HIDE DEF c
    <2>2. Story(g, c, k, q, td)
      BY <1>1, <1>4, <2>1, UndeliveredStory
    <2> QED
      BY Zenon, <2>1, <2>2 DEF g, d
  <1> QED
    BY <1>5, <1>6

\* The list is in order, and every association has its story.
Books ==
    /\ ListOK(server)
    /\ told = [a \in Assoc |-> told[a]]
    /\ \A a \in Assoc : Story(Facts(server, a), conn[a], client[a], inbox[a], told[a])

\* A thread that is open changes its position.
LEMMA PlacedStory ==
    ASSUME NEW f, NEW c, NEW d, NEW k, NEW q, NEW td, Story(f, c, k, q, td),
           c.at # "closed", d.at # "closed", d.wire = c.wire, d.unsent = c.unsent,
           d.queue = c.queue, d.stalled = c.stalled
    PROVE  Story(f, d, k, q, td)
  <1>1. FlowOK(f, d, k) /\ Way(d, k, f.owed) = Way(c, k, f.owed) /\ Line(d) = Line(c)
    BY DEF Story, FlowOK, Way, Line
  <1> QED
    BY <1>1, MovedStory

\* A thread publishes, flushes and goes on.
LEMMA PublishAndFlushBooks ==
    ASSUME IInv, told = [b \in Assoc |-> told[b]], NEW s, Shaped(s), ListOK(s),
           \A b \in Assoc : Story(Facts(s, b), conn[b], client[b], inbox[b], told[b]),
           NEW a \in Assoc, conn[a].at # "closed", PublishAndFlush(s, a),
           UNCHANGED <<inbox, client, told>>
    PROVE  Books'
  <1> DEFINE d == Dispatched(s)
             c == Flushed(d[a], Gone(a))
             t == [s EXCEPT !.pending = NothingOwed]
  <1>1. Conns(d) /\ (\A b \in Assoc : d[b].at = conn[b].at) /\ Conns(conn)
    BY DispatchedPlaces DEF IInv, ThreadsOK
  <1>2. conn' = [d EXCEPT ![a] = c] /\ server' = t
    BY Zenon DEF PublishAndFlush
  <1>3. ListOK(t)
    BY PublishedList
  <1>4. /\ t.timed = s.timed /\ t.ran = s.ran /\ t.model = s.model
        /\ t.pending = NothingOwed
    BY PublishedTables
  <1> HIDE DEF t
  <1>5. \A b \in Assoc : Story(Facts(t, b), d[b], client[b], inbox[b], told[b])
    BY <1>1, <1>4, PublishedStory
  <1> HIDE DEF d
  <1>6. Story(Facts(t, a), c, client[a], inbox[a], told[a])
    <2>1. ConnShaped(d[a]) /\ d[a].at # "closed"
      BY <1>1 DEF Conns
    <2>2. Story(Facts(t, a), d[a], client[a], inbox[a], told[a])
      BY <1>5
    <2> QED
      BY <2>1, <2>2, FlushedStory
  <1> HIDE DEF c
  <1>7. conn'[a] = c /\ \A b \in Assoc \ {a} : conn'[b] = d[b]
    BY <1>1, <1>2 DEF Conns
  <1>8. \A b \in Assoc : Story(Facts(t, b), conn'[b], client[b], inbox[b], told[b])
    BY <1>5, <1>6, <1>7
  <1> QED
    BY <1>2, <1>3, <1>8 DEF Books

\* Time passes before the lock is used.
LEMMA ElapsedBooks ==
    ASSUME IInv, Books
    PROVE  /\ Shaped(Elapsed(server)) /\ ListOK(Elapsed(server))
           /\ \A b \in Assoc :
                 Story(Facts(Elapsed(server), b), conn[b], client[b], inbox[b], told[b])
  <1>1. Shaped(server) /\ ListOK(server)
    BY DEF IInv, Books
  <1>2. Shaped(Elapsed(server)) /\ ListOK(Elapsed(server))
    BY <1>1, ElapsedTables, ElapsedList
  <1>3. ASSUME NEW b \in Assoc
        PROVE  Story(Facts(Elapsed(server), b), conn[b], client[b], inbox[b], told[b])
    <2>1. Story(Facts(server, b), conn[b], client[b], inbox[b], told[b])
      BY DEF Books
    <2> QED
      BY <1>1, <2>1, ElapsedStory
  <1> QED
    BY <1>2, <1>3

LEMMA PollBooks ==
    ASSUME IInv, Books, NEW a \in Assoc, Poll(a)
    PROVE  Books'
  <1> DEFINE e == Elapsed(server)
  <1>1. /\ Shaped(e) /\ ListOK(e)
        /\ \A b \in Assoc : Story(Facts(e, b), conn[b], client[b], inbox[b], told[b])
    BY ElapsedBooks
  <1>2. conn[a].at # "closed" /\ PublishAndFlush(e, a) /\ UNCHANGED <<inbox, client, told>>
    BY DEF Poll
  <1> HIDE DEF e
  <1> QED
    BY <1>1, <1>2, PublishAndFlushBooks DEF Books

LEMMA PublishBooks ==
    ASSUME IInv, Books, NEW a \in Assoc, Publish(a)
    PROVE  Books'
  <1>1. conn[a].at # "closed" /\ PublishAndFlush(server, a) /\ UNCHANGED <<inbox, client, told>>
    BY DEF Publish
  <1>2. /\ Shaped(server) /\ ListOK(server) /\ told = [b \in Assoc |-> told[b]]
        /\ \A b \in Assoc : Story(Facts(server, b), conn[b], client[b], inbox[b], told[b])
    BY DEF IInv, Books
  <1> QED
    BY <1>1, <1>2, PublishAndFlushBooks

LEMMA WakeBooks ==
    ASSUME IInv, Books, NEW a \in Assoc, Wake(a)
    PROVE  Books'
  <1> DEFINE e == Elapsed(server)
             d == Dispatched(e)
             c == [d[a] EXCEPT !.at = "serve"]
             t == [e EXCEPT !.pending = NothingOwed]
  <1>1. /\ Shaped(e) /\ ListOK(e)
        /\ \A b \in Assoc : Story(Facts(e, b), conn[b], client[b], inbox[b], told[b])
    BY ElapsedBooks
  <1>2. /\ conn[a].at = "read" /\ UNCHANGED <<inbox, client, told>>
        /\ conn' = [d EXCEPT ![a].at = "serve"] /\ server' = t
    BY DEF Wake
  <1> HIDE DEF e
  <1>3. Conns(d) /\ (\A b \in Assoc : d[b].at = conn[b].at) /\ Conns(conn)
    BY DispatchedPlaces DEF IInv, ThreadsOK
  <1>4. ListOK(t)
    BY <1>1, PublishedList
  <1>5. /\ t.timed = e.timed /\ t.ran = e.ran /\ t.model = e.model
        /\ t.pending = NothingOwed
    BY <1>1, PublishedTables
  <1> HIDE DEF t
  <1>6. \A b \in Assoc : Story(Facts(t, b), d[b], client[b], inbox[b], told[b])
    BY <1>1, <1>3, <1>5, PublishedStory
  <1> HIDE DEF d
  <1>7. /\ c.wire = d[a].wire /\ c.unsent = d[a].unsent /\ c.queue = d[a].queue
        /\ c.stalled = d[a].stalled /\ c.at = "serve" /\ d[a].at = "read"
    BY <1>2, <1>3 DEF Conns, ConnShaped, ConnFields
  <1>8. conn'[a] = c /\ \A b \in Assoc \ {a} : conn'[b] = d[b]
    BY <1>2, <1>3 DEF Conns
  <1> HIDE DEF c
  <1>9. Story(Facts(t, a), c, client[a], inbox[a], told[a])
    BY <1>6, <1>7, PlacedStory
  <1>10. \A b \in Assoc : Story(Facts(t, b), conn'[b], client[b], inbox[b], told[b])
    BY <1>6, <1>8, <1>9
  <1> QED
    BY <1>2, <1>4, <1>10 DEF Books

LEMMA SocketBooks ==
    ASSUME IInv, Books, NEW a \in Assoc, Hangup(a) \/ Unblock(a)
    PROVE  Books'
  <1> DEFINE f == Facts(server, a)
             h == [conn[a] EXCEPT !.at = "ended"]
             w == Written(conn[a], Gone(a))
  <1>1. /\ conn[a].at # "closed" /\ UNCHANGED <<server, inbox, client, told>>
        /\ Conns(conn)
    BY DEF Hangup, Unblock, IInv, ThreadsOK
  <1>2. ConnShaped(conn[a]) /\ Story(f, conn[a], client[a], inbox[a], told[a])
    BY <1>1 DEF Conns, Books
  <1> HIDE DEF f
  <1>3. Story(f, h, client[a], inbox[a], told[a])
    <2>1. /\ h.wire = conn[a].wire /\ h.unsent = conn[a].unsent /\ h.queue = conn[a].queue
          /\ h.stalled = conn[a].stalled /\ h.at = "ended"
      BY <1>2 DEF ConnShaped, ConnFields
    <2> HIDE DEF h
    <2> QED
      BY <1>1, <1>2, <2>1, PlacedStory
  <1>4. Story(f, w, client[a], inbox[a], told[a])
    BY <1>1, <1>2, WrittenStory
  <1>5. conn' = [conn EXCEPT ![a] = h] \/ conn' = [conn EXCEPT ![a] = w]
    <2>1. CASE Hangup(a)
      BY <1>1, <2>1 DEF Hangup, Conns
    <2>2. CASE Unblock(a)
      BY Zenon, <2>2 DEF Unblock
    <2> QED
      BY <2>1, <2>2
  <1> HIDE DEF h, w
  <1>6. conn'[a] \in {h, w} /\ \A b \in Assoc \ {a} : conn'[b] = conn[b]
    BY <1>1, <1>5 DEF Conns
  <1>7. Story(f, conn'[a], client[a], inbox[a], told[a])
    BY <1>3, <1>4, <1>6
  <1>8. \A b \in Assoc : Story(Facts(server, b), conn'[b], client[b], inbox[b], told[b])
    BY <1>6, <1>7 DEF Books, f
  <1> QED
    BY <1>1, <1>8 DEF Books

\* Of an association that ends nothing runs any more, and what is not in the
\* socket is lost.
LEMMA EndedStory ==
    ASSUME NEW f, NEW g, NEW c, NEW d, NEW k, NEW q, NEW td, Story(f, c, k, q, td),
           g.armed = {}, g.ran = f.ran, g.model = f.model, g.owed = f.owed,
           d.at = "closed", d.wire = c.wire, d.unsent = <<>>, d.queue = <<>>
    PROVE  Story(g, d, k, q, td)
  <1> DEFINE way == Way(c, k, f.owed)
             v == Way(d, k, g.owed)
             x == Line(c)
             z == Line(d)
             n == k.num
  <1>1. FlowOK(f, c, k)
    BY DEF Story
  <1>2. FlowOK(g, d, k)
    BY <1>1, NothingSaid, ServiceAssumption DEF FlowOK
  <1>3. /\ \A m : Mute(way, m) => Mute(v, m)
        /\ \A m, ok : SaysOnly(way, m, ok) => SaysOnly(v, m, ok)
    <2> DEFINE y == k.unsolicited \o c.wire
               t == c.unsent
               r == c.queue
               p == f.owed
    <2>1. t \in Seq(Pdus) /\ r \in Seq(Pdus) /\ p \in Seq(Pdus)
      BY <1>1 DEF FlowOK
    <2>2. y \in Seq(Pdus)
      BY <1>1, Joined DEF FlowOK
    <2>3. way = ((y \o t) \o r) \o p /\ v = ((y \o <<>>) \o <<>>) \o p
      BY DEF Way
    <2> HIDE DEF way, v, y, t, r, p
    <2>4. y \o <<>> = y
      BY <2>2, ConcatEmptySeq
    <2>5. v = y \o p
      BY <2>3, <2>4
    <2> DEFINE yt == y \o t
               yr == yt \o r
    <2>6. yt \in Seq(Pdus) /\ Within(y, yt)
      BY <2>1, <2>2, Joined, JoinedWithin
    <2> HIDE DEF yt
    <2>7. yr \in Seq(Pdus) /\ Within(yt, yr)
      BY <2>1, <2>6, Joined, JoinedWithin
    <2> HIDE DEF yr
    <2>8. way = yr \o p /\ Within(yr, way) /\ Within(p, way)
      BY <2>1, <2>3, <2>7, JoinedWithin DEF yt, yr
    <2>9. Within(y, way)
      BY <2>6, <2>7, <2>8, WithinTransitive
    <2>10. Within(v, way)
      BY <2>1, <2>2, <2>5, <2>8, <2>9, BothWithin
    <2> QED
      BY <2>10, WithinSays
  <1>4. /\ Answers(z) \subseteq Answers(x) /\ \A i \in Answers(z) : z[i] = x[i]
        /\ Says(z, n) \subseteq Says(x, n)
        /\ \A j \in Says(z, n), i \in Answers(x) : i < j => i \in Answers(z)
    <2> DEFINE w == c.wire
               t == c.unsent
    <2>1. w \in Seq(Pdus) /\ t \in Seq(Pdus)
      BY <1>1 DEF FlowOK
    <2>2. x = w \o t /\ z = w \o <<>>
      BY DEF Line
    <2> HIDE DEF w, t, x, z
    <2>3. z = w
      BY <2>1, <2>2, ConcatEmptySeq
    <2>4. /\ \A i \in DOMAIN w : i \in DOMAIN x /\ x[i] = w[i]
          /\ DOMAIN w = 1 .. Len(w) /\ Len(w) \in Nat
          /\ DOMAIN x = 1 .. Len(w) + Len(t) /\ Len(t) \in Nat
      BY <2>1, <2>2, Joined
    <2>5. /\ Answers(w) \subseteq Answers(x) /\ \A i \in Answers(w) : w[i] = x[i]
          /\ Says(w, n) \subseteq Says(x, n)
      BY <2>4 DEF Answers, Says
    <2>6. \A j \in DOMAIN w, i \in DOMAIN x : i < j => i \in DOMAIN w
      BY <2>4
    <2>7. \A j \in Says(w, n), i \in Answers(x) : i < j => i \in Answers(w)
      BY <2>4, <2>6 DEF Says, Answers
    <2> QED
      BY <2>3, <2>5, <2>7
  <1>5. /\ \A m : Untouched(f, m) => Untouched(g, m)
        /\ \A m : ~IsArmed(g, m)
    BY DEF Untouched, IsArmed
  <1>6. ToldOK(g, td) /\ (q # None /\ q.command # "Cancel" => Untouched(g, q.req.num))
    BY <1>5 DEF Story, ToldOK
  <1>7. CASE k.phase = "gone"
    BY <1>2, <1>6, <1>7 DEF Story
  <1>8. CASE k.phase # "gone"
    <2>1. /\ PlanOK(f, k) /\ OneAtATime(c, k, q) /\ NumbersOK(f, c, k)
          /\ PhaseOK(f, c, k, td) /\ EarlyOK(f, c, k, q) /\ LateOK(f, c, k, q)
      BY <1>8 DEF Story
    <2>2. PlanOK(g, k)
      BY <2>1 DEF PlanOK
    <2> HIDE DEF way, v, x, z
    <2>3. OneAtATime(d, k, q)
      <3>1. Answers(x) = {} => Answers(z) = {}
        BY <1>4
      <3> QED
        BY <1>4, <2>1, <3>1 DEF OneAtATime, x, z
    <2>4. NumbersOK(g, d, k)
      BY <1>3, <1>5, <2>1 DEF NumbersOK, way, v
    <2>5. PhaseOK(g, d, k, td)
      BY <1>4, <1>5, <2>1 DEF PhaseOK, x, z
    <2>6. EarlyOK(g, d, k, q)
      <3> SUFFICES ASSUME k.phase = "calling", k.awaits
                   PROVE  /\ Mute(k.unsolicited, n)
                          /\ q # None => Mute(v, n)
                          /\ \A i \in Answers(z) : z[i].ok /\ Len(k.plan) = 2 => Mute(v, n)
                          /\ \A j \in Says(z, n) : \E i \in Answers(z) : i < j
        BY DEF EarlyOK, v, z
      <3>1. /\ Mute(k.unsolicited, n)
            /\ q # None => Mute(way, n)
            /\ \A i \in Answers(x) : x[i].ok /\ Len(k.plan) = 2 => Mute(way, n)
            /\ \A j \in Says(x, n) : \E i \in Answers(x) : i < j
        BY <2>1 DEF EarlyOK, way, x
      <3> QED
        BY <1>3, <1>4, <3>1
    <2>7. LateOK(g, d, k, q)
      <3> SUFFICES ASSUME Operating(k, q)
                   PROVE  SaysOnly(v, n, n \in f.ran)
        BY <1>5 DEF LateOK, v
      <3>1. SaysOnly(way, n, n \in f.ran)
        BY <2>1 DEF LateOK, way
      <3> QED
        BY <1>3, <3>1
    <2> QED
      BY <1>2, <1>6, <2>2, <2>3, <2>4, <2>5, <2>6, <2>7 DEF Story
  <1> QED
    BY <1>7, <1>8

LEMMA EndBooks ==
    ASSUME IInv, Books, NEW a \in Assoc, End(a)
    PROVE  Books'
  <1> DEFINE t == Dropped(server, a)
             c == [FreshConn EXCEPT !.at = "closed", !.wire = conn[a].wire]
  <1>1. /\ Conns(conn) /\ Shaped(server) /\ ListOK(server) /\ told = [b \in Assoc |-> told[b]]
        /\ \A b \in Assoc : Story(Facts(server, b), conn[b], client[b], inbox[b], told[b])
    BY DEF IInv, ThreadsOK, Books
  <1>2. server' = t /\ conn' = [conn EXCEPT ![a] = c] /\ UNCHANGED <<inbox, client, told>>
    BY DEF End
  <1>3. /\ t.timed = {u \in server.timed : u.assoc # a} /\ t.ran = server.ran
        /\ t.armed = server.armed /\ t.pending = server.pending /\ t.model = server.model
    BY <1>1, DroppedTables
  <1>4. /\ c.at = "closed" /\ c.wire = conn[a].wire /\ c.unsent = <<>> /\ c.queue = <<>>
    BY DEF FreshConn
  <1> HIDE DEF t, c
  <1>5. ListOK(t)
    <2>1. IsFiniteSet(t.timed) /\ t.timed \subseteq server.timed
      BY <1>1, <1>3, FS_Subset DEF ListOK
    <2> QED
      BY <1>1, <1>3, <2>1 DEF ListOK
  <1>6. \A b \in Assoc \ {a} : Facts(t, b) = Facts(server, b)
    <2> SUFFICES ASSUME NEW b \in Assoc \ {a} PROVE Facts(t, b) = Facts(server, b)
      OBVIOUS
    <2>1. \A u : u.assoc = b => (u \in t.timed <=> u \in server.timed)
      BY <1>3
    <2> QED
      BY <1>3, <2>1, SameFacts
  <1>7. /\ Facts(t, a).armed = {} /\ Facts(t, a).ran = Facts(server, a).ran
        /\ Facts(t, a).model = Facts(server, a).model
        /\ Facts(t, a).owed = Facts(server, a).owed
    <2>1. {u \in t.timed : u.assoc = a} = {}
      BY <1>3
    <2> QED
      BY <1>3, <2>1 DEF Facts
  <1>8. conn'[a] = c /\ \A b \in Assoc \ {a} : conn'[b] = conn[b]
    BY <1>1, <1>2 DEF Conns
  <1>9. Story(Facts(t, a), c, client[a], inbox[a], told[a])
    <2>1. Story(Facts(server, a), conn[a], client[a], inbox[a], told[a])
      BY <1>1
    <2> QED
      BY <1>4, <1>7, <2>1, EndedStory
  <1>10. \A b \in Assoc : Story(Facts(t, b), conn'[b], client[b], inbox[b], told[b])
    BY <1>1, <1>6, <1>8, <1>9
  <1> QED
    BY <1>1, <1>2, <1>5, <1>10 DEF Books

\* The service of a request, after the time it lets pass.
ServedBy(s, t, a, q, ok) ==
    /\ s = Before(server, q.command) /\ Shaped(s) /\ ListOK(s)
    /\ \A b \in Assoc : Story(Facts(s, b), conn[b], client[b], inbox[b], told[b])
    /\ q \in Requested /\ q # None /\ q.req.num \in Nums /\ ok \in BOOLEAN
    /\ Serves(s, t, a, q.object, q.command, q.req, ok)

LEMMA ServeServes ==
    ASSUME IInv, Books, NEW a \in Assoc, Serve(a)
    PROVE  LET q == inbox[a] IN
           ServedBy(Before(server, q.command), Served(server, a, q.object, q.command, q.req),
                    a, q, ServedOk(server, a, q.object, q.command, q.req))
  <1> DEFINE q == inbox[a]
             s == Before(server, q.command)
             t == Served(server, a, q.object, q.command, q.req)
             ok == ServedOk(server, a, q.object, q.command, q.req)
             as == Answered(s, a, q.object, q.command, q.req)
  <1>1. /\ Shaped(server) /\ ListOK(server)
        /\ \A b \in Assoc : Story(Facts(server, b), conn[b], client[b], inbox[b], told[b])
    BY DEF IInv, Books
  <1>2. q # None /\ q \in Requested
    BY DEF Serve, IInv, InboxOK
  <1>3. /\ q.command \in Commands /\ q.object \in Objects /\ q.req \in Requests
        /\ q.req.num \in Nums
    BY <1>2 DEF Requested, Requests
  <1>4. /\ Shaped(s) /\ ListOK(s)
        /\ \A b \in Assoc : Story(Facts(s, b), conn[b], client[b], inbox[b], told[b])
    <2>1. CASE q.command = "SBO"
      BY <1>1, <2>1 DEF Before
    <2>2. CASE q.command # "SBO"
      <3>1. s = Elapsed(server)
        BY <2>2 DEF Before
      <3> QED
        BY <3>1, ElapsedBooks
    <2> QED
      BY <2>1, <2>2
  <1>5. ok = as /\ t = IF May(s, a, q.object, q.command, q.req)
                       THEN Done(s, a, q.object, q.command, q.req)
                       ELSE Refused(s, a, q.command, q.req)
    BY DEF ServedOk, Served
  <1>6. as \in BOOLEAN
    BY Zenon DEF Answered
  <1>6a. s = Before(server, q.command)
    OBVIOUS
  <1> HIDE DEF s
  <1>7. Story(Facts(s, a), conn[a], client[a], q, told[a])
    BY <1>4
  <1>8. s.pending[a] \in Seq(Pdus) /\ (q.command # "Cancel" => Untouched(Facts(s, a), q.req.num))
    <2>1. Facts(s, a).owed = s.pending[a]
      BY DEF Facts
    <2> HIDE DEF q
    <2> QED
      BY <1>2, <1>7, <2>1 DEF Story, FlowOK
  <1> HIDE DEF q, t, ok, as
  <1>9. Serves(s, t, a, q.object, q.command, q.req, ok)
    <2>1. Serves(s, IF May(s, a, q.object, q.command, q.req)
                    THEN Done(s, a, q.object, q.command, q.req)
                    ELSE Refused(s, a, q.command, q.req),
                 a, q.object, q.command, q.req, Answered(s, a, q.object, q.command, q.req))
      BY <1>3, <1>4, <1>8, CommandServes
    <2> QED
      BY Zenon, <1>5, <2>1 DEF as
  <1>10. ok \in BOOLEAN
    BY Zenon, <1>5, <1>6
  <1>11. ServedBy(s, t, a, q, ok)
    BY <1>2, <1>3, <1>4, <1>6a, <1>9, <1>10 DEF ServedBy
  <1> QED
    BY Zenon, <1>11 DEF s, t, q, ok

\* A request is served: the answer, what is owed and what runs are told apart.
LEMMA ServeBooks ==
    ASSUME IInv, Books, NEW a \in Assoc, Serve(a)
    PROVE  Books'
  <1> DEFINE q == inbox[a]
             s == Before(server, q.command)
             t == Served(server, a, q.object, q.command, q.req)
             ok == ServedOk(server, a, q.object, q.command, q.req)
             c == [conn[a] EXCEPT !.unsent = Append(@, Answer(ok)), !.at = "publish"]
  <1>1. /\ Conns(conn) /\ told = [b \in Assoc |-> told[b]]
        /\ inbox = [b \in Assoc |-> inbox[b]]
    BY DEF IInv, ThreadsOK, Books, InboxOK
  <1>2. /\ conn[a].at = "serve"
        /\ server' = t /\ client' = client /\ told' = told
        /\ inbox' = [inbox EXCEPT ![a] = None]
        /\ conn' = [conn EXCEPT ![a].unsent = Append(@, Answer(ok)), ![a].at = "publish"]
    BY DEF Serve
  <1>3. ServedBy(s, t, a, q, ok)
    BY ServeServes
  <1>4. Story(Facts(s, a), conn[a], client[a], q, told[a])
    BY <1>3 DEF ServedBy
  <1> HIDE DEF s, q, t, ok
  <1>5. /\ c.wire = conn[a].wire /\ c.unsent = Append(conn[a].unsent, Answer(ok))
        /\ c.queue = conn[a].queue /\ c.stalled = conn[a].stalled /\ c.at = "publish"
    BY <1>1 DEF Conns, ConnShaped, ConnFields
  <1>6. conn'[a] = c /\ \A b \in Assoc \ {a} : conn'[b] = conn[b]
    BY <1>1, <1>2 DEF Conns, ConnShaped, ConnFields
  <1> HIDE DEF c
  <1>7. /\ q \in Requested /\ q # None /\ q.req.num \in Nums /\ ok \in BOOLEAN
        /\ Serves(s, t, a, q.object, q.command, q.req, ok)
        /\ \A b \in Assoc : Story(Facts(s, b), conn[b], client[b], inbox[b], told[b])
    BY <1>3 DEF ServedBy
  <1>8. Story(Facts(t, a), c, client[a], None, told[a])
    <2>1. Effects(Facts(s, a), Facts(t, a), q.command, q.object, q.req, ok)
      BY <1>7 DEF Serves
    <2>2. conn[a].at # "closed" /\ c.at # "closed"
      BY <1>2, <1>5
    <2> QED
      BY <1>4, <1>5, <1>7, <2>1, <2>2, ServedStory
  <1>9. inbox'[a] = None /\ \A b \in Assoc \ {a} : inbox'[b] = inbox[b]
    BY <1>1, <1>2
  <1>10. \A b \in Assoc : Story(Facts(t, b), conn'[b], client[b], inbox'[b], told[b])
    BY <1>6, <1>7, <1>8, <1>9 DEF Serves
  <1> QED
    BY <1>1, <1>2, <1>7, <1>10 DEF Books, Serves

\* Time that passes changes no command but for its operTm.
LEMMA TimePassesList ==
    ASSUME NEW s, Shaped(s), ListOK(s)
    PROVE  /\ ListOK(LetTimePass(s))
           /\ \A a \in Assoc : Facts(LetTimePass(s), a) = Facts(s, a)
  <1> DEFINE t == LetTimePass(s)
  <1>1. /\ t.timed = {Aged(u) : u \in s.timed} /\ t.ran = s.ran /\ t.armed = s.armed
        /\ t.pending = s.pending /\ t.model = s.model
    BY TimePassesTables
  <1>2. \A u \in s.timed : /\ Aged(u).assoc = u.assoc /\ Aged(u).req = u.req
                           /\ Aged(u).object = u.object /\ Aged(u).rank = u.rank
    BY DEF Shaped, Timed, Aged
  <1> HIDE DEF t
  <1>3. IsFiniteSet(t.timed)
    <2> DEFINE m == [u \in s.timed |-> Aged(u)]
    <2>1. IsFiniteSet(s.timed)
      BY DEF ListOK
    <2>2. m \in Surjection(s.timed, t.timed)
      BY <1>1 DEF Surjection
    <2> HIDE DEF m
    <2> QED
      BY <2>1, <2>2, FS_Surjection
  <1>4. \A x \in t.timed : \E u \in s.timed : x = Aged(u)
    BY <1>1
  <1>5. ListOK(t)
    <2>1. ASSUME NEW x \in t.timed
          PROVE  x.rank < t.armed /\ [assoc |-> x.assoc, num |-> x.req.num] \notin t.ran
      <3>1. PICK u \in s.timed : x = Aged(u)
        BY <1>4
      <3>2. u.rank < s.armed /\ [assoc |-> u.assoc, num |-> u.req.num] \notin s.ran
        BY DEF ListOK
      <3>3. x.assoc = u.assoc /\ x.req = u.req /\ x.rank = u.rank
        BY <1>2, <3>1
      <3> QED
        BY <1>1, <3>2, <3>3
    <2>2. ASSUME NEW x \in t.timed, NEW y \in t.timed
          PROVE  /\ x.rank = y.rank => x = y
                 /\ x.assoc = y.assoc /\ x.req.num = y.req.num => x = y
      <3>1. PICK u \in s.timed : x = Aged(u)
        BY <1>4
      <3>2. PICK v \in s.timed : y = Aged(v)
        BY <1>4
      <3>3. /\ u.rank = v.rank => u = v
            /\ u.assoc = v.assoc /\ u.req.num = v.req.num => u = v
        BY DEF ListOK
      <3> QED
        BY <1>2, <3>1, <3>2, <3>3
    <2> QED
      BY <1>1, <1>3, <2>1, <2>2 DEF ListOK
  <1>6. ASSUME NEW a \in Assoc
        PROVE  Facts(t, a) = Facts(s, a)
    <2> DEFINE new == {[num |-> x.req.num, object |-> x.object] : x \in {u \in t.timed : u.assoc = a}}
               old == {[num |-> x.req.num, object |-> x.object] : x \in {u \in s.timed : u.assoc = a}}
    <2>1. new \subseteq old
      BY <1>2, <1>4
    <2>2. old \subseteq new
      BY <1>1, <1>2
    <2>3. new = old
      BY <2>1, <2>2
    <2> QED
      BY Zenon, <1>1, <2>3 DEF Facts
  <1> QED
    BY <1>5, <1>6 DEF t

\* The application changes its mind, or time passes.
LEMMA OutsideBooks ==
    ASSUME IInv, Books,
           \/ \E o \in Objects, mode \in Modes : ChangeMode(o, mode)
           \/ \E stages \in Bars : ChangeHook(stages)
           \/ Tick
    PROVE  Books'
  <1>1. /\ Conns(conn) /\ Shaped(server) /\ ListOK(server) /\ told = [b \in Assoc |-> told[b]]
        /\ \A b \in Assoc : Story(Facts(server, b), conn[b], client[b], inbox[b], told[b])
    BY DEF IInv, ThreadsOK, Books
  <1>2. UNCHANGED <<inbox, client, told>>
    BY DEF ChangeMode, ChangeHook, Tick
  <1>3. CASE \E o \in Objects, mode \in Modes : ChangeMode(o, mode)
    <2>1. PICK o \in Objects, mode \in Modes : ChangeMode(o, mode)
      BY SMTT(30), <1>3
    <2> DEFINE modes == [server.mode EXCEPT ![o] = mode]
    <2>2. conn' = Dispatched(server) /\ server' = [server EXCEPT !.mode = modes, !.pending = NothingOwed]
      BY <1>1, <2>1 DEF ChangeMode, Shaped, ServerFields
    <2> HIDE DEF modes
    <2>3. /\ server'.timed = server.timed /\ server'.ran = server.ran
          /\ server'.armed = server.armed
          /\ server'.model = server.model /\ server'.pending = NothingOwed
      BY <1>1, <2>2 DEF Shaped, ServerFields
    <2>4. server'.pending = [b \in Assoc |-> server'.pending[b]]
      BY <2>3 DEF NothingOwed
    <2>5. ListOK(server')
      BY <1>1, <2>3, <2>4 DEF ListOK
    <2>6. \A b \in Assoc : Story(Facts(server', b), Dispatched(server)[b], client[b], inbox[b], told[b])
      <3> SUFFICES ASSUME NEW t, t = server'
                   PROVE  \A b \in Assoc : Story(Facts(t, b), Dispatched(server)[b], client[b], inbox[b], told[b])
        BY Zenon
      <3>1. /\ t.timed = server.timed /\ t.ran = server.ran
            /\ t.model = server.model /\ t.pending = NothingOwed
        BY <2>3
      <3> QED
        BY <1>1, <3>1, PublishedStory
    <2> QED
      BY <1>1, <1>2, <2>2, <2>5, <2>6 DEF Books
  <1>4. CASE \E stages \in Bars : ChangeHook(stages)
    <2>1. PICK stages \in Bars : ChangeHook(stages)
      BY <1>4
    <2>2. /\ server'.timed = server.timed /\ server'.ran = server.ran
          /\ server'.armed = server.armed
          /\ server'.model = server.model /\ server'.pending = server.pending
          /\ conn' = conn
      BY <1>1, <2>1 DEF ChangeHook, Shaped, ServerFields
    <2>3. \A b \in Assoc : Facts(server', b) = Facts(server, b)
      BY Zenon, <2>2 DEF Facts
    <2>4. ListOK(server')
      BY <1>1, <2>2 DEF ListOK
    <2> QED
      BY <1>1, <1>2, <2>2, <2>3, <2>4 DEF Books
  <1>5. CASE Tick
    <2>1. server' = LetTimePass(server) /\ conn' = conn
      BY <1>5 DEF Tick
    <2>2. /\ ListOK(LetTimePass(server))
          /\ \A b \in Assoc : Facts(LetTimePass(server), b) = Facts(server, b)
      BY <1>1, TimePassesList
    <2> QED
      BY <1>1, <1>2, <2>1, <2>2 DEF Books
  <1> QED
    BY <1>3, <1>4, <1>5

-----------------------------------------------------------------------------
(* The steps of the clients *)

\* A step of one client changes only its own story.
LEMMA OneStory ==
    ASSUME Books, NEW a \in Assoc, server' = server,
           told' = [b \in Assoc |-> told'[b]],
           \A b \in Assoc \ {a} : /\ conn'[b] = conn[b] /\ client'[b] = client[b]
                                  /\ inbox'[b] = inbox[b] /\ told'[b] = told[b],
           Story(Facts(server, a), conn'[a], client'[a], inbox'[a], told'[a])
    PROVE  Books'
  <1>1. ASSUME NEW b \in Assoc
        PROVE  Story(Facts(server, b), conn'[b], client'[b], inbox'[b], told'[b])
    <2>1. CASE b = a
      BY <2>1
    <2>2. CASE b # a
      BY <2>2 DEF Books
    <2> QED
      BY <2>1, <2>2
  <1> QED
    BY <1>1 DEF Books

\* What the caller is told of one command.
Telling(td, n, what) == [td EXCEPT ![n] = what]

LEMMA TellingOne ==
    ASSUME NEW td, td = [n \in Nums |-> td[n]], NEW n \in Nums, NEW what
    PROVE  /\ Telling(td, n, what) = [m \in Nums |-> Telling(td, n, what)[m]]
           /\ Telling(td, n, what)[n] = what
           /\ \A m \in Nums \ {n} : Telling(td, n, what)[m] = td[m]
  BY DEF Telling

\* A call begins, under a new ctlNum if it has to tell its termination from
\* others.
LEMMA CalledStory ==
    ASSUME NEW f, NEW c, NEW k, NEW q, NEW td, Story(f, c, k, q, td), k.phase = "idle",
           NEW h, NEW p, NEW new,
           h.phase = "calling", h.plan \in Plans, h.awaits \in BOOLEAN, h.req \in Requests,
           h.num = h.req.num, h.object \in Objects, ~h.selects, h.unsolicited = k.unsolicited,
           h.num \in Nums, k.num <= h.num,
           Head(h.plan) # "Cancel" => Untouched(f, h.num),
           h.awaits => /\ h.plan \in {<<"SBOw", "Oper">>, <<"Oper">>}
                       /\ Enhanced(f.model[h.object]) /\ k.num < h.num,
           p # None, p.command = Head(h.plan), p.object = h.object, p.req = h.req,
           new = IF Head(h.plan) = "Cancel" THEN td ELSE Telling(td, h.num, "nothing")
    PROVE  Story(f, c, h, p, new)
  <1> DEFINE n == h.num
             way == Way(c, k, f.owed)
             x == Line(c)
  <1>1. /\ PlanOK(f, k) /\ OneAtATime(c, k, q) /\ NumbersOK(f, c, k) /\ FlowOK(f, c, k)
        /\ ToldOK(f, td) /\ td = [m \in Nums |-> td[m]]
    BY DEF Story
  <1>2. FlowOK(f, c, h)
    BY <1>1 DEF FlowOK
  <1>3. Way(c, h, f.owed) = way
    BY DEF Way
  <1>4. new = [m \in Nums |-> new[m]] /\ ToldOK(f, new)
        /\ (Head(h.plan) # "Cancel" => new[n] = "nothing")
    <2>1. CASE Head(h.plan) = "Cancel"
      BY <1>1, <2>1
    <2>2. CASE Head(h.plan) # "Cancel"
      <3>1. /\ new = [m \in Nums |-> new[m]] /\ new[n] = "nothing"
            /\ \A m \in Nums \ {n} : new[m] = td[m]
        BY <1>1, <2>2, TellingOne
      <3>2. ToldOK(f, new)
        BY <1>1, <3>1 DEF ToldOK
      <3> QED
        BY <3>1, <3>2
    <2> QED
      BY <2>1, <2>2
  <1>5. k.num \in Nat /\ n \in Nat
    BY <1>1, ControlAssumption DEF PlanOK
  <1>6. PlanOK(f, h)
    BY <1>5 DEF PlanOK
  <1>7. Answers(x) = {}
    BY <1>1 DEF OneAtATime
  <1>8. OneAtATime(c, h, p)
    BY <1>7 DEF OneAtATime
  <1>9. NumbersOK(f, c, h)
    <2>1. ASSUME NEW m \in Nums, m <= k.num
          PROVE  m <= n
      <3>1. m \in Nat
        BY ControlAssumption
      <3>2. k.num <= n
        OBVIOUS
      <3> HIDE DEF n
      <3> QED
        BY <1>5, <2>1, <3>1, <3>2
    <2> QED
      BY <1>1, <1>3, <2>1 DEF NumbersOK
  <1>10. PhaseOK(f, c, h, new)
    BY <1>4, <1>7 DEF PhaseOK
  <1>11. EarlyOK(f, c, h, p)
    <2> SUFFICES ASSUME h.awaits
                 PROVE  /\ Mute(h.unsolicited, n) /\ Mute(way, n) /\ Says(x, n) = {}
                        /\ Answers(x) = {}
      BY <1>3 DEF EarlyOK
    <2>1. ~(n <= k.num)
      BY <1>5
    <2>2. Mute(way, n)
      BY <1>1, <2>1 DEF NumbersOK
    <2>3. Mute(h.unsolicited, n) /\ Mute(x, n)
      BY <1>1, <2>2, WayParts
    <2> QED
      BY <1>7, <2>2, <2>3 DEF Mute
  <1>12. LateOK(f, c, h, p)
    BY DEF LateOK, Operating
  <1>13. p.command # "Cancel" => Untouched(f, p.req.num)
    OBVIOUS
  <1> QED
    BY <1>2, <1>4, <1>6, <1>8, <1>9, <1>10, <1>11, <1>12, <1>13 DEF Story

LEMMA CallsBooks ==
    ASSUME IInv, Books, NEW a \in Assoc, NEW plan \in Plans, NEW awaits \in BOOLEAN,
           NEW o \in Objects, NEW r \in Requests, Calls(a, plan, awaits, o, r),
           client[a].num <= r.num,
           Head(plan) # "Cancel" => Untouched(Facts(server, a), r.num),
           awaits => /\ plan \in {<<"SBOw", "Oper">>, <<"Oper">>}
                     /\ Enhanced(server.model[o]) /\ client[a].num < r.num
    PROVE  Books'
  <1> DEFINE k == client[a]
             calls == k.calls + 1
             h == [k EXCEPT !.phase = "calling", !.plan = plan, !.awaits = awaits, !.req = r,
                            !.num = r.num, !.object = o, !.selects = FALSE, !.calls = calls]
             p == [command |-> Head(plan), object |-> o, req |-> r]
             new == IF Head(plan) = "Cancel" THEN told[a] ELSE Telling(told[a], r.num, "nothing")
             f == Facts(server, a)
  <1>1. /\ client = [b \in Assoc |-> client[b]] /\ ClientShaped(k)
        /\ inbox = [b \in Assoc |-> inbox[b]] /\ told = [b \in Assoc |-> told[b]]
        /\ Story(f, conn[a], k, inbox[a], told[a])
    BY DEF IInv, ClientsOK, InboxOK, Books
  <1>2. /\ k.phase = "idle" /\ server' = server /\ conn' = conn
        /\ client' = [client EXCEPT ![a] = h]
        /\ inbox' = [inbox EXCEPT ![a] = p]
        /\ told' = IF Head(plan) = "Cancel" THEN told ELSE [told EXCEPT ![a][r.num] = "nothing"]
    BY DEF Calls
  <1>3. told' = [told EXCEPT ![a] = new]
    BY <1>1, <1>2 DEF Telling
  <1>4. f.model = server.model
    BY DEF Facts
  <1>5. r.num \in Nums
    BY DEF Requests
  <1>6. Head(plan) \in Commands
    BY DEF Plans, Commands
  <1>7. p # None /\ p.command = Head(plan) /\ p.object = o /\ p.req = r
    BY <1>6, ServiceAssumption
  <1> HIDE DEF p, new, calls, f
  <1>8. /\ h.phase = "calling" /\ h.plan = plan /\ h.awaits = awaits /\ h.req = r
        /\ h.num = r.num /\ h.object = o /\ h.selects = FALSE
        /\ h.unsolicited = k.unsolicited
    BY <1>1 DEF ClientShaped, ClientFields
  <1>9. new = IF Head(plan) = "Cancel" THEN told[a] ELSE Telling(told[a], r.num, "nothing")
    BY DEF new
  <1>10. Head(plan) # "Cancel" => Untouched(f, r.num)
    BY DEF f
  <1> HIDE DEF h, k
  <1>11. k.num <= r.num /\ (awaits => k.num < r.num)
    BY DEF k
  <1>12. Story(f, conn[a], h, p, new)
    <2>1. h.awaits => /\ h.plan \in {<<"SBOw", "Oper">>, <<"Oper">>}
                      /\ Enhanced(f.model[h.object]) /\ k.num < h.num
      BY <1>4, <1>8, <1>11
    <2> QED
      BY <1>1, <1>2, <1>5, <1>7, <1>8, <1>9, <1>10, <1>11, <2>1, CalledStory
  <1>13. /\ client'[a] = h /\ inbox'[a] = p /\ told'[a] = new /\ conn'[a] = conn[a]
         /\ told' = [b \in Assoc |-> told'[b]]
         /\ \A b \in Assoc \ {a} : /\ conn'[b] = conn[b] /\ client'[b] = client[b]
                                   /\ inbox'[b] = inbox[b] /\ told'[b] = told[b]
    BY <1>1, <1>2, <1>3
  <1>14. Story(f, conn'[a], client'[a], inbox'[a], told'[a])
    BY Zenon, <1>12, <1>13
  <1> QED
    BY <1>2, <1>13, <1>14, OneStory DEF f

\* A new ctlNum is under nothing.
LEMMA NewNumber ==
    ASSUME Books, NEW a \in Assoc, client[a].phase = "idle", NEW r \in FreshRequests(a)
    PROVE  /\ r \in Requests /\ client[a].num < r.num /\ client[a].num <= r.num
           /\ Untouched(Facts(server, a), r.num)
  <1> DEFINE k == client[a]
             f == Facts(server, a)
  <1>1. PlanOK(f, k) /\ NumbersOK(f, conn[a], k)
    BY DEF Books, Story
  <1>2. k.num \in Nat
    BY <1>1 DEF PlanOK
  <1>3. r \in Requests /\ r.num = k.num + 1
    BY ServiceAssumption DEF FreshRequests, Requests
  <1> HIDE DEF k, f
  <1>4. r.num \in Nums /\ ~(r.num <= k.num) /\ k.num < r.num
    BY <1>2, <1>3 DEF Requests
  <1>5. Untouched(f, r.num)
    BY <1>1, <1>4 DEF NumbersOK
  <1> QED
    BY <1>2, <1>3, <1>4, <1>5 DEF k, f

LEMMA CallBooks ==
    ASSUME IInv, Books, NEW a \in Assoc,
           \/ \E o \in Objects : Execute(a, o) \/ Select(a, o) \/ Operate(a, o)
           \/ OperateSelected(a) \/ Cancel(a)
    PROVE  Books'
  <1>1. ASSUME NEW o \in Objects, Execute(a, o)
        PROVE  Books'
    <2> DEFINE m == server.model[o]
               plan == Sequence(m)
               awaits == Enhanced(m)
    <2>1. PICK r \in FreshRequests(a) : Calls(a, plan, awaits, o, r)
      BY <1>1 DEF Execute
    <2>2. client[a].phase = "idle"
      BY <2>1 DEF Calls
    <2>3. m \in Models /\ m # "StatusOnly"
      BY <1>1 DEF IInv, Shaped, Execute
    <2>4. /\ plan \in Plans /\ awaits \in BOOLEAN
          /\ awaits => plan \in {<<"SBOw", "Oper">>, <<"Oper">>}
      BY <2>3 DEF Sequence, Plans, Enhanced, Models
    <2>5. awaits => Enhanced(server.model[o])
      OBVIOUS
    <2> HIDE DEF plan, awaits
    <2> QED
      BY <2>1, <2>2, <2>4, <2>5, NewNumber, CallsBooks
  <1>2. ASSUME NEW o \in Objects, Select(a, o) \/ Operate(a, o)
        PROVE  Books'
    <2>1. PICK r \in FreshRequests(a), plan \in {<<"SBO">>, <<"SBOw">>, <<"Oper">>} :
              Calls(a, plan, FALSE, o, r)
      BY <1>2 DEF Select, Operate
    <2>2. client[a].phase = "idle" /\ plan \in Plans
      BY <2>1 DEF Calls, Plans
    <2> QED
      BY <2>1, <2>2, NewNumber, CallsBooks
  <1>3. ASSUME OperateSelected(a) \/ Cancel(a)
        PROVE  Books'
    <2> DEFINE k == client[a]
    <2>1. PICK v \in Values, w \in Nat, x \in BOOLEAN, plan \in {<<"Oper">>, <<"Cancel">>} :
              /\ Calls(a, plan, FALSE, k.object, [num |-> k.num, val |-> v, wait |-> w, test |-> x])
              /\ k.object # None \/ k.selects
              /\ plan = <<"Oper">> => k.selects
      <3>1. CASE OperateSelected(a)
        BY <3>1, ServiceAssumption DEF OperateSelected
      <3>2. CASE Cancel(a)
        <4>1. (CHOOSE v \in Values : TRUE) \in Values
          BY ControlAssumption
        <4> QED
          BY <3>2, <4>1 DEF Cancel
      <3> QED
        BY <1>3, <3>1, <3>2
    <2> DEFINE r == [num |-> k.num, val |-> v, wait |-> w, test |-> x]
    <2>2. k.object \in Objects /\ k.num \in Nums
      BY <2>1 DEF IInv, ClientsOK, ClientShaped
    <2>3. r \in Requests /\ r.num = k.num /\ k.num <= r.num /\ plan \in Plans
      <3>1. plan \in Plans
        BY DEF Plans
      <3>2. r \in Requests /\ r.num = k.num
        BY <2>2 DEF Requests
      <3>3. k.num \in Nat
        BY <2>2, ControlAssumption
      <3> HIDE DEF r, k
      <3> QED
        BY <3>1, <3>2, <3>3
    <2>4. Head(plan) # "Cancel" => Untouched(Facts(server, a), r.num)
      <3>1. k.phase = "idle"
        BY <2>1 DEF Calls
      <3>2. PhaseOK(Facts(server, a), conn[a], k, told[a])
        BY <3>1 DEF Books, Story
      <3>3. k.selects => Untouched(Facts(server, a), k.num)
        BY <3>2 DEF PhaseOK
      <3>4. Head(plan) # "Cancel" => k.selects
        BY <2>1
      <3> QED
        BY <2>3, <3>3, <3>4
    <2>5. Calls(a, plan, FALSE, k.object, r)
      BY <2>1
    <2> HIDE DEF r
    <2> QED
      BY <2>2, <2>3, <2>4, <2>5, CallsBooks
  <1> QED
    BY <1>1, <1>2, <1>3

\* What is read off the wire, and what is left of it.
LEMMA ReadOff ==
    ASSUME NEW S, NEW x \in Seq(S), x # <<>>
    PROVE  /\ Head(x) \in S /\ Tail(x) \in Seq(S) /\ Len(Tail(x)) <= Len(x)
           /\ <<Head(x)>> \in Seq(S)
           /\ x = <<Head(x)>> \o Tail(x)
  <1> DEFINE e == Head(x)
             y == Tail(x)
             b == <<e>>
  <1>1. /\ e \in S /\ y \in Seq(S) /\ Len(y) = Len(x) - 1 /\ Len(x) \in Nat /\ x[1] = e
        /\ \A i \in 1 .. Len(y) : y[i] = x[i + 1]
    BY HeadTailProperties, LenProperties
  <1> HIDE DEF e, y
  <1>2. b \in Seq(S) /\ Len(b) = 1 /\ b[1] = e
    BY <1>1
  <1> HIDE DEF b
  <1>3. /\ b \o y \in Seq(S) /\ Len(b \o y) = Len(b) + Len(y)
        /\ \A i \in 1 .. Len(b) + Len(y) :
              (b \o y)[i] = IF i <= Len(b) THEN b[i] ELSE y[i - Len(b)]
    <2>1. b \in Seq(S) /\ y \in Seq(S)
      BY <1>1, <1>2
    <2> QED
      BY Zenon, <2>1, ConcatProperties
  <1>4. Len(b \o y) = Len(x)
    BY <1>1, <1>2, <1>3
  <1>5. ASSUME NEW i \in 1 .. Len(x)
        PROVE  (b \o y)[i] = x[i]
    <2>1. i \in 1 .. Len(b) + Len(y)
      BY <1>1, <1>2
    <2>2. CASE i = 1
      BY <1>1, <1>2, <1>3, <2>1, <2>2
    <2>3. CASE i # 1
      <3>1. i - 1 \in 1 .. Len(y) /\ ~(i <= Len(b)) /\ i - Len(b) = i - 1 /\ (i - 1) + 1 = i
        BY <1>1, <1>2, <2>3
      <3> QED
        BY <1>1, <1>3, <2>1, <3>1
    <2> QED
      BY <2>2, <2>3
  <1>6. x = b \o y
    BY <1>3, <1>4, <1>5, SeqEqual
  <1>7. Len(y) <= Len(x)
    BY <1>1
  <1> QED
    BY <1>1, <1>2, <1>6, <1>7 DEF e, y, b

\* The places of what is left are one lower.
LEMMA OneLower ==
    ASSUME NEW b \in Seq(Pdus), NEW z \in Seq(Pdus)
    PROVE  Len(b) = 1 =>
           /\ 1 \in DOMAIN (b \o z) /\ (b \o z)[1] = b[1]
           /\ \A i \in DOMAIN z : i + 1 \in DOMAIN (b \o z) /\ (b \o z)[i + 1] = z[i]
           /\ \A i \in DOMAIN (b \o z) : i = 1 \/ \E j \in DOMAIN z : i = j + 1
           /\ \A i \in DOMAIN (b \o z) : i \in Nat /\ ~(i < 1)
           /\ DOMAIN z \subseteq Nat /\ 0 \notin DOMAIN z
  <1>1. /\ DOMAIN z = 1 .. Len(z) /\ Len(z) \in Nat /\ DOMAIN b = 1 .. Len(b)
        /\ DOMAIN (b \o z) = 1 .. Len(b) + Len(z)
        /\ \A i \in DOMAIN b : i \in DOMAIN (b \o z) /\ (b \o z)[i] = b[i]
        /\ \A j \in DOMAIN z : Len(b) + j \in DOMAIN (b \o z) /\ (b \o z)[Len(b) + j] = z[j]
        /\ \A i \in DOMAIN (b \o z) : i \in DOMAIN b \/ \E j \in DOMAIN z : i = Len(b) + j
    BY Joined
  <1> HAVE Len(b) = 1
  <1> DEFINE x == b \o z
  <1> HIDE DEF x
  <1>2. /\ 1 \in DOMAIN x /\ x[1] = b[1] /\ 0 \notin DOMAIN z
        /\ DOMAIN z \subseteq Nat /\ \A i \in DOMAIN x : i \in Nat /\ ~(i < 1)
    BY <1>1 DEF x
  <1>3. \A j \in DOMAIN z : Len(b) + j = j + 1
    BY <1>1
  <1>4. \A i \in DOMAIN b : i = 1
    BY <1>1
  <1> QED
    BY <1>1, <1>2, <1>3, <1>4 DEF x

\* The wire loses its head, which the caller has or drops.
LEMMA ShorterWay ==
    ASSUME NEW f, NEW c, NEW k, FlowOK(f, c, k), c.wire # <<>>, NEW e, e = Head(c.wire)
    PROVE  /\ e \in Pdus /\ <<e>> \in Seq(Pdus)
           /\ Tail(c.wire) \in Seq(Pdus) /\ Len(Tail(c.wire)) <= SocketCap
           /\ c.wire = <<e>> \o Tail(c.wire)
           /\ Line(c) = <<e>> \o (Tail(c.wire) \o c.unsent)
           /\ Tail(c.wire) \o c.unsent \in Seq(Pdus)
           /\ Way(c, k, f.owed) =
                (k.unsolicited \o <<e>>) \o Tail(c.wire) \o c.unsent \o c.queue \o f.owed
  <1> DEFINE u == k.unsolicited
             w == c.wire
             b == <<e>>
             y == Tail(w)
             t == c.unsent
  <1>1. u \in Seq(Pdus) /\ w \in Seq(Pdus) /\ t \in Seq(Pdus) /\ w # <<>>
        /\ Len(w) <= SocketCap
    BY DEF FlowOK
  <1>2. /\ e \in Pdus /\ b \in Seq(Pdus) /\ y \in Seq(Pdus) /\ Len(y) <= Len(w)
        /\ w = b \o y
    <2> HIDE DEF w
    <2>1. e = Head(w)
      BY DEF w
    <2> QED
      BY <1>1, <2>1, ReadOff
  <1>3. Len(y) <= SocketCap
    <2>1. Len(y) \in Nat /\ Len(w) \in Nat /\ SocketCap \in Nat
      BY <1>1, <1>2, LenProperties, ServiceAssumption
    <2> HIDE DEF y, w
    <2> QED
      BY <1>1, <1>2, <2>1
  <1>4. Line(c) = w \o t /\ Way(c, k, f.owed) = u \o w \o t \o c.queue \o f.owed
    BY DEF Line, Way
  <1> HIDE DEF u, w, b, y, t
  <1>5. w \o t = b \o (y \o t) /\ y \o t \in Seq(Pdus)
    <2>1. b \in Seq(Pdus) /\ y \in Seq(Pdus) /\ t \in Seq(Pdus)
      BY <1>1, <1>2
    <2>2. (b \o y) \o t = b \o (y \o t) /\ y \o t \in Seq(Pdus)
      BY <2>1, ThreeJoined
    <2> QED
      BY Zenon, <1>2, <2>2
  <1>6. u \o w = (u \o b) \o y
    <2>1. b \in Seq(Pdus) /\ y \in Seq(Pdus) /\ u \in Seq(Pdus)
      BY <1>1, <1>2
    <2>2. (u \o b) \o y = u \o (b \o y)
      BY <2>1, ThreeJoined
    <2> QED
      BY Zenon, <1>2, <2>2
  <1> QED
    BY <1>2, <1>3, <1>4, <1>5, <1>6 DEF u, w, b, y, t

\* A termination passes from the wire to what the client keeps.
LEMMA TerminationReadStory ==
    ASSUME NEW f, NEW c, NEW k, NEW q, NEW td, Story(f, c, k, q, td), k.phase # "gone",
           c.wire # <<>>, Head(c.wire).kind = "termination",
           NEW d, d.wire = Tail(c.wire), d.unsent = c.unsent, d.queue = c.queue,
           d.at = c.at, d.stalled = c.stalled,
           NEW h, h.unsolicited = Append(k.unsolicited, Head(c.wire)),
           h.phase = k.phase, h.plan = k.plan, h.awaits = k.awaits, h.req = k.req,
           h.num = k.num, h.object = k.object, h.selects = k.selects
    PROVE  Story(f, d, h, q, td)
  <1> DEFINE e == Head(c.wire)
             n == k.num
             x == Line(c)
             z == Line(d)
             way == Way(c, k, f.owed)
  <1>1. /\ FlowOK(f, c, k) /\ ToldOK(f, td) /\ td = [m \in Nums |-> td[m]]
        /\ PlanOK(f, k) /\ OneAtATime(c, k, q) /\ NumbersOK(f, c, k)
        /\ PhaseOK(f, c, k, td) /\ EarlyOK(f, c, k, q) /\ LateOK(f, c, k, q)
        /\ q # None /\ q.command # "Cancel" => Untouched(f, q.req.num)
    BY DEF Story
  <1>2. /\ e \in Pdus /\ <<e>> \in Seq(Pdus) /\ e.kind = "termination"
        /\ Tail(c.wire) \in Seq(Pdus) /\ Len(Tail(c.wire)) <= SocketCap
        /\ x = <<e>> \o (Tail(c.wire) \o c.unsent)
        /\ Tail(c.wire) \o c.unsent \in Seq(Pdus)
        /\ way = (k.unsolicited \o <<e>>) \o Tail(c.wire) \o c.unsent \o c.queue \o f.owed
    <2>1. FlowOK(f, c, k) /\ c.wire # <<>> /\ e = Head(c.wire) /\ e.kind = "termination"
      BY <1>1
    <2> HIDE DEF e
    <2>2. /\ e \in Pdus /\ <<e>> \in Seq(Pdus)
          /\ Tail(c.wire) \in Seq(Pdus) /\ Len(Tail(c.wire)) <= SocketCap
          /\ Line(c) = <<e>> \o (Tail(c.wire) \o c.unsent)
          /\ Tail(c.wire) \o c.unsent \in Seq(Pdus)
          /\ Way(c, k, f.owed) =
                (k.unsolicited \o <<e>>) \o Tail(c.wire) \o c.unsent \o c.queue \o f.owed
      BY ZenonT(60), <2>1, ShorterWay
    <2> QED
      BY Zenon, <2>1, <2>2
  <1> HIDE DEF e
  <1>3. h.unsolicited \in Seq(Pdus) /\ h.unsolicited = k.unsolicited \o <<e>>
    <2> DEFINE u == k.unsolicited
    <2>1. u \in Seq(Pdus)
      BY <1>1 DEF FlowOK
    <2> HIDE DEF u
    <2>2. Append(u, e) \in Seq(Pdus) /\ Append(u, e) = u \o <<e>>
      BY <1>2, <2>1, AppendProperties, AppendIsConcat
    <2> QED
      BY <2>2 DEF u, e
  <1>4. Answers(<<e>>) = {} /\ \A m : Mute(<<e>>, m) <=> e.num # m
    <2> DEFINE b == <<e>>
    <2>1. DOMAIN b = {1} /\ b[1] = e
      OBVIOUS
    <2> HIDE DEF b
    <2>2. Answers(b) = {} /\ \A m : Mute(b, m) <=> e.num # m
      BY <1>2, <2>1 DEF Answers, Mute, Says
    <2> QED
      BY <2>2 DEF b
  <1>5. Answers(h.unsolicited) = {}
        /\ \A m : Mute(h.unsolicited, m) <=> Mute(k.unsolicited, m) /\ e.num # m
    <2> DEFINE u == k.unsolicited
               b == <<e>>
    <2>1. u \in Seq(Pdus) /\ Answers(u) = {} /\ b \in Seq(Pdus)
      BY <1>1, <1>2 DEF FlowOK
    <2>2. Answers(b) = {} /\ \A m : Mute(b, m) <=> e.num # m
      BY <1>4
    <2>3. h.unsolicited = u \o b
      BY <1>3
    <2> HIDE DEF u, b
    <2>4. Answers(u \o b) = {} /\ \A m : Mute(u \o b, m) <=> Mute(u, m) /\ Mute(b, m)
      BY <2>1, <2>2, JoinedSays
    <2> QED
      BY <2>2, <2>3, <2>4 DEF u
  <1>6. FlowOK(f, d, h)
    BY <1>1, <1>2, <1>3, <1>5 DEF FlowOK
  <1>7. Way(d, h, f.owed) = way
    BY <1>2, <1>3 DEF Way
  <1>8. x = <<e>> \o z /\ z \in Seq(Pdus)
    BY <1>2 DEF Line
  <1> HIDE DEF x, z
  <1>9. /\ 1 \in DOMAIN x /\ x[1] = e
        /\ \A i \in DOMAIN z : i + 1 \in DOMAIN x /\ x[i + 1] = z[i]
        /\ \A i \in DOMAIN x : i = 1 \/ \E j \in DOMAIN z : i = j + 1
        /\ \A i \in DOMAIN x : i \in Nat /\ ~(i < 1)
        /\ DOMAIN z \subseteq Nat
    <2> DEFINE b == <<e>>
    <2>1. b \in Seq(Pdus) /\ Len(b) = 1 /\ b[1] = e /\ x = b \o z /\ z \in Seq(Pdus)
      BY <1>2, <1>8
    <2> HIDE DEF b
    <2>2. /\ 1 \in DOMAIN (b \o z) /\ (b \o z)[1] = b[1]
          /\ \A i \in DOMAIN z : i + 1 \in DOMAIN (b \o z) /\ (b \o z)[i + 1] = z[i]
          /\ \A i \in DOMAIN (b \o z) : i = 1 \/ \E j \in DOMAIN z : i = j + 1
          /\ \A i \in DOMAIN (b \o z) : i \in Nat /\ ~(i < 1)
          /\ DOMAIN z \subseteq Nat
      BY <2>1, OneLower
    <2> QED
      BY Zenon, <2>1, <2>2
  <1>10. /\ \A i \in Answers(z) : i + 1 \in Answers(x) /\ x[i + 1] = z[i]
         /\ \A i \in Answers(x) : \E j \in Answers(z) : i = j + 1
         /\ Answers(z) \subseteq Nat
    <2>1. \A i \in Answers(z) : i + 1 \in Answers(x) /\ x[i + 1] = z[i] /\ i \in Nat
      BY <1>9 DEF Answers
    <2>2. ASSUME NEW i \in Answers(x)
          PROVE  \E j \in Answers(z) : i = j + 1
      <3>1. i \in DOMAIN x /\ x[i].kind = "answer"
        BY DEF Answers
      <3>2. i # 1
        BY <1>2, <1>9, <3>1
      <3>3. PICK j \in DOMAIN z : i = j + 1
        BY <1>9, <3>1, <3>2
      <3>4. j \in Answers(z)
        BY <1>9, <3>1, <3>3 DEF Answers
      <3> QED
        BY <3>3, <3>4
    <2> QED
      BY <2>1, <2>2
  <1>11. /\ \A j \in Says(z, n) : j + 1 \in Says(x, n)
         /\ e.num = n => 1 \in Says(x, n)
         /\ Says(z, n) \subseteq Nat
    BY <1>2, <1>9 DEF Says
  <1>12. PlanOK(f, h)
    BY <1>1 DEF PlanOK
  <1>13. OneAtATime(d, h, q)
    <2>1. \A i, j \in Answers(z) : i = j
      <3> SUFFICES ASSUME NEW i \in Answers(z), NEW j \in Answers(z) PROVE i = j
        OBVIOUS
      <3>1. i + 1 = j + 1 /\ i \in Nat /\ j \in Nat
        BY <1>1, <1>10 DEF OneAtATime, x
      <3> QED
        BY <3>1
    <2>2. Answers(z) = {} <=> Answers(x) = {}
      BY <1>10
    <2> QED
      BY <1>1, <2>1, <2>2 DEF OneAtATime, x, z
  <1>14. NumbersOK(f, d, h)
    BY <1>1, <1>7 DEF NumbersOK, way
  <1>15. PhaseOK(f, d, h, td)
    BY <1>1, <1>10 DEF PhaseOK, x, z
  <1>16. EarlyOK(f, d, h, q)
    <2> SUFFICES ASSUME k.phase = "calling", k.awaits
                 PROVE  /\ Mute(h.unsolicited, n)
                        /\ q # None => Mute(way, n)
                        /\ \A i \in Answers(z) : z[i].ok /\ Len(k.plan) = 2 => Mute(way, n)
                        /\ \A j \in Says(z, n) : \E i \in Answers(z) : i < j
      BY <1>7 DEF EarlyOK, z
    <2>1. /\ Mute(k.unsolicited, n)
          /\ q # None => Mute(way, n)
          /\ \A i \in Answers(x) : x[i].ok /\ Len(k.plan) = 2 => Mute(way, n)
          /\ \A j \in Says(x, n) : \E i \in Answers(x) : i < j
      BY <1>1 DEF EarlyOK, way, x
    <2>2. e.num # n
      <3> SUFFICES ASSUME e.num = n PROVE FALSE
        OBVIOUS
      <3>1. PICK i \in Answers(x) : i < 1
        BY <1>11, <2>1
      <3> QED
        BY <1>9, <3>1 DEF Answers
    <2>3. ASSUME NEW j \in Says(z, n)
          PROVE  \E i \in Answers(z) : i < j
      <3>1. PICK i \in Answers(x) : i < j + 1
        BY <1>11, <2>1
      <3>2. PICK l \in Answers(z) : i = l + 1
        BY <1>10
      <3>3. l \in Nat /\ j \in Nat
        BY <1>10, <1>11
      <3> QED
        BY <3>1, <3>2, <3>3
    <2> QED
      BY <1>5, <1>10, <2>1, <2>2, <2>3
  <1>17. LateOK(f, d, h, q)
    BY <1>1, <1>7 DEF LateOK, Operating, way
  <1> QED
    BY <1>1, <1>6, <1>12, <1>13, <1>14, <1>15, <1>16, <1>17 DEF Story

LEMMA TerminationReadBooks ==
    ASSUME IInv, Books, NEW a \in Assoc, ReadTermination(a)
    PROVE  Books'
  <1> DEFINE k == client[a]
             c == conn[a]
             e == Head(c.wire)
             unsolicited == Append(k.unsolicited, e)
             wire == Tail(c.wire)
             h == [k EXCEPT !.unsolicited = unsolicited]
             d == [c EXCEPT !.wire = wire]
             f == Facts(server, a)
  <1>1. /\ client = [b \in Assoc |-> client[b]] /\ ClientShaped(k)
        /\ conn = [b \in Assoc |-> conn[b]] /\ ConnShaped(c)
        /\ told = [b \in Assoc |-> told[b]]
        /\ Story(f, c, k, inbox[a], told[a])
    BY DEF IInv, ClientsOK, ThreadsOK, Conns, Books
  <1>2. /\ k.phase # "gone" /\ c.wire # <<>> /\ e.kind = "termination"
        /\ server' = server /\ inbox' = inbox /\ told' = told
    BY DEF ReadTermination, Gone
  <1>3. conn' = [conn EXCEPT ![a] = d] /\ client' = [client EXCEPT ![a] = h]
    BY <1>1 DEF ReadTermination, Unread
  <1> HIDE DEF unsolicited, wire
  <1>4. /\ h.unsolicited = unsolicited
        /\ h.phase = k.phase /\ h.plan = k.plan /\ h.awaits = k.awaits /\ h.req = k.req
        /\ h.num = k.num /\ h.object = k.object /\ h.selects = k.selects
    BY <1>1 DEF ClientShaped, ClientFields
  <1>5. /\ d.wire = wire /\ d.unsent = c.unsent /\ d.queue = c.queue
        /\ d.at = c.at /\ d.stalled = c.stalled
    BY <1>1 DEF ConnShaped, ConnFields
  <1>6. h.unsolicited = Append(k.unsolicited, Head(c.wire)) /\ d.wire = Tail(c.wire)
    BY <1>4, <1>5 DEF unsolicited, wire
  <1> HIDE DEF h, d, f
  <1>7. Story(f, d, h, inbox[a], told[a])
    <2> HIDE DEF k, c
    <2> QED
      BY <1>1, <1>2, <1>4, <1>5, <1>6, TerminationReadStory DEF e
  <1>8. /\ conn'[a] = d /\ client'[a] = h
        /\ \A b \in Assoc \ {a} : conn'[b] = conn[b] /\ client'[b] = client[b]
    BY <1>1, <1>3
  <1>9. Story(f, conn'[a], client'[a], inbox'[a], told'[a])
    BY Zenon, <1>2, <1>7, <1>8
  <1> QED
    BY <1>1, <1>2, <1>8, <1>9, OneStory DEF f

\* An answer says nothing of any command.
LEMMA MuteMiddle ==
    ASSUME NEW u \in Seq(Pdus), NEW b \in Seq(Pdus), NEW r \in Seq(Pdus),
           \A m : Mute(b, m)
    PROVE  \A m, ok : /\ Mute((u \o b) \o r, m) => Mute(u \o r, m)
                      /\ SaysOnly((u \o b) \o r, m, ok) => SaysOnly(u \o r, m, ok)
                      /\ SaysOnce((u \o b) \o r, m, ok) => SaysOnce(u \o r, m, ok)
  <1> SUFFICES ASSUME NEW m, NEW ok
               PROVE  /\ Mute((u \o b) \o r, m) => Mute(u \o r, m)
                      /\ SaysOnly((u \o b) \o r, m, ok) => SaysOnly(u \o r, m, ok)
                      /\ SaysOnce((u \o b) \o r, m, ok) => SaysOnce(u \o r, m, ok)
    OBVIOUS
  <1> DEFINE ub == u \o b
             v == ub \o r
             z == u \o r
  <1>1. ub \in Seq(Pdus) /\ (Mute(ub, m) <=> Mute(u, m) /\ Mute(b, m))
        /\ (SaysOnly(ub, m, ok) <=> SaysOnly(u, m, ok) /\ SaysOnly(b, m, ok))
        /\ (SaysOnce(ub, m, ok) <=> \/ SaysOnce(u, m, ok) /\ Mute(b, m)
                                    \/ Mute(u, m) /\ SaysOnce(b, m, ok))
    BY Joined, JoinedSays, JoinedSaysOnly, JoinedSaysOnce
  <1> HIDE DEF ub
  <1>2. /\ Mute(v, m) <=> Mute(ub, m) /\ Mute(r, m)
        /\ SaysOnly(v, m, ok) <=> SaysOnly(ub, m, ok) /\ SaysOnly(r, m, ok)
        /\ SaysOnce(v, m, ok) <=> \/ SaysOnce(ub, m, ok) /\ Mute(r, m)
                                  \/ Mute(ub, m) /\ SaysOnce(r, m, ok)
    BY <1>1, JoinedSays, JoinedSaysOnly, JoinedSaysOnce
  <1>3. /\ Mute(z, m) <=> Mute(u, m) /\ Mute(r, m)
        /\ SaysOnly(z, m, ok) <=> SaysOnly(u, m, ok) /\ SaysOnly(r, m, ok)
        /\ SaysOnce(z, m, ok) <=> \/ SaysOnce(u, m, ok) /\ Mute(r, m)
                                  \/ Mute(u, m) /\ SaysOnce(r, m, ok)
    BY JoinedSays, JoinedSaysOnly, JoinedSaysOnce
  <1> HIDE DEF v, z
  <1>4. Mute(b, m) /\ ~SaysOnce(b, m, ok)
    BY DEF Mute, SaysOnce
  <1>5. /\ Mute(v, m) => Mute(z, m)
        /\ SaysOnly(v, m, ok) => SaysOnly(z, m, ok)
        /\ SaysOnce(v, m, ok) => SaysOnce(z, m, ok)
    BY <1>1, <1>2, <1>3, <1>4
  <1> QED
    BY Zenon, <1>5 DEF ub, v, z

\* What is so when the client has read the answer `e` to the command in flight.
Answering(f, c, d, k, q, e) ==
    /\ FlowOK(f, d, k) /\ Answers(Line(d)) = {} /\ q = None
    /\ \A m, ok : /\ Mute(Way(c, k, f.owed), m) => Mute(Way(d, k, f.owed), m)
                  /\ SaysOnly(Way(c, k, f.owed), m, ok) => SaysOnly(Way(d, k, f.owed), m, ok)
                  /\ SaysOnce(Way(c, k, f.owed), m, ok) => SaysOnce(Way(d, k, f.owed), m, ok)
    /\ d.at = c.at /\ d.stalled = c.stalled
    /\ ~e.ok /\ Head(k.plan) # "Cancel" => Untouched(f, k.num)
    /\ e.ok /\ Head(k.plan) = "Oper" /\ ~Enhanced(f.model[k.object]) /\ k.req.wait = 0
         => k.num \in f.ran
    /\ e.ok /\ k.awaits /\ Len(k.plan) = 2 => Mute(Way(c, k, f.owed), k.num)

LEMMA AnswerRead ==
    ASSUME NEW f, NEW c, NEW k, NEW q, NEW td, Story(f, c, k, q, td), k.phase = "calling",
           c.wire # <<>>, NEW e, e = Head(c.wire), e.kind = "answer",
           NEW d, d.wire = Tail(c.wire), d.unsent = c.unsent, d.queue = c.queue,
           d.at = c.at, d.stalled = c.stalled
    PROVE  Answering(f, c, d, k, q, e)
  <1> DEFINE x == Line(c)
             z == Line(d)
             u == k.unsolicited
             y == Tail(c.wire)
             t == c.unsent
             r == c.queue
             p == f.owed
             b == <<e>>
             way == Way(c, k, f.owed)
             v == Way(d, k, f.owed)
  <1>1. /\ FlowOK(f, c, k) /\ OneAtATime(c, k, q) /\ PhaseOK(f, c, k, td) /\ EarlyOK(f, c, k, q)
    BY DEF Story
  <1>2. /\ e \in Pdus /\ b \in Seq(Pdus) /\ y \in Seq(Pdus) /\ Len(y) <= SocketCap
        /\ x = b \o (y \o t) /\ y \o t \in Seq(Pdus)
        /\ way = (u \o b) \o y \o t \o r \o p
    BY ZenonT(40), <1>1, ShorterWay
  <1>3. FlowOK(f, d, k)
    <2>1. /\ d.wire \in Seq(Pdus) /\ Len(d.wire) <= SocketCap
      BY Zenon, <1>2
    <2> QED
      BY <1>1, <2>1 DEF FlowOK
  <1>4. x = b \o z /\ z \in Seq(Pdus) /\ v = u \o y \o t \o r \o p
    BY <1>2 DEF Line, Way
  <1>5. u \in Seq(Pdus) /\ t \in Seq(Pdus) /\ r \in Seq(Pdus) /\ p \in Seq(Pdus)
    BY <1>1 DEF FlowOK
  <1>6. \A m : Mute(b, m)
    <2>1. DOMAIN b = {1} /\ b[1] = e
      OBVIOUS
    <2> HIDE DEF b
    <2> QED
      BY <2>1 DEF Mute, Says
  <1> HIDE DEF x, z, way, v
  <1>7. /\ 1 \in DOMAIN x /\ x[1] = e
        /\ \A i \in DOMAIN z : i + 1 \in DOMAIN x /\ x[i + 1] = z[i]
        /\ DOMAIN z \subseteq Nat /\ \A i \in DOMAIN x : i \in Nat /\ ~(i < 1)
    <2>1. b \in Seq(Pdus) /\ Len(b) = 1 /\ b[1] = e /\ x = b \o z /\ z \in Seq(Pdus)
      BY <1>2, <1>4
    <2> HIDE DEF b
    <2>2. /\ 1 \in DOMAIN (b \o z) /\ (b \o z)[1] = b[1]
          /\ \A i \in DOMAIN z : i + 1 \in DOMAIN (b \o z) /\ (b \o z)[i + 1] = z[i]
          /\ DOMAIN z \subseteq Nat /\ \A i \in DOMAIN (b \o z) : i \in Nat /\ ~(i < 1)
      BY <2>1, OneLower
    <2> QED
      BY Zenon, <2>1, <2>2
  <1>8. 1 \in Answers(x) /\ Answers(z) = {}
    <2>1. 1 \in Answers(x)
      BY <1>7 DEF Answers
    <2>2. ASSUME NEW i \in Answers(z) PROVE FALSE
      <3>1. i + 1 \in Answers(x) /\ i \in Nat /\ i \in DOMAIN z
        BY <1>7 DEF Answers
      <3>2. i + 1 = 1
        BY <1>1, <2>1, <3>1 DEF OneAtATime, x
      <3>3. i = 0
        BY <3>1, <3>2
      <3>4. DOMAIN z = 1 .. Len(z)
        BY <1>4, LenProperties
      <3> QED
        BY <3>1, <3>3, <3>4
    <2> QED
      BY <2>1, <2>2
  <1>9. q = None
    BY <1>1, <1>8 DEF OneAtATime, x
  <1>10. \A m, ok : /\ Mute(way, m) => Mute(v, m)
                    /\ SaysOnly(way, m, ok) => SaysOnly(v, m, ok)
                    /\ SaysOnce(way, m, ok) => SaysOnce(v, m, ok)
    <2> DEFINE rest == ((y \o t) \o r) \o p
    <2> HIDE DEF u, y, t, r, p, b
    <2>1. rest \in Seq(Pdus)
      <3>1. (y \o t) \o r \in Seq(Pdus)
        BY <1>2, <1>5, ThreeJoined
      <3> QED
        BY <1>5, <3>1, Joined
    <2>2. ASSUME NEW w \in Seq(Pdus)
          PROVE  ((w \o y) \o t) \o r \o p = w \o rest
      <3>1. (w \o y) \o t = w \o (y \o t)
        <4>1. w \in Seq(Pdus) /\ y \in Seq(Pdus) /\ t \in Seq(Pdus)
          BY <1>2, <1>5
        <4> QED
          BY <4>1, ThreeJoined
      <3> DEFINE yt == y \o t
      <3>2. yt \in Seq(Pdus)
        BY <1>2
      <3> HIDE DEF yt
      <3>3. (w \o yt) \o r = w \o (yt \o r) /\ yt \o r \in Seq(Pdus)
        <4>1. w \in Seq(Pdus) /\ yt \in Seq(Pdus) /\ r \in Seq(Pdus)
          BY <1>5, <2>2, <3>2
        <4> QED
          BY <4>1, ThreeJoined
      <3> DEFINE yr == yt \o r
      <3> HIDE DEF yr
      <3>4. (w \o yr) \o p = w \o (yr \o p)
        <4>1. w \in Seq(Pdus) /\ yr \in Seq(Pdus) /\ p \in Seq(Pdus)
          BY <1>5, <2>2, <3>3 DEF yr
        <4> QED
          BY <4>1, ThreeJoined
      <3> QED
        BY <3>1, <3>3, <3>4 DEF yt, yr
    <2>3. v = u \o rest
      BY <1>4, <1>5, <2>2
    <2>4. way = (u \o b) \o rest
      <3> DEFINE ub == u \o b
      <3>1. ub \in Seq(Pdus)
        BY <1>2, <1>5, Joined
      <3> HIDE DEF ub
      <3>2. ((ub \o y) \o t) \o r \o p = ub \o rest
        BY <2>2, <3>1
      <3> QED
        BY <1>2, <3>2 DEF ub
    <2> HIDE DEF rest
    <2>5. u \in Seq(Pdus) /\ b \in Seq(Pdus) /\ \A m : Mute(b, m)
      BY <1>2, <1>5, <1>6
    <2>6. \A m, ok : /\ Mute((u \o b) \o rest, m) => Mute(u \o rest, m)
                     /\ SaysOnly((u \o b) \o rest, m, ok) => SaysOnly(u \o rest, m, ok)
                     /\ SaysOnce((u \o b) \o rest, m, ok) => SaysOnce(u \o rest, m, ok)
      BY <2>1, <2>5, MuteMiddle
    <2> QED
      BY Zenon, <2>3, <2>4, <2>6
  <1>11. /\ ~e.ok /\ Head(k.plan) # "Cancel" => Untouched(f, k.num)
         /\ e.ok /\ Head(k.plan) = "Oper" /\ ~Enhanced(f.model[k.object]) /\ k.req.wait = 0
               => k.num \in f.ran
    BY <1>1, <1>7, <1>8 DEF PhaseOK, x
  <1>12. e.ok /\ k.awaits /\ Len(k.plan) = 2 => Mute(way, k.num)
    BY <1>1, <1>7, <1>8 DEF EarlyOK, x, way
  <1> QED
    BY <1>3, <1>8, <1>9, <1>10, <1>11, <1>12 DEF Answering, way, v, z

\* The next command of the call goes out.
LEMMA NextCommandStory ==
    ASSUME NEW f, NEW c, NEW k, NEW q, NEW td, Story(f, c, k, q, td), k.phase = "calling",
           NEW d, NEW e, Answering(f, c, d, k, q, e), e.ok, Len(k.plan) > 1,
           NEW h, h.plan = Tail(k.plan), h.unsolicited = k.unsolicited,
           h.phase = k.phase, h.awaits = k.awaits, h.req = k.req,
           h.num = k.num, h.object = k.object, h.selects = k.selects,
           NEW p, p # None, p.command = k.plan[2], p.object = k.object, p.req = k.req
    PROVE  Story(f, d, h, p, td)
  <1> DEFINE n == k.num
             way == Way(c, k, f.owed)
             v == Way(d, k, f.owed)
  <1>1. /\ ToldOK(f, td) /\ td = [m \in Nums |-> td[m]]
        /\ PlanOK(f, k) /\ OneAtATime(c, k, q) /\ NumbersOK(f, c, k)
        /\ PhaseOK(f, c, k, td) /\ EarlyOK(f, c, k, q)
    BY DEF Story
  <1>2. /\ FlowOK(f, d, k) /\ Answers(Line(d)) = {}
        /\ \A m : Mute(way, m) => Mute(v, m)
        /\ k.awaits /\ Len(k.plan) = 2 => Mute(way, n)
    BY DEF Answering
  <1>3. /\ k.plan \in {<<"SBO", "Oper">>, <<"SBOw", "Oper">>}
        /\ Len(k.plan) = 2 /\ k.plan[2] = "Oper" /\ h.plan = <<"Oper">>
        /\ Head(k.plan) \in {"SBO", "SBOw"} /\ k.req.num = n
    <2> DEFINE plan == k.plan
    <2>1. plan \in Plans /\ Len(plan) > 1 /\ h.plan = Tail(plan) /\ k.req.num = n
      BY <1>1 DEF PlanOK
    <2> HIDE DEF plan
    <2>2. plan \in {<<"SBO", "Oper">>, <<"SBOw", "Oper">>}
      BY <2>1 DEF Plans
    <2>3. CASE plan = <<"SBO", "Oper">>
      BY <2>1, <2>3 DEF plan
    <2>4. CASE plan = <<"SBOw", "Oper">>
      BY <2>1, <2>4 DEF plan
    <2> QED
      BY <2>2, <2>3, <2>4
  <1>4. Untouched(f, n) /\ td[n] = "nothing"
    BY <1>1, <1>3 DEF PhaseOK
  <1>5. FlowOK(f, d, h) /\ Way(d, h, f.owed) = v
    BY <1>2 DEF FlowOK, Way
  <1>6. PlanOK(f, h)
    BY <1>1, <1>3 DEF PlanOK, Plans
  <1>7. OneAtATime(d, h, p)
    BY <1>2, <1>3 DEF OneAtATime
  <1> HIDE DEF way, v
  <1>8. NumbersOK(f, d, h)
    BY <1>1, <1>2, <1>5 DEF NumbersOK, way
  <1>9. PhaseOK(f, d, h, td)
    BY <1>1, <1>2, <1>3, <1>4 DEF PhaseOK
  <1>10. EarlyOK(f, d, h, p)
    <2> SUFFICES ASSUME k.awaits
                 PROVE  Mute(h.unsolicited, n) /\ Mute(v, n) /\ Says(Line(d), n) = {}
      BY <1>2, <1>5 DEF EarlyOK
    <2>1. Mute(v, n)
      BY <1>2, <1>3
    <2>2. Mute(Way(d, k, f.owed), n)
      BY <2>1 DEF v
    <2>3. Mute(k.unsolicited, n) /\ Mute(Line(d), n)
      BY <1>2, <2>2, WayParts
    <2> QED
      BY <2>1, <2>3 DEF Mute
  <1>11. LateOK(f, d, h, p)
    BY DEF LateOK, Operating
  <1>12. p.command # "Cancel" => Untouched(f, p.req.num)
    BY <1>3, <1>4
  <1> QED
    BY <1>1, <1>5, <1>6, <1>7, <1>8, <1>9, <1>10, <1>11, <1>12 DEF Story

\* A call is over, or waits for a termination: what has been told is so.
LEMMA RestingStory ==
    ASSUME NEW f, NEW d, NEW k, NEW q, NEW h, NEW td, PlanOK(f, k), NumbersOK(f, d, h),
           FlowOK(f, d, h), Answers(Line(d)) = {},
           ToldOK(f, td), td = [m \in Nums |-> td[m]],
           h.num = k.num, h.object = k.object, h.phase \in {"idle", "explaining"},
           h.phase = "idle" => ~h.awaits,
           h.phase = "explaining" =>
               /\ k.phase = "calling" /\ h.plan = k.plan /\ h.req = k.req
               /\ Head(h.plan) # "Cancel" => Untouched(f, h.num),
           h.selects => h.phase = "idle" /\ Untouched(f, h.num)
    PROVE  Story(f, d, h, None, td)
  <1>1. PlanOK(f, h)
    BY DEF PlanOK
  <1>2. OneAtATime(d, h, None)
    BY DEF OneAtATime
  <1>3. PhaseOK(f, d, h, td)
    BY DEF PhaseOK
  <1>4. EarlyOK(f, d, h, None) /\ LateOK(f, d, h, None)
    BY DEF EarlyOK, LateOK, Operating
  <1> QED
    BY <1>1, <1>2, <1>3, <1>4 DEF Story

\* What a caller may be told.
LEMMA TellingTruth ==
    ASSUME NEW f, NEW td, ToldOK(f, td), td = [m \in Nums |-> td[m]], NEW n \in Nums,
           NEW what, what = "done" => n \in f.ran, what = "refused" => Untouched(f, n)
    PROVE  /\ ToldOK(f, Telling(td, n, what))
           /\ Telling(td, n, what) = [m \in Nums |-> Telling(td, n, what)[m]]
  <1> DEFINE new == Telling(td, n, what)
  <1>1. /\ new = [m \in Nums |-> new[m]] /\ new[n] = what
        /\ \A m \in Nums \ {n} : new[m] = td[m]
    BY TellingOne
  <1> HIDE DEF new
  <1>2. ToldOK(f, new)
    BY <1>1 DEF ToldOK
  <1> QED
    BY <1>1, <1>2 DEF new

\* The last answer of a call that waits for no termination.
LEMMA LastAnswerStory ==
    ASSUME NEW f, NEW c, NEW k, NEW q, NEW td, Story(f, c, k, q, td), k.phase = "calling",
           NEW d, NEW e, Answering(f, c, d, k, q, e),
           NEW h, h.unsolicited = k.unsolicited, h.num = k.num, h.object = k.object,
           NEW new,
           \/ /\ e.ok /\ h.phase = "idle" /\ ~h.awaits
              /\ h.selects => Head(k.plan) \in {"SBO", "SBOw"}
              /\ IF Head(k.plan) = "Oper" /\ ~Enhanced(f.model[k.object])
                 THEN new = Telling(td, k.num, IF k.req.wait = 0 THEN "done" ELSE "accepted")
                 ELSE new = td
           \/ /\ ~e.ok /\ h.phase = "idle" /\ ~h.awaits /\ ~h.selects
              /\ Head(k.plan) = "SBO" /\ new = Telling(td, k.num, "refused")
           \/ /\ ~e.ok /\ h.phase = "explaining" /\ h.plan = k.plan /\ h.req = k.req
              /\ ~h.selects /\ new = td
    PROVE  Story(f, d, h, None, new)
  <1>1. /\ ToldOK(f, td) /\ td = [m \in Nums |-> td[m]]
        /\ PlanOK(f, k) /\ NumbersOK(f, c, k) /\ PhaseOK(f, c, k, td)
    BY DEF Story
  <1>2. /\ FlowOK(f, d, k) /\ Answers(Line(d)) = {}
        /\ \A m : Mute(Way(c, k, f.owed), m) => Mute(Way(d, k, f.owed), m)
        /\ ~e.ok /\ Head(k.plan) # "Cancel" => Untouched(f, k.num)
        /\ e.ok /\ Head(k.plan) = "Oper" /\ ~Enhanced(f.model[k.object]) /\ k.req.wait = 0
             => k.num \in f.ran
    BY DEF Answering
  <1>3. FlowOK(f, d, h) /\ Way(d, h, f.owed) = Way(d, k, f.owed)
    BY <1>2 DEF FlowOK, Way
  <1>4. NumbersOK(f, d, h)
    BY <1>1, <1>2, <1>3 DEF NumbersOK
  <1>5. k.num \in Nums
    BY <1>1 DEF PlanOK
  <1>6. Head(k.plan) \in {"SBO", "SBOw"} => Untouched(f, k.num)
    BY <1>1 DEF PhaseOK
  <1>7. ToldOK(f, new) /\ new = [m \in Nums |-> new[m]]
    <2>1. new \in {td, Telling(td, k.num, "accepted")}
          \/ (new = Telling(td, k.num, "done") /\ k.num \in f.ran)
          \/ (new = Telling(td, k.num, "refused") /\ Untouched(f, k.num))
      BY <1>2
    <2> QED
      BY <1>1, <1>5, <2>1, TellingTruth
  <1>8. /\ h.phase \in {"idle", "explaining"}
        /\ h.phase = "idle" => ~h.awaits
        /\ h.phase = "explaining" =>
               /\ k.phase = "calling" /\ h.plan = k.plan /\ h.req = k.req
               /\ Head(h.plan) # "Cancel" => Untouched(f, h.num)
        /\ h.selects => h.phase = "idle" /\ Untouched(f, h.num)
    BY <1>2, <1>6
  <1> QED
    BY <1>1, <1>2, <1>3, <1>4, <1>7, <1>8, RestingStory

\* The answer to an operate that owes a termination: the wait begins.
LEMMA AwaitingStory ==
    ASSUME NEW f, NEW c, NEW k, NEW q, NEW td, Story(f, c, k, q, td), k.phase = "calling",
           NEW d, NEW e, Answering(f, c, d, k, q, e), k.awaits, Len(k.plan) = 1,
           NEW h, h.phase = "awaiting", h.awaits, h.unsolicited = k.unsolicited,
           h.num = k.num, h.object = k.object, h.selects = k.selects
    PROVE  Story(f, d, h, None, td)
  <1> DEFINE n == k.num
             way == Way(c, k, f.owed)
             v == Way(d, k, f.owed)
  <1>1. /\ ToldOK(f, td) /\ td = [m \in Nums |-> td[m]]
        /\ PlanOK(f, k) /\ NumbersOK(f, c, k) /\ LateOK(f, c, k, q)
    BY DEF Story
  <1>2. /\ FlowOK(f, d, k) /\ Answers(Line(d)) = {} /\ q = None
        /\ d.at = c.at /\ d.stalled = c.stalled
        /\ \A m, ok : /\ Mute(way, m) => Mute(v, m)
                      /\ SaysOnly(way, m, ok) => SaysOnly(v, m, ok)
                      /\ SaysOnce(way, m, ok) => SaysOnce(v, m, ok)
    BY DEF Answering
  <1>3. k.plan = <<"Oper">> /\ Enhanced(f.model[k.object]) /\ k.num \in Nums /\ k.object \in Objects
        /\ ~k.selects
    BY <1>1 DEF PlanOK
  <1>4. Operating(k, q)
    BY <1>2, <1>3 DEF Operating
  <1>5. FlowOK(f, d, h) /\ Way(d, h, f.owed) = v
    BY <1>2 DEF FlowOK, Way
  <1>6. PlanOK(f, h)
    BY <1>1, <1>3 DEF PlanOK
  <1>7. OneAtATime(d, h, None) /\ EarlyOK(f, d, h, None)
    BY <1>2 DEF OneAtATime, EarlyOK
  <1> HIDE DEF way, v
  <1>8. NumbersOK(f, d, h)
    BY <1>1, <1>2, <1>5 DEF NumbersOK, way
  <1>9. PhaseOK(f, d, h, td)
    BY <1>3 DEF PhaseOK
  <1>10. LateOK(f, d, h, None)
    <2> DEFINE ran == n \in f.ran
    <2>1. /\ \A x \in f.armed : x.num = n => x.object = k.object
          /\ IsArmed(f, n) => Mute(way, n)
          /\ SaysOnly(way, n, ran)
          /\ c.at # "closed" /\ ~c.stalled /\ ~IsArmed(f, n) => SaysOnce(way, n, ran)
      BY <1>1, <1>4 DEF LateOK, way
    <2> HIDE DEF ran
    <2>2. /\ IsArmed(f, n) => Mute(v, n)
          /\ SaysOnly(v, n, ran)
          /\ d.at # "closed" /\ ~d.stalled /\ ~IsArmed(f, n) => SaysOnce(v, n, ran)
      BY <1>2, <2>1
    <2> USE DEF ran
    <2> QED
      BY <1>5, <2>1, <2>2 DEF LateOK
  <1> QED
    BY <1>1, <1>5, <1>6, <1>7, <1>8, <1>9, <1>10 DEF Story

\* What is left when one PDU is taken.
LEMMA OneTaken ==
    ASSUME NEW S, NEW x \in Seq(S), NEW i \in DOMAIN x
    PROVE  RemoveAt(x, i) \in Seq(S) /\ Within(RemoveAt(x, i), x)
  <1> DEFINE m == Len(x)
             b == SubSeq(x, 1, i - 1)
             e == SubSeq(x, i + 1, m)
  <1>1. m \in Nat /\ DOMAIN x = 1 .. m /\ i - 1 \in 0 .. m /\ i \in 0 .. m
    BY LenProperties
  <1>2. b \in Seq(S) /\ Within(b, x)
    BY <1>1, Cut
  <1>3. e \in Seq(S) /\ Within(e, x)
    <2> DEFINE h == SubSeq(x, 1, i)
    <2>1. h \in Seq(S) /\ e \in Seq(S) /\ h \o e = x
      BY <1>1, Cut
    <2> HIDE DEF h, e
    <2>2. Within(e, h \o e)
      BY <2>1, JoinedWithin
    <2> QED
      BY <2>1, <2>2
  <1>4. RemoveAt(x, i) = b \o e
    BY DEF RemoveAt
  <1> HIDE DEF b, e
  <1> QED
    BY <1>2, <1>3, <1>4, Joined, BothWithin

\* The first of some places is one of them.
LEMMA FirstPlace ==
    ASSUME NEW T \in SUBSET Nat, T # {}
    PROVE  Min(T) \in T
  <1>1. \E n \in T : \A m \in T : n <= m
    BY LeastNumber
  <1> QED
    BY <1>1 DEF Min

\* The wait ends, with a termination or without one.
LEMMA WaitEndsStory ==
    ASSUME NEW f, NEW c, NEW k, NEW q, NEW td, Story(f, c, k, q, td),
           k.phase \in {"awaiting", "explaining"},
           NEW h, h.phase = "idle", ~h.awaits, ~h.selects, h.num = k.num, h.object = k.object,
           h.unsolicited \in Seq(Pdus), Within(h.unsolicited, k.unsolicited),
           NEW new,
           \/ /\ k.phase = "explaining"
              /\ new = IF Head(k.plan) = "Cancel" THEN td ELSE Telling(td, k.num, "refused")
           \/ /\ k.phase = "awaiting" /\ new = Telling(td, k.num, "unknown")
           \/ /\ k.phase = "awaiting"
              /\ \E i \in Says(k.unsolicited, k.num) :
                    new = Telling(td, k.num, IF k.unsolicited[i].ok THEN "done" ELSE "refused")
    PROVE  Story(f, c, h, q, new)
  <1> DEFINE n == k.num
             u == k.unsolicited
             way == Way(c, k, f.owed)
  <1>1. /\ FlowOK(f, c, k) /\ ToldOK(f, td) /\ td = [m \in Nums |-> td[m]]
        /\ PlanOK(f, k) /\ OneAtATime(c, k, q) /\ NumbersOK(f, c, k)
        /\ PhaseOK(f, c, k, td) /\ LateOK(f, c, k, q)
    BY DEF Story
  <1>2. q = None /\ Answers(Line(c)) = {} /\ n \in Nums
    BY <1>1 DEF OneAtATime, PlanOK
  <1>3. FlowOK(f, c, h)
    BY <1>1, WithinAnswers DEF FlowOK
  <1>4. NumbersOK(f, c, h)
    <2>1. \A m : Mute(way, m) => Mute(Way(c, h, f.owed), m)
      <3> SUFFICES ASSUME NEW m, Mute(way, m) PROVE Mute(Way(c, h, f.owed), m)
        OBVIOUS
      <3>1. Mute(u, m) /\ Mute(c.wire, m) /\ Mute(c.unsent, m) /\ Mute(c.queue, m) /\ Mute(f.owed, m)
        BY <1>1, WayParts
      <3>2. Mute(h.unsolicited, m)
        BY <3>1, WithinSays
      <3> QED
        BY <1>3, <3>1, <3>2, WayParts
    <2> QED
      BY <1>1, <2>1 DEF NumbersOK
  <1>5. k.phase = "explaining" /\ Head(k.plan) # "Cancel" => Untouched(f, n)
    BY <1>1 DEF PhaseOK
  <1>6. ASSUME k.phase = "awaiting", NEW i \in Says(u, n)
        PROVE  /\ u[i].ok => n \in f.ran
               /\ ~u[i].ok => Untouched(f, n)
    <2> DEFINE ran == n \in f.ran
    <2>1. Operating(k, q)
      BY <1>1, <1>6 DEF Operating, PlanOK
    <2>2. (IsArmed(f, n) => Mute(way, n)) /\ SaysOnly(way, n, ran)
      BY <1>1, <2>1 DEF LateOK
    <2>3. ~Mute(way, n)
      <3>1. ~Mute(u, n)
        BY <1>6 DEF Mute
      <3> QED
        BY <1>1, <3>1, WayParts
    <2> DEFINE w == c.wire
               t == c.unsent
               r == c.queue
               p == f.owed
    <2>4. way = u \o w \o t \o r \o p
      BY DEF Way
    <2>5. w \in Seq(Pdus) /\ t \in Seq(Pdus) /\ r \in Seq(Pdus) /\ p \in Seq(Pdus) /\ u \in Seq(Pdus)
      BY <1>1 DEF FlowOK
    <2>6. i \in Says(u, n)
      OBVIOUS
    <2> HIDE DEF u, w, t, r, p, way, ran
    <2> DEFINE uw == u \o w
               ut == uw \o t
               ur == ut \o r
    <2>7. uw \in Seq(Pdus) /\ (SaysOnly(uw, n, ran) => SaysOnly(u, n, ran))
      BY <2>5, Joined, JoinedSaysOnly
    <2> HIDE DEF uw
    <2>8. ut \in Seq(Pdus) /\ (SaysOnly(ut, n, ran) => SaysOnly(uw, n, ran))
      BY <2>5, <2>7, Joined, JoinedSaysOnly
    <2> HIDE DEF ut
    <2>9. ur \in Seq(Pdus) /\ (SaysOnly(ur, n, ran) => SaysOnly(ut, n, ran))
      BY <2>5, <2>8, Joined, JoinedSaysOnly
    <2> HIDE DEF ur
    <2>10. SaysOnly(ur \o p, n, ran) => SaysOnly(ur, n, ran)
      BY <2>5, <2>9, JoinedSaysOnly
    <2>11. way = ur \o p
      BY Zenon, <2>4 DEF ur, ut, uw
    <2>12. SaysOnly(u, n, ran)
      BY <2>2, <2>7, <2>8, <2>9, <2>10, <2>11
    <2>13. u[i].ok <=> ran
      BY <2>6, <2>12 DEF SaysOnly
    <2>14. ~IsArmed(f, n)
      BY <2>2, <2>3
    <2> QED
      BY <2>13, <2>14 DEF ran, Untouched
  <1>7. ToldOK(f, new) /\ new = [m \in Nums |-> new[m]]
    <2>1. CASE k.phase = "explaining"
      BY <1>1, <1>2, <1>5, <2>1, TellingTruth
    <2>2. CASE new = Telling(td, n, "unknown")
      BY <1>1, <1>2, <2>2, TellingTruth
    <2>3. ASSUME k.phase = "awaiting", NEW i \in Says(u, n),
                 new = Telling(td, n, IF u[i].ok THEN "done" ELSE "refused")
          PROVE  ToldOK(f, new) /\ new = [m \in Nums |-> new[m]]
      <3>1. /\ u[i].ok => n \in f.ran
            /\ ~u[i].ok => Untouched(f, n)
        BY <1>6, <2>3
      <3>2. CASE u[i].ok
        BY <1>1, <1>2, <2>3, <3>1, <3>2, TellingTruth
      <3>3. CASE ~u[i].ok
        BY <1>1, <1>2, <2>3, <3>1, <3>3, TellingTruth
      <3> QED
        BY <3>2, <3>3
    <2> QED
      BY <2>1, <2>2, <2>3
  <1>8. Story(f, c, h, None, new)
    BY <1>1, <1>2, <1>3, <1>4, <1>7, RestingStory
  <1> QED
    BY <1>2, <1>8

\* The client goes: nothing is told any more.
LEMMA GoneStory ==
    ASSUME NEW f, NEW c, NEW k, NEW q, NEW td, Story(f, c, k, q, td),
           NEW d, d.wire = <<>>, d.unsent = c.unsent, d.queue = c.queue,
           NEW h, h.phase = "gone", h.unsolicited = <<>>,
           NEW new, new = [n \in Nums |-> "nothing"]
    PROVE  Story(f, d, h, q, new)
  <1>1. FlowOK(f, c, k) /\ (q # None /\ q.command # "Cancel" => Untouched(f, q.req.num))
    BY DEF Story
  <1>2. FlowOK(f, d, h)
    BY <1>1, NothingSaid, ServiceAssumption DEF FlowOK
  <1>3. ToldOK(f, new) /\ new = [n \in Nums |-> new[n]] /\ \A n \in Nums : new[n] = "nothing"
    BY DEF ToldOK
  <1> QED
    BY <1>1, <1>2, <1>3 DEF Story

LEMMA AnswerReadBooks ==
    ASSUME IInv, Books, NEW a \in Assoc, ReadAnswer(a)
    PROVE  Books'
  <1> DEFINE k == client[a]
             c == conn[a]
             e == Head(c.wire)
             wire == Tail(c.wire)
             d == [c EXCEPT !.wire = wire]
             f == Facts(server, a)
             plan == Tail(k.plan)
             selects == Head(k.plan) \in {"SBO", "SBOw"}
             next == [k EXCEPT !.plan = plan]
             wait == [k EXCEPT !.phase = "awaiting", !.plan = <<>>]
             over == Idle(k)
             done == [over EXCEPT !.selects = selects]
             ask == [k EXCEPT !.phase = "explaining"]
             p == [command |-> k.plan[2], object |-> k.object, req |-> k.req]
             said == Telling(told[a], k.num, IF k.req.wait = 0 THEN "done" ELSE "accepted")
             refused == Telling(told[a], k.num, "refused")
  <1>1. /\ client = [b \in Assoc |-> client[b]] /\ ClientShaped(k)
        /\ conn = [b \in Assoc |-> conn[b]] /\ ConnShaped(c)
        /\ inbox = [b \in Assoc |-> inbox[b]]
        /\ told = [b \in Assoc |-> told[b]]
        /\ Story(f, c, k, inbox[a], told[a])
    BY DEF IInv, ClientsOK, InboxOK, ThreadsOK, Conns, Books
  <1>2. /\ k.phase = "calling" /\ c.wire # <<>> /\ e.kind = "answer"
        /\ server' = server /\ conn' = [conn EXCEPT ![a] = d]
    BY DEF ReadAnswer, Unread
  <1>3. /\ PlanOK(f, k) /\ PhaseOK(f, c, k, told[a])
    BY <1>1, <1>2 DEF Story
  <1>4. f.model = server.model
    BY DEF Facts
  <1>5. \/ /\ e.ok /\ Len(k.plan) > 1
           /\ client' = [client EXCEPT ![a] = next]
           /\ inbox' = [inbox EXCEPT ![a] = p] /\ told' = told
        \/ /\ e.ok /\ Len(k.plan) = 1 /\ k.awaits
           /\ client' = [client EXCEPT ![a] = wait]
           /\ inbox' = inbox
           /\ told' = IF Head(k.plan) = "Oper" /\ ~Enhanced(f.model[k.object])
                      THEN [told EXCEPT ![a] = said] ELSE told
        \/ /\ e.ok /\ Len(k.plan) = 1 /\ ~k.awaits
           /\ client' = [client EXCEPT ![a] = done]
           /\ inbox' = inbox
           /\ told' = IF Head(k.plan) = "Oper" /\ ~Enhanced(f.model[k.object])
                      THEN [told EXCEPT ![a] = said] ELSE told
        \/ /\ ~e.ok /\ Head(k.plan) = "SBO"
           /\ client' = [client EXCEPT ![a] = over]
           /\ inbox' = inbox /\ told' = [told EXCEPT ![a] = refused]
        \/ /\ ~e.ok /\ Head(k.plan) # "SBO"
           /\ client' = [client EXCEPT ![a] = ask]
           /\ inbox' = inbox /\ told' = told
    <2>1. ASSUME NEW what
          PROVE  [told EXCEPT ![a][k.num] = what] = [told EXCEPT ![a] = Telling(told[a], k.num, what)]
      BY DEF Telling
    <2>2. /\ Tell(a, IF k.req.wait = 0 THEN "done" ELSE "accepted") <=> told' = [told EXCEPT ![a] = said]
          /\ Head(k.plan) = "SBO" => (TellRefused(a) <=> told' = [told EXCEPT ![a] = refused])
      BY <2>1 DEF Tell, TellRefused
    <2>3. next = [k EXCEPT !.plan = Tail(@)]
      BY Zenon
    <2>4. [client EXCEPT ![a].plan = Tail(@)] = [client EXCEPT ![a] = next]
      OBVIOUS
    <2> HIDE DEF d, said, refused, over
    <2> QED
      BY <1>4, <2>2, <2>4 DEF ReadAnswer, over
  <1> HIDE DEF wire
  <1>6. /\ d.wire = wire /\ d.unsent = c.unsent /\ d.queue = c.queue
        /\ d.at = c.at /\ d.stalled = c.stalled
    BY <1>1 DEF ConnShaped, ConnFields
  <1>7. Answering(f, c, d, k, inbox[a], e)
    <2>1. d.wire = Tail(c.wire)
      BY <1>6 DEF wire
    <2> HIDE DEF d, f, k, c
    <2> QED
      BY <1>1, <1>2, <1>6, <2>1, AnswerRead
  <1>8. inbox[a] = None
    BY <1>7 DEF Answering
  <1> DEFINE h == client'[a]
             q == inbox'[a]
             new == told'[a]
  <1>9. Story(f, d, h, q, new)
    <2>1. CASE /\ e.ok /\ Len(k.plan) > 1
               /\ client' = [client EXCEPT ![a] = next]
               /\ inbox' = [inbox EXCEPT ![a] = p] /\ told' = told
      <3>1. h = next /\ q = p /\ new = told[a]
        BY <1>1, <2>1
      <3> HIDE DEF plan, p, h, q, new
      <3>2. /\ next.plan = plan /\ next.unsolicited = k.unsolicited
            /\ next.phase = k.phase /\ next.awaits = k.awaits /\ next.req = k.req
            /\ next.num = k.num /\ next.object = k.object /\ next.selects = k.selects
        BY <1>1 DEF ClientShaped, ClientFields
      <3>3. p # None /\ p.command = k.plan[2] /\ p.object = k.object /\ p.req = k.req
        <4>1. k.plan \in Plans /\ k.object \in Objects /\ k.req \in Requests
          BY <1>2, <1>3 DEF PlanOK
        <4>2. k.plan[2] \in Commands
          BY <2>1, <4>1 DEF Plans, Commands
        <4> QED
          BY <4>1, <4>2, ServiceAssumption DEF p
      <3>4. next.plan = Tail(k.plan)
        BY <3>2 DEF plan
      <3> HIDE DEF next, d, f, k, c, e
      <3>5. Story(f, d, next, p, told[a])
        BY <1>1, <1>2, <1>7, <2>1, <3>2, <3>3, <3>4, NextCommandStory
      <3> QED
        BY Zenon, <3>1, <3>5
    <2>2. CASE /\ e.ok /\ Len(k.plan) = 1 /\ k.awaits
               /\ client' = [client EXCEPT ![a] = wait]
               /\ inbox' = inbox
               /\ told' = IF Head(k.plan) = "Oper" /\ ~Enhanced(f.model[k.object])
                          THEN [told EXCEPT ![a] = said] ELSE told
      <3>1. Enhanced(f.model[k.object])
        BY <1>2, <1>3, <2>2 DEF PlanOK
      <3>2. h = wait /\ q = None /\ new = told[a]
        BY <1>1, <1>8, <2>2, <3>1
      <3> HIDE DEF h, q, new
      <3>3. /\ wait.phase = "awaiting" /\ wait.awaits = k.awaits
            /\ wait.unsolicited = k.unsolicited
            /\ wait.num = k.num /\ wait.object = k.object /\ wait.selects = k.selects
        BY <1>1 DEF ClientShaped, ClientFields
      <3> HIDE DEF wait, d, f, k, c, e
      <3>4. Story(f, d, wait, None, told[a])
        BY <1>1, <1>2, <1>7, <2>2, <3>3, AwaitingStory
      <3> QED
        BY Zenon, <3>2, <3>4
    <2>3. CASE /\ e.ok /\ Len(k.plan) = 1 /\ ~k.awaits
               /\ client' = [client EXCEPT ![a] = done]
               /\ inbox' = inbox
               /\ told' = IF Head(k.plan) = "Oper" /\ ~Enhanced(f.model[k.object])
                          THEN [told EXCEPT ![a] = said] ELSE told
      <3>1. /\ h = done /\ q = None
            /\ new = IF Head(k.plan) = "Oper" /\ ~Enhanced(f.model[k.object]) THEN said ELSE told[a]
        BY <1>1, <1>8, <2>3
      <3> HIDE DEF h, q, new
      <3>2. selects => Head(k.plan) \in {"SBO", "SBOw"}
        OBVIOUS
      <3> HIDE DEF selects
      <3>3. /\ done.phase = "idle" /\ ~done.awaits /\ done.selects = selects
            /\ done.unsolicited = k.unsolicited
            /\ done.num = k.num /\ done.object = k.object
        BY <1>1 DEF ClientShaped, ClientFields, Idle
      <3> HIDE DEF done, d, f, k, c, e
      <3>4. Story(f, d, done, None, new)
        <4>1. /\ done.selects => Head(k.plan) \in {"SBO", "SBOw"}
              /\ IF Head(k.plan) = "Oper" /\ ~Enhanced(f.model[k.object])
                 THEN new = Telling(told[a], k.num, IF k.req.wait = 0 THEN "done" ELSE "accepted")
                 ELSE new = told[a]
          BY <3>1, <3>2, <3>3
        <4> QED
          BY <1>1, <1>2, <1>7, <2>3, <3>3, <4>1, LastAnswerStory
      <3> QED
        BY Zenon, <3>1, <3>4
    <2>4. CASE /\ ~e.ok /\ Head(k.plan) = "SBO"
               /\ client' = [client EXCEPT ![a] = over]
               /\ inbox' = inbox /\ told' = [told EXCEPT ![a] = refused]
      <3>1. h = over /\ q = None /\ new = refused
        BY <1>1, <1>8, <2>4
      <3> HIDE DEF h, q, new
      <3>2. /\ over.phase = "idle" /\ ~over.awaits /\ over.selects = k.selects
            /\ over.unsolicited = k.unsolicited
            /\ over.num = k.num /\ over.object = k.object
        BY <1>1 DEF ClientShaped, ClientFields, Idle
      <3>3. ~k.selects
        BY <1>2, <1>3 DEF PlanOK
      <3> HIDE DEF over, d, f, k, c, e
      <3>4. Story(f, d, over, None, refused)
        BY <1>1, <1>2, <1>7, <2>4, <3>2, <3>3, LastAnswerStory
      <3> QED
        BY Zenon, <3>1, <3>4
    <2>5. CASE /\ ~e.ok /\ Head(k.plan) # "SBO"
               /\ client' = [client EXCEPT ![a] = ask]
               /\ inbox' = inbox /\ told' = told
      <3>1. h = ask /\ q = None /\ new = told[a]
        BY <1>1, <1>8, <2>5
      <3> HIDE DEF h, q, new
      <3>2. /\ ask.phase = "explaining" /\ ask.selects = k.selects
            /\ ask.plan = k.plan /\ ask.req = k.req
            /\ ask.unsolicited = k.unsolicited
            /\ ask.num = k.num /\ ask.object = k.object
        BY <1>1 DEF ClientShaped, ClientFields
      <3>3. ~k.selects
        BY <1>2, <1>3 DEF PlanOK
      <3> HIDE DEF ask, d, f, k, c, e
      <3>4. Story(f, d, ask, None, told[a])
        BY <1>1, <1>2, <1>7, <2>5, <3>2, <3>3, LastAnswerStory
      <3> QED
        BY Zenon, <3>1, <3>4
    <2> QED
      BY Zenon, <1>5, <2>1, <2>2, <2>3, <2>4, <2>5
  <1>10. conn'[a] = d /\ \A b \in Assoc \ {a} : conn'[b] = conn[b]
    BY <1>1, <1>2
  <1>11. /\ told' = [b \in Assoc |-> told'[b]]
         /\ \A b \in Assoc \ {a} : /\ client'[b] = client[b]
                                   /\ inbox'[b] = inbox[b] /\ told'[b] = told[b]
    <2> HIDE DEF next, wait, over, done, ask, p, said, refused, k, e
    <2> QED
      BY <1>1, <1>5
  <1>12. Story(f, conn'[a], client'[a], inbox'[a], told'[a])
    BY Zenon, <1>9, <1>10
  <1> QED
    BY <1>2, <1>10, <1>11, <1>12, OneStory DEF f

\* What is kept under a ctlNum are terminations of it.
LEMMA KeptSays ==
    ASSUME NEW u \in Seq(Pdus), Answers(u) = {}, NEW n
    PROVE  {i \in DOMAIN u : u[i].num = n} = Says(u, n)
  <1>1. \A i \in DOMAIN u : u[i] \in Pdus
    BY LenProperties, ElementOfSeq
  <1>2. \A i \in DOMAIN u : u[i].kind = "termination"
    BY <1>1 DEF Pdus, Answers
  <1> QED
    BY <1>2 DEF Says

LEMMA WaitEndsBooks ==
    ASSUME IInv, Books, NEW a \in Assoc, TakeTermination(a) \/ GiveUp(a)
    PROVE  Books'
  <1> DEFINE k == client[a]
             u == k.unsolicited
             c == conn[a]
             f == Facts(server, a)
             over == Idle(k)
             refused == IF Head(k.plan) = "Cancel" THEN told[a]
                        ELSE Telling(told[a], k.num, "refused")
             M == Matching(a)
             i == Min(M)
             left == RemoveAt(u, i)
             taken == [over EXCEPT !.unsolicited = left]
  <1>1. /\ client = [b \in Assoc |-> client[b]] /\ ClientShaped(k)
        /\ told = [b \in Assoc |-> told[b]]
        /\ Story(f, c, k, inbox[a], told[a])
    BY DEF IInv, ClientsOK, Books
  <1>2. /\ k.phase \in {"awaiting", "explaining"}
        /\ server' = server /\ conn' = conn /\ inbox' = inbox
    BY DEF TakeTermination, GiveUp
  <1>3. u \in Seq(Pdus) /\ Answers(u) = {}
    BY <1>1 DEF Story, FlowOK
  <1>4. \A what : [told EXCEPT ![a][k.num] = what] = [told EXCEPT ![a] = Telling(told[a], k.num, what)]
    BY DEF Telling
  <1>5. TellRefused(a) => told' = [told EXCEPT ![a] = refused]
    BY <1>1, <1>4 DEF TellRefused, Tell
  <1>6. /\ over.phase = "idle" /\ ~over.awaits /\ over.selects = k.selects
        /\ over.unsolicited = u /\ over.num = k.num /\ over.object = k.object
        /\ over = [x \in ClientFields |-> over[x]]
    BY <1>1 DEF ClientShaped, ClientFields, Idle
  <1>7. ~k.selects
    BY <1>1, <1>2 DEF Story, PlanOK
  <1>8. CASE TakeTermination(a)
    <2>1. /\ M # {} /\ client' = [client EXCEPT ![a] = taken]
          /\ IF k.phase = "explaining" THEN TellRefused(a)
             ELSE Tell(a, IF u[i].ok THEN "done" ELSE "refused")
      BY <1>8 DEF TakeTermination
    <2>2. M = Says(u, k.num)
      <3>1. M = {j \in DOMAIN u : u[j].num = k.num}
        BY DEF Matching
      <3> HIDE DEF u, M
      <3> QED
        BY <1>3, <3>1, KeptSays
    <2>3. M \in SUBSET Nat
      <3>1. DOMAIN u = 1 .. Len(u) /\ Len(u) \in Nat
        BY <1>3, LenProperties
      <3> QED
        BY <2>2, <3>1 DEF Says
    <2> HIDE DEF M
    <2>4. i \in Says(u, k.num)
      BY <2>1, <2>2, <2>3, FirstPlace
    <2>5. i \in DOMAIN u
      BY <2>4 DEF Says
    <2> HIDE DEF i
    <2>6. left \in Seq(Pdus) /\ Within(left, u)
      <3> HIDE DEF u
      <3> QED
        BY <1>3, <2>5, OneTaken
    <2> HIDE DEF left, over
    <2>7. /\ taken.phase = "idle" /\ ~taken.awaits /\ ~taken.selects
          /\ taken.unsolicited = left /\ taken.num = k.num /\ taken.object = k.object
      BY <1>6, <1>7 DEF ClientFields
    <2>8. told'[a] = IF k.phase = "explaining" THEN refused
                     ELSE Telling(told[a], k.num, IF u[i].ok THEN "done" ELSE "refused")
      <3> HIDE DEF refused
      <3>1. CASE k.phase = "explaining"
        BY <1>1, <1>5, <2>1, <3>1
      <3>2. CASE k.phase # "explaining"
        <4> DEFINE what == IF u[i].ok THEN "done" ELSE "refused"
        <4>1. Tell(a, what)
          BY <2>1, <3>2
        <4> HIDE DEF what
        <4>2. told' = [told EXCEPT ![a] = Telling(told[a], k.num, what)]
          BY <1>4, <4>1 DEF Tell
        <4>3. told'[a] = Telling(told[a], k.num, what)
          BY <1>1, <4>2
        <4> QED
          BY <3>2, <4>3 DEF what
      <3> QED
        BY <3>1, <3>2
    <2>9. told' = [b \in Assoc |-> told'[b]] /\ \A b \in Assoc \ {a} : told'[b] = told[b]
      <3> HIDE DEF refused
      <3>1. \E new : told' = [told EXCEPT ![a] = new]
        BY <1>4, <1>5, <2>1 DEF Tell
      <3> QED
        BY <1>1, <3>1
    <2> HIDE DEF taken
    <2>10. Story(f, c, taken, inbox[a], told'[a])
      <3> DEFINE new == told'[a]
                 what == IF u[i].ok THEN "done" ELSE "refused"
      <3>1. \/ k.phase = "explaining" /\ new = refused
            \/ k.phase = "awaiting" /\ new = Telling(told[a], k.num, what)
        BY <1>2, <2>8
      <3>2. \/ /\ k.phase = "explaining"
               /\ new = IF Head(k.plan) = "Cancel" THEN told[a]
                        ELSE Telling(told[a], k.num, "refused")
            \/ /\ k.phase = "awaiting"
               /\ \E j \in Says(k.unsolicited, k.num) :
                    new = Telling(told[a], k.num, IF k.unsolicited[j].ok THEN "done" ELSE "refused")
        BY Zenon, <2>4, <3>1 DEF refused
      <3> HIDE DEF new, f, c
      <3>3. taken.unsolicited \in Seq(Pdus) /\ Within(taken.unsolicited, k.unsolicited)
        BY <2>6, <2>7
      <3> HIDE DEF k
      <3>4. Story(f, c, taken, inbox[a], new)
        BY <1>1, <1>2, <2>7, <3>2, <3>3, WaitEndsStory
      <3> QED
        BY Zenon, <3>4 DEF new
    <2>11. client'[a] = taken /\ \A b \in Assoc \ {a} : client'[b] = client[b]
      BY <1>1, <2>1
    <2>12. Story(f, conn'[a], client'[a], inbox'[a], told'[a])
      BY Zenon, <1>2, <2>10, <2>11
    <2> QED
      BY <1>2, <2>9, <2>11, <2>12, OneStory DEF f
  <1>9. CASE GiveUp(a)
    <2>1. /\ client' = [client EXCEPT ![a] = over]
          /\ IF k.phase = "explaining" THEN TellRefused(a) ELSE Tell(a, "unknown")
      <3>1. client' = [client EXCEPT ![a] = Idle(@)]
        BY <1>9 DEF GiveUp
      <3>2. [client EXCEPT ![a] = Idle(@)] = [client EXCEPT ![a] = over]
        OBVIOUS
      <3> QED
        BY Zenon, <1>9, <3>1, <3>2 DEF GiveUp
    <2> DEFINE new == IF k.phase = "explaining" THEN refused ELSE Telling(told[a], k.num, "unknown")
    <2>2. told' = [told EXCEPT ![a] = new]
      <3>1. CASE k.phase = "explaining"
        BY <1>5, <2>1, <3>1
      <3>2. CASE k.phase # "explaining"
        <4>1. told' = [told EXCEPT ![a] = Telling(told[a], k.num, "unknown")]
          BY <1>4, <2>1, <3>2 DEF Tell
        <4> QED
          BY <3>2, <4>1
      <3> QED
        BY <3>1, <3>2
    <2>3. Within(u, u)
      BY DEF Within
    <2>4. \/ /\ k.phase = "explaining"
             /\ new = IF Head(k.plan) = "Cancel" THEN told[a]
                      ELSE Telling(told[a], k.num, "refused")
          \/ k.phase = "awaiting" /\ new = Telling(told[a], k.num, "unknown")
      BY <1>2
    <2> HIDE DEF new, refused, over
    <2>5. Story(f, c, over, inbox[a], new)
      <3>1. over.unsolicited \in Seq(Pdus) /\ Within(over.unsolicited, k.unsolicited)
        BY <1>3, <1>6, <2>3
      <3> HIDE DEF f, c, k
      <3> QED
        BY <1>1, <1>2, <1>6, <1>7, <2>4, <3>1, WaitEndsStory
    <2>6. /\ client'[a] = over /\ told'[a] = new
          /\ told' = [b \in Assoc |-> told'[b]]
          /\ \A b \in Assoc \ {a} : client'[b] = client[b] /\ told'[b] = told[b]
      BY <1>1, <2>1, <2>2
    <2>7. Story(f, conn'[a], client'[a], inbox'[a], told'[a])
      BY Zenon, <1>2, <2>5, <2>6
    <2> QED
      BY <1>2, <2>6, <2>7, OneStory DEF f
  <1> QED
    BY <1>8, <1>9

LEMMA LeaveBooks ==
    ASSUME IInv, Books, NEW a \in Assoc, Leave(a)
    PROVE  Books'
  <1> DEFINE calls == client[a].calls
             h == [FreshClient EXCEPT !.phase = "gone", !.calls = calls]
             d == [conn[a] EXCEPT !.wire = <<>>]
             new == [n \in Nums |-> "nothing"]
             f == Facts(server, a)
  <1>1. /\ client = [b \in Assoc |-> client[b]] /\ told = [b \in Assoc |-> told[b]]
        /\ conn = [b \in Assoc |-> conn[b]] /\ ConnShaped(conn[a])
        /\ Story(f, conn[a], client[a], inbox[a], told[a])
    BY DEF IInv, ClientsOK, ThreadsOK, Conns, Books
  <1>2. /\ server' = server /\ inbox' = inbox
        /\ client' = [client EXCEPT ![a] = h]
        /\ conn' = [conn EXCEPT ![a] = d]
        /\ told' = [told EXCEPT ![a] = new]
    BY DEF Leave
  <1> HIDE DEF calls
  <1>3. h.phase = "gone" /\ h.unsolicited = <<>>
    BY DEF FreshClient
  <1>4. d.wire = <<>> /\ d.unsent = conn[a].unsent /\ d.queue = conn[a].queue
    BY <1>1 DEF ConnShaped, ConnFields
  <1>5. new = [n \in Nums |-> "nothing"]
    OBVIOUS
  <1> HIDE DEF h, d, new, f
  <1>6. Story(f, d, h, inbox[a], new)
    BY <1>1, <1>3, <1>4, <1>5, GoneStory
  <1>7. /\ client'[a] = h /\ told'[a] = new /\ conn'[a] = d
        /\ told' = [b \in Assoc |-> told'[b]]
        /\ \A b \in Assoc \ {a} : /\ client'[b] = client[b] /\ told'[b] = told[b]
                                  /\ conn'[b] = conn[b]
    BY <1>1, <1>2
  <1>8. Story(f, conn'[a], client'[a], inbox'[a], told'[a])
    BY Zenon, <1>2, <1>6, <1>7
  <1> QED
    BY <1>2, <1>7, <1>8, OneStory DEF f

-----------------------------------------------------------------------------
(* The theorems *)

\* Nothing has been commanded, and nothing told.
LEMMA BooksInit == Init => Books
  <1> SUFFICES ASSUME Init PROVE Books
    OBVIOUS
  <1>1. PICK model \in [Objects -> Engineered] : server = NewControls(model, CHOOSE v \in Values : TRUE)
    BY Zenon DEF Init
  <1>2. server.timed = {} /\ server.ran = {} /\ server.pending = NothingOwed
    BY <1>1 DEF NewControls
  <1>3. ListOK(server)
    BY <1>2, FS_EmptySet DEF ListOK, NothingOwed
  <1>4. told = [a \in Assoc |-> told[a]]
    BY DEF Init
  <1>5. ASSUME NEW a \in Assoc
        PROVE  Story(Facts(server, a), conn[a], client[a], inbox[a], told[a])
    <2> DEFINE f == Facts(server, a)
               c == conn[a]
               k == client[a]
               td == told[a]
    <2>1. f.armed = {} /\ f.ran = {} /\ f.owed = <<>>
      BY <1>2 DEF Facts, NothingOwed
    <2>2. /\ c.wire = <<>> /\ c.unsent = <<>> /\ c.queue = <<>>
          /\ k.unsolicited = <<>> /\ k.phase = "idle" /\ ~k.awaits /\ ~k.selects /\ k.num = 0
          /\ inbox[a] = None /\ td = [n \in Nums |-> "nothing"]
      BY DEF Init, FreshConn, FreshClient
    <2> HIDE DEF f, c, k, td
    <2>3. \A n : Untouched(f, n)
      BY <2>1 DEF Untouched, IsArmed
    <2>4. FlowOK(f, c, k)
      BY <2>1, <2>2, NothingSaid, ServiceAssumption DEF FlowOK
    <2>5. \A n : Mute(Way(c, k, f.owed), n)
      BY <2>1, <2>2, <2>4, NothingSaid, WayParts
    <2>6. Line(c) = <<>> /\ Answers(Line(c)) = {}
      BY <2>2, NothingSaid DEF Line
    <2>7. ToldOK(f, td) /\ td = [n \in Nums |-> td[n]]
      BY <2>2 DEF ToldOK
    <2>8. PlanOK(f, k) /\ OneAtATime(c, k, None)
      BY <2>2, <2>6 DEF PlanOK, OneAtATime
    <2>9. NumbersOK(f, c, k) /\ PhaseOK(f, c, k, td)
      BY <2>2, <2>3, <2>5 DEF NumbersOK, PhaseOK
    <2>10. EarlyOK(f, c, k, None) /\ LateOK(f, c, k, None)
      BY <2>2 DEF EarlyOK, LateOK, Operating
    <2>11. Story(f, c, k, None, td)
      BY <2>2, <2>4, <2>7, <2>8, <2>9, <2>10 DEF Story
    <2> QED
      BY Zenon, <2>2, <2>11 DEF f, c, k, td
  <1> QED
    BY <1>3, <1>4, <1>5 DEF Books

\* Every step keeps the books.
LEMMA BooksStep == IInv /\ Books /\ [Next]_vars => Books'
  <1> SUFFICES ASSUME IInv, Books, [Next]_vars PROVE Books'
    OBVIOUS
  <1>1. ASSUME NEW a \in Assoc, Thread(a)
        PROVE  Books'
    BY <1>1, PollBooks, WakeBooks, SocketBooks, ServeBooks, PublishBooks, EndBooks DEF Thread
  <1>2. ASSUME NEW a \in Assoc, Client(a)
        PROVE  Books'
    BY <1>2, CallBooks, TerminationReadBooks, AnswerReadBooks, WaitEndsBooks, LeaveBooks
    DEF Client
  <1>3. CASE \/ \E o \in Objects, mode \in Modes : ChangeMode(o, mode)
             \/ \E stages \in Bars : ChangeHook(stages)
             \/ Tick
    BY <1>3, OutsideBooks
  <1>4. CASE UNCHANGED vars
    <2>1. /\ server' = server /\ conn' = conn /\ inbox' = inbox
          /\ client' = client /\ told' = told
      BY <1>4 DEF vars
    <2> QED
      BY <2>1 DEF Books
  <1> QED
    BY <1>1, <1>2, <1>3, <1>4 DEF Next

\* The books are in order throughout.
LEMMA BooksAlways == Spec => [](IInv /\ Books)
  <1>1. Init => IInv /\ Books
    BY ServiceInit, BooksInit
  <1>2. (IInv /\ Books) /\ [Next]_vars => (IInv /\ Books)'
    BY ServiceStep, BooksStep
  <1> QED
    BY <1>1, <1>2, PTL DEF Spec

\* What a caller is told of its command is so: next_termination_for takes the
\* termination of this command and of no other (client/control.rs), and a
\* command that was refused never runs.
THEOREM CallersAreToldTheTruth == Spec => []ToldTheTruth
  <1>1. Books => ToldTheTruth
    <2> SUFFICES ASSUME Books, NEW a \in Assoc, NEW n \in Nums
                 PROVE  LET ran   == [assoc |-> a, num |-> n] \in server.ran
                            armed == \E t \in server.timed : t.assoc = a /\ t.req.num = n
                        IN  /\ told[a][n] = "done" => ran
                            /\ told[a][n] = "refused" => ~ran /\ ~armed
      BY DEF ToldTheTruth
    <2>1. ToldOK(Facts(server, a), told[a])
      BY DEF Books, Story
    <2>2. /\ n \in Facts(server, a).ran <=> [assoc |-> a, num |-> n] \in server.ran
          /\ IsArmed(Facts(server, a), n) <=> \E t \in server.timed : t.assoc = a /\ t.req.num = n
      BY ArmedFacts
    <2> QED
      BY <2>1, <2>2 DEF ToldOK, Untouched
  <1> QED
    BY <1>1, BooksAlways, PTL

\* A command that is waited for is armed, or one termination is on its way and
\* says whether it ran, and no client has it before the answer: on_timeout and
\* operate make it once, and serve drains the queue behind the answer
\* (control.rs:162-217, net.rs:462-477).
THEOREM ResultsAlwaysComeBack == Spec => []ResultsComeBack
  <1>1. IInv /\ Books => TypeOK
    <2> SUFFICES ASSUME IInv, Books PROVE TypeOK
      OBVIOUS
    <2>1. ServerOK
      BY DEF IInv, Shaped, ServerOK
    <2>2. ASSUME NEW a \in Assoc
          PROVE  /\ conn[a].at \in {"read", "serve", "publish", "blocked", "ended", "closed"}
                 /\ Len(conn[a].queue) <= QueueCap
                 /\ Len(conn[a].wire) <= SocketCap
                 /\ client[a].phase \in {"idle", "calling", "explaining", "awaiting", "gone"}
                 /\ \A x \in {conn[a].queue, conn[a].wire, conn[a].unsent, client[a].unsolicited} :
                       x \in Seq(Pdus)
      <3>1. Story(Facts(server, a), conn[a], client[a], inbox[a], told[a])
        BY DEF Books
      <3>2. FlowOK(Facts(server, a), conn[a], client[a])
        BY <3>1 DEF Story
      <3>3. client[a].phase \in {"idle", "calling", "explaining", "awaiting", "gone"}
        BY <3>1 DEF Story, PlanOK
      <3>4. conn[a].at \in Places
        BY DEF IInv, ThreadsOK
      <3> QED
        BY <3>2, <3>3, <3>4 DEF FlowOK, Places
    <2> QED
      BY <2>1, <2>2 DEF TypeOK
  <1>2. Books => ResultIsOnItsWay
    <2> SUFFICES ASSUME Books, NEW a \in Assoc, client[a].phase = "awaiting", Open(a),
                        ~conn[a].stalled
                 PROVE  LET n == client[a].num IN
                        IF \E t \in server.timed : t.assoc = a /\ t.req.num = n
                        THEN Owing(a, n) = {}
                        ELSE \E i \in Owing(a, n) :
                                /\ Owing(a, n) = {i}
                                /\ Pipeline(a)[i].ok <=> [assoc |-> a, num |-> n] \in server.ran
      BY DEF ResultIsOnItsWay
    <2> DEFINE f == Facts(server, a)
               c == conn[a]
               k == client[a]
               n == k.num
               way == Way(c, k, f.owed)
               ran == n \in f.ran
    <2>1. PlanOK(f, k) /\ LateOK(f, c, k, inbox[a])
      BY DEF Books, Story
    <2>2. Operating(k, inbox[a]) /\ n \in Nums
      BY <2>1 DEF Operating, PlanOK
    <2>3. /\ IsArmed(f, n) => Mute(way, n)
          /\ ~IsArmed(f, n) => SaysOnce(way, n, ran)
      BY <2>1, <2>2 DEF LateOK, Open
    <2>4. /\ ran <=> [assoc |-> a, num |-> n] \in server.ran
          /\ IsArmed(f, n) <=> \E t \in server.timed : t.assoc = a /\ t.req.num = n
          /\ f.owed = server.pending[a]
      BY <2>2, ArmedFacts
    <2>5. Pipeline(a) = way
      BY <2>4 DEF Pipeline, Way
    <2>6. Owing(a, n) = Says(way, n)
      BY Zenon, <2>5 DEF Owing, Says
    <2> HIDE DEF way, ran, f, n
    <2>7. CASE IsArmed(f, n)
      BY <2>3, <2>4, <2>6, <2>7 DEF Mute, n
    <2>8. CASE ~IsArmed(f, n)
      <3>1. PICK i \in DOMAIN way : Says(way, n) = {i} /\ (way[i].ok <=> ran)
        BY <2>3, <2>8 DEF SaysOnce
      <3>2. i \in Owing(a, n) /\ Owing(a, n) = {i}
            /\ (Pipeline(a)[i].ok <=> [assoc |-> a, num |-> n] \in server.ran)
        BY <2>4, <2>5, <2>6, <3>1
      <3> QED
        BY <2>4, <2>8, <3>2 DEF n
    <2> QED
      BY <2>7, <2>8
  <1>3. Books => AnswerBeforeTermination
    <2> SUFFICES ASSUME Books, NEW a \in Assoc, client[a].phase = "calling", client[a].awaits
                 PROVE  \A i \in DOMAIN client[a].unsolicited :
                           client[a].unsolicited[i].num # client[a].num
      BY DEF AnswerBeforeTermination
    <2> DEFINE u == client[a].unsolicited
               n == client[a].num
    <2>1. Story(Facts(server, a), conn[a], client[a], inbox[a], told[a])
      BY DEF Books
    <2>2. u \in Seq(Pdus) /\ Answers(u) = {} /\ Mute(u, n)
      BY <2>1 DEF Story, FlowOK, EarlyOK
    <2> HIDE DEF u, n
    <2>3. {i \in DOMAIN u : u[i].num = n} = {}
      BY <2>2, KeptSays DEF Mute
    <2> QED
      BY <2>3 DEF u, n
  <1>4. IInv /\ Books => ResultsComeBack
    BY <1>1, <1>2, <1>3 DEF ResultsComeBack
  <1> QED
    BY <1>4, BooksAlways, PTL

\* What the passing of time runs is what the bay and the hook agree to then.
LEMMA ElapsedAsks ==
    ASSUME NEW s, Shaped(s), ListOK(s), NEW t \in s.timed,
           [assoc |-> t.assoc, num |-> t.req.num] \in Elapsed(s).ran \ s.ran
    PROVE  ~ModeRefuses(s, t.object, t.req.test) /\ Agrees(s, "Operate")
  <1>1. [assoc |-> t.assoc, num |-> t.req.num] \in
           {[assoc |-> u.assoc, num |-> u.req.num] : u \in Runs(s)}
    BY ElapsedTables
  <1>2. PICK u \in Runs(s) : u.assoc = t.assoc /\ u.req.num = t.req.num
    BY <1>1
  <1>3. u \in s.timed
    BY DEF Runs, Due
  <1>4. u = t
    BY <1>2, <1>3 DEF ListOK
  <1> QED
    BY <1>4 DEF Runs

\* No request runs a command that is armed: its ctlNum is under nothing.
LEMMA ServeAsks ==
    ASSUME IInv, Books, NEW a \in Assoc, Serve(a)
    PROVE  AsksAgain
  <1> DEFINE q == inbox[a]
             s == Before(server, q.command)
             t == Served(server, a, q.object, q.command, q.req)
             ok == ServedOk(server, a, q.object, q.command, q.req)
  <1>1. ServedBy(s, t, a, q, ok) /\ server' = t
    BY ServeServes DEF Serve
  <1>2. /\ Shaped(server) /\ ListOK(server)
        /\ Story(Facts(server, a), conn[a], client[a], q, told[a])
    BY DEF IInv, Books
  <1> SUFFICES ASSUME NEW x \in server.timed,
                      [assoc |-> x.assoc, num |-> x.req.num] \in server'.ran \ server.ran
               PROVE  ~ModeRefuses(server, x.object, x.req.test) /\ Agrees(server, "Operate")
    BY DEF AsksAgain
  <1> DEFINE b == x.assoc
             n == x.req.num
  <1>3. b \in Assoc /\ n \in Nums
    BY <1>2 DEF Shaped, Timed, Requests
  <1>4. s = server \/ s = Elapsed(server)
    BY DEF Before
  <1> HIDE DEF s, t, ok, q
  <1>5. n \in Facts(t, b).ran
    BY <1>1, <1>3, ArmedFacts
  <1>6. CASE n \in Facts(s, b).ran
    <2>1. [assoc |-> x.assoc, num |-> x.req.num] \in s.ran
      BY <1>6, ArmedFacts
    <2>2. [assoc |-> x.assoc, num |-> x.req.num] \in Elapsed(server).ran \ server.ran
      BY <1>4, <2>1
    <2> QED
      BY <1>2, <2>2, ElapsedAsks
  <1>7. CASE n \notin Facts(s, b).ran
    <2>1. Serves(s, t, a, q.object, q.command, q.req, ok) /\ q # None
      BY <1>1 DEF ServedBy
    <2>2. b = a
      BY <1>3, <1>5, <1>7, <2>1 DEF Serves
    <2>3. Effects(Facts(s, a), Facts(t, a), q.command, q.object, q.req, ok)
      BY <2>1 DEF Serves
    <2>4. q.command = "Oper" /\ n = q.req.num
      BY <1>5, <1>7, <2>2, <2>3 DEF Effects
    <2>5. Untouched(Facts(server, a), n)
      BY <1>2, <2>1, <2>4 DEF Story
    <2>6. IsArmed(Facts(server, a), n)
      BY <2>2, ArmedFacts
    <2> QED
      BY <2>5, <2>6 DEF Untouched
  <1> QED
    BY <1>6, <1>7

\* Whatever bay and hook said when a command was accepted, they are asked again
\* when its operTm has come, and it runs only if they agree then (on_timeout,
\* control.rs:197-201).
THEOREM ArmedCommandsAskAgain == Spec => ArmedObeysTheBay
  <1>1. IInv /\ Books /\ [Next]_vars => [AsksAgain]_vars
    <2> SUFFICES ASSUME IInv, Books, Next PROVE AsksAgain
      OBVIOUS
    <2>1. Shaped(server) /\ ListOK(server)
      BY DEF IInv, Books
    <2>2. ASSUME server'.ran = server.ran
          PROVE  AsksAgain
      BY <2>2 DEF AsksAgain
    <2>3. ASSUME server'.ran = Elapsed(server).ran
          PROVE  AsksAgain
      BY <2>1, <2>3, ElapsedAsks DEF AsksAgain
    <2>4. ASSUME NEW a \in Assoc, Thread(a)
          PROVE  AsksAgain
      <3>1. CASE Poll(a) \/ Wake(a)
        <4> DEFINE e == Elapsed(server)
        <4>1. Shaped(e)
          BY <2>1, ElapsedTables
        <4>2. server' = [e EXCEPT !.pending = NothingOwed]
          BY <3>1 DEF Poll, Wake, PublishAndFlush
        <4> HIDE DEF e
        <4>3. server'.ran = e.ran
          BY <4>1, <4>2, PublishedTables
        <4> QED
          BY <2>3, <4>3 DEF e
      <3>2. CASE Publish(a)
        <4>1. server' = [server EXCEPT !.pending = NothingOwed]
          BY <3>2 DEF Publish, PublishAndFlush
        <4>2. server'.ran = server.ran
          BY <2>1, <4>1, PublishedTables
        <4> QED
          BY <2>2, <4>2
      <3>3. CASE Hangup(a) \/ Unblock(a)
        BY <2>2, <3>3 DEF Hangup, Unblock
      <3>4. CASE End(a)
        BY <2>1, <2>2, <3>4, DroppedTables DEF End
      <3> QED
        BY <2>4, <3>1, <3>2, <3>3, <3>4, ServeAsks DEF Thread
    <2>5. ASSUME NEW a \in Assoc, Client(a)
          PROVE  AsksAgain
      <3>1. server' = server
        BY <2>5 DEF Client, Execute, Select, Operate, OperateSelected, Cancel, Calls,
                    ReadTermination, ReadAnswer, TakeTermination, GiveUp, Leave
      <3> QED
        BY SMTT(30), <2>2, <3>1
    <2>6. ASSUME NEW o \in Objects, NEW mode \in Modes, ChangeMode(o, mode)
          PROVE  AsksAgain
      <3> DEFINE modes == [server.mode EXCEPT ![o] = mode]
      <3>1. server' = [server EXCEPT !.mode = modes, !.pending = NothingOwed]
        BY <2>1, <2>6 DEF ChangeMode, Shaped, ServerFields
      <3> HIDE DEF modes
      <3>2. server'.ran = server.ran
        BY <2>1, <3>1 DEF Shaped, ServerFields
      <3> QED
        BY <2>2, <3>2
    <2>7. ASSUME NEW stages \in Bars, ChangeHook(stages)
          PROVE  AsksAgain
      <3>1. server'.ran = server.ran
        BY <2>1, <2>7 DEF ChangeHook, Shaped, ServerFields
      <3> QED
        BY <2>2, <3>1
    <2>8. ASSUME Tick
          PROVE  AsksAgain
      BY <2>1, <2>2, <2>8, TimePassesTables DEF Tick
    <2> QED
      BY <2>4, <2>5, <2>6, <2>7, <2>8 DEF Next
  <1> QED
    BY <1>1, BooksAlways, PTL DEF Spec, ArmedObeysTheBay
=============================================================================
