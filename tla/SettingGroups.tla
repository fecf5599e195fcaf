---------------------------- MODULE SettingGroups ----------------------------
(***************************************************************************)
(* The setting groups of a logical device (server/sg.rs): activating a     *)
(* group, reserving one for editing, writing the edit copy, confirming it, *)
(* and the ends of a reservation.                                          *)
(*                                                                         *)
(* An operation takes the server's part of the state, a record, and        *)
(* returns the record it leaves.  The deadline of a reservation counts     *)
(* down, below zero where a thread may act on a clock that is late.        *)
(***************************************************************************)
EXTENDS Integers, FiniteSets

CONSTANTS
    Assoc,     \* associations, as the server numbers them
    Count,     \* NumOfSG
    Settings,  \* the settings of the device
    None,      \* nobody
    Never      \* no deadline

Groups == 1..Count

\* A value is told apart by where it comes from: the engineered value of a
\* group, or the client that wrote it.
Marks == Groups \cup Assoc

\* A Write of the SGCB as a structure, LLN0$SP$SGCB or all of LLN0$SP: a value
\* for each attribute, of which the store takes those before the first misfit.
Structure == [actSG : Nat, editSG : Nat, resvTms : Nat,
              taken : SUBSET {"ActSG", "EditSG", "ResvTms"}, whole : BOOLEAN]

\* What a client writes: an attribute of the SGCB, settings under SE, some of
\* them with a value the store refuses, or the SGCB as a structure.  For a
\* CnfEdit, `group` and `settings` are what its client means to confirm.
Kinds == {"ActSG", "EditSG", "CnfEdit", "ResvTms", "SE", "SGCB"}
Requests ==
    { q \in [kind : Kinds, group : 0..Count, settings : SUBSET Settings,
             misfits : SUBSET Settings, secs : Nat, block : Structure \cup {None}] :
        q.kind = "SGCB" => q.block \in Structure }

ASSUME SettingGroupsAssumption ==
    /\ Count \in Nat \ {0}
    /\ None \notin Assoc /\ None \notin Requests
    /\ Never \notin Int

\* `stray` is a history variable: the attributes a Write of the SGCB as a
\* structure has set past this service since the service last set them.
Server ==
    [ values  : [Groups -> [Settings -> Marks]],
      inForce : [Settings -> Marks],
      copy    : [Settings -> Marks],
      actSG   : Nat,
      editSG  : Nat,
      resvTms : Nat,
      editor  : Assoc \cup {None},
      until   : Int \cup {Never},
      stray   : SUBSET {"ActSG", "EditSG"} ]

\* The device at start, with `act` engineered as the active group.
NewGroups(act, secs) ==
    [ values  |-> [g \in Groups |-> [x \in Settings |-> g]],
      inForce |-> [x \in Settings |-> act],
      copy    |-> [x \in Settings |-> act],
      actSG   |-> act,
      editSG  |-> 0,
      resvTms |-> secs,
      editor  |-> None,
      until   |-> Never,
      stray   |-> {} ]

HeldByOther(s, a) == s.editor \notin {None, a}

\* Mutant: anybody may write what is being edited.
MayAny(s, a, q) ==
    CASE q.kind = "ActSG" -> q.group \in Groups
      [] q.kind \in {"EditSG", "ResvTms"} -> ~HeldByOther(s, a)
      [] q.kind = "CnfEdit" -> ~HeldByOther(s, a) /\ s.editSG \in Groups
      [] q.kind = "SE" -> s.editSG # 0
      [] q.kind = "SGCB" -> TRUE

\* What a write is refused for.  EditSG = 0 releases; with no group selected
\* there is nothing to write or to confirm.  The Write of the structure is not
\* one of the block's services, and nothing is asked of it.
May(s, a, q) ==
    CASE q.kind = "ActSG" -> q.group \in Groups
      [] q.kind \in {"EditSG", "ResvTms"} -> ~HeldByOther(s, a)
      [] q.kind = "CnfEdit" -> ~HeldByOther(s, a) /\ s.editSG \in Groups
      [] q.kind = "SE" -> ~HeldByOther(s, a) /\ s.editSG # 0
      [] q.kind = "SGCB" -> TRUE

\* The settings in force are a copy of the group's.
Applied(s, g) ==
    [s EXCEPT !.inForce = s.values[g], !.actSG = g, !.stray = @ \ {"ActSG"}]

\* When a reservation made now by a thread whose clock is `late` lapses.
Deadline(secs, late) == IF secs = 0 THEN Never ELSE secs - late

Released(s) == [s EXCEPT !.editor = None, !.until = Never]

\* EditSG shows that no group is selected.
Unselected(s) == [Released(s) EXCEPT !.editSG = 0, !.stray = @ \ {"EditSG"}]

\* Mutant: the edit copy keeps what the last editor left in it.
SelectedBare(s, a, g, late) ==
    IF g = 0 THEN Unselected(s)
    ELSE [s EXCEPT !.editor = a, !.until = Deadline(s.resvTms, late),
                   !.editSG = g, !.stray = @ \ {"EditSG"}]

\* To select a group for editing fills the edit copy with what it holds.
Selected(s, a, g, late) ==
    IF g = 0 THEN Unselected(s)
    ELSE [s EXCEPT !.editor = a, !.until = Deadline(s.resvTms, late),
                   !.editSG = g, !.copy = s.values[g], !.stray = @ \ {"EditSG"}]

\* The whole copy becomes the group; the group in force is applied again.
Confirmed(s) ==
    LET t == [s EXCEPT !.values[s.editSG] = s.copy]
    IN  IF s.actSG = s.editSG THEN Applied(t, s.actSG) ELSE t

\* A reservation already held runs anew.
Rearmed(s, a, secs, late) ==
    [s EXCEPT !.resvTms = secs,
              !.until = IF s.editor = a THEN Deadline(secs, late) ELSE @]

\* Each setting is written or refused for itself.
Edited(s, a, xs) ==
    [s EXCEPT !.copy = [x \in Settings |-> IF x \in xs THEN a ELSE s.copy[x]]]

\* The structure goes into the store leaf by leaf: no group is applied, no edit
\* copy filled and no reservation asked, made or rearmed.
Overwritten(s, w) ==
    [s EXCEPT !.actSG   = IF "ActSG" \in w.taken THEN w.actSG ELSE @,
              !.editSG  = IF "EditSG" \in w.taken THEN w.editSG ELSE @,
              !.resvTms = IF "ResvTms" \in w.taken THEN w.resvTms ELSE @,
              !.stray   = @ \cup (w.taken \cap {"ActSG", "EditSG"})]

Done(s, a, q, late) ==
    CASE q.kind = "ActSG"   -> Applied(s, q.group)
      [] q.kind = "EditSG"  -> Selected(s, a, q.group, late)
      [] q.kind = "CnfEdit" -> Confirmed(s)
      [] q.kind = "ResvTms" -> Rearmed(s, a, q.secs, late)
      [] q.kind = "SE"      -> Edited(s, a, q.settings \ q.misfits)
      [] q.kind = "SGCB"    -> Overwritten(s, q.block)

\* The deadline has come, for a thread whose clock is `late`.
Lapsed(s, late) == s.until # Never /\ s.until + late <= 0

Expired(s, late) == IF Lapsed(s, late) THEN Released(s) ELSE s

\* A write to an attribute of the SGCB lets a reservation lapse first, and EditSG
\* stays.
Before(s, q, late) == IF q.kind \in {"SE", "SGCB"} THEN s ELSE Expired(s, late)

Served(s, a, q, late) ==
    LET t == Before(s, q, late)
    IN  IF May(t, a, q) THEN Done(t, a, q, late) ELSE t

ServedOk(s, a, q, late) ==
    /\ May(Before(s, q, late), a, q) /\ q.misfits = {}
    /\ q.kind = "SGCB" => q.block.whole

\* on_timeout: a reservation that lapses takes EditSG along.
TimedOut(s, late) ==
    IF Lapsed(s, late) /\ s.editor # None THEN Unselected(s)
    ELSE Expired(s, late)

\* The end of an association lets go of its reservation; EditSG stays.
Closed(s, a) == IF s.editor = a THEN Released(s) ELSE s

\* One unit of time passes, down to `floor`.
Older(s, floor) ==
    [s EXCEPT !.until = IF s.until # Never /\ s.until > floor THEN s.until - 1 ELSE s.until]
=============================================================================
