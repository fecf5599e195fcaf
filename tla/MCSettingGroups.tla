---------------------------- MODULE MCSettingGroups ----------------------------
(***************************************************************************)
(* A small instance of SettingGroupService for TLC.                        *)
(***************************************************************************)
EXTENDS SettingGroupService

\* No setting, one, all of them, and all of them with one that is refused.
MCWrites ==
    LET x == CHOOSE y \in Settings : TRUE
    IN  { [settings |-> {},       misfits |-> {}],
          [settings |-> {x},      misfits |-> {}],
          [settings |-> Settings, misfits |-> {}],
          [settings |-> Settings, misfits |-> {x}] }

\* Another group shown as active, as being edited, and for as long as before; no
\* group of the device; and a value that does not fit after the first.
MCStructures ==
    LET both == [actSG |-> 2, editSG |-> 2, resvTms |-> 0,
                 taken |-> {"ActSG", "EditSG", "ResvTms"}, whole |-> TRUE]
    IN  { both,
          [both EXCEPT !.actSG = Count + 1, !.editSG = 0],
          [both EXCEPT !.taken = {"ActSG"}, !.whole = FALSE] }
=============================================================================
