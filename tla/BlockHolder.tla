----------------------------- MODULE BlockHolder -----------------------------
(***************************************************************************)
(* What the report engine promises about who holds a report control block,  *)
(* with everything else about the block left out: a free block is taken by  *)
(* one open association, a held block becomes free before anybody else      *)
(* takes it, and an association that ends leaves its blocks free or held    *)
(* in its name, and never takes one again.                                 *)
(***************************************************************************)
CONSTANTS Assoc, Blocks, None

VARIABLES holder,   \* who holds each block
          present,  \* associations that are open
          gone      \* associations that have ended

Init ==
    /\ holder = [b \in Blocks |-> None]
    /\ present = {}
    /\ gone = {}

Arrive(a) ==
    /\ a \notin present \cup gone
    /\ present' = present \cup {a}
    /\ UNCHANGED <<holder, gone>>

Take(a, b) ==
    /\ a \in present /\ holder[b] = None
    /\ holder' = [holder EXCEPT ![b] = a]
    /\ UNCHANGED <<present, gone>>

GiveUp(a, b) ==
    /\ a \in present /\ holder[b] = a
    /\ holder' = [holder EXCEPT ![b] = None]
    /\ UNCHANGED <<present, gone>>

\* An association ends; of the blocks it holds, those in `lingering` stay its.
Depart(a, lingering) ==
    /\ a \in present
    /\ holder' = [b \in Blocks |-> IF holder[b] = a /\ b \notin lingering
                                     THEN None ELSE holder[b]]
    /\ present' = present \ {a}
    /\ gone' = gone \cup {a}

\* Claims of associations that have ended run out.
Lapse(freed) ==
    /\ \A b \in freed : holder[b] \in gone
    /\ holder' = [b \in Blocks |-> IF b \in freed THEN None ELSE holder[b]]
    /\ UNCHANGED <<present, gone>>

Next ==
    \/ \E a \in Assoc :
        \/ Arrive(a)
        \/ \E b \in Blocks : Take(a, b) \/ GiveUp(a, b)
        \/ \E lingering \in SUBSET Blocks : Depart(a, lingering)
    \/ \E freed \in SUBSET Blocks : Lapse(freed)

Spec == Init /\ [][Next]_<<holder, present, gone>>
=============================================================================
