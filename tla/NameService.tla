----------------------------- MODULE NameService -----------------------------
(***************************************************************************)
(* The name lists of a server, given out in pages, and a client that walks *)
(* through the pages while other clients create and delete data sets: the  *)
(* list a page is cut from is the one the server has when it is asked.    *)
(*                                                                         *)
(* A name is a number, and the order of the numbers is that of the names.  *)
(***************************************************************************)
EXTENDS Integers, SequencesExt

CONSTANTS
    DeclaredNames,    \* the names the model file declares
    Creatable,     \* the names a client may create a data set under
    NameCost,      \* what a name takes of a page
    PageBudget,    \* what fits into a page
    MaxCreated,    \* data sets clients may have created at a time
    MaxWalked,     \* names after which a client gives a walk up
    MaxNameChanges \* bound: data sets created and deleted

ASSUME NameAssumption ==
    /\ DeclaredNames \cup Creatable \subseteq Nat
    /\ NameCost \in [DeclaredNames \cup Creatable -> Nat \ {0}]
    /\ {PageBudget, MaxCreated, MaxWalked, MaxNameChanges} \subseteq Nat

VARIABLES
    dataSets,   \* the names there are, and whether a client may delete each
    walk,       \* the client: whether it walks, what it was given, how it ended
    namePast    \* history: changes, and what the walk could have seen

nameVars == <<dataSets, walk, namePast>>

NamesOf(ds) == {d.name : d \in ds}
Listing == SetToSortSeq(NamesOf(dataSets), <)

\* throughout: there since the walk began; cut: a page began after no name.
NoWalk == [phase |-> "none", out |-> <<>>]
NameInit ==
    /\ dataSets = {[name |-> n, deletable |-> FALSE] : n \in DeclaredNames}
    /\ walk = NoWalk
    /\ namePast = [changes |-> 0, throughout |-> {}, cut |-> FALSE]

-----------------------------------------------------------------------------
(* The server.                                                             *)

\* A data set is created under a name that is free, of members the model has.
CreateDataSet ==
    /\ namePast.changes < MaxNameChanges
    /\ Cardinality({d \in dataSets : d.deletable}) < MaxCreated
    /\ \E n \in Creatable \ NamesOf(dataSets) : dataSets' = dataSets \cup {[name |-> n, deletable |-> TRUE]}
    /\ namePast' = [namePast EXCEPT !.changes = @ + 1]
    /\ UNCHANGED walk

\* One a client created is deleted, whoever uses it; an engineered one never.
DeleteDataSets ==
    /\ namePast.changes < MaxNameChanges
    /\ \E gone \in SUBSET {d \in dataSets : d.deletable} :
        /\ gone # {}
        /\ dataSets' = dataSets \ gone
        /\ namePast' = [namePast EXCEPT !.changes = @ + 1, !.throughout = @ \ NamesOf(gone)]
    /\ UNCHANGED walk

\* What names i to k take of a page.
Used(all, i, k) == FoldLeft(LAMBDA used, n : used + NameCost[n], 0, SubSeq(all, i, k))

\* The names from start on that fit, and one at least.
PageFrom(all, start) ==
    LET fits == {k \in start .. Len(all) : k = start \/ Used(all, start, k) <= PageBudget}
        last == IF fits = {} THEN start - 1 ELSE Max(fits)
    IN  [names |-> SubSeq(all, start, last), more |-> last < Len(all)]

FromPageAt(all, after) ==
    IF after = <<>> THEN PageFrom(all, 1)
    ELSE IF Contains(all, after[1]) THEN PageFrom(all, CHOOSE i \in 1 .. Len(all) : all[i] = after[1])
    ELSE [names |-> <<>>, more |-> FALSE]

\* One page of the list, after the name given; after no name of the list, the end.
FromPage(all, after) ==
    IF after = <<>> THEN PageFrom(all, 1)
    ELSE IF Contains(all, after[1]) THEN PageFrom(all, 1 + CHOOSE i \in 1 .. Len(all) : all[i] = after[1])
    ELSE [names |-> <<>>, more |-> FALSE]

-----------------------------------------------------------------------------
(* The client.                                                             *)

\* A page without names ends a walk whatever it says of more to follow.
TookPage(page) ==
    LET out == walk.out \o page.names
    IN  walk' = [phase |-> IF ~page.more \/ page.names = <<>> THEN "done"
                           ELSE IF Len(out) > MaxWalked THEN "failed" ELSE "walking",
                 out |-> out]

StartWalk ==
    /\ walk.phase = "none"
    /\ TookPage(FromPage(Listing, <<>>))
    /\ namePast' = [namePast EXCEPT !.throughout = NamesOf(dataSets)]
    /\ UNCHANGED dataSets

WalkOn ==
    /\ walk.phase = "walking"
    /\ TookPage(FromPage(Listing, <<Last(walk.out)>>))
    /\ namePast' = [namePast EXCEPT !.cut = Last(walk.out) \notin NamesOf(dataSets)]
    /\ UNCHANGED dataSets

EndWalk ==
    /\ walk.phase \in {"done", "failed"}
    /\ walk' = NoWalk
    /\ namePast' = [namePast EXCEPT !.throughout = {}, !.cut = FALSE]
    /\ UNCHANGED dataSets

NameNext == CreateDataSet \/ DeleteDataSets \/ StartWalk \/ WalkOn \/ EndWalk

-----------------------------------------------------------------------------
(* Properties.                                                             *)

\* A walk gives the names in order, none twice, and a walk that ends well has
\* every name that was there throughout, unless the name a page was to begin
\* after had been deleted: then it ends early and looks complete.
ListedOnce ==
    /\ \A i, k \in 1 .. Len(walk.out) : i < k => walk.out[i] < walk.out[k]
    /\ walk.phase = "done" /\ ~namePast.cut => namePast.throughout \subseteq ToSet(walk.out)
=============================================================================
