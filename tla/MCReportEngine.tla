--------------------------- MODULE MCReportEngine ---------------------------
(***************************************************************************)
(* Small instances of the report engine for TLC.                           *)
(***************************************************************************)
EXTENDS ReportSafety, TLC

CONSTANTS a1, a2, a3, b1, m1, ds1, ds2

Symmetric == Permutations(Assoc)

OneDataSet  == (ds1 :> {m1})
SameMember  == [ds \in DataSet |-> {m1}]

\* SqNum wraps at 2^16 and 2^8; the instances wrap at 16 and 8.
SmallSeqMod == (TRUE :> 16) @@ (FALSE :> 8)

\* A block written whole, with the resume point and the number of reports of a
\* block nobody has used.
Overwrite(ena, ask, purge, ds, period) ==
    [rptEna |-> ena, gi |-> ask, purge |-> purge, resv |-> FALSE, datSet |-> ds,
     confRev |-> 1, intgPd |-> period, sqNum |-> 0, entryID |-> 0,
     ownerAttr |-> None]

\* As if it were enabled, and at once asked for a report and purged; as if it
\* were disabled.
AskAndPurge == {Overwrite(TRUE, TRUE, TRUE, ds1, 0),
                Overwrite(FALSE, FALSE, FALSE, ds1, 0)}

\* As if it were enabled for one data set, or disabled with the other.
SwitchBoth == {Overwrite(TRUE, FALSE, FALSE, ds2, 1),
               Overwrite(FALSE, FALSE, FALSE, ds1, 1)}
=============================================================================
