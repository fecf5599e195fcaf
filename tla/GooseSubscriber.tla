--------------------------- MODULE GooseSubscriber ---------------------------
(***************************************************************************)
(* The GOOSE subscriber (src/src/proto/goose/subscriber.rs): one record, and *)
(* what a frame, the timer and the application do to it.  The events an      *)
(* operation emits are in `out`, in their order.  The time the last state    *)
(* stays live is kept as what remains of it.                                *)
(***************************************************************************)
EXTENDS GoosePublisher, Sequences

CONSTANT Window     \* SEQ_WRAP_WINDOW

Modes == {"off", "preferred"}

Accepted == [st : 1 .. StTop, sq : 0 .. SqTop, expires : Nat]

ASSUME GooseSubscriberAssumption == Window \in Nat /\ None \notin Accepted

Events == {"state", "retransmission", "expired", "commissioning", "revision",
           "ignored", "takeover", "replay"}

\* `version` is what the frame carried; an application is given it with a state
\* only.
Event == [kind : Events, version : Nat]

Subscriber == [mode       : Modes,
               last       : Accepted \cup {None},
               expired    : BOOLEAN,
               confRev    : ConfRevs \cup {None},
               misrevised : BOOLEAN,    \* conf_rev_mismatch_reported
               nds        : BOOLEAN,
               ignored    : BOOLEAN,    \* simulation_reported
               simulated  : BOOLEAN,    \* simulation_active
               out        : Seq(Event)]

NewSubscriber(mode, confRev) ==
    [mode |-> mode, last |-> None, expired |-> FALSE, confRev |-> confRev,
     misrevised |-> FALSE, nds |-> FALSE, ignored |-> FALSE,
     simulated |-> FALSE, out |-> <<>>]

Live(s) == s.last # None /\ ~s.expired

Quieted(s) == [s EXCEPT !.out = <<>>]

Emit(s, kind, version) ==
    [s EXCEPT !.out = Append(@, [kind |-> kind, version |-> version])]

(***************************************************************************)
(* Time.                                                                   *)
(***************************************************************************)

\* Mutant: nobody is told.
CheckExpirySilent(s) ==
    IF Live(s) /\ s.last.expires = 0 THEN [s EXCEPT !.expired = TRUE] ELSE s

CheckExpiry(s) ==
    IF Live(s) /\ s.last.expires = 0
      THEN Emit([s EXCEPT !.expired = TRUE], "expired", 0) ELSE s

(***************************************************************************)
(* Who is followed.                                                        *)
(***************************************************************************)
ForgetSource(s) ==
    [s EXCEPT !.last = None, !.expired = FALSE, !.nds = FALSE]

ResetSimulation(s) == ForgetSource([s EXCEPT !.simulated = FALSE])

SimulationAdmits(s, f) ==
    IF s.mode = "off" THEN ~f.sim ELSE f.sim \/ ~s.simulated

\* What the simulation policy notes of a frame, admitted or not.
AfterSimulation(s, f) ==
    CASE s.mode = "off" /\ ~f.sim -> [s EXCEPT !.ignored = FALSE]
      [] s.mode = "off" /\ f.sim /\ ~s.ignored ->
             Emit([s EXCEPT !.ignored = TRUE], "ignored", 0)
      [] s.mode = "preferred" /\ f.sim /\ ~s.simulated ->
             Emit(ForgetSource([s EXCEPT !.simulated = TRUE]), "takeover", 0)
      [] OTHER -> s

RevisionAdmits(s, f) == s.confRev \in {None, f.confRev}

\* The first revision seen is adopted; a mismatch is reported once.
AfterRevision(s, f) ==
    CASE s.confRev = None -> [s EXCEPT !.confRev = f.confRev]
      [] s.confRev = f.confRev -> [s EXCEPT !.misrevised = FALSE]
      [] s.confRev # f.confRev /\ ~s.misrevised ->
             Emit([s EXCEPT !.misrevised = TRUE], "revision", 0)
      [] OTHER -> s

(***************************************************************************)
(* IEC 62351-6 replay protection.                                          *)
(***************************************************************************)
Wrapped(last, new, top) == last > top - Window /\ new <= Window

\* Mutant: the counters decide although nothing is live any more.
NewStateByNumber(s, f) ==
    s.last # None => \/ f.st > s.last.st
                     \/ f.st # s.last.st /\ Wrapped(s.last.st, f.st, StTop)

\* While a state is live its successors have a higher number; once nothing is
\* live, any frame begins a new one.
NewState(s, f) ==
    Live(s) => \/ f.st > s.last.st
               \/ f.st # s.last.st /\ Wrapped(s.last.st, f.st, StTop)

Retransmission(s, f) ==
    /\ Live(s) /\ f.st = s.last.st
    /\ f.sq > s.last.sq \/ Wrapped(s.last.sq, f.sq, SqTop)

\* What an accepted frame establishes, after its event.
Established(s, f) ==
    LET t == [s EXCEPT !.last = [st |-> f.st, sq |-> f.sq, expires |-> f.tal],
                       !.expired = FALSE, !.nds = f.nds]
    IN  IF f.nds /\ ~s.nds THEN Emit(t, "commissioning", 0) ELSE t

Judged(s, f) ==
    IF NewState(s, f) THEN Established(Emit(s, "state", f.version), f)
    ELSE IF Retransmission(s, f)
      THEN Established(Emit(s, "retransmission", f.version), f)
    ELSE Emit(s, "replay", f.version)

OnFrame(s, f) ==
    LET s1 == CheckExpiry(Quieted(s))
        s2 == AfterSimulation(s1, f)
        s3 == AfterRevision(s2, f)
    IN  IF ~SimulationAdmits(s1, f) THEN s2
        ELSE IF ~RevisionAdmits(s2, f) THEN s3 ELSE Judged(s3, f)

Accepts(s) == \E i \in DOMAIN s.out : s.out[i].kind \in {"state", "retransmission"}
=============================================================================
