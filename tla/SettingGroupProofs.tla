-------------------------- MODULE SettingGroupProofs --------------------------
(***************************************************************************)
(* Proofs about SettingGroupService, for every set of associations and of  *)
(* settings, every number of groups, every reservation time and every      *)
(* lateness of the clocks.                                                 *)
(***************************************************************************)
EXTENDS SettingGroupService, SequenceTheorems, TLAPS

\* What each operation keeps of the device.
InForce(s) ==
    "ActSG" \notin s.stray => s.actSG \in Groups /\ s.inForce = s.values[s.actSG]

Editing(s) ==
    s.editor # None /\ "EditSG" \notin s.stray =>
        /\ s.editSG \in Groups
        /\ \A x \in Settings : s.copy[x] \in {s.values[s.editSG][x], s.editor}

Sound(s) ==
    /\ s \in Server
    /\ s.until # Never => s.editor # None
    /\ InForce(s)
    /\ Editing(s)

\* What is edited and its holder are the same in both, and the selection is, or
\* was written past the service.
Respected(s, t) ==
    /\ t.values = s.values /\ t.copy = s.copy /\ t.editor = s.editor
    /\ "EditSG" \notin t.stray => "EditSG" \notin s.stray /\ t.editSG = s.editSG

\* The edit and its holder are the same in both.
SameEdit(s, t) ==
    /\ t.values = s.values /\ t.copy = s.copy
    /\ t.editSG = s.editSG /\ t.editor = s.editor
    /\ "EditSG" \in t.stray <=> "EditSG" \in s.stray

-----------------------------------------------------------------------------
(* The operations *)

LEMMA AppliedSound ==
    ASSUME NEW s \in Server, s.until # Never => s.editor # None, Editing(s),
           NEW g \in Groups
    PROVE  Sound(Applied(s, g)) /\ SameEdit(s, Applied(s, g))
<1> DEFINE t == Applied(s, g)
<1>1. t = [s EXCEPT !.inForce = s.values[g], !.actSG = g, !.stray = s.stray \ {"ActSG"}]
  BY DEF Applied
<1>2. /\ s.values[g] \in [Settings -> Marks]
      /\ s.stray \ {"ActSG"} \in SUBSET {"ActSG", "EditSG"}
  BY DEF Server
<1>3. t \in Server
  <2>1. g \in Nat
    BY SettingGroupsAssumption DEF Groups
  <2> QED
    BY <1>1, <1>2, <2>1 DEF Server
<1>4. SameEdit(s, t) /\ t.until = s.until
  BY <1>1 DEF Server, SameEdit
<1>5. t.inForce = s.values[g] /\ t.actSG = g /\ t.values = s.values
  BY <1>1 DEF Server
<1> QED
  BY <1>3, <1>4, <1>5 DEF Sound, SameEdit, InForce, Editing

LEMMA ReleasedSound ==
    ASSUME NEW s, Sound(s)
    PROVE  Sound(Released(s)) /\ Released(s).editor = None
<1> DEFINE t == Released(s)
<1>1. t = [s EXCEPT !.editor = None, !.until = Never]
  BY DEF Released
<1>2. s \in Server
  BY DEF Sound
<1>3. t \in Server
  BY <1>1, <1>2 DEF Server
<1>4. /\ t.editor = None /\ t.until = Never
      /\ t.inForce = s.inForce /\ t.values = s.values /\ t.actSG = s.actSG
      /\ t.stray = s.stray
  BY <1>1, <1>2 DEF Server
<1> QED
  BY <1>3, <1>4 DEF Sound, InForce, Editing

LEMMA UnselectedSound ==
    ASSUME NEW s, Sound(s)
    PROVE  Sound(Unselected(s)) /\ Unselected(s).editor = None
<1> DEFINE u == Released(s)
           t == Unselected(s)
<1>1. Sound(u) /\ u.editor = None /\ u \in Server
  BY ReleasedSound DEF Sound
<1>2. t = [u EXCEPT !.editSG = 0, !.stray = u.stray \ {"EditSG"}]
  BY DEF Unselected
<1> HIDE DEF u, t
<1>3. t \in Server
  BY <1>1, <1>2 DEF Server
<1>4. /\ t.editor = None /\ t.until = u.until
      /\ t.inForce = u.inForce /\ t.values = u.values /\ t.actSG = u.actSG
      /\ t.stray = u.stray \ {"EditSG"}
  BY <1>1, <1>2 DEF Server
<1>5. Sound(t) /\ t.editor = None
  BY <1>1, <1>3, <1>4 DEF Sound, InForce, Editing
<1> QED
  BY <1>5 DEF t

LEMMA DeadlineType ==
    ASSUME NEW secs \in Nat, NEW late \in Nat
    PROVE  Deadline(secs, late) \in Int \cup {Never}
  BY DEF Deadline

LEMMA SelectedSound ==
    ASSUME NEW s, Sound(s), NEW a \in Assoc, NEW g \in 0..Count, NEW late \in Nat
    PROVE  Sound(Selected(s, a, g, late)) /\ Selected(s, a, g, late).editor \in {None, a}
<1>1. CASE g = 0
  <2>1. Selected(s, a, g, late) = Unselected(s)
    BY <1>1 DEF Selected
  <2> QED
    BY <2>1, UnselectedSound
<1>2. CASE g # 0
  <2> DEFINE u == Deadline(s.resvTms, late)
             t == Selected(s, a, g, late)
  <2>1. t = [s EXCEPT !.editor = a, !.until = u, !.editSG = g, !.copy = s.values[g],
                      !.stray = s.stray \ {"EditSG"}]
    BY <1>2 DEF Selected
  <2>2. s \in Server
    BY DEF Sound
  <2>3. g \in Groups
    BY <1>2, SettingGroupsAssumption DEF Groups
  <2>4. /\ s.values[g] \in [Settings -> Marks] /\ s.resvTms \in Nat /\ g \in Nat
        /\ s.stray \ {"EditSG"} \in SUBSET {"ActSG", "EditSG"}
    <3>1. g \in Nat
      BY <2>3, SettingGroupsAssumption DEF Groups
    <3> QED
      BY <2>2, <2>3, <3>1 DEF Server
  <2>5. u \in Int \cup {Never}
    BY <2>4, DeadlineType
  <2> HIDE DEF u
  <2>6. t \in Server
    BY <2>1, <2>2, <2>4, <2>5 DEF Server
  <2>7. /\ t.editor = a /\ t.editSG = g /\ t.copy = s.values[g]
        /\ t.inForce = s.inForce /\ t.values = s.values /\ t.actSG = s.actSG
        /\ t.stray = s.stray \ {"EditSG"}
    BY <2>1, <2>2 DEF Server
  <2>8. a # None
    BY SettingGroupsAssumption
  <2> QED
    BY <2>3, <2>6, <2>7, <2>8 DEF Sound, InForce, Editing
<1> QED
  BY <1>1, <1>2

LEMMA ConfirmedSound ==
    ASSUME NEW s, Sound(s), s.editSG \in Groups
    PROVE  Sound(Confirmed(s)) /\ Confirmed(s).editor = s.editor
<1> DEFINE t == [s EXCEPT !.values[s.editSG] = s.copy]
<1>1. s \in Server
  BY DEF Sound
<1>2. s.editSG \in Groups
  OBVIOUS
<1>3. /\ t \in Server
      /\ t.values = [s.values EXCEPT ![s.editSG] = s.copy]
      /\ t.editor = s.editor /\ t.until = s.until /\ t.editSG = s.editSG
      /\ t.copy = s.copy /\ t.inForce = s.inForce /\ t.actSG = s.actSG
      /\ t.stray = s.stray
  <2> DEFINE v == [s.values EXCEPT ![s.editSG] = s.copy]
  <2>1. v \in [Groups -> [Settings -> Marks]]
    BY <1>1, <1>2 DEF Server
  <2>2. t = [s EXCEPT !.values = v]
    BY <1>1 DEF Server
  <2> HIDE DEF v
  <2>3. t \in Server
    BY <1>1, <2>1, <2>2 DEF Server
  <2>4. /\ t.values = v /\ t.editor = s.editor /\ t.until = s.until
        /\ t.editSG = s.editSG /\ t.copy = s.copy
        /\ t.inForce = s.inForce /\ t.actSG = s.actSG /\ t.stray = s.stray
    BY <1>1, <2>2 DEF Server
  <2> QED
    BY <2>3, <2>4 DEF v
<1> HIDE DEF t
<1>4. t.values[s.editSG] = s.copy
  BY <1>1, <1>2, <1>3 DEF Server
<1>5. Editing(t)
  BY <1>2, <1>3, <1>4 DEF Editing
<1>6. t.until # Never => t.editor # None
  BY <1>3 DEF Sound
<1>7. CASE s.actSG = s.editSG
  <2>1. Confirmed(s) = Applied(t, t.actSG)
    BY <1>3, <1>7 DEF Confirmed, t
  <2>2. Sound(Applied(t, t.actSG)) /\ SameEdit(t, Applied(t, t.actSG))
    BY <1>2, <1>3, <1>5, <1>6, <1>7, AppliedSound
  <2> QED
    BY <2>1, <2>2, <1>3 DEF SameEdit
<1>8. CASE s.actSG # s.editSG
  <2>1. Confirmed(s) = t
    BY <1>3, <1>8 DEF Confirmed, t
  <2>2. s.actSG \in Groups => t.values[t.actSG] = s.values[s.actSG]
    BY <1>1, <1>2, <1>3, <1>8 DEF Server
  <2>3. InForce(t)
    BY <2>2, <1>3 DEF InForce, Sound
  <2> QED
    BY <2>1, <2>3, <1>3, <1>5, <1>6 DEF Sound
<1> QED
  BY <1>7, <1>8

LEMMA RearmedSound ==
    ASSUME NEW s, Sound(s), NEW a \in Assoc, NEW secs \in Nat, NEW late \in Nat
    PROVE  Sound(Rearmed(s, a, secs, late)) /\ Rearmed(s, a, secs, late).editor = s.editor
<1> DEFINE u == IF s.editor = a THEN Deadline(secs, late) ELSE s.until
           t == Rearmed(s, a, secs, late)
<1>1. s \in Server
  BY DEF Sound
<1>2. u \in Int \cup {Never}
  BY <1>1, DeadlineType DEF Server
<1>3. u # Never => s.editor # None
  BY SettingGroupsAssumption DEF Sound
<1>4. t = [s EXCEPT !.resvTms = secs, !.until = u]
  BY <1>1 DEF Rearmed, Server
<1> HIDE DEF u, t
<1>5. t \in Server
  BY <1>1, <1>2, <1>4 DEF Server
<1>6. SameEdit(s, t) /\ t.until = u /\ t.inForce = s.inForce /\ t.actSG = s.actSG
      /\ t.stray = s.stray
  BY <1>1, <1>4 DEF Server, SameEdit
<1>7. Sound(t) /\ t.editor = s.editor
  BY <1>3, <1>5, <1>6 DEF Sound, SameEdit, InForce, Editing
<1> QED
  BY <1>7 DEF t

LEMMA EditedSound ==
    ASSUME NEW s, Sound(s), NEW a \in Assoc, NEW xs, s.editor \in {None, a}
    PROVE  Sound(Edited(s, a, xs)) /\ Edited(s, a, xs).editor = s.editor
<1> DEFINE c == [x \in Settings |-> IF x \in xs THEN a ELSE s.copy[x]]
           t == Edited(s, a, xs)
<1>1. s \in Server
  BY DEF Sound
<1>2. c \in [Settings -> Marks]
  BY <1>1 DEF Server, Marks
<1>3. t = [s EXCEPT !.copy = c]
  BY DEF Edited
<1>4. \A x \in Settings : c[x] \in {a, s.copy[x]}
  OBVIOUS
<1> HIDE DEF c, t
<1>5. t \in Server
  BY <1>1, <1>2, <1>3 DEF Server
<1>6. /\ t.copy = c /\ t.values = s.values /\ t.editSG = s.editSG /\ t.editor = s.editor
      /\ t.until = s.until /\ t.inForce = s.inForce /\ t.actSG = s.actSG
      /\ t.stray = s.stray
  BY <1>1, <1>3 DEF Server
<1>7. Editing(t)
  BY <1>4, <1>6 DEF Sound, Editing
<1>8. Sound(t) /\ t.editor = s.editor
  BY <1>5, <1>6, <1>7 DEF Sound, InForce
<1> QED
  BY <1>8 DEF t

LEMMA ExpiredSound ==
    ASSUME NEW s, Sound(s), NEW late \in Nat
    PROVE  /\ Sound(Expired(s, late)) /\ Expired(s, late).editor \in {None, s.editor}
           /\ s.until = Never \/ s.until > 0 => Expired(s, late) = s
<1>1. Sound(Expired(s, late)) /\ Expired(s, late).editor \in {None, s.editor}
  BY ReleasedSound DEF Expired
<1>2. s.until = Never \/ s.until > 0 => ~Lapsed(s, late)
  BY DEF Lapsed, Sound, Server
<1> QED
  BY <1>1, <1>2 DEF Expired

LEMMA TimedOutSound ==
    ASSUME NEW s, Sound(s), NEW late \in Nat
    PROVE  /\ Sound(TimedOut(s, late)) /\ TimedOut(s, late).editor \in {None, s.editor}
           /\ s.until = Never \/ s.until > 0 => TimedOut(s, late) = s
<1>1. CASE Lapsed(s, late) /\ s.editor # None
  <2>1. TimedOut(s, late) = Unselected(s)
    BY <1>1 DEF TimedOut
  <2>2. Sound(TimedOut(s, late)) /\ TimedOut(s, late).editor = None
    BY <2>1, UnselectedSound
  <2>3. ~(s.until = Never \/ s.until > 0)
    BY <1>1 DEF Lapsed, Sound, Server
  <2> QED
    BY <2>2, <2>3
<1>2. CASE ~(Lapsed(s, late) /\ s.editor # None)
  <2>1. TimedOut(s, late) = Expired(s, late)
    BY <1>2 DEF TimedOut
  <2> QED
    BY <2>1, ExpiredSound
<1> QED
  BY <1>1, <1>2

LEMMA ClosedSound ==
    ASSUME NEW s, Sound(s), NEW a \in Assoc
    PROVE  /\ Sound(Closed(s, a)) /\ Closed(s, a).editor \in {None, s.editor} \ {a}
           /\ s.editor # a => Closed(s, a) = s
           /\ s.editor = a => SameEdit([s EXCEPT !.editor = None], Closed(s, a))
<1>1. CASE s.editor = a
  <2>1. Sound(Released(s)) /\ Released(s).editor = None
    BY ReleasedSound
  <2>2. SameEdit([s EXCEPT !.editor = None], Released(s))
    BY DEF Released, SameEdit, Sound, Server
  <2> QED
    BY <1>1, <2>1, <2>2, SettingGroupsAssumption DEF Closed
<1>2. CASE s.editor # a
  BY <1>2 DEF Closed
<1> QED
  BY <1>1, <1>2

LEMMA OlderSound ==
    ASSUME NEW s, Sound(s), NEW floor \in Int
    PROVE  Sound(Older(s, floor)) /\ SameEdit(s, Older(s, floor))
<1> DEFINE u == IF s.until # Never /\ s.until > floor THEN s.until - 1 ELSE s.until
           t == Older(s, floor)
<1>1. s \in Server
  BY DEF Sound
<1>2. u \in Int \cup {Never} /\ (u # Never => s.until # Never)
  BY <1>1 DEF Server
<1>3. t = [s EXCEPT !.until = u]
  BY DEF Older
<1> HIDE DEF u, t
<1>4. t \in Server
  BY <1>1, <1>2, <1>3 DEF Server
<1>5. SameEdit(s, t) /\ t.until = u /\ t.inForce = s.inForce /\ t.actSG = s.actSG
      /\ t.stray = s.stray
  BY <1>1, <1>3 DEF Server, SameEdit
<1>6. Sound(t) /\ SameEdit(s, t)
  BY <1>2, <1>4, <1>5 DEF Sound, SameEdit, InForce, Editing
<1> QED
  BY <1>6 DEF t

LEMMA OverwrittenSound ==
    ASSUME NEW s, Sound(s), NEW w \in Structure
    PROVE  LET t == Overwritten(s, w)
           IN  /\ Sound(t)
               /\ t.values = s.values /\ t.copy = s.copy /\ t.editor = s.editor
               /\ t.until = s.until
               /\ "EditSG" \notin t.stray => "EditSG" \notin s.stray /\ t.editSG = s.editSG
<1> DEFINE act == IF "ActSG" \in w.taken THEN w.actSG ELSE s.actSG
           ed  == IF "EditSG" \in w.taken THEN w.editSG ELSE s.editSG
           res == IF "ResvTms" \in w.taken THEN w.resvTms ELSE s.resvTms
           str == s.stray \cup (w.taken \cap {"ActSG", "EditSG"})
           t   == Overwritten(s, w)
<1>1. s \in Server
  BY DEF Sound
<1>2. act \in Nat /\ ed \in Nat /\ res \in Nat /\ str \in SUBSET {"ActSG", "EditSG"}
  BY <1>1 DEF Server, Structure
<1>3. /\ "ActSG" \notin str => "ActSG" \notin s.stray /\ act = s.actSG
      /\ "EditSG" \notin str => "EditSG" \notin s.stray /\ ed = s.editSG
  OBVIOUS
<1>4. t = [s EXCEPT !.actSG = act, !.editSG = ed, !.resvTms = res, !.stray = str]
  BY <1>1 DEF Overwritten, Server
<1> HIDE DEF act, ed, res, str, t
<1>5. t \in Server
  BY <1>1, <1>2, <1>4 DEF Server
<1>6. /\ t.values = s.values /\ t.copy = s.copy /\ t.editor = s.editor
      /\ t.until = s.until /\ t.inForce = s.inForce
      /\ t.actSG = act /\ t.editSG = ed /\ t.stray = str
  BY <1>1, <1>4 DEF Server
<1>7. Sound(t)
  BY <1>3, <1>5, <1>6 DEF Sound, InForce, Editing
<1> QED
  BY <1>3, <1>6, <1>7 DEF t

LEMMA DoneSound ==
    ASSUME NEW s, Sound(s), NEW a \in Assoc, NEW q \in Requests, NEW late \in Nat,
           May(s, a, q)
    PROVE  /\ Sound(Done(s, a, q, late))
           /\ Done(s, a, q, late).editor \in {None, a, s.editor}
<1>1. /\ q.kind \in Kinds /\ q.group \in 0..Count /\ q.secs \in Nat
      /\ q.kind = "SGCB" => q.block \in Structure
  BY DEF Requests
<1>2. CASE q.kind = "ActSG"
  <2>1. q.group \in Groups
    BY <1>2 DEF May
  <2>2. Sound(Applied(s, q.group)) /\ SameEdit(s, Applied(s, q.group))
    BY <2>1, AppliedSound DEF Sound
  <2> QED
    BY <1>2, <2>2 DEF Done, SameEdit
<1>3. CASE q.kind = "EditSG"
  BY <1>1, <1>3, SelectedSound DEF Done
<1>4. CASE q.kind = "CnfEdit"
  <2>1. s.editSG \in Groups
    BY <1>4 DEF May
  <2> QED
    BY <1>4, <2>1, ConfirmedSound DEF Done
<1>5. CASE q.kind = "ResvTms"
  BY <1>1, <1>5, RearmedSound DEF Done
<1>6. CASE q.kind = "SE"
  <2>1. s.editor \in {None, a}
    BY <1>6 DEF May, HeldByOther
  <2>2. Sound(Edited(s, a, q.settings \ q.misfits))
        /\ Edited(s, a, q.settings \ q.misfits).editor = s.editor
    BY <2>1, EditedSound
  <2> QED
    BY <1>6, <2>2 DEF Done
<1>7. CASE q.kind = "SGCB"
  BY <1>1, <1>7, OverwrittenSound DEF Done
<1> QED
  BY <1>1, <1>2, <1>3, <1>4, <1>5, <1>6, <1>7 DEF Kinds

LEMMA ServedSound ==
    ASSUME NEW s, Sound(s), NEW a \in Assoc, NEW q \in Requests, NEW late \in Nat
    PROVE  /\ Sound(Served(s, a, q, late))
           /\ Served(s, a, q, late).editor \in {None, a, s.editor}
<1> DEFINE t == Before(s, q, late)
<1>1. Sound(t) /\ t.editor \in {None, s.editor}
  BY ExpiredSound DEF Before
<1>2. Served(s, a, q, late) = IF May(t, a, q) THEN Done(t, a, q, late) ELSE t
  BY DEF Served
<1> HIDE DEF t
<1>3. CASE May(t, a, q)
  BY <1>1, <1>2, <1>3, DoneSound
<1>4. CASE ~May(t, a, q)
  BY <1>1, <1>2, <1>4
<1> QED
  BY <1>3, <1>4

LEMMA DoneRespects ==
    ASSUME NEW s, Sound(s), NEW a \in Assoc, NEW q \in Requests, NEW late \in Nat,
           HeldByOther(s, a), May(s, a, q)
    PROVE  Respected(s, Done(s, a, q, late))
<1>1. q.kind \in Kinds /\ (q.kind = "SGCB" => q.block \in Structure)
  BY DEF Requests
<1>2. \/ q.kind = "ActSG" /\ q.group \in Groups
      \/ q.kind = "SGCB"
  BY <1>1 DEF May, Kinds
<1>3. CASE q.kind = "ActSG" /\ q.group \in Groups
  <2>1. SameEdit(s, Applied(s, q.group))
    BY <1>3, AppliedSound DEF Sound
  <2> QED
    BY <1>3, <2>1 DEF Done, SameEdit, Respected
<1>4. CASE q.kind = "SGCB"
  BY <1>1, <1>4, OverwrittenSound DEF Done, Respected
<1> QED
  BY <1>2, <1>3, <1>4

LEMMA ServedRespects ==
    ASSUME NEW s, Sound(s), NEW a \in Assoc, NEW q \in Requests, NEW late \in Nat,
           s.editor \notin {None, a}, s.until = Never \/ s.until > 0
    PROVE  Respected(s, Served(s, a, q, late))
<1>1. Before(s, q, late) = s
  BY ExpiredSound DEF Before
<1>2. HeldByOther(s, a)
  BY DEF HeldByOther
<1>3. CASE May(s, a, q)
  BY <1>1, <1>2, <1>3, DoneRespects DEF Served
<1>4. CASE ~May(s, a, q)
  BY <1>1, <1>4 DEF Served, Respected
<1> QED
  BY <1>3, <1>4

-----------------------------------------------------------------------------
(* The inductive invariant *)

\* A thread that serves has a request to serve, and a client that waits has
\* requests to make.
Threads ==
    /\ conn \in [Assoc -> [at : {"read", "serve", "closed"}, late : 0..Stale]]
    /\ inbox \in [Assoc -> Requests \cup {None}]
    /\ reply \in [Assoc -> Answers]
    /\ client \in [Assoc -> [phase : {"idle", "calling", "gone"}, plan : Seq(Requests)]]
    /\ \A a \in Assoc :
        /\ conn[a].at = "serve" => inbox[a] \in Requests
        /\ client[a].phase = "calling" => client[a].plan # <<>>

HolderIsOpen == server.editor # None => Open(server.editor)

IInv == Sound(server) /\ Threads /\ HolderIsOpen

LEMMA Implied == IInv => TypeOK /\ InForceIsActive /\ EditorSeesItsGroup
  BY DEF IInv, Sound, Threads, HolderIsOpen, TypeOK, InForceIsActive, InForce,
         EditorSeesItsGroup, Editing

LEMMA RequestType ==
    ASSUME NEW kind \in Kinds, NEW g \in 0..Count, NEW xs \in SUBSET Settings, NEW n \in Nat
    PROVE  kind # "SGCB" => Request(kind, g, xs, n) \in Requests
  BY DEF Request, Requests

LEMMA StructureType ==
    ASSUME NEW w \in Structures
    PROVE  LET q == [Request("SGCB", 0, {}, 0) EXCEPT !.block = w]
           IN  /\ q \in Requests /\ q.kind = "SGCB" /\ q.group = 0
               /\ <<q>> \in Seq(Requests) /\ <<q>> # <<>> /\ Head(<<q>>) = q
<1> DEFINE q == [Request("SGCB", 0, {}, 0) EXCEPT !.block = w]
<1>1. w \in Structure /\ 0 \in 0..Count
  BY ServiceAssumption, SettingGroupsAssumption
<1>2. q = [kind |-> "SGCB", group |-> 0, settings |-> {}, misfits |-> {}, secs |-> 0, block |-> w]
  BY DEF Request
<1> HIDE DEF q
<1>3. q \in Requests /\ q.kind = "SGCB" /\ q.group = 0
  BY <1>1, <1>2 DEF Requests, Kinds
<1>4. <<q>> \in Seq(Requests) /\ <<q>> # <<>> /\ Head(<<q>>) = q
  BY <1>3
<1> QED
  BY <1>3, <1>4 DEF q

LEMMA Initially == Init => IInv
<1> SUFFICES ASSUME Init PROVE IInv
  OBVIOUS
<1>1. PICK secs \in Secs : server = NewGroups(Act, secs)
  BY DEF Init
<1>2. Act \in Groups /\ secs \in Nat
  BY <1>1, ServiceAssumption
<1>3. server.values[Act] = server.inForce
  BY <1>1, <1>2 DEF NewGroups
<1>4. server \in Server
  BY <1>1, <1>2, SettingGroupsAssumption DEF NewGroups, Server, Marks, Groups
<1>5. /\ server.editor = None /\ server.until = Never /\ server.actSG = Act
      /\ server.stray = {}
  BY <1>1 DEF NewGroups
<1>6. Sound(server)
  BY <1>2, <1>3, <1>4, <1>5 DEF Sound, InForce, Editing
<1>7. Threads
  BY ServiceAssumption DEF Init, Threads, Answers
<1> QED
  BY <1>5, <1>6, <1>7 DEF IInv, HolderIsOpen

LEMMA PollInv == ASSUME IInv, NEW a \in Assoc, Poll(a) PROVE IInv'
<1>1. PICK late \in 0..Stale : server' = TimedOut(server, late)
  BY DEF Poll
<1>2. Sound(server') /\ server'.editor \in {None, server.editor}
  BY <1>1, TimedOutSound DEF IInv
<1> QED
  BY <1>2 DEF IInv, Threads, HolderIsOpen, Open, Poll

LEMMA WakeInv == ASSUME IInv, NEW a \in Assoc, Wake(a) PROVE IInv'
<1>1. PICK late \in 0..Stale :
        /\ server' = TimedOut(server, late)
        /\ conn' = [conn EXCEPT ![a] = [at |-> "serve", late |-> late]]
  BY DEF Wake
<1>2. Sound(server') /\ server'.editor \in {None, server.editor}
  BY <1>1, TimedOutSound DEF IInv
<1>3. Threads'
  BY <1>1 DEF IInv, Threads, Wake
<1>4. HolderIsOpen'
  BY <1>1, <1>2 DEF IInv, Threads, HolderIsOpen, Open
<1> QED
  BY <1>2, <1>3, <1>4 DEF IInv

LEMMA ServeInv == ASSUME IInv, NEW a \in Assoc, Serve(a) PROVE IInv'
<1>1. inbox[a] \in Requests /\ conn[a].late \in Nat
  BY ServiceAssumption DEF IInv, Threads, Serve
<1>2. Sound(server') /\ server'.editor \in {None, a, server.editor}
  BY <1>1, ServedSound DEF IInv, Serve
<1>3. conn' = [conn EXCEPT ![a] = [at |-> "read", late |-> 0]]
  BY DEF Serve
<1>4. Threads'
  BY <1>3, ServiceAssumption DEF IInv, Threads, Serve, Answers
<1>5. HolderIsOpen'
  BY <1>2, <1>3 DEF IInv, Threads, HolderIsOpen, Open
<1> QED
  BY <1>2, <1>4, <1>5 DEF IInv

LEMMA EndInv == ASSUME IInv, NEW a \in Assoc, End(a) PROVE IInv'
<1>1. Sound(server') /\ server'.editor \in {None, server.editor} \ {a}
  BY ClosedSound DEF IInv, End
<1>2. conn' = [conn EXCEPT ![a] = [at |-> "closed", late |-> 0]]
  BY DEF End
<1>3. Threads'
  BY <1>2, ServiceAssumption DEF IInv, Threads, End
<1>4. HolderIsOpen'
  BY <1>1, <1>2 DEF IInv, Threads, HolderIsOpen, Open
<1> QED
  BY <1>1, <1>3, <1>4 DEF IInv

LEMMA TickInv == ASSUME IInv, Tick PROVE IInv'
<1>1. Sound(server') /\ SameEdit(server, server')
  BY OlderSound, ServiceAssumption DEF IInv, Tick
<1>2. \A a \in Assoc :
        /\ conn'[a] \in [at : {"read", "serve", "closed"}, late : 0..Stale]
        /\ conn'[a].at = conn[a].at
  BY ServiceAssumption DEF IInv, Threads, Tick
<1>3. conn' \in [Assoc -> [at : {"read", "serve", "closed"}, late : 0..Stale]]
  BY <1>2 DEF Tick
<1>4. Threads'
  BY <1>2, <1>3 DEF IInv, Threads, Tick
<1>5. HolderIsOpen'
  BY <1>1, <1>2 DEF IInv, HolderIsOpen, Open, SameEdit, Sound, Server
<1> QED
  BY <1>1, <1>4, <1>5 DEF IInv

\* A client changes neither the device nor a thread.
LEMMA ClientKeeps ==
    ASSUME IInv, Threads', UNCHANGED <<server, conn>>
    PROVE  IInv'
  BY DEF IInv, HolderIsOpen, Open

LEMMA CallsInv ==
    ASSUME IInv, NEW a \in Assoc, NEW plan \in Seq(Requests), plan # <<>>, Calls(a, plan)
    PROVE  IInv'
<1>1. Head(plan) \in Requests
  OBVIOUS
<1>2. Threads'
  BY <1>1 DEF IInv, Threads, Calls
<1> QED
  BY <1>2, ClientKeeps DEF Calls

LEMMA EditPlanType ==
    ASSUME NEW g \in Groups, NEW w \in Writes
    PROVE  /\ EditPlan(g, w.settings, w.misfits) \in Seq(Requests)
           /\ EditPlan(g, w.settings, w.misfits) # <<>>
<1>1. w.settings \in SUBSET Settings /\ w.misfits \in SUBSET Settings
  BY ServiceAssumption
<1>2. g \in 0..Count /\ 0 \in 0..Count
  BY SettingGroupsAssumption DEF Groups
<1>3. Selecting(g) \in Requests /\ Selecting(0) \in Requests
  BY <1>2, RequestType DEF Selecting, Kinds
<1> DEFINE write   == [Request("SE", g, w.settings, 0) EXCEPT !.misfits = w.misfits]
           confirm == Request("CnfEdit", g, w.settings, 0)
<1>4. write \in Requests
  BY <1>1, <1>2 DEF Request, Requests, Kinds
<1>5. confirm \in Requests
  BY <1>1, <1>2, RequestType DEF Kinds
<1>6. EditPlan(g, w.settings, w.misfits)
        = IF w.settings = {} THEN <<Selecting(g), confirm, Selecting(0)>>
          ELSE <<Selecting(g), write, confirm, Selecting(0)>>
  BY DEF EditPlan
<1> HIDE DEF write, confirm
<1> QED
  BY <1>3, <1>4, <1>5, <1>6

LEMMA ReadReplyInv == ASSUME IInv, NEW a \in Assoc, ReadReply(a) PROVE IInv'
<1> DEFINE plan == client[a].plan
           rest == Rest(plan, reply[a] = "ok")
<1>1. plan \in Seq(Requests) /\ plan # <<>>
  BY DEF IInv, Threads, ReadReply
<1>2. Tail(plan) \in Seq(Requests) /\ Selecting(0) \in Requests
  <2>1. 0 \in 0..Count
    BY SettingGroupsAssumption
  <2> QED
    BY <1>1, <2>1, RequestType DEF Selecting, Kinds
<1>3. rest \in {Tail(plan), <<Selecting(0)>>, <<>>}
  BY DEF Rest
<1>4. rest \in Seq(Requests)
  <2> HIDE DEF rest
  <2>1. <<Selecting(0)>> \in Seq(Requests) /\ <<>> \in Seq(Requests)
    BY <1>2
  <2> QED
    BY <1>2, <1>3, <2>1
<1>5. /\ client' = [client EXCEPT ![a] =
           [phase |-> IF rest = <<>> THEN "idle" ELSE "calling", plan |-> rest]]
      /\ inbox' = IF rest = <<>> THEN inbox ELSE [inbox EXCEPT ![a] = Head(rest)]
      /\ reply' = [reply EXCEPT ![a] = "none"]
      /\ UNCHANGED <<server, conn>>
  BY DEF ReadReply
<1> HIDE DEF rest, plan
<1>6. rest # <<>> => Head(rest) \in Requests
  BY <1>4
<1>7. client' \in [Assoc -> [phase : {"idle", "calling", "gone"}, plan : Seq(Requests)]]
  BY <1>4, <1>5 DEF IInv, Threads
<1>8. inbox' \in [Assoc -> Requests \cup {None}]
  BY <1>5, <1>6 DEF IInv, Threads
<1>9. Threads'
  BY <1>5, <1>6, <1>7, <1>8 DEF IInv, Threads, Answers
<1> QED
  BY <1>5, <1>9, ClientKeeps

LEMMA LeaveInv == ASSUME IInv, NEW a \in Assoc, Leave(a) PROVE IInv'
<1>1. <<>> \in Seq(Requests)
  OBVIOUS
<1>2. /\ inbox' \in [Assoc -> Requests \cup {None}]
      /\ \A b \in Assoc : inbox'[b] = inbox[b] \/ (b = a /\ conn[a].at = "read")
  BY DEF IInv, Threads, Leave
<1>3. Threads'
  BY <1>1, <1>2 DEF IInv, Threads, Leave, Answers
<1> QED
  BY <1>3, ClientKeeps DEF Leave

LEMMA ClientInv == ASSUME IInv, NEW a \in Assoc, Client(a) PROVE IInv'
<1>1. \A kind \in Kinds \ {"SGCB"}, g \in 0..Count, xs \in SUBSET Settings, n \in Nat :
        /\ <<Request(kind, g, xs, n)>> \in Seq(Requests)
        /\ <<Request(kind, g, xs, n)>> # <<>>
  BY RequestType
<1>2. 0 \in 0..Count /\ Groups \subseteq 0..Count /\ Secs \subseteq Nat
  BY SettingGroupsAssumption, ServiceAssumption DEF Groups
<1>3. CASE Edit(a)
  BY <1>3, EditPlanType, CallsInv DEF Edit
<1>4. CASE SelectActive(a)
  <2>1. PICK g \in Groups : Calls(a, <<Request("ActSG", g, {}, 0)>>)
    BY <1>4 DEF SelectActive
  <2> QED
    BY <2>1, <1>1, <1>2, CallsInv DEF Kinds
<1>5. CASE SelectEdit(a)
  <2>1. PICK g \in 0..Count : Calls(a, <<Request("EditSG", g, {}, 0)>>)
    BY <1>5 DEF SelectEdit, Selecting
  <2> QED
    BY <2>1, <1>1, CallsInv DEF Kinds
<1>6. CASE WriteSetting(a)
  <2>1. PICK x \in Settings : Calls(a, <<Request("SE", 0, {x}, 0)>>)
    BY <1>6 DEF WriteSetting
  <2> QED
    BY <2>1, <1>1, <1>2, CallsInv DEF Kinds
<1>7. CASE Confirm(a)
  <2>1. Calls(a, <<Request("CnfEdit", 0, {}, 0)>>)
    BY <1>7 DEF Confirm
  <2> QED
    BY <2>1, <1>1, <1>2, CallsInv DEF Kinds
<1>8. CASE Reserve(a)
  <2>1. PICK n \in Secs : Calls(a, <<Request("ResvTms", 0, {}, n)>>)
    BY <1>8 DEF Reserve
  <2> QED
    BY <2>1, <1>1, <1>2, CallsInv DEF Kinds
<1>9. CASE WriteStructure(a)
  <2>1. PICK w \in Structures : Calls(a, <<[Request("SGCB", 0, {}, 0) EXCEPT !.block = w]>>)
    BY <1>9 DEF WriteStructure
  <2> QED
    BY <2>1, StructureType, CallsInv
<1> QED
  BY <1>3, <1>4, <1>5, <1>6, <1>7, <1>8, <1>9, ReadReplyInv, LeaveInv DEF Client

LEMMA Inductive == IInv /\ [Next]_vars => IInv'
<1> SUFFICES ASSUME IInv, [Next]_vars PROVE IInv'
  OBVIOUS
<1>1. ASSUME NEW a \in Assoc, Thread(a) PROVE IInv'
  BY <1>1, PollInv, WakeInv, ServeInv, EndInv DEF Thread
<1>2. ASSUME NEW a \in Assoc, Client(a) PROVE IInv'
  BY <1>2, ClientInv
<1>3. CASE UNCHANGED vars
  BY <1>3 DEF vars, IInv, Threads, HolderIsOpen, Open
<1> QED
  BY <1>1, <1>2, <1>3, TickInv DEF Next

THEOREM Always == Spec => []IInv
  BY Initially, Inductive, PTL DEF Spec

\* The state keeps its shape.
THEOREM TypeCorrect == Spec => []TypeOK
  BY Always, Implied, PTL

\* The settings in force are those of the group shown as active, whoever edits
\* it (apply_group, sg.rs:303), from an activation until a Write of the SGCB as
\* a structure shows another (acsi.rs:1143).
THEOREM InForceAlways == Spec => []InForceIsActive
  BY Always, Implied, PTL

\* Whoever holds the reservation is connected, and until the selection is
\* overwritten with the whole SGCB has a group selected, and finds in the edit
\* copy that group and its own writes only (sg.rs:147-157, acsi.rs:1143).
THEOREM EditorSeesAlways == Spec => []EditorSeesItsGroup
  BY Always, Implied, PTL

-----------------------------------------------------------------------------
(* One editor at a time *)

LEMMA ThreadRespects ==
    ASSUME IInv, NEW b \in Assoc, Thread(b) PROVE HolderEdits
<1> SUFFICES ASSUME NEW a \in Assoc, server.editor = a,
                    server.until = Never \/ server.until > 0,
                    ~(inbox[a] # None /\ inbox'[a] = None)
             PROVE  /\ server'.values = server.values /\ server'.copy = server.copy
                    /\ server'.editSG = server.editSG \/ "EditSG" \in server'.stray
                    /\ \/ server'.editor = a
                       \/ server'.editor = None /\ conn'[a].at = "closed"
  BY DEF HolderEdits
<1>1. Sound(server) /\ Threads /\ a # None
  BY SettingGroupsAssumption DEF IInv
<1>2. CASE Poll(b) \/ Wake(b)
  <2>1. PICK late \in 0..Stale : server' = TimedOut(server, late)
    BY <1>2 DEF Poll, Wake
  <2>2. server' = server
    BY <1>1, <2>1, TimedOutSound
  <2> QED
    BY <2>2
<1>3. CASE Serve(b)
  <2>1. inbox[b] \in Requests /\ conn[b].late \in Nat
    BY <1>1, <1>3, ServiceAssumption DEF Threads, Serve
  <2>2. CASE a # b
    <3>1. server' = Served(server, b, inbox[b], conn[b].late)
      BY <1>3 DEF Serve
    <3>2. Respected(server, server')
      BY <1>1, <2>1, <2>2, <3>1, ServedRespects
    <3> QED
      BY <3>2 DEF Respected
  <2>3. inbox[b] # None
    BY <2>1, SettingGroupsAssumption
  <2>4. CASE a = b
    BY <1>1, <1>3, <2>3, <2>4 DEF Serve, Threads
  <2> QED
    BY <2>2, <2>4
<1>4. CASE End(b)
  <2>1. server' = Closed(server, b)
    BY <1>4 DEF End
  <2>2. CASE a = b
    <3>1. SameEdit([server EXCEPT !.editor = None], server')
      BY <1>1, <2>1, <2>2, ClosedSound
    <3>2. /\ server'.values = server.values /\ server'.copy = server.copy
          /\ server'.editSG = server.editSG /\ server'.editor = None
      BY <1>1, <3>1 DEF SameEdit, Sound, Server
    <3>3. conn'[a].at = "closed"
      BY <1>1, <1>4, <2>2 DEF End, Threads
    <3> QED
      BY <3>2, <3>3
  <2>3. CASE a # b
    BY <1>1, <2>1, <2>3, ClosedSound
  <2> QED
    BY <2>2, <2>3
<1> QED
  BY <1>2, <1>3, <1>4 DEF Thread

LEMMA StillEdits == ASSUME IInv, SameEdit(server, server') PROVE HolderEdits
  BY DEF HolderEdits, SameEdit

LEMMA Respects == IInv /\ [Next]_vars => [HolderEdits]_vars
<1> SUFFICES ASSUME IInv, [Next]_vars PROVE HolderEdits
  OBVIOUS
<1>1. ASSUME NEW a \in Assoc, Thread(a) PROVE HolderEdits
  BY <1>1, ThreadRespects
<1>2. ASSUME NEW a \in Assoc, Client(a) PROVE HolderEdits
  <2>1. UNCHANGED server
    BY <1>2 DEF Client, Edit, SelectActive, SelectEdit, WriteSetting, Confirm, Reserve,
                WriteStructure, Calls, ReadReply, Leave
  <2> QED
    BY <2>1, StillEdits DEF SameEdit
<1>3. CASE Tick
  <2>1. SameEdit(server, server')
    BY <1>3, OlderSound, ServiceAssumption DEF IInv, Tick
  <2> QED
    BY <2>1, StillEdits
<1>4. CASE UNCHANGED vars
  <2>1. UNCHANGED server
    BY <1>4 DEF vars
  <2> QED
    BY <2>1, StillEdits DEF SameEdit
<1> QED
  BY <1>1, <1>2, <1>3, <1>4 DEF Next

\* While a reservation runs only its holder's requests change what is edited,
\* under every interleaving with other clients, Writes of the whole SGCB, polls
\* on late clocks and associations that end (sg.rs:134-202, 240, 258): of the
\* Writes, the selection alone is not kept.
THEOREM EditIsAlwaysExclusive == Spec => EditIsExclusive
  BY Always, Respects, PTL DEF Spec, EditIsExclusive

\* What is shown of the groups is so, to the device and to the editor
\* (sg.rs:147-202).
THEOREM GroupsAreAlwaysAsShown == Spec => []GroupsAreAsShown
<1>1. TypeOK /\ InForceIsActive /\ EditorSeesItsGroup => GroupsAreAsShown
  BY DEF GroupsAreAsShown
<1>2. QED BY <1>1, TypeCorrect, InForceAlways, EditorSeesAlways, PTL

-----------------------------------------------------------------------------
(* A confirmed edit *)

\* A request that means to change a group names it, and follows what prepares
\* it: a write the selection of the group, a confirmation the write of all its
\* settings, or the selection where it has none.
Prepares(q, r) ==
    /\ q.group = r.group
    /\ r.kind = "SE" => q.kind = "EditSG"
    /\ r.kind = "CnfEdit" => \/ q.kind = "SE" /\ q.settings = r.settings
                             \/ q.kind = "EditSG" /\ r.settings = {}

Means(q) == q.kind \in {"SE", "CnfEdit"} /\ q.group # 0

Chained(p) == \A i \in DOMAIN p : i + 1 \in DOMAIN p /\ Means(p[i + 1]) => Prepares(p[i], p[i + 1])

\* A client that waits has its request in the server's socket, or the answer
\* to it; one that is idle has neither.
InStep(a) ==
    /\ client[a].phase = "idle" => inbox[a] = None /\ reply[a] = "none"
    /\ client[a].phase = "calling" =>
         /\ reply[a] = "none" => inbox[a] = Head(client[a].plan)
         /\ reply[a] # "none" => inbox[a] = None

\* What a holder was granted lasts as long as it is the holder and the selection
\* is not overwritten: the group selected, and settings of the edit copy that are
\* its own.
Granted(s, a, g, xs) ==
    s.editor = a /\ "EditSG" \notin s.stray =>
        s.editSG = g /\ \A x \in xs : s.copy[x] = a

\* A write finds the group it is for selected, and a confirmation its settings
\* written, too; so does the next request of a client that has been told so.
Standing(a) ==
    /\ inbox[a] # None /\ inbox[a].group # 0 =>
         /\ inbox[a].kind = "SE" => Granted(server, a, inbox[a].group, {})
         /\ inbox[a].kind = "CnfEdit" => Granted(server, a, inbox[a].group, inbox[a].settings)
    /\ client[a].phase = "calling" /\ reply[a] = "ok" /\ Head(client[a].plan).group # 0 =>
         /\ Head(client[a].plan).kind = "EditSG" => Granted(server, a, Head(client[a].plan).group, {})
         /\ Head(client[a].plan).kind = "SE" =>
              Granted(server, a, Head(client[a].plan).group, Head(client[a].plan).settings)

Steady(a) ==
    /\ InStep(a) /\ Standing(a)
    /\ client[a].phase = "calling" => Chained(client[a].plan)

EditInv == \A a \in Assoc : Steady(a)

\* Nobody becomes the holder, and what the holder edits stays as it was.
Keeps(a, s, t) ==
    t.editor = a /\ "EditSG" \notin t.stray =>
        /\ s.editor = a /\ "EditSG" \notin s.stray
        /\ t.editSG = s.editSG /\ t.copy = s.copy

LEMMA GrantedKept ==
    ASSUME NEW s, NEW t, NEW a, NEW g, NEW xs, Granted(s, a, g, xs), Keeps(a, s, t)
    PROVE  Granted(t, a, g, xs)
  BY DEF Granted, Keeps

\* A reservation that lapses or ends leaves no holder.
LEMMA ReleasedKeeps ==
    ASSUME NEW s, Sound(s), NEW a \in Assoc, NEW b \in Assoc, NEW late
    PROVE  /\ Keeps(a, s, Expired(s, late)) /\ Keeps(a, s, TimedOut(s, late))
           /\ Keeps(a, s, Closed(s, b))
<1>1. a # None
  BY SettingGroupsAssumption
<1>2. Sound(Released(s)) /\ Released(s).editor = None
  BY ReleasedSound
<1>3. Unselected(s).editor = None
  BY UnselectedSound
<1>4. Expired(s, late) = s \/ Expired(s, late).editor = None
  BY <1>2 DEF Expired
<1>5. TimedOut(s, late) = s \/ TimedOut(s, late).editor = None
  BY <1>3, <1>4 DEF TimedOut
<1>6. Closed(s, b) = s \/ Closed(s, b).editor = None
  BY <1>2 DEF Closed
<1> QED
  BY <1>1, <1>4, <1>5, <1>6 DEF Keeps

LEMMA ServedKeepsOthers ==
    ASSUME NEW s, Sound(s), NEW a \in Assoc, NEW b \in Assoc \ {a}, NEW q \in Requests,
           NEW late \in Nat
    PROVE  Keeps(a, s, Served(s, b, q, late))
<1> DEFINE u == Before(s, q, late)
<1>1. Sound(u) /\ Keeps(a, s, u)
  BY ExpiredSound, ReleasedKeeps DEF Before, Keeps
<1>2. Served(s, b, q, late) = IF May(u, b, q) THEN Done(u, b, q, late) ELSE u
  BY DEF Served
<1> HIDE DEF u
<1>3. q.kind \in Kinds /\ a # None
  BY SettingGroupsAssumption DEF Requests
<1>4. CASE May(u, b, q) /\ u.editor = a
  <2>1. HeldByOther(u, b)
    BY <1>3, <1>4 DEF HeldByOther
  <2>2. Respected(u, Done(u, b, q, late))
    BY <1>1, <1>4, <2>1, DoneRespects
  <2> QED
    BY <1>1, <1>2, <1>4, <2>2 DEF Keeps, Respected
<1>5. CASE May(u, b, q) /\ u.editor # a
  <2>1. Done(u, b, q, late).editor \in {None, b, u.editor}
    BY <1>1, <1>5, DoneSound
  <2> QED
    BY <1>2, <1>3, <1>5, <2>1 DEF Keeps
<1>6. CASE ~May(u, b, q)
  BY <1>1, <1>2, <1>6
<1> QED
  BY <1>4, <1>5, <1>6

\* What its own requests grant a client.
LEMMA ServedGrants ==
    ASSUME NEW s, Sound(s), NEW a \in Assoc, NEW q \in Requests, NEW late \in Nat,
           ServedOk(s, a, q, late), q.group # 0
    PROVE  /\ q.kind = "EditSG" => Granted(Served(s, a, q, late), a, q.group, {})
           /\ q.kind = "SE" /\ Granted(s, a, q.group, {}) =>
                Granted(Served(s, a, q, late), a, q.group, q.settings)
<1> DEFINE u == Before(s, q, late)
<1>1. Sound(u) /\ (q.kind = "SE" => u = s)
  BY ExpiredSound DEF Before
<1>2. Served(s, a, q, late) = Done(u, a, q, late) /\ q.misfits = {}
  BY DEF Served, ServedOk
<1> HIDE DEF u
<1>3. u \in Server
  BY <1>1 DEF Sound
<1>4. ASSUME q.kind = "EditSG"
      PROVE  Granted(Served(s, a, q, late), a, q.group, {})
  <2> DEFINE d == Deadline(u.resvTms, late)
             t == [u EXCEPT !.editor = a, !.until = d, !.editSG = q.group,
                            !.copy = u.values[q.group], !.stray = u.stray \ {"EditSG"}]
  <2>1. Done(u, a, q, late) = t
    BY <1>4 DEF Done, Selected
  <2>2. t.editSG = q.group
    BY <1>3 DEF Server
  <2> HIDE DEF t
  <2> QED
    BY <1>2, <2>1, <2>2 DEF Granted
<1>5. ASSUME q.kind = "SE", Granted(s, a, q.group, {})
      PROVE  Granted(Served(s, a, q, late), a, q.group, q.settings)
  <2> DEFINE c == [x \in Settings |-> IF x \in q.settings THEN a ELSE u.copy[x]]
             t == [u EXCEPT !.copy = c]
  <2>1. q.settings \ q.misfits = q.settings /\ q.settings \subseteq Settings
    BY <1>2 DEF Requests
  <2>2. Done(u, a, q, late) = t
    BY <1>5, <2>1 DEF Done, Edited
  <2>3. \A x \in q.settings : c[x] = a
    BY <2>1
  <2> HIDE DEF c
  <2>4. t.copy = c /\ t.editor = u.editor /\ t.editSG = u.editSG /\ t.stray = u.stray
    BY <1>3 DEF Server
  <2> HIDE DEF t
  <2> QED
    BY <1>1, <1>2, <1>5, <2>2, <2>3, <2>4 DEF Granted
<1> QED
  BY <1>4, <1>5

\* A confirmation changes the group selected, to what the edit copy holds.
LEMMA ConfirmedLands ==
    ASSUME NEW s, Sound(s), s.editSG \in Groups
    PROVE  Confirmed(s).values = [s.values EXCEPT ![s.editSG] = s.copy]
<1> DEFINE v == [s.values EXCEPT ![s.editSG] = s.copy]
           t == [s EXCEPT !.values = v]
<1>1. s \in Server
  BY DEF Sound
<1>2. t.values = v
  BY <1>1 DEF Server
<1>3. [s EXCEPT !.values[s.editSG] = s.copy] = t
  BY <1>1 DEF Server
<1>4. \A g, y : [t EXCEPT !.inForce = t.values[g], !.actSG = g, !.stray = y].values = t.values
  BY <1>1 DEF Server
<1> HIDE DEF t
<1>5. Confirmed(s) = IF s.actSG = s.editSG THEN Applied(t, s.actSG) ELSE t
  BY <1>3 DEF Confirmed
<1> QED
  BY <1>2, <1>4, <1>5 DEF Applied

LEMMA ServedLands ==
    ASSUME NEW s, Sound(s), NEW a \in Assoc, NEW q \in Requests, NEW late \in Nat,
           ServedOk(s, a, q, late), s.editor = a, "EditSG" \notin s.stray,
           q.kind = "CnfEdit", q.group # 0,
           Granted(s, a, q.group, q.settings)
    PROVE  LET t == Served(s, a, q, late)
           IN  /\ \A x \in q.settings : t.values[q.group][x] = a
               /\ \A g \in Groups \ {q.group} : t.values[g] = s.values[g]
<1> DEFINE u == Before(s, q, late)
<1>1. Sound(u)
  BY ExpiredSound DEF Before
<1>2. u.values = s.values /\ u.copy = s.copy /\ u.editSG = s.editSG
  BY DEF Before, Expired, Released, Sound, Server
<1>3. Served(s, a, q, late) = Confirmed(u) /\ u.editSG \in Groups
  BY DEF Served, ServedOk, Done, May
<1> HIDE DEF u
<1>4. Confirmed(u).values = [u.values EXCEPT ![u.editSG] = u.copy]
  BY <1>1, <1>3, ConfirmedLands
<1>5. u.editSG = q.group /\ \A x \in q.settings : u.copy[x] = a
  BY <1>2 DEF Granted
<1>6. q.group \in Groups /\ u.values \in [Groups -> [Settings -> Marks]]
  <2>1. u \in Server /\ u.editSG \in Groups
    BY <1>1, <1>3, SettingGroupsAssumption DEF Sound, Server, Groups
  <2> QED
    BY <1>5, <2>1 DEF Server
<1> QED
  BY <1>2, <1>3, <1>4, <1>5, <1>6

\* A plan that goes on is prepared by what it has left behind.
LEMMA TailChained ==
    ASSUME NEW p \in Seq(Requests), p # <<>>, Chained(p)
    PROVE  /\ Chained(Tail(p))
           /\ Tail(p) # <<>> /\ Means(Head(Tail(p))) => Prepares(Head(p), Head(Tail(p)))
<1> DEFINE t == Tail(p)
<1>1. /\ Len(p) \in Nat \ {0} /\ DOMAIN p = 1 .. Len(p) /\ Head(p) = p[1]
      /\ Len(t) = Len(p) - 1 /\ DOMAIN t = 1 .. Len(t) /\ \A i \in 1 .. Len(t) : t[i] = p[i + 1]
      /\ t # <<>> => Head(t) = t[1] /\ Len(t) # 0
  <2>1. t \in Seq(Requests) /\ Len(t) = Len(p) - 1 /\ \A i \in 1 .. Len(p) - 1 : t[i] = p[i + 1]
    BY HeadTailProperties
  <2> HIDE DEF t
  <2>2. t # <<>> => Len(t) # 0
    BY <2>1, EmptySeq
  <2>3. Len(p) \in Nat /\ Len(p) # 0 /\ DOMAIN p = 1 .. Len(p) /\ DOMAIN t = 1 .. Len(t)
    BY <2>1, EmptySeq, LenProperties
  <2>4. Head(p) = p[1] /\ Head(t) = t[1]
    BY <2>1
  <2> QED
    BY <2>1, <2>2, <2>3, <2>4
<1> HIDE DEF t
<1>2. ASSUME NEW i \in DOMAIN t, i + 1 \in DOMAIN t, Means(t[i + 1])
      PROVE  Prepares(t[i], t[i + 1])
  <2>1. i \in 1 .. Len(t) /\ i + 1 \in 1 .. Len(t) /\ i + 1 \in DOMAIN p /\ i + 1 + 1 \in DOMAIN p
    BY <1>1, <1>2
  <2>2. t[i] = p[i + 1] /\ t[i + 1] = p[i + 1 + 1]
    BY <1>1, <2>1
  <2> QED
    BY <1>2, <2>1, <2>2 DEF Chained
<1>3. ASSUME t # <<>>, Means(Head(t))
      PROVE  Prepares(Head(p), Head(t))
  <2>1. 1 \in DOMAIN p /\ 1 + 1 \in DOMAIN p /\ 1 \in 1 .. Len(t)
    BY <1>1, <1>3
  <2>2. Head(t) = p[1 + 1]
    BY <1>1, <1>3, <2>1
  <2> QED
    BY <1>1, <1>3, <2>1, <2>2 DEF Chained
<1> QED
  BY <1>2, <1>3 DEF Chained, t

LEMMA OneChained ==
    ASSUME NEW q
    PROVE  Chained(<<q>>) /\ Head(<<q>>) = q
  BY DEF Chained

LEMMA EditPlanChained ==
    ASSUME NEW g \in Groups, NEW w \in Writes
    PROVE  /\ Chained(EditPlan(g, w.settings, w.misfits))
           /\ ~Means(Head(EditPlan(g, w.settings, w.misfits)))
<1> DEFINE write   == [Request("SE", g, w.settings, 0) EXCEPT !.misfits = w.misfits]
           confirm == Request("CnfEdit", g, w.settings, 0)
           first   == Selecting(g)
           last    == Selecting(0)
<1>1. /\ write.kind = "SE" /\ write.group = g /\ write.settings = w.settings
      /\ confirm.kind = "CnfEdit" /\ confirm.group = g /\ confirm.settings = w.settings
      /\ first.kind = "EditSG" /\ first.group = g /\ last.kind = "EditSG"
  BY DEF Request, Selecting
<1>2. EditPlan(g, w.settings, w.misfits)
        = IF w.settings = {} THEN <<first, confirm, last>> ELSE <<first, write, confirm, last>>
  BY DEF EditPlan
<1> HIDE DEF write, confirm, first, last
<1>3. /\ Prepares(first, write) /\ Prepares(write, confirm)
      /\ w.settings = {} => Prepares(first, confirm)
      /\ ~Means(first) /\ ~Means(last)
  BY <1>1 DEF Prepares, Means
<1>4. ASSUME w.settings = {} PROVE Chained(<<first, confirm, last>>)
  <2> DEFINE p == <<first, confirm, last>>
  <2>1. DOMAIN p = 1 .. 3 /\ p[1] = first /\ p[2] = confirm /\ p[3] = last
    OBVIOUS
  <2> HIDE DEF p
  <2>2. \A i \in 1 .. 3 : i + 1 \in 1 .. 3 => (i = 1 /\ i + 1 = 2) \/ (i = 2 /\ i + 1 = 3)
    OBVIOUS
  <2>3. Chained(p)
    BY <1>3, <1>4, <2>1, <2>2 DEF Chained
  <2> QED
    BY <2>3 DEF p
<1>5. Chained(<<first, write, confirm, last>>)
  <2> DEFINE p == <<first, write, confirm, last>>
  <2>1. DOMAIN p = 1 .. 4 /\ p[1] = first /\ p[2] = write /\ p[3] = confirm /\ p[4] = last
    OBVIOUS
  <2> HIDE DEF p
  <2>2. \A i \in 1 .. 4 : i + 1 \in 1 .. 4 =>
            (i = 1 /\ i + 1 = 2) \/ (i = 2 /\ i + 1 = 3) \/ (i = 3 /\ i + 1 = 4)
    OBVIOUS
  <2>3. Chained(p)
    BY <1>3, <2>1, <2>2 DEF Chained
  <2> QED
    BY <2>3 DEF p
<1>6. Head(<<first, confirm, last>>) = first /\ Head(<<first, write, confirm, last>>) = first
  OBVIOUS
<1> QED
  BY <1>2, <1>3, <1>4, <1>5, <1>6

\* What stays of a client that a step does not concern.
LEMMA Untouched ==
    ASSUME NEW a \in Assoc, Steady(a), Keeps(a, server, server'),
           inbox'[a] = inbox[a], reply'[a] = reply[a], client'[a] = client[a]
    PROVE  Steady(a)'
<1>1. \A g, xs : Granted(server, a, g, xs) => Granted(server', a, g, xs)
  BY GrantedKept
<1>2. InStep(a)'
  BY DEF Steady, InStep
<1>3. Standing(a)'
  BY <1>1 DEF Steady, Standing
<1> QED
  BY <1>2, <1>3 DEF Steady

LEMMA ThreadSteady ==
    ASSUME IInv, EditInv, NEW b \in Assoc, Thread(b), NEW a \in Assoc
    PROVE  Steady(a)'
<1>1. Sound(server) /\ Threads /\ Steady(a)
  BY DEF IInv, EditInv
<1>2. CASE Poll(b) \/ Wake(b) \/ End(b)
  <2>1. Keeps(a, server, server') /\ UNCHANGED <<inbox, reply, client>>
    BY <1>1, <1>2, ReleasedKeeps DEF Poll, Wake, End
  <2> QED
    BY <1>1, <2>1, Untouched
<1>3. CASE Serve(b) /\ a # b
  <2>1. inbox[b] \in Requests /\ conn[b].late \in Nat
    BY <1>1, <1>3, ServiceAssumption DEF Threads, Serve
  <2>2. Keeps(a, server, server')
    BY <1>1, <1>3, <2>1, ServedKeepsOthers DEF Serve
  <2>3. inbox'[a] = inbox[a] /\ reply'[a] = reply[a] /\ client'[a] = client[a]
    BY <1>3 DEF Serve
  <2> QED
    BY <1>1, <2>2, <2>3, Untouched
<1>4. CASE Serve(b) /\ a = b
  <2> DEFINE q == inbox[a]
             late == conn[a].late
  <2>1. q \in Requests /\ late \in Nat /\ q # None
    BY <1>1, <1>4, ServiceAssumption, SettingGroupsAssumption DEF Threads, Serve
  <2>2. /\ server' = Served(server, a, q, late)
        /\ inbox'[a] = None /\ client'[a] = client[a]
        /\ reply'[a] = IF ServedOk(server, a, q, late) THEN "ok" ELSE "refused"
    BY <1>1, <1>4 DEF Serve, Threads
  <2>3. client[a].phase # "idle" /\ (client[a].phase = "calling" => q = Head(client[a].plan))
    BY <1>1, <2>1 DEF Steady, InStep
  <2>4. InStep(a)'
    BY <2>2, <2>3 DEF InStep
  <2>5. q.group # 0 /\ q.kind = "SE" => Granted(server, a, q.group, {})
    BY <1>1, <2>1 DEF Steady, Standing
  <2>6. ServedOk(server, a, q, late) /\ q.group # 0 =>
          /\ q.kind = "EditSG" => Granted(server', a, q.group, {})
          /\ q.kind = "SE" => Granted(server', a, q.group, q.settings)
    BY <1>1, <2>1, <2>2, <2>5, ServedGrants
  <2>7. Standing(a)'
    <3>1. inbox'[a] = None /\ (reply'[a] = "ok" => ServedOk(server, a, q, late))
      BY <2>2
    <3> HIDE DEF q, late
    <3> QED
      BY <2>2, <2>3, <2>6, <3>1 DEF Standing
  <2> QED
    BY <1>1, <2>2, <2>4, <2>7 DEF Steady
<1> QED
  BY <1>2, <1>3, <1>4 DEF Thread

\* A call begins with a request that needs nothing prepared.
LEMMA CallsSteady ==
    ASSUME IInv, EditInv, NEW b \in Assoc, NEW plan, MayCall(b), Calls(b, plan),
           Chained(plan), ~Means(Head(plan)), NEW a \in Assoc
    PROVE  Steady(a)'
<1>1. Threads /\ Steady(a)
  BY DEF IInv, EditInv
<1>2. server' = server /\ Keeps(a, server, server') /\ reply' = reply
  BY DEF Calls, Keeps
<1>3. CASE a # b
  <2>1. inbox'[a] = inbox[a] /\ reply'[a] = reply[a] /\ client'[a] = client[a]
    BY <1>2, <1>3 DEF Calls
  <2> QED
    BY <1>1, <1>2, <2>1, Untouched
<1>4. CASE a = b
  <2>1. /\ client'[a].phase = "calling" /\ client'[a].plan = plan
        /\ inbox'[a] = Head(plan) /\ reply'[a] = "none"
    BY <1>1, <1>2, <1>4 DEF Calls, MayCall, Threads, Steady, InStep
  <2>2. InStep(a)'
    BY <2>1 DEF InStep
  <2>3. Standing(a)'
    BY <2>1 DEF Standing, Means
  <2> QED
    BY <2>1, <2>2, <2>3 DEF Steady
<1> QED
  BY <1>3, <1>4

\* An edit goes on with what its last answer granted.
LEMMA ReadReplySteady ==
    ASSUME IInv, EditInv, NEW b \in Assoc, ReadReply(b), NEW a \in Assoc
    PROVE  Steady(a)'
<1>1. Threads /\ Steady(a)
  BY DEF IInv, EditInv
<1>2. server' = server /\ Keeps(a, server, server')
  BY DEF ReadReply, Keeps
<1>3. CASE a # b
  <2>1. inbox'[a] = inbox[a] /\ reply'[a] = reply[a] /\ client'[a] = client[a]
    BY <1>3 DEF ReadReply
  <2> QED
    BY <1>1, <1>2, <2>1, Untouched
<1>4. CASE a = b
  <2> DEFINE plan == client[a].plan
             ok == reply[a] = "ok"
             rest == Rest(plan, ok)
  <2>1. plan \in Seq(Requests) /\ plan # <<>> /\ Chained(plan) /\ inbox[a] = None
    BY <1>1, <1>4 DEF ReadReply, Threads, Steady, InStep
  <2>2. /\ client'[a] = [phase |-> IF rest = <<>> THEN "idle" ELSE "calling", plan |-> rest]
        /\ inbox'[a] = IF rest = <<>> THEN inbox[a] ELSE Head(rest)
        /\ reply'[a] = "none"
    BY <1>1, <1>4 DEF ReadReply, Threads
  <2>3. \/ rest = Tail(plan) /\ (ok \/ Head(plan).kind = "CnfEdit")
        \/ rest = <<Selecting(0)>> \/ rest = <<>>
    BY DEF Rest
  <2> DEFINE q == Head(rest)
             g == Head(plan).group
  <2>4. /\ Chained(rest)
        /\ rest # <<>> /\ Means(q) => ok /\ Prepares(Head(plan), q)
    <3>1. CASE rest = Tail(plan) /\ (ok \/ Head(plan).kind = "CnfEdit")
      <4>1. /\ Chained(Tail(plan))
            /\ Tail(plan) # <<>> /\ Means(Head(Tail(plan))) => Prepares(Head(plan), Head(Tail(plan)))
        BY <2>1, TailChained
      <4> HIDE DEF plan, ok, rest
      <4>2. Prepares(Head(plan), q) /\ Means(q) => Head(plan).kind # "CnfEdit"
        BY DEF Prepares, Means
      <4> QED
        BY <3>1, <4>1, <4>2
    <3>2. CASE rest = <<Selecting(0)>>
      <4>1. Chained(<<Selecting(0)>>) /\ ~Means(Head(<<Selecting(0)>>))
        BY OneChained DEF Selecting, Request, Means
      <4> HIDE DEF rest
      <4> QED
        BY <3>2, <4>1
    <3>3. CASE rest = <<>>
      <4>1. Chained(<<>>)
        BY DEF Chained
      <4> HIDE DEF rest
      <4> QED
        BY <3>3, <4>1
    <3> QED
      BY <2>3, <3>1, <3>2, <3>3
  <2>5. ok /\ g # 0 =>
          /\ Head(plan).kind = "EditSG" => Granted(server, a, g, {})
          /\ Head(plan).kind = "SE" => Granted(server, a, g, Head(plan).settings)
    BY <1>1, <1>4 DEF Steady, Standing, ReadReply
  <2> HIDE DEF plan, ok, rest, g
  <2>6. InStep(a)'
    BY <2>1, <2>2 DEF InStep
  <2>7. rest # <<>> /\ Means(q) =>
          /\ Granted(server, a, q.group, {})
          /\ q.kind = "CnfEdit" => Granted(server, a, q.group, q.settings)
    BY <2>4, <2>5 DEF Prepares, Means, Granted, g
  <2>8. Standing(a)'
    <3>1. CASE rest = <<>>
      BY <2>1, <2>2, <3>1 DEF Standing
    <3>2. CASE rest # <<>>
      <4>1. inbox'[a] = q /\ reply'[a] = "none"
        BY <2>2, <3>2
      <4> HIDE DEF q
      <4> QED
        BY <1>2, <2>7, <3>2, <4>1 DEF Standing, Means
    <3> QED
      BY <3>1, <3>2
  <2> QED
    BY <2>2, <2>4, <2>6, <2>8 DEF Steady
<1> QED
  BY <1>3, <1>4

LEMMA LeaveSteady ==
    ASSUME IInv, EditInv, NEW b \in Assoc, Leave(b), NEW a \in Assoc
    PROVE  Steady(a)'
<1>1. Threads /\ Steady(a)
  BY DEF IInv, EditInv
<1>2. server' = server /\ Keeps(a, server, server')
  BY DEF Leave, Keeps
<1>3. CASE a # b
  <2>1. inbox'[a] = inbox[a] /\ reply'[a] = reply[a] /\ client'[a] = client[a]
    BY <1>1, <1>3 DEF Leave, Threads
  <2> QED
    BY <1>1, <1>2, <2>1, Untouched
<1>4. CASE a = b
  <2>1. client'[a].phase = "gone" /\ inbox'[a] \in {inbox[a], None}
    BY <1>1, <1>4 DEF Leave, Threads
  <2>2. InStep(a)' /\ Standing(a)'
    BY <1>1, <1>2, <2>1 DEF InStep, Standing, Steady
  <2> QED
    BY <2>1, <2>2 DEF Steady
<1> QED
  BY <1>3, <1>4

LEMMA ClientSteady ==
    ASSUME IInv, EditInv, NEW b \in Assoc, Client(b), NEW a \in Assoc
    PROVE  Steady(a)'
<1>1. \A kind, g, xs, n : kind \notin {"SE", "CnfEdit"} \/ g = 0 =>
        Chained(<<Request(kind, g, xs, n)>>) /\ ~Means(Head(<<Request(kind, g, xs, n)>>))
  BY OneChained DEF Request, Means
<1>2. CASE Edit(b)
  BY <1>2, EditPlanChained, CallsSteady DEF Edit
<1>3. CASE SelectActive(b)
  BY <1>1, <1>3, CallsSteady DEF SelectActive
<1>4. CASE SelectEdit(b)
  BY <1>1, <1>4, CallsSteady DEF SelectEdit, Selecting
<1>5. CASE WriteSetting(b)
  BY <1>1, <1>5, CallsSteady DEF WriteSetting
<1>6. CASE Confirm(b)
  BY <1>1, <1>6, CallsSteady DEF Confirm
<1>7. CASE Reserve(b)
  BY <1>1, <1>7, CallsSteady DEF Reserve
<1>8. CASE WriteStructure(b)
  <2>1. PICK w \in Structures : /\ MayCall(b)
                                /\ Calls(b, <<[Request("SGCB", 0, {}, 0) EXCEPT !.block = w]>>)
    BY <1>8 DEF WriteStructure
  <2> DEFINE q == [Request("SGCB", 0, {}, 0) EXCEPT !.block = w]
  <2>2. q.group = 0
    BY StructureType
  <2> HIDE DEF q
  <2>3. Chained(<<q>>) /\ ~Means(Head(<<q>>))
    BY <2>2, OneChained DEF Means
  <2> QED
    BY <2>1, <2>3, CallsSteady DEF q
<1> QED
  BY <1>2, <1>3, <1>4, <1>5, <1>6, <1>7, <1>8, ReadReplySteady, LeaveSteady DEF Client

LEMMA SteadyAlways == Spec => []EditInv
<1>1. Init => EditInv
  BY DEF Init, EditInv, Steady, InStep, Standing
<1>2. IInv /\ EditInv /\ [Next]_vars => EditInv'
  <2> SUFFICES ASSUME IInv, EditInv, [Next]_vars, NEW a \in Assoc
               PROVE  Steady(a)'
    BY DEF EditInv
  <2>1. ASSUME NEW b \in Assoc, Thread(b) PROVE Steady(a)'
    BY <2>1, ThreadSteady
  <2>2. ASSUME NEW b \in Assoc, Client(b) PROVE Steady(a)'
    BY <2>2, ClientSteady
  <2>3. CASE Tick
    <3>1. SameEdit(server, server') /\ UNCHANGED <<inbox, reply, client>>
      BY <2>3, OlderSound, ServiceAssumption DEF IInv, Tick
    <3>2. Keeps(a, server, server')
      BY <3>1 DEF SameEdit, Keeps
    <3> QED
      BY <3>1, <3>2, Untouched DEF EditInv
  <2>4. CASE UNCHANGED vars
    <3>1. server' = server /\ UNCHANGED <<inbox, reply, client>>
      BY <2>4 DEF vars
    <3>2. Keeps(a, server, server')
      BY <3>1 DEF Keeps
    <3> QED
      BY <3>1, <3>2, Untouched DEF EditInv
  <2> QED
    BY <2>1, <2>2, <2>3, <2>4 DEF Next
<1> QED
  BY <1>1, <1>2, Always, PTL DEF Spec

\* An answer to a confirmation is given by the thread that serves it.
LEMMA AnswersServe ==
    ASSUME IInv, Next, NEW a \in Assoc, inbox[a] # None, inbox'[a] = None, reply'[a] = "ok"
    PROVE  Serve(a)
<1>1. Threads
  BY DEF IInv
<1>2. \A q \in Requests : q # None
  BY SettingGroupsAssumption
<1>3. ASSUME NEW b \in Assoc, Thread(b)
      PROVE  Serve(a)
  <2>1. inbox' = inbox \/ Serve(b)
    BY <1>3 DEF Thread, Poll, Wake, End
  <2>2. Serve(b) /\ a # b => inbox'[a] = inbox[a]
    BY DEF Serve
  <2> QED
    BY <2>1, <2>2
<1>4. ASSUME NEW b \in Assoc, NEW plan, Calls(b, plan), Head(plan) \in Requests
      PROVE  FALSE
  BY <1>1, <1>2, <1>4 DEF Calls, Threads
<1>5. ASSUME NEW b \in Assoc, ReadReply(b)
      PROVE  FALSE
  <2>1. CASE a = b
    BY <1>1, <1>5, <2>1 DEF ReadReply, Threads
  <2>2. CASE a # b
    BY <1>5, <2>2 DEF ReadReply
  <2> QED
    BY <2>1, <2>2
<1>6. ASSUME NEW b \in Assoc, Leave(b)
      PROVE  FALSE
  <2>1. CASE a = b
    BY <1>1, <1>6, <2>1 DEF Leave, Threads
  <2>2. CASE a # b
    BY <1>1, <1>6, <2>2 DEF Leave, Threads
  <2> QED
    BY <2>1, <2>2
<1>7. ASSUME NEW b \in Assoc, Client(b)
      PROVE  FALSE
  <2>1. \A kind \in Kinds \ {"SGCB"}, g \in 0..Count, xs \in SUBSET Settings, n \in Nat :
          Head(<<Request(kind, g, xs, n)>>) \in Requests
    BY RequestType
  <2>2. 0 \in 0..Count /\ Groups \subseteq 0..Count /\ Secs \subseteq Nat
    BY SettingGroupsAssumption, ServiceAssumption DEF Groups
  <2>3. CASE Edit(b)
    <3>1. \A g \in Groups, w \in Writes : Head(EditPlan(g, w.settings, w.misfits)) \in Requests
      BY EditPlanType
    <3> QED
      BY <1>4, <2>3, <3>1 DEF Edit
  <2>4. CASE SelectActive(b)
    BY <1>4, <2>1, <2>2, <2>4 DEF SelectActive, Kinds
  <2>5. CASE SelectEdit(b)
    BY <1>4, <2>1, <2>5 DEF SelectEdit, Selecting, Kinds
  <2>6. CASE WriteSetting(b)
    BY <1>4, <2>1, <2>2, <2>6 DEF WriteSetting, Kinds
  <2>7. CASE Confirm(b)
    BY <1>4, <2>1, <2>2, <2>7 DEF Confirm, Kinds
  <2>8. CASE Reserve(b)
    BY <1>4, <2>1, <2>2, <2>8 DEF Reserve, Kinds
  <2>9. CASE WriteStructure(b)
    <3>1. PICK w \in Structures : Calls(b, <<[Request("SGCB", 0, {}, 0) EXCEPT !.block = w]>>)
      BY <2>9 DEF WriteStructure
    <3> QED
      BY <1>4, <3>1, StructureType
  <2> QED
    BY <1>5, <1>6, <1>7, <2>3, <2>4, <2>5, <2>6, <2>7, <2>8, <2>9 DEF Client
<1> QED
  BY <1>3, <1>7 DEF Next, Tick

\* A confirmation that is accepted from the holder changes the group it
\* selected, and every setting it wrote, whatever lapsed, was refused or was
\* asked by others in between, as long as nobody overwrote its selection with
\* the whole SGCB (on_block_write and on_edit_write, sg.rs:112-245;
\* edit_setting_group, client/sg.rs:123-148).
THEOREM EditsAlwaysLand == Spec => EditLands
<1>1. IInv /\ EditInv /\ [Next]_vars =>
        [\A a \in Assoc :
           /\ server.editor = a /\ "EditSG" \notin server.stray
           /\ inbox[a] # None /\ inbox'[a] = None /\ reply'[a] = "ok"
           /\ inbox[a].kind = "CnfEdit" /\ inbox[a].group # 0
           => /\ \A x \in inbox[a].settings : server'.values[inbox[a].group][x] = a
              /\ \A g \in Groups \ {inbox[a].group} : server'.values[g] = server.values[g]]_vars
  <2> SUFFICES ASSUME IInv, EditInv, Next, NEW a \in Assoc, server.editor = a,
                      "EditSG" \notin server.stray,
                      inbox[a] # None, inbox'[a] = None, reply'[a] = "ok",
                      inbox[a].kind = "CnfEdit", inbox[a].group # 0
               PROVE  /\ \A x \in inbox[a].settings : server'.values[inbox[a].group][x] = a
                      /\ \A g \in Groups \ {inbox[a].group} : server'.values[g] = server.values[g]
    OBVIOUS
  <2>1. Serve(a) /\ Sound(server) /\ Threads
    BY AnswersServe DEF IInv
  <2> DEFINE q == inbox[a]
             late == conn[a].late
  <2>2. q \in Requests /\ late \in Nat
    BY <2>1, ServiceAssumption DEF Threads, Serve
  <2>3. server' = Served(server, a, q, late) /\ ServedOk(server, a, q, late)
    BY <2>1 DEF Serve, Threads
  <2>4. Granted(server, a, q.group, q.settings)
    BY DEF EditInv, Steady, Standing
  <2> HIDE DEF q, late
  <2>5. /\ \A x \in q.settings : server'.values[q.group][x] = a
        /\ \A g \in Groups \ {q.group} : server'.values[g] = server.values[g]
    <3>1. q.kind = "CnfEdit" /\ q.group # 0
      BY DEF q
    <3> QED
      BY <2>1, <2>2, <2>3, <2>4, <3>1, ServedLands
  <2> QED
    BY <2>5 DEF q
<1> QED
  BY <1>1, Always, SteadyAlways, PTL DEF Spec, EditLands
=============================================================================
