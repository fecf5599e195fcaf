---------------------------- MODULE ReportSafety ----------------------------
(***************************************************************************)
(* What the report engine must keep true.                                  *)
(***************************************************************************)
EXTENDS ReportEngine

\* Every variable has its type.
TypeOK ==
    /\ rcb \in [Blocks -> Block]
    /\ defined \subseteq DataSet
    /\ state \in [Assoc -> {"new", "open", "closed"}]
    /\ lock \in Assoc \cup {None}
    /\ writes \in Nat
    /\ unpublished \subseteq Assoc
    /\ dirty \subseteq Member

(***************************************************************************)
(* Ownership.                                                              *)
(***************************************************************************)

\* A block is never enabled by one association and reserved for another: the
\* two claims are checked by different arms of on_write (rcb.rs:218-304).
OneHolder ==
    \A b \in Blocks :
        rcb[b].owner # None /\ rcb[b].reserved # None
            => rcb[b].owner = rcb[b].reserved

\* Only an open association has a block enabled, and a reservation held for
\* one that has ended always has an end of its own (rcb.rs:312-349): no claim
\* outlives its client for ever.
ClaimsEnd ==
    \A b \in Blocks :
        /\ rcb[b].owner # None => rcb[b].owner \in Opened
        /\ rcb[b].reserved # None /\ rcb[b].until = Never
              => rcb[b].reserved \in Opened
        /\ rcb[b].until # Never => /\ rcb[b].reserved # None
                                   /\ rcb[b].linger # None

\* The engine's owner and RptEna in the model are two views of one fact
\* (rcb.rs:324-328), and they agree in both directions except where a client
\* has written the leaf past the engine: the block as a structure
\* (acsi.rs:1143-1157), or a value the store refused once the engine had acted
\* on it (acsi.rs:1105-1106).
OneFactTwoViews ==
    \A b \in Blocks :
        "RptEna" \notin rcb[b].stray => (rcb[b].rptEna <=> rcb[b].owner # None)

\* Owner in the model names the holder at every moment (acsi.rs:1122-1140,
\* 722-731), with the same exception, although it is written by the ACSI layer
\* and the claims it reports change in the engine.
OwnerShown ==
    \A b \in Blocks :
        "Owner" \notin rcb[b].stray => rcb[b].ownerAttr = Holder(rcb[b])

\* The two records of a claim, the engine's and the one clients read, agree
\* after every request, refused write, expiry and end (rcb.rs:218-349,
\* acsi.rs:1104-1140), and what a Write past the engine has parted comes
\* together again with the next accepted write of the attribute and with the
\* end of the association that holds the block.
TwoViewsAgree == OneFactTwoViews /\ OwnerShown

\* A reservation that lingers for an association that has ended is that
\* association's until its time is up: no request of anybody else, no publish
\* and no poll that reads the clock late takes it away early.
LeaseHonoured ==
    [][\A b \in Blocks :
         LET r == rcb[b] IN
         r.until # Never /\ rcb'[b].reserved # r.reserved => r.until <= 0]_vars

(***************************************************************************)
(* Gathering and the buffer.                                               *)
(***************************************************************************)

\* A gathered change always has a deadline, and a deadline always something to
\* report: pending and due are set and cleared in five different places.
GatheredIsDue ==
    \A b \in Blocks : rcb[b].pending = {} <=> rcb[b].due = Never

\* An unbuffered block nobody has enabled gathers nothing and keeps nothing.
UnownedIsIdle ==
    \A b \in Blocks :
        ~rcb[b].buffered /\ rcb[b].owner = None
            => rcb[b].pending = {} /\ rcb[b].buffer = <<>>

\* The buffer is a ring an EntryID indexes into: bounded, and its identifiers
\* rise, so that a position in it is a point in time.  An unbuffered block has
\* none.
RingOrdered ==
    \A b \in Blocks :
        LET buf == rcb[b].buffer IN
        /\ Len(buf) <= BufferLen
        /\ \A i \in 1 .. Len(buf) : buf[i].id < rcb[b].nextEntry
        /\ \A i, j \in 1 .. Len(buf) : i < j => buf[i].id < buf[j].id
        /\ ~rcb[b].buffered => buf = <<>>

\* An entry leaves the ring only from its old end, only because the ring is
\* full, and never silently: the next report carries BufOvfl or the flag is
\* still up.  What enters is new.  A purge is a client's choice: the owner's, or
\* that of whoever writes the block as a structure.
AgesOnlyWithNotice ==
    [][\A b \in Blocks :
         LET r == rcb[b]
             q == rcb'[b]
             old == Len(r.buffer)
         IN  \/ r.purge /\ ~q.purge
             \/ \E k \in 0 .. old :
                  /\ old - k <= Len(q.buffer)
                  /\ \A i \in (k + 1) .. old : q.buffer[i - k] = r.buffer[i]
                  /\ \A j \in (old - k + 1) .. Len(q.buffer) :
                        q.buffer[j].id >= r.nextEntry
                  /\ k > 0 => /\ Len(q.buffer) = BufferLen
                              /\ \/ q.overflowed
                                 \/ \E i \in DOMAIN q.out : q.out[i].ovfl]_vars

\* A client that resumes after the EntryID e gets, unless it is told with
\* BufOvfl, everything younger than e that the block still has, in order, and
\* nothing it has already seen.
ResumeIsExact ==
    [][\A b \in Blocks :
         LET r == rcb[b]
             had == Len(r.deferred)
             given == SubSeq(rcb'[b].deferred, had + 1, Len(rcb'[b].deferred))
         IN  given # <<>> =>
               /\ \A i, j \in DOMAIN given : i < j => given[i].id < given[j].id
               /\ \/ given[1].ovfl
                  \/ {given[i].id : i \in DOMAIN given} =
                       {id \in {r.buffer[i].id : i \in DOMAIN r.buffer} :
                            id > r.entryID}]_vars

\* A replay waits only for the publish of the request that asked for it, so it
\* never reaches an association that has gone or a number given out anew.
ReplayIsOwed ==
    \A b \in Blocks : \A i \in DOMAIN rcb[b].deferred :
        rcb[b].deferred[i].assoc \in unpublished \cup {lock}

\* The ring and what is replayed from it are fit to be resumed from: positions
\* mean points in time, and a replay has somebody to go to.
BufferIsSound == RingOrdered /\ ReplayIsOwed

\* However a buffered block is left and resumed, what a client misses it is
\* told of: at the old end of the ring, and at the point it resumes from.
NothingMissedUnseen == AgesOnlyWithNotice /\ ResumeIsExact

\* What the engine holds of a block is one story whatever clients put under the
\* block's leaves: one client's claim at most, an end for every claim, and
\* gathered changes with a deadline exactly where somebody is owed them.
ClaimsAgree ==
    /\ TypeOK
    /\ OneHolder /\ ClaimsEnd
    /\ GatheredIsDue /\ UnownedIsIdle

\* A client that has enabled a block gets the reports it enabled it for: the
\* data set and the integrity period are what they were when it did, and ConfRev
\* moves exactly when the data set changes (rcb.rs:282-304).  The refusal looks
\* at RptEna in the model and not at the owner, so it protects the subscription
\* of a client for as long as nobody writes the block as a structure: that Write
\* changes what is reported, and what it leaves in RptEna lets in others.
ReconfiguredOnlyIdle ==
    [][\A b \in Blocks :
         LET r == rcb[b]
             q == rcb'[b]
         IN  "RptEna" \notin r.stray /\ "RptEna" \notin q.stray =>
               /\ r.owner # None => q.datSet = r.datSet /\ q.intgPd = r.intgPd
               /\ q.confRev # r.confRev <=> q.datSet # r.datSet]_vars

(***************************************************************************)
(* Progress, under FairSpec.  Only the associations' own threads poll the   *)
(* engine (net.rs), so nothing can be due in a server without one.          *)
(***************************************************************************)

\* A reservation that outlives its association ends, so no block is one
\* client's for ever (rcb.rs:74-75).
LeaseEnds ==
    \A b \in Blocks : rcb[b].until # Never ~>
                        (rcb[b].until = Never \/ Opened = {})

\* What a block has gathered is reported, or dropped with the subscription,
\* however busy the other threads keep the mutex, unless the block comes to name
\* a data set that does not exist (rcb.rs:464-479).
GatheredIsReported ==
    \A b \in Blocks :
        rcb[b].due # Never ~> \/ rcb[b].due = Never \/ Opened = {}
                              \/ rcb[b].datSet \notin defined

\* A replay that was promised to an enabling client is handed over: the thread
\* that owes it publishes.
ReplayIsHandedOver ==
    \A b \in Blocks : rcb[b].deferred # <<>> ~> rcb[b].deferred = <<>>

(***************************************************************************)
(* The engine implements the abstract holder of a block.                   *)
(***************************************************************************)
Abstract == INSTANCE BlockHolder WITH
    holder  <- [b \in Blocks |-> Holder(rcb[b])],
    present <- Opened,
    gone    <- {a \in Assoc : state[a] = "closed"}

\* A block passes from one client to another only by becoming free in between.
HolderSpec == Abstract!Spec

(***************************************************************************)
(* What a comment of the report engine says that the code does not do; a   *)
(* run finds the counterexample.                                           *)
(***************************************************************************)

\* "A client that lost its association gets the events it missed rather than a
\* gap it cannot see" (rcb.rs:742-743): what a buffered block has gathered
\* stays gathered until an entry records it.
GatheredIsRecorded ==
    [][\A b \in Blocks :
         LET r == rcb[b]
             q == rcb'[b]
         IN  r.buffered /\ ~(r.pending \subseteq q.pending) =>
               q.nextEntry > r.nextEntry]_vars
=============================================================================
