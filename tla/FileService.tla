----------------------------- MODULE FileService -----------------------------
(***************************************************************************)
(* The file services: the server's handles, which belong to the           *)
(* association that opened them, and a client that reads a whole file over *)
(* open, read and close while the file may grow, shrink, be replaced or    *)
(* vanish, its calls may time out and its association may be lost.         *)
(*                                                                         *)
(* An octet is the version of the file it was written in and its place.   *)
(***************************************************************************)
EXTENDS Integers, SequencesExt

CONSTANTS
    FilePeers,       \* the associations, each with the client at its end
    Paths,           \* the paths a client may name
    Sizes,           \* the sizes a file may have
    FileChunk,       \* octets one FileRead answers with
    MaxHandles,      \* handles an association may hold
    MaxLen,          \* octets the client is willing to hold
    Deletable,       \* whether the store lets a client delete
    MaxTransfers,    \* bound: transfers a client starts
    MaxFileChanges   \* bound: changes to the files from outside

ASSUME FileAssumption ==
    /\ Sizes \subseteq Nat \ {0}
    /\ {FileChunk, MaxHandles} \subseteq Nat \ {0}
    /\ {MaxLen, MaxTransfers, MaxFileChanges} \subseteq Nat
    /\ Deletable \in BOOLEAN

VARIABLES
    disk,       \* what each path holds: a version and a size; size zero, no file
    handles,    \* the server's open handles
    nextFrsm,   \* the next handle's identifier
    wire,       \* per association, the requests sent and not yet served
    transfer,   \* per client, the read_file in progress and the last result
    filePast    \* history: transfers started, changes, handles nobody will close

fileVars == <<disk, handles, nextFrsm, wire, transfer, filePast>>

Gone == [version |-> 0, size |-> 0]
Octet(version, i) == [version |-> version, at |-> i]
Content(path) == [i \in 1 .. disk[path].size |-> Octet(disk[path].version, i)]

\* touched: some file the transfer is about has changed since it was opened.
NoTransfer == [phase |-> "idle", path |-> CHOOSE p \in Paths : TRUE, frsm |-> 0, size |-> 0,
               data |-> <<>>, ok |-> FALSE, result |-> "none", touched |-> FALSE]

Disks == [Paths -> {[version |-> 1, size |-> n] : n \in Sizes}]

FileInit ==
    /\ disk \in Disks
    /\ handles = {}
    /\ nextFrsm = 1
    /\ wire = [p \in FilePeers |-> <<>>]
    /\ transfer = [p \in FilePeers |-> NoTransfer]
    /\ filePast = [started |-> 0, changes |-> 0, lost |-> {}]

-----------------------------------------------------------------------------
(* The client: read_file, and delete_file. A call waits for its answer; one *)
(* that timed out is served later all the same and its answer dropped.     *)

Call(p, req) == wire' = [wire EXCEPT ![p] = Append(@, [req EXCEPT !.awaited = TRUE])]
Request(op, path, frsm) == [op |-> op, path |-> path, frsm |-> frsm, awaited |-> FALSE]

StartTransfer(p) ==
    /\ transfer[p].phase = "idle"
    /\ filePast.started < MaxTransfers
    /\ \E path \in Paths :
        /\ transfer' = [transfer EXCEPT ![p] = [NoTransfer EXCEPT !.phase = "opening", !.path = path]]
        /\ Call(p, Request("open", path, 0))
    /\ filePast' = [filePast EXCEPT !.started = @ + 1]
    /\ UNCHANGED <<disk, handles, nextFrsm>>

StartDelete(p) ==
    /\ transfer[p].phase = "idle"
    /\ filePast.started < MaxTransfers
    /\ \E path \in Paths : Call(p, Request("delete", path, 0))
    /\ transfer' = [transfer EXCEPT ![p] = [NoTransfer EXCEPT !.phase = "deleting"]]
    /\ filePast' = [filePast EXCEPT !.started = @ + 1]
    /\ UNCHANGED <<disk, handles, nextFrsm>>

Ended(t, ok) == [t EXCEPT !.phase = "idle", !.result = IF ok THEN "whole" ELSE "failed"]

\* What the client does when a call fails, whatever the reason: only a read
\* that failed is followed by the close.
Failed(t) == IF t.phase = "reading" THEN [t EXCEPT !.phase = "closing", !.ok = FALSE] ELSE Ended(t, FALSE)

NextCall(p, t) ==
    CASE t.phase = "reading" -> Append(wire[p], [Request("read", t.path, t.frsm) EXCEPT !.awaited = TRUE])
      [] t.phase = "closing" -> Append(wire[p], [Request("close", t.path, t.frsm) EXCEPT !.awaited = TRUE])
      [] OTHER -> wire[p]

\* The client stops waiting for the answer to its last request.
CallTimesOut(p) ==
    LET t == Failed(transfer[p])
        n == Len(wire[p])
    IN  /\ transfer[p].phase # "idle"
        /\ n > 0 /\ wire[p][n].awaited
        /\ transfer' = [transfer EXCEPT ![p] = t]
        /\ wire' = [wire EXCEPT ![p] = [NextCall(p, t) EXCEPT ![n].awaited = FALSE]]
        /\ UNCHANGED <<disk, handles, nextFrsm, filePast>>

HandlesOf(p) == {h \in handles : h.assoc = p}

\* The association ends: release gives every handle of it back.
FileAssociationLost(p) ==
    /\ transfer[p].phase # "idle" \/ wire[p] # <<>> \/ HandlesOf(p) # {}
    /\ handles' = {h \in handles : h.assoc # p}
    /\ wire' = [wire EXCEPT ![p] = <<>>]
    /\ transfer' = [transfer EXCEPT ![p] = IF @.phase = "idle" THEN @ ELSE Ended(@, FALSE)]
    /\ filePast' = [filePast EXCEPT !.lost = {h \in @ : h.assoc # p}]
    /\ UNCHANGED <<disk, nextFrsm>>

-----------------------------------------------------------------------------
(* The server serves the oldest request of an association; an answer that   *)
(* is awaited is handled by the client in the same step.                   *)

HandleOf(p, frsm) == {h \in handles : h.frsm = frsm /\ h.assoc = p}

\* What the client does with an answer: the transfer as it goes on.
AnswerTo(p, req, t) ==
    IF req.awaited
    THEN /\ transfer' = [transfer EXCEPT ![p] = t]
         /\ wire' = [wire EXCEPT ![p] = Tail(NextCall(p, t))]
    ELSE /\ UNCHANGED transfer
         /\ wire' = [wire EXCEPT ![p] = Tail(@)]

Opened(t, h) ==
    LET got == [t EXCEPT !.frsm = h.frsm, !.size = h.size]
    IN  IF h.size > MaxLen THEN [got EXCEPT !.phase = "closing", !.ok = FALSE] ELSE [got EXCEPT !.phase = "reading"]

FileOpen(p) ==
    /\ wire[p] # <<>> /\ Head(wire[p]).op = "open"
    /\ LET req == Head(wire[p])
           h   == [frsm |-> nextFrsm, assoc |-> p, path |-> req.path, delivered |-> 0, size |-> disk[req.path].size]
       IN  IF Cardinality(HandlesOf(p)) >= MaxHandles \/ disk[req.path] = Gone
           THEN /\ AnswerTo(p, req, Failed(transfer[p]))
                /\ UNCHANGED <<handles, nextFrsm, filePast>>
           ELSE /\ handles' = handles \cup {h}
                /\ nextFrsm' = nextFrsm + 1
                /\ AnswerTo(p, req, Opened(transfer[p], h))
                /\ filePast' = [filePast EXCEPT !.lost = IF req.awaited THEN @ ELSE @ \cup {[assoc |-> p, frsm |-> h.frsm]}]
    /\ UNCHANGED disk

ChunkAt(path, at) ==
    LET last == IF at + FileChunk < disk[path].size THEN at + FileChunk ELSE disk[path].size
    IN  SubSeq(Content(path), at + 1, last)

MoreFollowsShort(data, h) == Len(data) = FileChunk /\ h.delivered + 1 < h.size
MoreFollows(data, h) == Len(data) = FileChunk /\ h.delivered < h.size

\* A chunk is taken while it fits what the client will hold.
TookChunk(t, data, more) ==
    IF Len(t.data) + Len(data) > MaxLen THEN Failed(t)
    ELSE LET got == [t EXCEPT !.data = @ \o data]
         IN  IF more /\ data # <<>> THEN got ELSE [got EXCEPT !.phase = "closing", !.ok = TRUE]

FileRead(p) ==
    /\ wire[p] # <<>> /\ Head(wire[p]).op = "read"
    /\ LET req == Head(wire[p])
       IN  IF HandleOf(p, req.frsm) = {}
           THEN /\ AnswerTo(p, req, Failed(transfer[p]))
                /\ UNCHANGED handles
           ELSE \E h \in HandleOf(p, req.frsm) :
                LET data == ChunkAt(h.path, h.delivered)
                    now  == [h EXCEPT !.delivered = @ + Len(data)]
                IN  /\ handles' = (handles \ {h}) \cup {now}
                    /\ AnswerTo(p, req, TookChunk(transfer[p], data, MoreFollows(data, now)))
    /\ UNCHANGED <<disk, nextFrsm, filePast>>

FileClose(p) ==
    /\ wire[p] # <<>> /\ Head(wire[p]).op = "close"
    /\ LET req == Head(wire[p])
           was == HandleOf(p, req.frsm)
       IN  /\ handles' = handles \ was
           /\ AnswerTo(p, req, Ended(transfer[p], was # {} /\ transfer[p].ok))
    /\ UNCHANGED <<disk, nextFrsm, filePast>>

Touch(t, path) == [t EXCEPT !.touched = @ \/ (t.phase # "idle" /\ t.path = path)]

FileDelete(p) ==
    /\ wire[p] # <<>> /\ Head(wire[p]).op = "delete"
    /\ LET req == Head(wire[p])
           ok  == Deletable /\ disk[req.path] # Gone
       IN  /\ disk' = IF ok THEN [disk EXCEPT ![req.path] = Gone] ELSE disk
           /\ wire' = [wire EXCEPT ![p] = Tail(@)]
           /\ transfer' = [q \in FilePeers |->
                  LET t == IF ok THEN Touch(transfer[q], req.path) ELSE transfer[q]
                  IN  IF q = p /\ req.awaited THEN Ended(t, ok) ELSE t]
    /\ UNCHANGED <<handles, nextFrsm, filePast>>

\* A file is written to, cut, replaced or removed by what owns it.
FileChanges ==
    /\ filePast.changes < MaxFileChanges
    /\ \E path \in Paths :
        /\ \/ \E n \in Sizes : \E v \in {disk[path].version, filePast.changes + 2} :
                /\ v > 0 /\ [version |-> v, size |-> n] # disk[path]
                /\ disk' = [disk EXCEPT ![path] = [version |-> v, size |-> n]]
           \/ disk[path] # Gone /\ disk' = [disk EXCEPT ![path] = Gone]
        /\ transfer' = [q \in FilePeers |-> Touch(transfer[q], path)]
    /\ filePast' = [filePast EXCEPT !.changes = @ + 1]
    /\ UNCHANGED <<handles, nextFrsm, wire>>

FileNext ==
    \/ FileChanges
    \/ \E p \in FilePeers :
        \/ StartTransfer(p) \/ StartDelete(p) \/ CallTimesOut(p) \/ FileAssociationLost(p)
        \/ FileOpen(p) \/ FileRead(p) \/ FileClose(p) \/ FileDelete(p)

-----------------------------------------------------------------------------
(* Properties.                                                             *)

\* A transfer that succeeded gave the file as it was, whole, when nobody
\* changed the file meanwhile; and whoever changed it, what was read is in
\* the order of the file and without a gap.
ReadWhole ==
    \A p \in FilePeers :
        LET t == transfer[p]
        IN  /\ \A i \in 1 .. Len(t.data) : t.data[i].at = i
            /\ t.result = "whole" /\ ~t.touched =>
                   /\ Len(t.data) = t.size
                   /\ \A i, k \in 1 .. Len(t.data) : t.data[i].version = t.data[k].version

\* A handle is open only while its client still reads, closes, or has asked
\* for the close; the one exception is an open the client gave up on.
HandlesComeBack ==
    \A h \in handles :
        \/ transfer[h.assoc].phase \in {"reading", "closing"} /\ transfer[h.assoc].frsm = h.frsm
        \/ \E i \in 1 .. Len(wire[h.assoc]) : wire[h.assoc][i].op = "close" /\ wire[h.assoc][i].frsm = h.frsm
        \/ [assoc |-> h.assoc, frsm |-> h.frsm] \in filePast.lost
=============================================================================
