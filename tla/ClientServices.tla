---------------------------- MODULE ClientServices ----------------------------
(***************************************************************************)
(* The services a client uses that share no state with one another: log    *)
(* queries, file transfers, name lists, reports on their way to the client, *)
(* writes to the served model, the tracking of services, the names of the  *)
(* model, and the octets all of them travel as.  One of them is under way  *)
(* in a behaviour; the others stay where they start.                       *)
(***************************************************************************)
EXTENDS LogService, FileService, NameService, ReportDelivery, ServedModel,
        TrackingService, ModelNames, MmsCodec

CONSTANT Topics    \* the services looked at

ASSUME TopicAssumption ==
    Topics \subseteq {"logs", "files", "lists", "delivery", "served", "tracking", "names", "codec"}

VARIABLE topic     \* the service under way

vars == <<topic, logVars, fileVars, nameVars, deliveryVars, servedVars, trackingVars, namesVars, codecVars>>

\* A service that is not under way starts in one of its initial states.
Parked(name, x, all) == topic # name => x = CHOOSE y \in all : TRUE

Init ==
    /\ topic \in Topics
    /\ LogInit
    /\ FileInit /\ Parked("files", disk, Disks)
    /\ NameInit
    /\ DeliveryInit /\ Parked("delivery", peerPdu, PeerPdus)
    /\ ServedInit
    /\ TrackingInit
    /\ NamesInit /\ Parked("names", decl, Declarations)
    /\ CodecInit /\ Parked("codec", sent, Messages)

QueryLogs ==
    /\ topic = "logs" /\ LogNext
    /\ UNCHANGED <<topic, fileVars, nameVars, deliveryVars, servedVars, trackingVars, namesVars, codecVars>>

TransferFiles ==
    /\ topic = "files" /\ FileNext
    /\ UNCHANGED <<topic, logVars, nameVars, deliveryVars, servedVars, trackingVars, namesVars, codecVars>>

WalkNames ==
    /\ topic = "lists" /\ NameNext
    /\ UNCHANGED <<topic, logVars, fileVars, deliveryVars, servedVars, trackingVars, namesVars, codecVars>>

DeliverReports ==
    /\ topic = "delivery" /\ DeliveryNext
    /\ UNCHANGED <<topic, logVars, fileVars, nameVars, servedVars, trackingVars, namesVars, codecVars>>

WriteModel ==
    /\ topic = "served" /\ ServedNext
    /\ UNCHANGED <<topic, logVars, fileVars, nameVars, deliveryVars, trackingVars, namesVars, codecVars>>

TrackServices ==
    /\ topic = "tracking" /\ TrackingNext
    /\ UNCHANGED <<topic, logVars, fileVars, nameVars, deliveryVars, servedVars, namesVars, codecVars>>

AskForNames ==
    /\ topic = "names" /\ NamesNext
    /\ UNCHANGED <<topic, logVars, fileVars, nameVars, deliveryVars, servedVars, trackingVars, codecVars>>

SendOctets ==
    /\ topic = "codec" /\ CodecNext
    /\ UNCHANGED <<topic, logVars, fileVars, nameVars, deliveryVars, servedVars, trackingVars, namesVars>>

Next ==
    \/ QueryLogs \/ TransferFiles \/ WalkNames \/ DeliverReports
    \/ WriteModel \/ TrackServices \/ AskForNames \/ SendOctets

Spec == Init /\ [][Next]_vars

-----------------------------------------------------------------------------
(* What is expected of each of them.                                       *)

\* A client that follows a log misses no newer entry while the log keeps the one
\* it goes on after, and the bounds a block shows are those of its log unless a
\* client wrote others there (LogService).
LogsAreFollowed == topic = "logs" => LogIsFollowed /\ BoundsAreShown

\* A file read without an error is the file, and no handle stays open for a
\* client that is done with it (FileService).
FilesAreWhole == topic = "files" => ReadWhole /\ HandlesComeBack

\* A walk over several pages gives every name once (NameService).
ListsAreWhole == topic = "lists" => ListedOnce

\* Reports are joined from their own segments, without a hole, and while nothing
\* is lost every one is handed over whole (ReportDelivery).
ReportsAreWhole == topic = "delivery" => JoinedWhole /\ NothingLostNothingKept

\* A write that succeeded is in the store and marked for reports and logs, and
\* none reaches a value of the process (ServedModel).
WritesReachTheModel == topic = "served" => WritesAreKept /\ ProcessIsNotFaked

\* A tracking object shows the one command it names, and a block as its leaves
\* are until a client writes it as a structure (TrackingService).
TrackersTellTheTruth == topic = "tracking" => BlockShownAsItIs /\ CommandShownWhole

\* A member of a data set that validates is served, one whose index nothing can
\* carry does not validate, and a reference built from a variable leads back to
\* it (ModelNames).
NamesAgree == topic = "names" => MembersAreServed /\ ReferencesArrive

\* What one end writes the other reads, nothing read is lost on writing it
\* again, and an unreadable answer still says whose it is (MmsCodec).
CodecAgrees == topic = "codec" => WrittenIsRead /\ ReadingIsKept /\ IsAttributed
=============================================================================
