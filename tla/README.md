# A verification project for iec61850-rs

`iec61850-rs` implements IEC 61850 in Rust: an MMS server and client over the
OSI stack (reports, controls, setting groups, logs, files), GOOSE and sampled
values over Ethernet, and a loader for SCL files. Most of it is sans-I/O: a
machine takes octets and a clock and answers with octets, events and the next
deadline, and a thin layer of threads connects it to sockets. This directory
holds TLA+ models of those machines, the TLC configurations that check them on
small instances, and the theorems proved about them with TLAPS.

Paths below are relative to `src/` of the repository, so `src/server/rcb.rs` is
the source file the project maps as `src/src/server/rcb.rs`.

## 1. The system

### Components

| Component | State it keeps | Operations | What makes it correct |
|---|---|---|---|
| Report engine, `server/rcb.rs` | per block: owner, reservation with its lingering deadline, gathering window, integrity deadline, ring of entries, sequence number, BufOvfl; the block's attributes live in the served model | `on_write`, `on_change`/`gather`, `emit_due`, `build`, `drain_buffer`, `on_timeout`, `expire_reservations`, `on_association_closed` | one holder at a time; claims end; what is gathered is reported; the ring is ordered and never loses silently; a replay is what the client missed |
| ACSI layer, `server/acsi.rs` | the served model, the engines, deferred replays, expiries and controls waiting for the next publish | `request` (read, write, browse, files, journals, data sets), `commit`, `on_timeout`, `on_association_closed` | engine and model agree after every request; nothing waits for a publish that does not come |
| Server threads, `server/net.rs` | association numbers, one bounded outbound queue per association, a writer thread each | accept, the read/poll/publish loop, the fan-out, the stall that ends an association, `ServerHandle::commit` | a slow client ends only itself; every deadline is polled; numbers are never given out twice |
| Served model, `server/ied.rs`, `server/tree.rs` | the value of every attribute, the dirty set, data sets created by clients | read, write, `client_write_allowed`, create and delete data set | only writable attributes change; every change reaches the dirty set |
| Controls, `server/control.rs`, `common/service.rs` | per object: model, selection with its deadline, waiting operate, termination owed | select, select with value, operate, time-activated operate, cancel, expiry, disconnect | one selection at a time, operate only after it where the model asks for it, a termination for every accepted enhanced operate |
| Setting groups, `server/sg.rs` | active group, group in edit, who edits, confirmation, reservation deadline | select active, select edit, write under SE, confirm, expiry, disconnect | edits reach the group only by confirmation; one editor at a time; a reservation ends |
| Logs, `server/log.rs` | a bounded journal, log control block attributes | gather, integrity, query by time or after an entry | entries in order, oldest lost first, attributes say what is held |
| Tracking, `server/tracking.rs` | last service seen by each tracking object | record | a tracked service is the one that happened |
| Server files, `server/files.rs` | open handles of each association | open, read, close, directory, delete, disconnect | a handle is its association's; limits hold; handles end with it |
| Supervision, `server/supervision.rs` | values of LGOS and LSVS | set from a subscriber's status | mirrors the status |
| GOOSE publisher, `proto/goose/publisher.rs` | stNum, sqNum, time in the schedule, the frame waiting | publish, publish if changed, timeout, poll, simulation, ndsCom | numbering never repeats a state; a frame every T0 at the latest; TAL covers the next interval |
| GOOSE subscriber, `proto/goose/subscriber.rs` | last stNum/sqNum, expiry, ConfRev adopted, simulation in force, event queue | frame, timeout, reset of the simulation policy | old frames are never reported as new; loss of the publisher is noticed |
| GOOSE frames, `proto/goose/apdu.rs`, `proto/ethernet.rs` | none | encode, decode | round trip |
| SV publisher, `proto/sv/publisher.rs`, `proto/sv/layout.rs` | sample counter, ASDUs collected, frame waiting, schedule | sample, timeout, poll, synchronisation | smpCnt follows the rate, frames are full |
| SV subscriber, `proto/sv/subscriber.rs` | last smpCnt per stream, gaps, expiry, simulation | frame, timeout | gaps are counted, old samples are not delivered |
| SV frames, `proto/sv/apdu.rs` | none | encode, decode | round trip |
| MMS association, `proto/mms/association.rs` | state of the transport and the association, invoke identifiers in flight with timers, segments being reassembled, transmit queue | bytes in, bytes out, request, response, conclude, abort, timeout | an answer matches a request, every request is answered, timed out or aborted |
| OSI stack, `proto/osi/*` | COTP segments | encode, decode | a TSDU is reassembled as sent |
| MMS PDUs, `proto/mms/*`, `proto/data.rs`; BER, `ber/*` | none | encode, decode | round trip, no over-read |
| Client, `client/*` | the association, a queue of reports, report reassembly, enabled blocks | connect, read, write, control sequences, files, logs, reports | reports whole and in order, resume after loss |
| Common, `common/*` | event queue, deadlines, value types | - | - |
| Data model, `model/mod.rs`; SCL, `scl/*` | a static tree | load, validate | - |
| Command line, `bin/ied.rs`; captures, `pcap.rs` | none | - | - |

### How they interact

A server is one `Arc<Mutex<Shared>>` that holds the ACSI layer, and through it
the report engine, the controls, setting groups, logs and the served model.
Every association has a thread (`server/net.rs`, `serve`), which in a loop:

1. reads the clock, takes the mutex, lets every deadline that has passed act
   (`Acsi::on_timeout`) and hands what it produced to the outbound queues;
2. waits for octets on its socket, for at most the time to the next deadline;
3. feeds them to its association machine, using the clock of step 1;
4. for every request takes the mutex once to serve it and then *again* to
   publish: `Acsi::commit` turns the dirty set of the served model into
   reports and hands over replays and expiries that a request deferred.

An application commits transactions through a handle that takes the same mutex.
When a thread ends, `Acsi::on_association_closed` lets go of whatever the
association held. A deadline is therefore acted on by whichever thread comes
first, on that thread's idea of the time, and whatever one thread defers
between 4's two critical sections may be handed over by another.

### What is hard

- **Interleaving**: between serving a request and publishing it, other threads
  publish, poll and disconnect (`net.rs:449-467`).
- **Order**: live reports and deferred replays are made at different moments
  and handed over in the opposite order (`acsi.rs:661-676`).
- **Two views of one fact**: the engine's owner and the model's `RptEna`,
  `Owner`, `Resv` are written by different layers and compared by neither.
- **Partial failure**: the engine acts on a write before the model accepts it.
- **Ways round a service**: a Write of a control block's attribute is served by its
  engine; a Write of the block as a structure (`LLN0$BR$brcb01`, `LLN0$SP$SGCB`,
  `LLN0$LG$lcb01`, or all of `LLN0$BR`) is admitted by its functional constraint
  (`ied.rs:389-404`), known to no engine, and stored leaf by leaf up to the first that
  does not fit (`acsi.rs:1102-1119, 1143-1157`).
- **Limits**: the ring, the outbound queue, the event queues, the journal.
- **Time**: a clock read before a blocking call and used after it; a lingering
  reservation against the client that comes back.
- **Loss, duplication and reordering** of frames for GOOSE and SV.
- **Wrap-around** of SqNum, stNum, sqNum, smpCnt, ConfRev and invoke
  identifiers.

`PROJECT.json` lists these hazards at their lines, with the properties that
would notice them going wrong.

## 2. The plan

In order of importance; the status says what this directory has now.

| # | Module | Models | Composes | Abstract specification | Status |
|---|---|---|---|---|---|
| 1 | `ReportBlock` | one report control block and every operation on it | | | done |
| 2 | `ReportEngine` | blocks under the threads of the server | `ReportBlock` | `BlockHolder` | done |
| 3 | `GoosePublisher`, `GooseSubscriber`, `GooseLink` | both ends of GOOSE over a network that loses, duplicates and reorders | both ends | | done |
| 4 | `Control`, `ControlService` | select, operate, cancel, time activation, expiry, disconnect, between clients and the threads of the server | `Control` | | done |
| 5 | `SettingGroups`, `SettingGroupService` | edit, confirm, activate, reservation and its expiry, between clients and the threads of the server | `SettingGroups` | | done |
| 6 | `Association`, `AssociationEnd`, `MmsLink` | one end of an MMS association used and spoken to in every order; a blocking client and a server thread over TCP | both ends over COTP | | done |
| 7 | `SampleLayout`, `SvPublisher`, `SvSubscriber`, `SvLink` | both ends of a sampled value stream over a network that delays, loses and duplicates | both ends | | done |
| 8 | `LogService`, `FileService`, `NameService`, `ReportDelivery`, `ServedModel`, `TrackingService`, `ModelNames` | the services of the ACSI layer and the client's side of each | `ClientServices` | | done |
| 9 | `BerOctets`, `MmsShapes`, `MmsWriting`, `MmsCodec` | the MMS codec, written octets against read ones | `ClientServices` | | done |
| 10 | `AssociationProofs`, `AssociationEndProofs`, `GooseProofs` | identifiers, budget and endings for every number of them; what a GOOSE application believes, the order of its states and what an expiry means | `AssociationEnd`, `GooseLink` | | done |
| 11 | `ReportEngineProofs`, `ControlProofs`, second parts | what a step may do to a block; what callers of controls are told, and when | `ReportEngine`, `ControlService` | | done |
| 12 | `MmsLinkProofs` | what both ends of an association agree on, whose answer a call gets, what its slot is owed | `MmsLink`, `AssociationProofs` | | done |
| 13 | `SvProofs` | what is sent whole, what is counted and what is believed, for every rate, layout, delay and queue | `SvLink` | | done |
| 14 | - | theorems about `ServedModel`, `LogService`, `FileService` (their folds rewritten so that the provers reach them); the services in one state with the report engine; the GOOSE and SV codecs | | | open |

## 3. The modules

### The report engine

| Module | What it is |
|---|---|
| `ReportBlock` | A block as a record and every operation on it as an operator from a block to a block, in the code's order of steps: `Emitted` is `emit_due` with its interrogation, purge, integrity scan and window, `Enabled` is the `RptEna` arm of `on_write` with the drain of the ring, `Closed` is `on_association_closed` with the attributes the ACSI layer clears |
| `ReportEngine` | The blocks, the data sets that exist, the life of each association, who holds the mutex, who still has to publish, and the dirty set; one action for each variable a client may write, for publish, transaction, poll, connect, disconnect and the passing of time |
| `ReportSafety` | What must hold, the mapping to `BlockHolder`, and what a comment of the code says and the code does not do |
| `BlockHolder` | The abstract promise: who holds a block, and how that changes |
| `ReportEngineProofs` | In three parts: lemmas on the operations of a block; the inductive invariant and its theorems; what each operation, and so each step, does to a block: theorems of action properties |
| `MCReportEngine` | Small instances |

How the state corresponds to the code:

- `rcb[b]` is one `Rcb` (`rcb.rs:42-92`) together with the attributes the model
  stores under the block's name. `owner`, `reserved`, `linger`, `until`,
  `pending`, `due`, `integrityDue`, `buffer`, `nextEntry`, `overflowed` and `seq`
  are its fields (`reserved_until` is `until`; the `Buffered` option is the
  record's `buffered` with its ring). `rptEna`, `gi`, `purge`, `resv`, `datSet`,
  `confRev`, `intgPd`, `sqNum`, `entryID` and `ownerAttr` are what clients read.
- Deadlines count *down*: they hold the time that remains, `Tick` lowers them
  and a deadline has passed when it is not positive. This is a change of
  coordinates of the code's absolute times and keeps the state space finite. A
  thread that uses a clock `s` ticks old sees a deadline pass `s` ticks late and
  sets new ones `s` ticks early, which is what `net.rs:413-449` does: the clock
  is read before the socket blocks.
- `deferred` holds the replays `Acsi` keeps for the next `commit`; `out` holds the
  reports of the last critical section, in the order they are handed over.
- `lock` and `writes` cut a Write request into its variables: no other thread runs
  between them, because the mutex is held. `unpublished` is the set of threads
  between their two critical sections.
- A value of the wrong type (`Misfits`) is a parameter of the writes whose arms
  in `on_write` act on the type before the store does.
- `WriteStructure` is the Write of a block by its own name: `Overwritten` puts the leaves in
  the order of `rcb_components`, all of them or the first `n`, and changes nothing of the
  engine's; no owner is published and no ring drained. `stray` is a history variable: the
  leaves of a claim, `RptEna` and `Owner`, that a client was the last to set past the engine,
  by such a Write or by one the store refused after the engine had acted. What is
  claimed of the two views of a claim is claimed of the leaves that are not in it.

Abstracted: the values of members and the reasons for inclusion, the time of an
entry, RptID, OptFlds, BufTm and TrgOps as settings (BufTm is one constant, and
an integrity period is 0 when TrgOps does not ask for it), and segmentation.

### GOOSE

| Module | What it is |
|---|---|
| `GoosePublisher` | `publisher.rs` as operators on a record: `stNum`, `sqNum`, the interval in use and the time left to the next repeat |
| `GooseSubscriber` | `subscriber.rs` as operators on a record: what is live, what it last showed, the time allowed to live that remains, the takeover by simulated frames |
| `GooseLink` | one publisher that may restart, one subscriber, and a network that loses, duplicates, delays and reorders frames |
| `GooseProofs` | `BeliefIsRight`, `OnlyTheNextState` and `ExpiresForALoss` as theorems |
| `MCGooseLink` | the instance |

- A frame is a record of the fields the subscriber's decisions read: `stNum`,
  `sqNum`, `tal` (timeAllowedToLive), `confRev`, `simulation`; `version` stands
  for the values of the data set.
- Deadlines count down, as for reports. `Tick` waits for the timers that are
  due: `next_timeout` and the loop of the threads that own the two ends make a
  late timer a matter of scheduling, and the network's `MaxDelay` is where lateness
  is modelled.
- `app` is what an application that follows the subscriber's events believes,
  and `lost` counts the frames lost of the state that is out; both only record.

Abstracted: the statistics, the deltas of an event, malformed frames and those
of another stream, which change nothing but a counter.

### Controls

| Module | What it is |
|---|---|
| `Control` | `server/control.rs` as operators on the server's record: what a command is refused for (`May...`), what it does (`Done`), what a refusal leaves (`Refused`), what the passing of time does (`Elapsed` is `on_timeout`), and a whole service (`Served`) with the `on_timeout` it begins with |
| `ControlService` | clients that run `execute` or the single services of `client/control.rs`, one server thread per association with its queue and its socket, the application, and time |
| `ControlProofs` | the types of the tables, who holds what: an inductive invariant and its theorems; then the way of a result from the tables to the caller: a second invariant and its theorems |
| `MCControlService` | small instances |

How the state corresponds to the code:

- `server` is `Controls` with the part of the served model it works on: `sel` and
  `timed` are its tables (`rank` is the place in the `Vec`), `pending` the PDUs not
  yet taken by a `commit` or a poll (one `Vec` in the code, taken whole and dealt to the
  queues of the associations, so that only the order within an association can be told:
  here a sequence for each), `model`, `mode` and `status` the object's
  `ctlModel`, its node's `Beh` and its `stVal`. `barred` are the stages at which the
  hook refuses. `device` is where the hook has driven the equipment: the example of
  `server.md` drives it from the hook, and so does the model. `ran` records which
  commands ran.
- `conn[a]` is the association in the server: the place of its thread in `serve`,
  the outbound queue, the `stalled` flag, what its machine has still to transmit
  (`unsent`) and the socket (`wire`). The lock is held from the start of an action to
  its end. What follows a poll or a publication (drain the queue, write the socket)
  touches only the thread's own state and, without a request in hand, is one action with it;
  a write that does not fit blocks, and is taken up by `Unblock`.
- `client[a]` is a caller: the rest of its call (`plan`), the ctlNum in use, and the
  terminations it has read and not asked for. `told` is what its caller knows.
- Deadlines count down. `wait` is the time from the moment the server looks to the
  operTm.

Abstracted: the AddCause of a refusal and the wording of a termination (a
termination says whether the command ran, and under which ctlNum), origin, Check,
`T`, requests that do not parse, and references that name no control.

### Setting groups

| Module | What it is |
|---|---|
| `SettingGroups` | `server/sg.rs` for one logical device as operators on a record: what a write is refused for (`May`), what it does (`Done`), a whole write (`Served`) with the expiry it begins with, a poll (`TimedOut`), the end of an association (`Closed`) |
| `SettingGroupService` | clients that run `edit_setting_group` or the single services, one server thread per association, and time |
| `SettingGroupProofs` | the inductive invariant and the theorems |
| `MCSettingGroups` | the instance |

- `server` is a `Groups` (`values`, `editor`, `until` for `editor_until`) with what the
  served model stores: `inForce` are the settings under SG, `copy` those under SE, and
  `actSG`, `editSG`, `resvTms` the block's attributes. The value of a setting is told
  apart by where it comes from: a group's engineered value, or the client that wrote it.
- `until` counts down, and below zero, where a thread whose clock is `late` has not
  seen it pass. A thread reads the clock, waits for its socket, polls and then serves
  under a second lock on the same clock: `Wake` and `Serve`.
- A Write of the SGCB as a structure (`Overwritten`) sets the attributes before the first
  misfit and applies no group, fills no copy and asks nobody; `stray` are the attributes it
  has set and the service has not set since.
- `EditSG` and `editor` are two facts. A poll that ends a reservation clears both; the
  expiry that a write begins with, and the end of an association, clear the editor
  only. The model keeps them apart, and `EditorSeesItsGroup` and `EditIsExclusive` are
  about what that may cost.
- `client[a].plan` are the requests a call has still to make, and `Rest` what an answer
  leaves of them. For the properties a `CnfEdit` of `edit_setting_group` carries the
  group and the settings it means to confirm; the server does not look at them.

Abstracted: the values of settings, `LActTm`, a `CnfEdit` written false, a group number
beyond `NumOfSG`, reads, and the seeding of the groups from the SCL.

### The MMS association

| Module | What it is |
|---|---|
| `Association` | one end (`proto/mms/association.rs`, `proto/osi/cotp.rs`) as operators on a record: transport connection, the handshake on every layer with what each proposes, confirmed requests by identifier, reassembly, release, abort, timeouts |
| `AssociationEnd` | that end under a user and a peer that do whatever the types allow |
| `MmsLink` | a blocking client (`client/mod.rs`) and the thread that serves it (`server/net.rs`), each with its end, over a TCP connection that either side may close or reset |
| `AssociationProofs` | lemmas: what each operation of one end keeps |
| `AssociationEndProofs` | the theorems of one end |
| `MmsLinkProofs` | the theorem of the two ends and those who use them |
| `MCAssociationEnd`, `MCMmsLink` | the instances |

- A TPDU is a record of what the code reads of it: its kind, the size it proposes, the TSDU
  it is a piece of, its length and the end-of-TSDU flag. A TSDU is the SPDU with the one
  presentation value it carries, and an MMS PDU is its kind, identifier, size and `says`,
  which stands for the rest.
- Sizes are octets where they are compared: the TPDU size each end proposes, the PDU sizes
  of the initiate exchange, the TSDU limit. `chunk` is what `Cotp` splits by.
- The machine does not read a clock: `OnTimeout(e, late, n)` is `on_timeout` at a moment at
  which the connect deadline has passed or not, and the deadlines of the `n` oldest requests.
- `MmsLink` makes one step of a thread's turn (read, handle, write), as nothing it touches
  is shared before it writes. `GiveUp` is a caller whose own deadline passes.
- Abstracted: the contents of ACSE and presentation contexts beyond accepted, refused and
  wrong; several presentation values in one TSDU; which fields of a service are supported.

### Sampled values

| Module | What it is |
|---|---|
| `SampleLayout` | `proto/sv/layout.rs`: offsets, widths, what a sample block says and what fits into it |
| `SvPublisher` | `proto/sv/publisher.rs`: the template frame, what patches it and what rebuilds it, the count |
| `SvSubscriber` | `proto/sv/subscriber.rs` for one stream: simulation policy, revision, layout, gaps, synchronisation, staleness, and the bounded event queue of `common/machine.rs` |
| `SvLink` | a merging unit that may be late, crash and lose its clock, the network, and an application that takes samples at once and events when it likes |
| `SvProofs` | `FramesWhole`, `LossIsShown` and `StreamIsAsBelieved` as theorems |
| `MCSvLink` | the instance, with the theorems' hypotheses as assumptions of it |

- A field of the frame is its width and the number its octets spell; an octet has `Octet`
  values, two in the instance, so that fields outgrow their widths.
- A sample block carries the sample's own number, so that `FramesWhole` and `truth` can
  compare what is counted with what was measured: it measures what is missing before a newer sample by the merging
  unit's own clock, which goes round only after several seconds, and not by the counts.
- `deadline` counts down and is 0 when it has passed; time does not go on before the timer is
  served.

### The services of the ACSI layer

Each module has the server's part and the client's, with the history its properties speak
of. They share no state in the code beyond the mutex, so `ClientServices` lets one of them
run in a behaviour and the rest stand.

| Module | The server's part | The client's part |
|---|---|---|
| `LogService` | `server/log.rs`: control blocks, `commit`, the ring of `MemoryLog`, both queries, a restart | `client/log.rs`: reading a whole log page by page, going on after the last entry |
| `FileService` | `server/files.rs` and the handles of `acsi.rs` | `client/files.rs`: `read_file`, with calls that time out |
| `NameService` | the name lists and data sets of `ied.rs`, cut to pages | `Client::name_list` |
| `ReportDelivery` | `proto/mms/report.rs`: `split` | the event queue, `ReportAssembler`, the queue of `client/mod.rs` |
| `ServedModel` | `ied.rs`: reads and writes of the tree, `client_write_allowed`, the dirty set, transactions | - |
| `TrackingService` | `server/tracking.rs` and where `acsi.rs` and `rcb.rs` call it | - |
| `ModelNames` | `server/tree.rs`, `model/mod.rs`, `proto/mms/alternate.rs`: what resolves | `common/reference.rs`, `client/mod.rs`: references on the way to names |

- A log control block, and a block that service tracking mirrors, can be written as a
  structure too (`WriteLcbStructure`, `TrackStructureWrite`): the log's bounds and the mirror
  are then a client's until the server writes them again. The second is tracked as
  SetDataValues of the common class (`acsi.rs:1055-1061`).
- An entry of a log has a serial number that the code does not have; an octet of a file its
  version and place; an entry of a report the report it is of: so a property can say that
  what arrives is whole.
- `ServedModel` keeps a value as its shape, which the type check looks at, and a number.
  An application's transaction writes and publishes under one lock (`net.rs:272-282`); a
  request and its publish are two steps (`net.rs:454, 465`).
- `ModelNames` checks for every declaration, wording and constraint of its instance the four
  places that resolve references against one another.

### The codec

`BerOctets` (`ber/reader.rs`, `ber/writer.rs`), `MmsShapes` (the values of `proto/data.rs`, and a
table of what `proto/mms` reads and one of what it writes, taken from its parse and its write
functions separately), `MmsWriting` and `MmsCodec` (the readers and writers as functions
that interpret the tables). In the run a message of each kind is written, an octet of it
may be spoilt, and it is read, with the limits on depth, list length and integer width at
2 to 4. These modules use recursive operators, and TLC's runs only.

## 4. What the runs check

| Run | Question | Properties |
|---|---|---|
| `buffered_block` | one buffered block, three associations, up to two variables per request or the whole block: who holds it, what its ring keeps, what a resuming client gets | `BufferIsSound`, `LeaseHonoured`, `NothingMissedUnseen`, `HolderSpec` |
| `engineered_blocks` | both kinds of block, integrity scans, a data set that clients delete and create, misfit values, blocks written whole or up to a misfit, a clock one tick late: both records of a claim agree in what the engine set last, the engine's is one story whatever is written, and nobody reconfigures another's block through its attributes | `TwoViewsAgree`, `ClaimsAgree`, `ReconfiguredOnlyIdle` |
| `report_progress` | under the fairness of the threads, nothing waits for ever | `LeaseEnds`, `GatheredIsReported`, `ReplayIsHandedOver` |
| `gathered_lost` | a comment says a client gets the events it missed; those in an open window are dropped without an entry or BufOvfl | `GatheredIsRecorded` (violated) |
| `goose_link` | what an application believes is backed by a live subscription; states arrive in order; an expiry means that frames were lost; a simulated stream takes over and gives way; under fairness the subscriber catches up | `BeliefIsRight`, `OnlyTheNextState`, `ExpiresForALoss`, `CatchesUp` |
| `control_service` | two clients, one object of any control model, commands now or on time, a bay that blocks and a hook that changes its mind, full queues, stalls and clients that leave: what callers are told is so, no result is lost, and claims are their holders' | `ToldTheTruth`, `ResultsComeBack`, `ClaimsAreTheHolders`, `ArmedObeysTheBay` |
| `control_progress` | under fairness an awaited command is answered or its connection closed, and nothing stays armed | `AwaitedComes`, `ArmedEnds` |
| `setting_groups` | two clients, two groups of two settings, with and without a deadline, the SGCB written by attribute and whole: what is in force is the group shown as active unless another was written over it, an edit is its holder's alone and lands whole or not at all, a reservation ends | `GroupsAreAsShown`, `EditIsExclusive`, `EditLands`, `ReservationEnds` |
| `association_end` | one end, client or server, and a peer that sends anything: identifiers never meet although they wrap, a request ends with an event, a closed end is silent | `OneNumberEach`, `EndsAreHeard` |
| `mms_link` | a client, a server thread, TCP: both keep what they agreed on, a caller gets its own answer unless an identifier came free before its answer was taken, no slot leaks, nobody waits for an answer that cannot come or for a peer that is silent or gone | `CallsKeepTheTerms`, `ClientNeverHangs`, `ServerLearns` |
| `sv_link` | a merging unit that misses ticks, crashes and changes its clock, frames lost, late and twice, a test set, a stream of another revision: frames are whole, what is missing up to a newer sample is counted or announced, the application's belief is backed | `FramesWhole`, `LossIsShown`, `StreamIsAsBelieved` |
| `client_services` | one service at a time: logs, files, name lists, report segments, writes, tracking, names, octets | `LogsAreFollowed`, `FilesAreWhole`, `ListsAreWhole`, `ReportsAreWhole`, `WritesReachTheModel`, `TrackersTellTheTruth`, `NamesAgree`, `CodecAgrees` |

Several properties are conjunctions of named parts, among them the type invariant of the
module; the parts carry their own comments, and some their own theorems.

Each property of a passing run has a mutant in `PROJECT.json`: a definition changed
the way a plausible bug would change the code, under which the property fails.

### Bounds

- `MaxEntry` bounds the entries a block may make; `Room` is its guard. It counts
  what a block owes as well, so that a poll or publish that the code cannot
  refuse is never cut off by the bound: the bound limits inputs, not answers.
  Three entries over a ring of two make the ring turn over, overflow and
  resume at every position, before it, and after it is gone.
- `MaxWrites` bounds the variables of a request. Two are enough to enable and
  interrogate, or to disable and re-enable, in one critical section.
- `BufferLen`, `BufTm`, `Lingers`, `IntgPds` are 1 or 2 ticks or entries; a longer
  one adds waiting and no new order of events.
- `Stale` is how late a thread's clock may be.
- `Structures` are what is written over a block: one that shows it enabled and one that
  shows it free, with a request for a report and a purge in `buffered_block`, and with
  either data set in `engineered_blocks`, where `Taken` (1, 3 or all 10 leaves) stops it after
  RptEna, after DatSet, or not at all.
- `SeqMod` is 16 and 8 for 2^16 and 2^8, `ConfRevMod` is 3 for 2^32: with
  `MaxEntry` entries SqNum does not wrap in the instances; the theorems hold for
  every modulus.
- Association numbers are never reused (`net.rs:236`), so `Assoc` also bounds how
  often a client reconnects.
- Symmetry is used over associations where no liveness is checked.

- GOOSE: intervals go 2, 4 with a time allowed to live of twice the interval;
  `MaxDelay` of 1 is below the shortest interval. `StTop` is 9, so that stNum
  does not wrap with the two versions of `MaxVersion`, and `SqTop` is 4, so that
  sqNum does. `Window` is 2 for the code's 16. `Boot` (10) says that a restart
  takes longer than an old state and its frames live. At most two frames are in
  flight and three sends of one state are counted.

- Controls: `MaxCalls` (2 calls, of all clients together, a call being one or two
  requests) and `MaxChanges` (one change of the behaviour or of the hook) limit the
  inputs. `SboTimeout` and `Waits` are 0 or 1 tick, so that a selection may expire,
  and a command fall due, before, between and after any of the other steps.
  `QueueCap` and `SocketCap` of 1 make the queue overflow, the association stall and
  the write block. `Nums` does not wrap, and a client that reconnects is another
  association. `control_progress` takes one value, one ctlNum per client and
  the models that can be operated or owe terminations; what the bay says does not
  change there, as a change only makes a refusal of a success. A thread acts on a clock
  that is current: the poll interval by which it may be late shifts deadlines, as
  the report engine's `Stale` does. The 256 terminations a client keeps are not
  reached.

- Setting groups: two calls of all clients together (`MaxCalls`), an
  edit being up to four requests, are enough for one client to find what the other
  left at every step of its edit. A reservation lasts one tick or has no deadline
  (`Secs`), a clock is at most one tick late (`Stale`, which stands for the poll
  interval). `Writes` are no setting, one, both, and both of which one is refused.
  An edit of the group in force and of the other are both in it. The structures written over
  the SGCB show another group as active and in edit, one that does not exist, and one of
  which only ActSG is taken.

- The association: three identifiers wrap after three calls with two outstanding; a peer
  sends each kind of TPDU, SPDU and MMS PDU, well-formed and not, whole and in two pieces.
  An event queue of two overflows. `MCBound` limits the TPDUs that wait to be written to
  one and the pieces held to two; a polling layer above writes sooner.
  `MmsLink`: a client and a server that propose different TPDU and PDU sizes,
  one report, two TPDUs a read. Three calls and two identifiers, so that one is given twice
  while the older answer is still under way; requests and answers fit, or are too large for
  what was agreed, and the handshake is of several pieces.
- Sampled values: a second has five samples and the clock two seconds, two samples a frame,
  octets of one bit, one frame in flight that may be delivered again while it lives, one tick of delay and of
  staleness, an event queue of one. A count wraps within a frame or between two. One grandmaster that
  comes and goes; three streams: followed, of another revision, of another layout.
- The services: a log of two entries with pages of one, four entries made, one restart, a block written whole with
  other bounds; files
  of at most three chunks in chunks of two octets, one handle, two transfers, one change of
  a file; five names with pages of two or three, three changes; reports of up to three members
  over three PDU sizes, two made of two blocks; three writes to a tree of a data object, a
  setting and a control block; two tracked services, and what the server does by itself, on two blocks, by attribute and whole, and two objects; two
  declarations with an array, and every reference in them with every constraint and index;
  a message of each kind of PDU, spoilt in one octet.

### Fairness

For the association, the two threads run: a thread that has octets to read reads them, one
whose peer has closed learns it, and the client's, when its read times out, tells its machine.
The server's thread is not assumed to answer a client that is still connecting, and neither
is the client to poll when it has no call. `ServerLearns` needs no timer: a socket that is
closed reads as closed. The sampled-value run and the services have no liveness: streams and
transfers end at the clients' will.

For the setting groups, time passes and threads run; nothing is assumed of clients.
`ReservationEnds` needs one association whose thread still polls, and the holder's own
does.

For the controls, `FairSpec` assumes that threads run and time passes, that a client
that is there reads its socket and takes the termination it waits for, and that
one whose connection has closed finds out. Nobody need call, change the model,
give up waiting or leave. `AwaitedComes` needs the reading: with a client that does
not read, the thread blocks in its write, which has no time limit.

For GOOSE, `FairSpec` assumes that time passes and that each timer runs (weak),
and that a frame that can be delivered again and again is one day delivered
(strong): the network does not lose every copy of a state for ever, which is
what repetition is for.

`FairSpec` assumes that time passes; that a Write request that holds the mutex
goes on to its end (it is one function call); and, strongly, that each thread
that repeatedly finds the mutex free to publish or poll eventually does. Strong
fairness is the mutex's: between two acquisitions of one thread others may take
it, but a thread blocked in `lock` is not passed over for ever, and the loop in
`net.rs:413-467` polls before it serves each time round, so that a client that
never stops writing does not keep its own thread from polling. Nothing is
assumed of clients: they may stop at any point. Since only association
threads poll, `LeaseEnds` and `GatheredIsReported` stop at the moment no
association is open; in the code, too, such a deadline waits for the next
client.

## 5. What is proved

| Module | Theorems | of run |
|---|---|---|
| `ReportEngineProofs` | `ClaimsAlwaysAgree`, `BufferIsAlwaysSound`, `OneHolderAlways`, `ClaimsEndAlways`, `GatheredIsDueAlways`, `RingOrderedAlways`, `ReplayIsOwedAlways`, `EngineImplementsHolder` | `engineered_blocks`, `buffered_block` |
| `ReportEngineProofs` | `LeaseIsHonoured`, `ReconfiguredOnlyWhenIdle`, `RingAgesWithNotice`, `ResumingIsExact`, `NothingIsMissedUnseen`, `TwoViewsAlwaysAgree` | `buffered_block`, `engineered_blocks` |
| `ControlProofs` | `ClaimsAreAlwaysTheHolders`, `ClaimsAlwaysOpen`, `HolderIsRespected` | `control_service` |
| `ControlProofs` | `CallersAreToldTheTruth`, `ResultsAlwaysComeBack`, `ArmedCommandsAskAgain` | `control_service` |
| `SettingGroupProofs` | `GroupsAreAlwaysAsShown`, `InForceAlways`, `EditorSeesAlways`, `EditIsAlwaysExclusive`, `EditsAlwaysLand` | `setting_groups` |
| `AssociationEndProofs` (on `AssociationProofs`) | `EndIsWellTyped`, `OneNumberEachAlways`, `EndsAreAlwaysHeard` | `association_end` |
| `MmsLinkProofs` (on `AssociationProofs`) | `CallsKept` | `mms_link` |
| `GooseProofs` | `BeliefIsAlwaysRight`, `TestIsAlwaysExclusive`, `OnlyTheNextStateEver`, `ExpiryMeansLoss` | `goose_link` |
| `SvProofs` | `FramesAreAlwaysWhole`, `LossIsAlwaysShown`, `StreamIsAlwaysAsBelieved` | `sv_link` |

The theorems hold for every value of the constants under the named assumptions of
their modules, which say what kind of value each constant is and, where noted, one
thing more. Those about the report engine hold for every set of associations,
blocks, members and data sets, every ring length, period and modulus, with and without
misfit writes and late clocks, whatever clients write over a block and however much of it is taken, under `ReportBlockAssumption` and
`ReportEngineAssumption`.

The inductive invariant `IInv` (in `ReportEngineProofs`) says of the threads
that they have their types, that the holder of the mutex is open and has
nothing to publish, and that those about to publish are open; and of each block
(`BlockInv`) that

- it is a block (`Block`);
- its window is sound (`Gathering`): what is pending has a deadline and the reverse,
  and an unbuffered block without an owner has neither;
- its ring is sound (`Ring`): bounded, rising, below the next identifier;
- its claims fit (`Claims`): owner and reservation agree, an owner shows as enabled where
  RptEna is as the engine set it, a deadline on a reservation comes with a linger;
- an owner is open, a reservation without a deadline is an open association's, and
  one with a deadline is an ended association's;
- deferred replays are owed to associations that publish before they read on.

None of the checked invariants is inductive alone. That a poll keeps
`OneHolder` needs that an expiring reservation is an ended association's, and so is
never its owner's; that `ReplayIsOwed` survives an enabling needs that the
enabling association is about to publish; that a disconnect keeps `ClaimsEnd`
needs the association to have nothing left to publish. The first part has
for each operation one lemma on its type and frame (`...Type`) and one on window
and ring (`...Sound`); the second joins them to one lemma per operation on
`BlockInv` (`...Inv`) and one step per action.

That the engine implements `BlockHolder` (`EngineImplementsHolder`) follows the same
operations: a lemma `...Holder` says what each does to the holder of its block, and each
action is then an arrival, a take, a give-up, a departure, a lapse or a stutter. Two of
them need the invariant: a disconnect, because owner and reservation must agree for both
claims to go, and a poll, because the reservation it ends must be an ended
association's.

What a step may do to a block is a relation between the block before
and after: `Proper` says that a lingering reservation is left alone before its
time, that the data set and the integrity period change only while the block is idle, that the
ring ages (`AgesWell`) and that what is replayed is `Exact`; `Becomes` adds that the two views of
a claim go on agreeing where no value is of the wrong type. Each operation has one lemma that it
is proper, each action of the engine one step that every block `Becomes` what it is
afterwards, joined in `NextProper`, and the action properties are read off it. The ageing of the ring is by
composition: `emit_due` may record several entries, each dropping at most one from
the old end, so the ring after a step is the ring before without a prefix and with a
suffix of new identifiers (`Shifted`), and whoever drops an entry raises BufOvfl, which stays up
until a report carries it (`Noticed`). That ConfRev moves when the data set does needs a modulus of at least 2
(`ConfRevMod \in Nat \ {0, 1}`; it is 2^32). `TwoViewsAlwaysAgree` and
`ReconfiguredOnlyWhenIdle` speak of the leaves that the engine was the last to set, and must: a
Write of the block as a structure sets RptEna, Owner, DatSet and IntgPd past the engine and its
refusals, and a value of the wrong type for RptEna lets the owner go while the attribute
stays true. `Overwritten` marks what it sets and touches nothing of the engine's
(`OverwrittenType`), so that the claims, leases, windows, the ring and its replays need no such
exception: `ClaimsAlwaysAgree`, `LeaseIsHonoured`, `BufferIsAlwaysSound`, `NothingIsMissedUnseen` and
`EngineImplementsHolder` hold whatever is written. How a block comes together again is in the
model and so in the proof: an accepted write of the attribute, a publish of the owner, or the end
of the association that holds it.

For the controls the invariant (`IInv` in `ControlProofs`) says that the tables have
their types, that only objects whose model asks for it are ever selected, that a thread
which serves has a request and a request is a command for an object, that a call in
progress is made of commands, and that claims belong to open associations. `Elapsed`,
`Reserved`, `Operated`, `Cancelled`, `Refused` and `Dropped` have one lemma each
on what they leave in the tables; `ServedTables` says that what a service adds is its
client's, and `ServedRespects` that it leaves alone what another client holds. That an
operate cannot take another's selection needs that a selected object is one
that must be selected, for `operate` removes the selection of its object whoever
holds it (`control.rs:349`) and checks the holder only under a model that
selects. `ControlAssumption` and `ServiceAssumption` are the assumptions.

What callers of controls are told rests on a second invariant, `Books`:
for each association a `Story` of the facts the server has of its commands (what is armed, what
ran, what is owed), its queues and socket, its client and what the caller was told.
The way of a result is one sequence, from what the client has read and not asked for to what the
server still owes. The story says that no queue but the socket carries answers, that a client in a
call has one request or one answer on its way (`OneAtATime`), that nothing stands under a ctlNum
the client has not come to (`NumbersOK`), what the place in a call implies for the command
(`PhaseOK`: after a refused select, say, it neither ran nor waits), that before the operate
of an awaited command is served the way is mute about it, and an answer is before
whatever speaks of it (`EarlyOK`), that afterwards it is armed, or the way speaks of it once and says
whether it ran (`LateOK`), and that what was told is so (`ToldOK`). All parts are needed: that a
late termination is not taken for another command's needs `NumbersOK`, and that a
failed call is a refused command needs `PhaseOK` of the answer while it is under way.
`Passes` and `Serves` are what the passing of time and a service may do to an
association's facts; `PassedStory` and its kin show that each step of a thread and of a client
keeps the story, and the other associations' stories are kept because a service of one
leaves the facts of the rest as they are but for what falls due. That `on_timeout` owes one
termination for each command that is due, in the order of the list, needs that a finite
set of commands with places of their own can be listed in their order (`OrderExists`): by
induction over its size, stated for sets of numbers (`NumbersByInduction`, from the library's
theorem that a well-founded order has least members).

For the setting groups the invariant (`IInv` in `SettingGroupProofs`) is the checked
invariants with the types of the threads: a thread that serves has a request, a client
that waits has requests left to make. `Sound` is what each operation keeps of the
device, with one lemma for each; a Write of the SGCB as a structure keeps it because it marks in `stray`
what it shows and leaves groups, copy, settings in force and reservation alone (`OverwrittenSound`).
So the claims about what is *shown*, the active group and the selection, end with such a Write
and begin again with the next activation or selection, and those about what is *done* do not:
`EditorSeesItsGroup` is inductive because only the holder, or
somebody when nobody holds, may write or confirm; `ServedRespects`, that a write of
another client changes neither groups nor copy nor reservation while it runs, needs in addition
that a late clock only sees a deadline later. `SettingGroupsAssumption` and
`ServiceAssumption` are the assumptions.

That an edit lands (`EditsAlwaysLand`) is about both ends and all the steps of an edit, and
needs an invariant of its own, `EditInv`, which TLC checked on the instance of
`setting_groups` first. A client that waits has its request in the server's socket or the
answer to it, never both (`InStep`). The requests it has left to make are chained: a write
follows the selection of its group, a confirmation the write of all its settings (`Chained`,
from `edit_setting_group`). What was granted, a group selected and settings of the copy,
lasts while the client is the holder (`Granted`), since nobody becomes the holder but by its
own selection and nobody else touches what is edited (`Keeps`); so each request finds what
the answers before it promised, or its sender is no longer the holder and is refused
(`Standing`).

For one end of an association the invariant (`Good` in `AssociationProofs`) says that its
record has its types, that the identifiers that wait are distinct and no more than the
budget, that the budget agreed is at most the one configured, and that a closed end waits
for nothing and has no timer. That `take_invoke_id` finds an identifier that is free, however
often they have wrapped, is a pigeonhole argument over the candidates after the last
one given out: there are more of them than requests that wait. It needs
`cfg.budget < MaxInvoke` (2^32 - 1 in the code, against a budget of one octet). The three
operations of a user, the TPDUs by kind and the timeouts have one lemma each that they keep
`Good` and `Told`: a request that stops waiting has an event among the newest, and a closed end
adds none.

For the two ends together (`MmsLinkProofs`) the invariant is `Whose`, of three parts.

- `Agreement` measures everything under way - queues, wires, pieces, events, the call in
  progress - by one history: the two configurations, how many calls there were and which
  identifier each was given. A TPDU on its way to the server is a piece of what this client
  proposed, asked or released with; one to the client, a piece of what this server grants,
  answers or publishes; each no longer than the size agreed. The transport connection comes
  first (`Shaking`): data on a wire before its receiver has the size agreed would be measured
  by a size not yet known.
- `Singly` follows one call: it is under way on one side at a time, as one TSDU whose last
  piece comes once, and only while it is the newest call that its identifier was given to, or
  the identifier had come free too early. So an answer that arrives is that of the call its
  identifier names.
- The third is the property itself: that an answer is the caller's own (`OwnAnswer`), and that
  a slot is owed an answer (`SlotIsOwed`).

What a read gathers is an induction over the TPDUs fed in turn (`FedInTurn`), and what a turn
answers one over the requests heard (`Replied`); both are recursive functions, so each is an
invariant carried from one position to the next. Then there is one lemma for each step and
part. The clause on identifiers that come free too early is needed: without it TLC shows
a client whose deadline gives an identifier back while the server is still to answer it; the
counter wraps, the identifier is given again, and the old answer is handed to the new call.
The code has 2^32 - 1 identifiers, so this takes that many calls within one late answer.
The proof assumes that a budget is at most the number of identifiers (`LinkAssumption`;
the budget is one octet in the code). TLC checked `Agreement` and `Singly` on the
instance of `mms_link` before they were proved.

For GOOSE `BeliefIsRight` is inductive as it stands. `Backed` says what each operation of the
subscriber keeps: a listener who believed `b` and hears the events this operation
has put out believes its values valid exactly if the subscriber is live. That a repetition may
establish a state needs that one was live before it; that a takeover or the end of a test leaves
nothing live is why the listener is told. The publisher's part is that every frame it builds is a
frame: the doubling of the interval stays a natural number, and the counters stay in
their widths.

The other properties are of a step, and rest on what `OnFrame` does as a whole. `Unjudged` is
what the subscriber may have become before it judges a frame: it has accepted nothing, and
is live only with the state it had, of which its listener has heard nothing new. `Judgement`
is what it may have become after: an accepted frame is what is live, and was admitted by the
policy; a refused one brings nothing to life. `EventsFit` says that the events, read in
their order, never contradict the listener.

- `TestIsAlwaysExclusive` needs that only a subscriber in mode `preferred` ever follows a test
  set (`Policy`).
- `OnlyTheNextStateEver` needs that everything under way, live and believed is of one start
  of the publisher. A version is then ahead of its stNum by the same amount in all of them
  (`Numbered`), and versions are in the order of stNums. That the start before the last one
  is forgotten is `Cleared`: what it sent has left the network and run out by the time the
  publisher is back. It assumes that a restart takes longer than the delay and the longest
  time allowed to live (`RestartsSlowly`), and that stNum and the replay window do not reach
  the wrap (`NoWrap`). Without either the property is false of the code: section 6 lists both.
- `ExpiryMeansLoss` has the invariant `Covered`: while no frame has been lost since the last one
  accepted, there is one under way that nobody has heard, built, or to be built, that comes
  before what is live expires. Every frame under way was sent at least the shortest interval
  before the next is built, so that no two transmissions of a state are under way at once, and
  each allows for the wait to the next one. It assumes that a frame is delayed by less than
  the shortest interval and allows at least twice its interval (`Timely`; 2 is the default,
  `publisher.rs:31`), and `RestartsSlowly` again. For every other choice of
  `MinTime` and `MaxTime` the doubling
  of the curve stays between its ends (`CurveBounds`), which is all the proof uses.

TLC checked `Policy`, `Cleared`, `Numbered` and `Covered` on the instance of `goose_link` before
they were proved; the hypotheses hold there.

For sampled values (`SvProofs`) the invariant has two halves, under the hypotheses that `SvLink`
names.

- `Sent` is of the merging unit and of the network, and inductive by itself. `Framed` says that every field
  of the template has the width it was made with: a count's the width of the largest count,
  smpSynch's that of some state of the clock (`Laid`), so that a patch never loses an octet and a
  state too wide for the field has the frame built again. `Carries` and `Numbers` say that a frame that
  waits or is under way holds the samples of one tick, that what they measure tells their number, and the number
  their count and, with the clock, their age. So `FramesWhole` follows.
- `Backing` is of the subscriber and its listener: one who believed `b` and hears what
  waits believes in the stream exactly if it lives, unless events were dropped, and then something waits
  (`Backed`). `Report` keeps it whatever the queue drops, and one lemma for each step of `accept`,
  of the policy and of the timer composes to a frame of any number of ASDUs (`OnAsdusSound`), an
  induction over them as over the turns of `MmsLinkProofs`.
- `Links` ties the stream to the history: the last counts are congruent, so is the time since the last
  sample to the distance from its number, and that time is bounded by what is left of the
  timer. What a frame adds to `samples_lost` telescopes over its consecutive samples (`InFrame`), and is
  what the clock says was missed because a number's distance from the last one is the time passed less
  its own age, modulo a second (`HoleOf`, `Growth`). Nothing is claimed at a sample that comes again or after a
  later one: there the code counts a loss where there is none (section 6). The theorem is also that no hole of
  whole seconds passes unseen (`NothingHidden`): the hole is less than a second, as the
  time since the last sample and the age of the next are together, and it is a multiple of one, so it is 0.

The hypotheses are of those who configure a network, and `MCSvLink` assumes them of its
instance, so that TLC evaluates them. `SameStream`: the subscriber is configured with the rate of the
stream (`StreamConfig::samples_per_second`), and losses are counted modulo a second. `Timely`: the staleness timer and
the delay of a frame together are no longer than a second; with a longer timer a hole of a second passes for
continuity, as a count that comes round cannot tell it. `OneSource`: nobody else sends unsimulated frames that the stream accepts.
`Spelled`: the octets of a field spell what was written, for the counts, the clock's states and the
measurements there are. It is about powers and about the layouts chosen, which no prover here
reaches, and holds where the fields are wide enough. `FramesAreAlwaysWhole` needs only `Timely` and `Spelled`. TLC checked
all parts of the invariant on the instance of `sv_link` before they were proved. The number of frames on
the network (`MaxInFlight`), the length of the queue and the clock's period are any.

Only model-checked: all liveness properties (fairness and ENABLED are out of the prover's reach):
`LeaseEnds`, `GatheredIsReported`, `ReplayIsHandedOver`, `CatchesUp`, `AwaitedComes`, `ArmedEnds`,
`ReservationEnds`, `ClientNeverHangs`, `ServerLearns`; the safety of the
services and the codec (`client_services`), whose modules use folds over records or recursive operators.

## 6. What is not modelled

- The octets of GOOSE and SV frames, session, presentation and ACSE units: pure functions
  from octets to records and back. What the machines require of the records is modelled.
- The SCL loader and validator (`scl/*`), value types (`common/quality.rs`, `time.rs`,
  `flags.rs`), the capture reader and most of the command line: no state that changes, or I/O.
- `server/supervision.rs` for GOOSE: copies a status into attributes.
- The file directory and the confinement of file names to a root (`server/files.rs`).
- The settings `client/rcb.rs` writes to a block: one Write, whose variables are those of
  `ReportEngine`; the retry of a connection (`Backoff`); capabilities and type descriptions.
- The services composed in one state: they share the mutex and the served model, which
  `ReportEngine`, `ControlService`, `SettingGroupService` and `ClientServices` each model with
  the part of it they use.

Of the report engine: `released`, the list of expired reservations that service
tracking reads; the absence of `Owner` in Edition 1; the size limits of a PDU.

Observed in the code while modelling, and not stated as properties because the
documentation does not say what is meant:

- the answer to a general interrogation of a buffered block carries an EntryID
  that never enters the ring (`rcb.rs:516-518`), so that a client which resumes
  after it is told its position is lost;
- the integrity timer of an unbuffered block goes on after its owner has gone
  (`rcb.rs:319`);
- a resume point that is gone while the ring is empty raises BufOvfl on a report
  that is never made (`rcb.rs:763`);
- entries recorded under one DatSet are filtered by the next on replay
  (`rcb.rs:776`);
- a GI that is still set when an association ends answers the next client to
  enable the block (`rcb.rs:438-440`);
- `Acsi::on_timeout` reads the released reservations before the engine expires
  them (`acsi.rs:684-686`), so that tracking sees them one poll later;
- GOOSE: `goose.md` says that a restarted publisher gets through immediately. It
  does once the old state has expired; with a shorter restart its frames are
  rejected as replays, or taken for repetitions of the old state with other values;
- a delayed frame from before stNum wraps is accepted as new after it, and
  `count_missed_states` undercounts over the wrap (`subscriber.rs:513-521`);
- a simulated frame that takes the subscription over and is then refused for its
  confRev leaves nothing live and no timer (`subscriber.rs:419`);
- a full event queue drops its oldest events, an expiry among them
  (`common/machine.rs:144`);
- another client may write `Resv` false or `ResvTms` 0 on a reserved block: the
  model shows the block free and the engine goes on refusing (`rcb.rs:277-280`);
- controls: `server.md:419` says an operate with another value than the selected one
  is refused as ObjectNotSelected, and so does `control.rs:20-22`; it is
  InconsistentParameters (`control.rs:336-340`);
- `control.rs:23-25` and `acsi.rs:687-689` say that the expiry of a selection is told
  to the client; it produces nothing (`control.rs:190`);
- several commands due at one poll run in the order in which they were accepted, not
  in that of their operTm;
- a command one client has armed runs even if another has selected the object since;
- `Cancel` does not compare the ctlNum, and arming a command in place of another
  leaves the first without a termination (`control.rs:355`);
- a normal-security operate that is only armed is reported as a success, and a refusal
  when it is due reaches nobody who waits;
- a thread blocked in a write never sees that its association has stalled
  (`net.rs:481`), so that one whose client stops reading is not closed until the
  write fails;
- a `Control` that is executed twice uses one ctlNum, and the late termination of its first
  try is taken for the answer of the second;
- reports: `rcb.rs:324` says that owner and RptEna are two views of one fact. A
  value of the wrong type written to RptEna clears the owner (`rcb.rs:220`) before the
  store refuses it (`acsi.rs:1104`), and RptEna stays true. A Write of the block as a structure
  goes round the engine altogether: `OneFactTwoViews` and `OwnerShown` claim what is left;
- the same Write changes DatSet, ConfRev and IntgPd of a block that another client has
  enabled, and by clearing RptEna lets others change them by attribute (`rcb.rs:288, 302`
  look at the leaf), where `rcb.rs:299-301` says that a server must not: `ReconfiguredOnlyIdle` claims
  what is left. It sets GI and PurgeBuf of it as well, which the engine then obeys;
- setting groups: `server.md:447` says that a client which has not selected a group is
  denied a write under SE. After a holder has disconnected (`sg.rs:258`), EditSG still
  names its group, nobody holds it, and any client may write and confirm (`sg.rs:236-243`);
- a write of another client lets a lapsed reservation go without clearing EditSG
  (`sg.rs:116`), where a poll clears it; and a confirmation by a client whose reservation has lapsed and been
  taken over and given up is of the group selected last, not of the one it selected
  itself (`client/sg.rs:123`);
- reports: a client that comes back is refused its own block until its reservation lapses, as
  the reservation is by association number and the numbers are never reused (`rcb.rs:224`,
  `net.rs:236`, against `rcb.rs:73-74`); replays that were deferred are handed over after
  live reports with later SqNum (`acsi.rs:673`, against `rcb.rs:64-66`);
- GOOSE: timeAllowedtoLive is twice the wait for the next frame (`publisher.rs:52`), so that while the
  interval doubles one lost frame lets the subscription expire before the frame after it
  (against `goose.md:72-73`);
- controls: the hook is asked with `Stage::Operate` when a time-activated command is accepted
  (`control.rs:346`), so that a hook that drives the equipment moves it then (`server.md:407-411`);
- served model: a Write of the structure above a control block is admitted by its functional
  constraint (`acsi.rs:1119`, `ied.rs:389-404`) and so reaches attributes that only the server
  counts, past the engines (against `ied.rs:384, 553-557`): `ServedModel` has it for the tree, `ReportEngine`,
  `SettingGroups`, `LogService` and `TrackingService` for what it does to their promises. A structure
  write refused midway leaves its first components written;
- setting groups: that Write shows a group as active that is not in force, or selects another group
  under the holder of a reservation, whose confirmation then lands there;
- MMS: `peek_invoke_id` (`mms/mod.rs:1521-1533`) takes PDU 5 for 7, so that a cancel-Error that
  does not decode is attributed to no request; `TypeSpec::Other` loses its contents, an
  aa-specific type name becomes vmd-specific, and an alternate access deeper than 16 is written and
  refused on reading;
- association: a client configured with `max_outstanding` 0 panics in `clamp(1, 0)`; a server
  has no deadline before the first CR; a CR in any state sets the deadline again; a request dropped from a
  full event queue is never answered; `request_timeout_ms` 0 lets the client give up after 30 s and
  never frees the slot; the DN that follows the peer's release is never written by a blocking client;
- sampled values: `rebuild` stamps every ASDU with the first one's refrTm; a duplicate counts as a loss of
  a wrap less one, and a late sample as most of one (`subscriber.rs:505`, against `subscriber.rs:126` and
  `sampled-values.md:239`), so `LossIsCounted` speaks of newer samples only; a stream never heard is never stale; `set_smp_synch` changes a frame that waits, where its
  comment says the next;
- logs: `Lcb::oldest` as a starting point never returns the oldest entry, as the query begins after it
  (`client/log.rs:91`, `log.rs:55-57`), and of an empty log it gives an empty EntryID (against
  `client/log.rs:88-90`); when the entry to
  resume after is gone, those of the same millisecond are skipped (`log.rs:161`);
  identifiers begin again at 1 after a restart, so that a client that goes on after an old one
  is given what follows the new entry of that number (against `log.rs:42-44, 333-337`); log control
  blocks can be written while LogEna is set, and their bounds too, as a structure. `LogIsFollowed` claims
  nothing of these;
- pages of a journal, chunks of a file and the directory are not sized by the negotiated PDU, and
  an answer that is too large is dropped without a word (`net.rs:462`, `association.rs:581-590`);
- files: an open the client gave up on keeps its handle until the association ends, and
  `max_file_handles` of those lock it out; `read_file` reports success for a file that shrank;
- names: a walk whose last name was deleted ends early and looks complete; the delete of a data set
  does not look whether a block uses it;
- report segments: of reports without SqNum, or of a block enabled again, segments of two may be
  joined, and a last segment whose others were lost is handed over alone as if it were the report
  (`report.rs:402-406`), although `client/mod.rs:912-913` says whole or not at all; `JoinedWhole` claims what
  holds all the same, and `NothingLostNothingKept` that while nothing is lost all that is handed over is whole;
- tracking: a write of `ResvTms` to a setting group block is shown as GetSGCBValues; reservations dropped with their association are
  never tracked (`rcb.rs:342-345`, against `rcb.rs:173-176`), nor is what a Write of the block as a structure makes
  of it, other than as SetDataValues; of a DeleteNamedVariableList only the first name is; a command that does
  not decode leaves the values of an older one beside its own reference;
- references: the validator ignores the functional constraint and arrays without index on the way
  to a member, and of a member with an index on a path without an array `model/mod.rs:1034-1036` says that it
  does not resolve: the validator refuses it, and the served tree has the whole under its reference, without
  the index (`MembersAreServed` says both); an initial value below an array never reaches its elements.
