# Verification of the SMPP telemetry platform

TLA+ models, model-checking configurations and machine-checked proofs for the
telemetry platform of this repository. Paths are relative to the repository's
root; `P/` stands for `telemetry-processor/src/packages/`.

## 1. The system

A Collector posts OTLP log records to the **processor**, which appends each one
to a write-ahead log and answers. Per projection target a **worker** reads the
log, writes rows to a ClickHouse store and commits a checkpoint. A worker also
**publishes** what it wrote, so that the **query API** can serve frozen
snapshots. **Replays** send a past range of the log through an isolated
generation of targets, which may then be promoted. All local state of the
processor lives in one directory: segment files, an archive, and one SQLite
database behind a worker thread. The processor is one Node.js process: the
actors below interleave at its `await`s and it can die at any of them.

### Inventory

**Write-ahead log** (`P/wal/`). State: segment files; in SQLite the tables
`wal_frames`, `wal_segments` and the namespaces `accepted`, `checkpoint`,
`target`, `pin`; in memory the write queue, `writeError`, the current segment,
its size, `totalBytes` and a copy of the checkpoints. Operations: `append`,
`appendClassified`, `commit`, `registerTarget`, `retireTarget`, `pin`,
`releasePin`, `archiveClosedSegments`, `compact`, `initialize`, `close`.
Hard: every append has several durable effects and may fail or die after each;
compaction decides on state that others change while it awaits. Correct if:
what was answered is stored, an identity is accepted once, the index is the
log, recovery accepts every directory that a crash leaves, no frame that
somebody may still need is lost, and space accounting is exact.

**Durable state** (`P/durable-state/`). A SQLite worker thread with two
channels, one synchronous with a timeout of 30 s and one asynchronous;
transactions are lists of put, delete, increment and compare operations.
Hard: requests of the two channels overtake each other, a timeout is not a
failure of the request. Correct if: a transaction is all or nothing and a
caller never acts on an answer to another request.

**Ingestion server and process lifecycle**
(`telemetry-processor/src/apps/`). Validates, maps and classifies records,
turns the log's errors into retryable answers, exposes administration, runs the
maintenance timer and the shutdown sequence. Hard: shutdown drains server, log,
targets and maintenance against a timeout. Correct if: a definite answer is
given only for what is durable.

**Validation, normalization, projection** (`P/validation`, `P/normalization`,
`P/projection`, `P/canonical`, `P/otlp`, `P/source-mapping`). Pure functions from
one record to rows, relations and reason codes. Hard: the transport drops nulls
that the producer's hash covers; a dozen optional fields decide what may be bound
to what; only listed errors quarantine a record. Correct if: what is accepted is
what was signed, nothing is bound that was not reported as known, and every
record is disposed of.

**Target delivery** (`P/exporters/target-manager.ts`). State: output plan per
entry with a count of completed outputs, disposition, dead letters and their
outbox, per-target counters. Operations: `flush` on a timer,
`projectReplayEntry`, `stop`. Hard: ClickHouse has no transactions, inserts are
retried, workers share one outbox. Correct if: every entry gets exactly one
disposition, together with the checkpoint, and all its outputs before that.

**Snapshot publication** (`P/exporters/snapshot-publisher.ts`,
`generation-lifecycle.ts`, `progress-ledger.ts`). State: reserved publication
numbers, the publication outbox, snapshot version, generation leases, scope
buckets. Hard: numbers are reserved in one transaction, published later and
must appear without gaps; progress rows are put together from several reads.
Correct if: a snapshot row promises only what is readable.

**Replay and generations** (`P/replay/`). State: the job row and its pin, the
replay contract, lifecycle rows, switch intents, the reader registry file.
Operations: `create`, `transition`, `runBatch`, `resolveDeadLetter`, `promote`,
`resume`, `rollback`, `retire`. Hard: administrators and the runner move the
same row; promotion spans a transaction, a publication and a file rename.
Correct if: a job processes each entry of its range once and ends, and readers
always find one readable generation.

**Query API** (`telemetry-dashboard/query-api/src`). Readers of the stores:
snapshot pages under a cursor, progress, current authority, diagnostic pages,
readiness. State: the registry loaded at start, the cached readiness. Hard: every
answer is put together from several queries while the stores change. Correct if:
the pages of one cursor are one snapshot, a binding that is shown is current, and
"ready" is recent.

**Schema migration** (`telemetry-schema/tools/`). A ledger of started, failed
and completed attempts in a store without transactional DDL. Correct if: an
interrupted migration is resumed, a changed one refused, and the ledger says
what is in the store.

**Deployment tooling** (`deploy/joint-development/`, `deploy/wal-reader-guard.mjs`).
State: a registry of deployments with their revisions, and volumes that outlive
them. Generates configuration and starts containers. Hard: any step may fail and
leave what was done. Correct if: what was started can be found and stopped,
volumes are opened only with their secret and by an image that can read them, an
accepted configuration delivers, and the stack comes up in order.

### Interactions

The processor calls `appendClassified`; workers call `pending` and `commit` with
their own operations added to the checkpoint's transaction; quarantine, replay
and publication put pins that `compact` respects; `protectionRevision`, a counter
in the database, is how everyone who changes a protection tells a compaction
that is between its evaluation and its plan.

## 2. The modules

| module | models | composes |
| --- | --- | --- |
| `IngestLedger` | what the log promises a Collector, without files | – |
| `WalStore` | the write path, close, crash and recovery of the log | implements `IngestLedger` |
| `WalRetention` | rotation, archive, compaction, targets, checkpoints, pins | – |
| `FreeSpace` | the sampled gate on free space | – |
| `Ingestion` | batches, their answers, and the provider history the index keeps | – |
| `ProviderRecords` | a provider record: its fields, their normal form and its checks | – |
| `ProviderOps` | one record from the producer's hash to each target's rows | – |
| `Publication` | worker, publisher, progress ledger and a reader of pages | – |
| `DeadLetterOutbox` | dead letters, their mirror and their resolution | – |
| `GenerationCutover` | promotion, rollback, retirement, deletion, with writers and readers | – |
| `ReplayJob` | the life of a replay job | – |
| `ReplaySetup` | what binds a replay to its isolated targets | – |
| `Backfill` | export, import and replay of a legacy table | – |
| `CurrentAuthority` | the current-authority route | – |
| `QueryReadiness` | probes, their cache and their sharing | – |
| `DiagnosticQuery` | offset pages over live tables | – |
| `Migration` | the migration command and its ledger | – |
| `Deployment` | the operator's command line, registry and volumes | – |
| `ComposeConfig` | accepted configurations and what they deliver | – |
| `ComposeStack` | the start order of the generated services | – |

| module | theorems about |
| --- | --- |
| `WalStore_proofs` | `WalStore`, and that it implements `IngestLedger` |
| `WalRetention_proofs` | `WalRetention` |
| `Ingestion_proofs` | what is admitted: `Ingestion`, `FreeSpace`, `ProviderOps` |
| `Publication_proofs` | `Publication` |
| `GenerationCutover_proofs` | `GenerationCutover` |
| `Replay_proofs` | what replays: `ReplayJob`, `ReplaySetup`, `Backfill` |
| `Query_proofs` | what is shown: `CurrentAuthority`, `QueryReadiness`, `DiagnosticQuery`, `DeadLetterOutbox` |
| `Deployment_proofs` | what is deployed: `Migration`, `Deployment`, `ComposeConfig`, `ComposeStack` |

An `MC…` module gives TLC its symmetry sets, inputs and compositions. Definitions
that begin with "Mutant" in their comment are the plausible mistakes that each
property is shown to detect; no specification uses them.

### WalStore

`disk` is the frames in the segment files in order; `tornAt` marks a partial
frame; `index` and `accepted` are the SQLite tables; `closed` the segments whose
row says closed. `queue` is the promise chain `writeTail` with the running write
at its head, `phase` the await at which that write is. One action per durable
effect: `Admit` (classification and the rotation decision), `CloseSegment`,
`CreateSegment`, `WriteFrame`, `IndexFrame`, `AnswerWritten`; one failure action
for each, with every outcome the failure may have left behind (nothing, part of
the frame, the whole frame; the transaction done or not); `Close`, `Closed`,
`Crash`; and `initialize()` as `Start`, `RecoverFrame`, `RecoverTail`,
`RecoverSegment`, `Opened`. A recovery that would throw goes to `"refused"`.

Abstracted: frames have length 1, so an offset is a count; `assessProviderEvent`
is a free choice between "new" and "semantic conflict" (`Ingestion` has it); free
space is a free choice to refuse (`FreeSpace` has it); `totalBytes` is reset to 0
by `Lost` and meaningful only while open. Oversized frames (`WAL_FRAME_TOO_LARGE`)
are refused before anything is written, like `RefuseSpace`, and are not told apart
from it.

### WalRetention

`frame` and `row` are the SQLite tables; `file` and `archive` say which frames a
segment's file and copy hold; `known` is the in-memory copy of the checkpoints.
`commit`, `pinning` and `job` are the local state of the three operations that
await between reading and writing: `commit()`, `pin()` (and `create()` of a
replay, which has the same pattern) and the maintenance job. A counter that two
of them remember and compare is reduced to `fresh`, the set of those that would
still find it equal. A frame is written and indexed in one step here: `WalStore`
has the steps between. `mode = "recovering"` begins with `recoverCompaction`, as
in the code, and `Open` is the rest of `initialize()`.

Abstracted: a checkpoint is the sequence number that `wal_frames` has for its
position; archived copies stay intact (the code verifies hashes before it trusts
them); pins have no expiry (no caller sets one); dry runs change nothing;
`checkpoints.json` is only read if the database has no checkpoint.

### FreeSpace

`free` and `archiveFree` are the truth, `walBytes`, `archiveReady`, `debitedBytes`
and `sampledAt` what `WalFreeSpace` knows, `inFlight` the sample under way, which
`assertWritable` joins rather than start another. The log is the only consumer of
its file system in the model: what others take between two samples is what the
gate cannot see, and no property of the code can cover it.

### Ingestion

`log` is the frames, `index` the namespaces `provider-revision`,
`provider-terminal` and `provider-sequence`, `indexed` how far the index follows;
`writing` is the one append under way. `request` is a batch at its records,
`collector` what the Collector believes of each batch. Crashes lose whatever was
not written and indexed; `Start` rebuilds the index from the frames.

### ProviderOps

An envelope is a function from the fields the code decides on to small sets of
values: absent, null, empty, proper, too long, or the enumerated values that
decisions read. `Sign` fixes what the hash covers, `Send` and `Damage` are the
transport (it drops or empties nulls, and may change one field), `Store` is
`collect()` with restoration and validation in the order of the code, and
`ProjectEntry` is `prepare` with correlation, identities, relations, and the
errors that quarantine or retry.

### Publication

`plan`, `disposition`, `checkpoint`, `counts` are the worker's bookkeeping,
`reserved`, `outbox`, `done`, `progress` the publisher's, `ledger` and `waiting`
the progress ledger's, `store` the ClickHouse tables. `worker.pc` is the await at
which a flush stands; each insert may succeed, fail, or succeed and lose its
confirmation. `refresh` reads its counters one by one (`ReadBoundaries`,
`ReadAccepted`, `ReadPending`) while frames arrive. The reader freezes the first
boundary it sees, checks the counts and walks through pages.

### GenerationCutover

`life`, `lease`, `switches` are the durable intents, `registry` the file, `row`
what a generation's own store says of it. The administrator and the processor
exclude each other by the log's lock; the query API, its clients and the
operator's deletions run beside both. The steps of a switch are those of
`resume()`: publish the drained, publish the activated, rename, commit.

### ReplayJob

`job` is the `replay_job` row, `pc`, `todo`, `result`, `next` are `runBatch` at
its awaits, `admin` an administrator between the check of a transition and its
transaction. Every write carries timestamps, so a comparison with the job that
was read succeeds exactly if nobody wrote since: `fresh`. The executor decides an
entry once, durably (the disposition that `projectEntry` looks up first), and
answers the same when the entry is replayed after a crash.

### ReplaySetup, Backfill

`ReplaySetup`: `setup[r]` is `createReplayExecutor` at its awaits, `owner` and
`contract` the namespaces it binds in one transaction; the operator edits files
and recreates databases between any two steps. `Backfill`: `process` is
`exportBackfill` or `runBackfill` at its awaits; `file` and `manifest` survive a
crash, as do the dedicated log and its `backfill` namespace; the legacy writer may
insert while the export runs. The mapping that is stored with a row decides, with
the scope of the replay and the routes of its targets, whether the row is replayed:
`unselected` are the rows that are not, whose entries count as not routed and do not
keep the backfill from being "completed" (`P/replay/backfill.ts:97`).

### DeadLetterOutbox

`dlq` is the authoritative table, `outbox` the namespace `outbox:dlq`, `mirror`
the rows in each worker's store. `Scan`, `Insert`, `Delete` are
`flushDeadLetters` at its awaits, `InsertFails` its `catch` with the row stored
or not. Targets of type `sdar_shared_warehouse` do not flush (`Mirroring`).

### The query API's other routes

`CurrentAuthority`: a request is its two or three queries, `Discover`,
`ReadRelation` and `ReadState`, with the projection appending in between.
`QueryReadiness`: `pending` is the round of probes that requests join, `cached`
its result until `expiresAt`. `DiagnosticQuery`: a walk asks for one row more
than its limit at each offset while the Collector inserts.

### Migration, Deployment, ComposeConfig, ComposeStack

`Migration`: `tables` is the catalogue, `ledger` the events, `migrator[m]` the
command at its requests; each may fail with or without effect. A view is created
where there is none of its name ("newview") or replaced ("view"). `Deployment`: one
command at a time (the registry has no lock); `descriptor` is the registry,
`volume` what the database and the log remember of who made them; the check of the
host's ports may refuse at any time, since other programs hold ports too. `ComposeConfig`:
`setting` stands for the entries that are checked together; `Accepted` is the
checks in `generate()`, `Reached` what the processor makes of the generated
files. `ComposeStack`: every service with the conditions it waits for, and a
container runtime that may fail it, retry it or reboot without looking at them.

## 3. The runs

| run | checks | bounds |
| --- | --- | --- |
| `walstore_safety` | disk, index, sizes and limits agree; recovery never refuses; answers are durable; one acceptance per identity | 3 callers, 2 identities, 2 hashes, queue of 2, segments of 2 frames, 3 frames in all |
| `walstore_ledger` | `WalStore` implements `IngestLedger`; writes leave the queue; close and recovery end | 2 callers, 1 identity, 2 hashes, segments of 1 frame, 3 frames |
| `retention_pins` | frames survive; pinned ranges are readable; deletions respect protections and checkpoints never go back; a restart finds what was left | 1 target, 1 pin, segments of 1 frame, 3 frames |
| `retention_faults` | deletions finish, also when segment creation fails | 2 targets, no pin, 2 frames |
| `publication` | six properties of delivery, publication, progress and pages | 2 entries of up to 2 outputs, batches of 2, ledger batches of 1, pages of 1 |
| `operations` | replay job, dead-letter outbox, compose stack: five properties, four with liveness | 2 administrators, range of 3, batches of 2; 2 issues, 3 workers; 2 failures of services or hosts, every mode |
| `decisions` | seventeen properties of twelve components | see `MCDecisions` |
| `retention_reuse` | violation: finding 1 | 1 target, 1 pin, 3 frames, creation may fail |
| `replay_paused` | violation: finding 2 | 1 administrator, range of 2 |
| `deadletter_isolation` | violation: finding 3 | 2 issues, a live and a replay worker |
| `deadletter_resolution` | violation: finding 4 | 2 issues, 1 worker |
| `providerops_poison` | violation: finding 5 | 2 targets, no edit on the way |

**Sum runs.** `operations` and `decisions` check several components that do not
share state in one state graph: a behaviour picks one of them as its *subject* in
the initial state and follows it alone, so the graph is the disjoint union of
theirs and each property is what it would be alone. `MCDecisions` extends all twelve
components, each with its own variables, which rest in one initial state when another
component is the subject (`NoRecord` and `NoConfiguration` are the two that rest in
less than an initial state, with nothing to be sent or configured). Fairness in
`operations` is each component's own, restricted to the subject.

**Named conjunctions.** A property may be a conjunction of parts that are defined
and explained where they stand: `DiskIsAccounted` (index follows disk, sizes match
files, limits hold), `EverythingEnds`, `RestartFindsWhatWasLeft`,
`ProtectionHolds`, `DeletionsComplete`, `BookkeepingHolds`, `SnapshotFollowsLog`,
`ReplayIsAccounted`, `AdministratorsAreObeyed`, `DeadLettersReachAStore`,
`StackComesUp`, `NothingIsInvented`, `ReadersAreServed`. The type invariant of a
module is part of one of them.

**What the properties of `publication` say.** A checkpoint never passes an entry
whose outputs are not all stored (`BookkeepingHolds`); a snapshot row promises
exactly what is readable (`SnapshotIsReadable`), never goes back and eventually
shows everything (`SnapshotFollowsLog`); the pages of one cursor are one snapshot
(`PagesAreOneSnapshot`); the ledger counts each disposition once (`LedgerIsExact`);
and a progress row that reads as caught up was true at the moment it was written
(`CaughtUpIsTrue`), although its counters are read one by one.

**What the properties of `decisions` say.** *Records*: nothing is accepted that
was not signed, nothing bound that was not reported as known
(`NothingIsInvented`), and dropping nulls costs no valid record its acceptance
(`TransportLossIsUndone`). *Authority*: `AuthorityIsCurrent`,
`LegacyScopeIsUnique`. *Cutover*: no page reads deleted data and the registry
names an active generation (`ReadersAreServed`); a switch never loses what was
shown, if switches do not overlap (`CutoverLosesNothing`; see below).
*Deployment*: `StaysOperable`, `VolumesFit`; an accepted configuration sends every
record to the targets of the deployment, and a query that is to read snapshots is told
a target that writes them (`AcceptedConfigurationDelivers`).
*Migration*: `LedgerIsTrue`. *Ingestion*: one
content per revision and sequence and one end per identity
(`HistoryIsConsistent`), and a batch the Collector may forget is in the log
(`AnsweredIsLogged`). *Reading*: `AnswersAreFresh`, `NothingSkipped`. *Replay*: an
executor writes to no live database and no other job's (`ReplaysStayApart`); a
backfill that is reported completed has the whole table in its log, and its job has
projected exactly the rows that its scope and routes select (`BackfillIsWhole`): if
they select none, it is completed with nothing projected. *Space*: frames never
take the reserve, and an append is refused only for a reason (`ReserveIsKept`).

**The premise of `CutoverLosesNothing`.** A switch that was interrupted is resumed by
its id before another one is started; that is the procedure of
`P/replay/GENERATION.md:32-36`, and `SwitchesDoNotOverlap` states it. The code does not
enforce it: with three generations TLC finds a rollback that is interrupted before
it publishes, a promotion to a third generation that is started in its place and
interrupted too, a Processor run with the rolled-back generation, a Query API
that still holds the old registry and shows what was just written, and then the
promotion resumed, to a generation without it. With two generations, the bound of
the run, switches cannot overlap; the proof covers any number.

**Why the bounds are enough.** *WalStore*: with three callers and a queue of
two, one caller finds the queue full while one write runs and one waits; two
hashes make a conflict and two identities an unrelated record; with segments of
two frames and three frames in all the log has a frame that just fits, a
rotation and a refusal at the high water; crashes are not bounded. What does
not depend on numbers is also proved without bounds. *WalRetention*: three
frames in segments of one make a compacted segment, a closed one and the open
one, and leave a pin room on either side of a compacted segment; crashes,
commits and pins are not bounded. Two targets are needed for one ahead of the
other; without pins segments are compacted in order, so two frames are enough
there. *Publication*: two entries, each of any class, make one that waits behind
another's unpublished outputs; two outputs make a partial insert; pages of one row
make several pages of one snapshot; crashes and failed inserts are not bounded.
*ReplayJob*: a range of three with batches of two has a full batch, a
short one and a boundary between; two administrators race each other and the
runner. *DeadLetterOutbox*: two issues, so that a flush can break off between
them. *GenerationCutover*: two generations and three revisions of the registry are
a promotion and its rollback; two time units outlive a cursor and a lease, so that
a drained generation is deleted while a client still holds its cursor.
*Ingestion*: eight records collide in id, revision, end and sequence; two requests
race; one fault of each kind. *CurrentAuthority*: two scopes, two records, two
times: order by time, by record, withdrawal and ambiguity. *Deployment*: two
projects and env files (one renamed over the other), two reader versions (one older
than the log), two revisions. *Migration*: two commands, an old and a new release and
two with an edited file (the first and the last), over stores that are empty, of the
right and of the wrong shape, or have a table by the name of a view. The remaining bounds
are of the same kind: two of each actor, and as many steps of time, edits, faults
and rows as an interleaving of two actors needs. What `decisions` checks is also
proved without bounds (§4); there the run shows that the interesting cases happen and
that mistakes are found. The bounds are named in the modules (`MaxEntries`, `MaxTime`,
`MaxInputs`, `MaxRevision`, `MaxRecord`, `MaxObservedAt`, `MaxEdits`, `MaxFieldEdits`,
`MaxConfigEdits`, `MaxFaults`, `MaxFailures`, `MaxMishaps`, `MaxReleases`,
`MaxChanges`, `MaxClock`, `LastTime`, `MaxRevisions`, `MaxOffset`, `MaxFrames`);
`MaxTotal`, `SegmentMax`, `RowLimit`, `Window` and the queue, batch and page sizes are
limits of the code.

**Deadlock** is checked except in the two sum runs, where several components come
to an end (a record is disposed of, a configuration delivered, time is used up).
Elsewhere crash and restart are always possible, so it says little; the liveness
properties carry that question.

### Fairness

`WalStore`: weak fairness of the writer, of recovery and of `Closed`. These are
continuations of promises: the event loop runs them as soon as the I/O they
await has ended, and ended includes failed. No fairness of callers, crashes,
restarts or failures. `WalRetention`: weak fairness of `Start` and `Open` (a
supervisor restarts the process) and of `Unlink` and `Complete`. `Publication`:
weak fairness of the worker's flush, which `TargetManager.start` puts on a timer.
`ReplayJob`: weak fairness of the runner, which `replay/cli.ts:28` and
`replay/backfill.ts:96` call in a loop while the job is running.
`DeadLetterOutbox`: weak fairness of each live worker's flush, on the same timer;
none of replay workers, which run only while somebody drives their job.
`ComposeStack`: weak fairness of what the container runtime does by itself (start
when the conditions hold, become healthy, complete, retry), and at most two
failures. `ProviderOps`: weak fairness of each target's retry (in its violation
run). Liveness properties of retention, publication and the outbox have a premise,
that the process (and the store) eventually stays up: with a crash in every cycle
none of the promises could be kept.

## 4. The proofs

Eight modules prove about a component what TLC checks of a small instance of it, for
every value of the constants. Each has one inductive invariant, the conjunction of
named parts, a lemma for each step or part, and theorems of the form
`Spec => []Property` or `Spec => [][Action]_vars`.

| theorem | states | assumes |
| --- | --- | --- |
| `WalStore_proofs`: `TypeCorrect`, `Durability`, `ExactlyOnce`, `Recoverable`, `Accounted`, `Refinement` | `TypeOK`, `AnswersAreDurable`, `AcceptedOnce`, `StartupNeverRefuses` and `IndexFollowsDisk`, `DiskIsAccounted`, `ImplementsLedger` | limits are positive, `None` is no value |
| `WalRetention_proofs`: `TypeCorrect`, `Protection` | `TypeOK`, `ProtectionHolds` | the same |
| `WalRetention_proofs`: `NothingIsLost`, `PinsHold`, `RestartsWork` | `FramesSurvive`, `PinnedReadable`, `RestartFindsWhatWasLeft` | and `NoPinnedFailure` |
| `Ingestion_proofs`: `Reserve` | `ReserveIsKept` | sizes are numbers, `NoSample` is none and no sample |
| `Ingestion_proofs`: `History`, `Answered` | `HistoryIsConsistent`, `AnsweredIsLogged` | equal hashes have equal ids, `None` is no value |
| `Ingestion_proofs`: `OnlyTheKnownIsBound`, `NullsAreRestored` | `NothingIsInvented`, `TransportLossIsUndone` | nothing |
| `Publication_proofs`: `Bookkeeping`, `Readable`, `Pages`, `Ledger`, `CaughtUp`, `Advances` | `BookkeepingHolds`, `SnapshotIsReadable`, `PagesAreOneSnapshot`, `LedgerIsExact`, `CaughtUpIsTrue`, `SnapshotAdvances` | sizes are positive, `None` is no value |
| `GenerationCutover_proofs`: `Served`, `Kept` | `ReadersAreServed`, `CutoverLosesNothing` | one generation is the first, horizons are numbers |
| `Replay_proofs`: `Accounted`, `Obeyed` | `ReplayIsAccounted`, `AdministratorsAreObeyed` | sizes are positive, `None` is no value |
| `Replay_proofs`: `Apart` | `ReplaysStayApart` | `ConstantsFit`: `Unbound` is no job and no contract |
| `Replay_proofs`: `BackfillCompletes` | `BackfillIsWhole` | the table is finite, `Unmade` is nothing that is made |
| `Query_proofs`: `MissionIsCurrent`, `ScopeIsUnique` | `AuthorityIsCurrent`, `LegacyScopeIsUnique` | scopes are finite, `NoScope` is none and `NoMission` no mission |
| `Query_proofs`: `ReadyIsRecent` | `AnswersAreFresh` | times are numbers, `NoneYet` is no time, result or round |
| `Query_proofs`: `NothingIsSkipped` | `NothingSkipped` | rows are finitely many, sort keys are numbers |
| `Query_proofs`: `NoDeadLetterIsForgotten` | the `[]` part of `DeadLettersReachAStore` | `None` is no status |
| `Deployment_proofs`: `TheLedgerIsTrue` | `LedgerIsTrue` | `MigrationAssumption`, below |
| `Deployment_proofs`: `WhatRunsIsFound`, `VolumesAreUsedAsMade` | `StaysOperable`, `VolumesFit` | `none` is no project |
| `Deployment_proofs`: `AcceptedWorks` | `AcceptedConfigurationDelivers` | nothing |
| `Deployment_proofs`: `ServicesComeInOrder` | the `[]` part of `StackComesUp` | nothing |

What is assumed of constants is an `ASSUME` of the module and evaluated by TLC, but for
two hypotheses of theorems. `ConstantsFit` of `ReplaySetup` ranges over all
contracts, which TLC cannot enumerate. `NoPinnedFailure`,
`CanFailCreate => Pins = {}`, is a condition on the environment: with a pin *and* a
failing segment creation the three theorems are false, by finding 1 and its run;
`retention_pins` is the case without failures. That equal hashes have
equal ids is what `canonical` hashing gives: the hash covers the record's id.

`MigrationAssumption` is about the files of the releases that are ever run. Three parts
are what the code makes of them: a SHA-256 tells contents apart, `loadMigrations` refuses
two files of one version, and a table is declared with its engine. Two are rules its
authors follow: later files are additive ("Additive later migrations may add columns",
`telemetry-schema/tools/migration-schema.ts:69`), so that a view keeps the columns it
replaces; and no release inserts a file *before* one of another release, though it may
edit any. The code enforces neither. Without the second the theorem is false: a store
migrated by the one release would run the inserted file last, and its view could
replace one that a completed file promises more columns of.

### What the invariants add

None of the properties is inductive alone.

**`WalStore`** (`IInv`). `AcceptedOnce` needs that the `accepted` namespace is what
the indexed frames say (`IdentityInv`), and that a frame that is on disk but not yet
indexed contradicts none of it. That needs that nothing is classified while such a
frame exists: `WriterInv` says the log and the index differ only between write and
transaction unless the writer is poisoned, and a poisoned writer admits nothing.
`Recoverable` needs `NumberedInv` (frames are numbered as they lie in the files) and
`TornInv`: a partial frame is the last thing in the newest file, that file's row is
open, and nothing is appended behind it before a restart. `Durability` needs
`QueueInv`: the running write belongs to the caller at the head of the queue.
`DiskIsAccounted` needs `SizeInv`, the sizes of the rows against the files at each
await of the writer. The refinement maps `stored <- accepted`: `IndexFrame`, a failed
but committed transaction and `RecoverFrame` are `Store` steps or stutter, the
answering actions are `Reply`.

**`WalRetention`** (`IInv`, then `KeptInv` on top of it). `ProtectionHolds` is about
one step, the plan of a compaction; `JobInv` carries the evaluation over the await
before it: as long as `protectionRevision` is the one that was read, every segment of
the plan is closed, archived and safe by the *durable* checkpoints. The evaluation
reads the checkpoints in memory, so `KnownInv` says that these are never ahead, and
exactly one behind while a commit stands between its transaction and its
assignment. For the survival of frames `KeptInv` describes the layout: segments hold
consecutive ranges (`OrderInv`, `FrameInv`, `RowInv`), files and archived copies hold
exactly their frames (`HeldInv`), an open segment is the last one (`ClosedInv`), pins
overlap nothing that is being deleted (`PinInv`), and a restart will find the newest
segment (`TailInv`): if creation cannot fail, because the last file is never
compacted; if nothing is pinned, because segments are compacted in order
(`PrefixKept`). It is `TailInv` that finding 1 breaks.

**`FreeSpace`** (`SpaceInv`). `EstimateInv`: the cached sample, and the one in flight
once it is corrected by what was debited meanwhile, never exceed what is there plus
the frame that is written and not yet debited. The converse, that nobody is refused
without a reason, needs `EnoughInv`, `WaitInv` and `ForcedInv`: an append that was
never short of space still has it, so does every sample begun after it, and the probe
it waits for is under way.

**`Ingestion`** (`IngestInv`). `IndexInv`: the index is exactly what the accepted
frames before `indexed` say. At most one frame is ahead of it (`WritingInv`), and that
frame is what its record would be classified as *now* (`UnindexedInv`), so that its
row may be written later, by the writer or by recovery. `ResultsInv` gives each result
of a request its meaning in the log, which an answer sums up.

**`Publication`** (`PublishInv`). Dispositions are those of exactly the entries up to
the checkpoint (`DeliveryInv`); reservations number their outputs without gap or
overlap, including the one of an entry that is reserved and not disposed of
(`ReservationInv`); publications are made in order, and what flush() has in hand at
each await (`WorkerInv`) says how much of the current one is already stored. A
snapshot is then `BoundaryAt` some published entry (`SnapshotInv`), and a reader has
the newest part of what its frozen boundary shows, in order (`ReaderInv`); that the
next page is the next part follows from the numbers being unique. `LedgerInv` states
the counters as cardinalities over the entries that are indexed, disposed of, or
both. `CaughtUpIsTrue` is the step that inserts a row, with its counters read one by
one, in `TotalRow`.

**`GenerationCutover`** (`CutoverInv`). `LeaseInv` bounds everything that a reader can
still hold by the lease of its generation, and `approved` by leases that have ended;
`SwitchInv` and `AdminInv` describe a registry between the steps of a switch, of which
several may be interrupted; `ThroughInv` and `ShownInv` say that a Query API with an
old registry reads a generation that shows nothing new.

**`ReplayJob`** (`ReplayInv`). `FreshInv`: what the runner and the administrators are
about to store was made of the job as it is now, unless the job has been written
since, in which case the comparison fails. `DecidedInv`, `BatchInv`: what lies before
the position is decided, what lies between it and the end of the batch is in hand.

**`ReplaySetup`** (`SetupInv`). `ExpectedInv`: a request about to bind expects to find
nothing, or what it binds itself; `BoundInv` then survives the binding of others,
whose transaction compares what they expected.

**`Backfill`** (`BackfillInvariant`). A run accounts at each await for every row that its
log is bound to (`RunningImport`): it is in the log, known to be invalid, or still to do.
So when nothing is left to do and nothing was invalid, the log has them all, each once
(`LogInv`), and a job made then covers the whole log (`ReplayedInv`). `Traversed` says
what the position of a job means: each entry up to it is projected or unselected, as
long as none is quarantined, and a job is completed when no entry is left. What was exported
is what the table had, because rows are never taken from it (`Exporting`), whatever is
inserted meanwhile; the manifest that is bound is of just these rows (`SourceInv`).
`WholeInv` is what remains of that after the process is gone.

**`ProviderOps`** (`RecordInvariant`). The log has an accepted record only if it is valid
(`LogEntryInv`); a target has rows only of an accepted record that it could prepare, and
only relations that the record's own fields allow (`WrittenInv`); a refusal was of a
record that restoration could not have saved (`RefusalInv`). The work is in two lemmas
about pure functions: that preparation closes no identity over a field which was not
reported as known, and that restoring the nulls of a signed record the transport has
emptied gives the record that was signed.

**`CurrentAuthority`** (`AuthorityInvariant`). `InquiryIsTrue` keeps what each query found
as a claim about the rows that are there *now*, which projection only adds to: the state
that was read is the latest of some set of stored rows, which has all that were known
when the request came (`StateIsOf`), and a scope that was picked is the only one among
those.

**`QueryReadiness`** (`ReadinessInvariant`). `RoundInv`: a round is no
older than the time-out, a probe that succeeded did so since its round began, and the
round knows of no older success than the cached result. `CacheInv`: a cached result that
says "ready" is of stores that were up at most a time-out and a caching time before it
expires. `AnswerInv`: every answer
was a cached result, and results know of later and later successes.

**`DiagnosticQuery`** (`WalkInvariant`). `NotYetShown`: before a row that was there from
the beginning and is not yet shown lie at least as many rows as the offset says were
passed. Insertion only adds to these, and the window takes away only rows behind it; so
the next page begins no later than the row, and a page that is not full has reached it.

**`DeadLetterOutbox`** (`OutboxInvariant`). `CopiedIsStored`: what a flush is about to
delete has a row in its store, from its own insertion; what other flushes do to the same
issue meanwhile does not matter, as rows are never taken away.

**`Migration`** (`MigrationInvariant`). `CompletedIsInForce` is the property; to survive a
statement of a *later* file it needs that files are completed in order
(`CompletedInOrder`), of every release the ledger agrees with. `RunIsTrue` is what the
holder of the lock knows: since no other can write to the ledger meanwhile (`OneHolder`),
what it read and what it has verified still hold when it appends "completed".

**`Deployment`** (`DeploymentInvariant`). Whatever runs is registered, and over a volume
that it or one before it has made (`UseIsRegistered`); a volume's secret is that of the
revision that is registered for it and of every revision that runs (`SecretsFit`). A
command may stop anywhere, so `CommandFits` says what it has done so far: the attempt is
registered before a container is started.

**`ComposeConfig`** (`ConfigInvariant`). `OwnFilesInv` is the shape of the operator's own
files, `StageInv` that what was generated was accepted *as it is now*, `DeliveredInv`
that what was delivered is what `Reached` says; the theorem is then the lemma that
`Accepted` implies the right `Reached` and that the snapshot target is among the
targets in use, enabled and writing snapshots.

**`ComposeStack`** (`StackInvariant`). `OneShotsAreDone`: a one-shot that completed has
done its work for good, so that what waited for it once may be restarted in any order.

Two techniques recur. Induction over data is not available with a predicate, so
where a proof needs it (the sums of `WalRetention`, the pages of `Publication`) a
lemma states it for a *set*: a set that has 0 and with every number below a bound its
successor has them all. And lemmas about a page, a reservation or an index take the
state they speak of as a parameter, to be used of the state and of the next.

### Only model-checked

Every safety property and every action property that a passing run checks is stated by a
theorem. What is left to TLC is liveness, which depends on ENABLED: `EverythingEnds`,
`DeletionsComplete`, `RangeIsReached`, and the halves of `SnapshotFollowsLog`,
`DeadLettersReachAStore` and `StackComesUp` that are not proved; and the five runs that
show a violation. No module that a proof uses declares a RECURSIVE operator; sums are
recursive functions.

## 5. Findings

1. **A segment number is used again** (`P/wal/wal.ts:123`, run
   `retention_reuse`). Rotation closes segment *N* and fails to create *N+1*: the
   writer is poisoned, maintenance goes on. *N* is archived and compacted while a
   pin keeps an older segment *M*. On restart the newest file is *M*, closed, so
   `createSegment(M+1)` re-creates the file of a compacted segment and overwrites
   its row: the archived frames cannot be read any more. The branch for an empty
   directory (line 124) takes the maximum over the rows and is not affected.
2. **A job paused on its last entry never completes** (`P/replay/replay.ts:143`,
   run `replay_paused`). Its checkpoint is at the end and its status `paused`;
   after `resume` there is nothing left to read, nothing sets `completed`, the pin
   stays and the driver loops for ever.
3. **Dead letters cross generations** (`P/exporters/target-manager.ts:226`, run
   `deadletter_isolation`). Every worker copies every outbox entry, although
   `P/replay/executor.ts:20` says that DLQ mirrors stay on the isolated instance.
   The converse also happens: a replay worker takes a live dead letter to the
   isolated store only. Copying for others is needed by shared-warehouse targets,
   as `OutboxDrains` shows.
4. **A resolution is lost** (`P/exporters/target-manager.ts:237`, run
   `deadletter_resolution`). The outbox entry is deleted after the await without
   a comparison, and with it a resolution stored meanwhile.
5. **A bad record blocks its target** (`P/exporters/output-plan.ts:30`, run
   `providerops_poison`). An identifier of more than 512 characters, an
   sdar origin with neither ids nor deployment, or a payload the catalogue refuses, passes
   validation and is accepted; `prepare` then fails with `TELEMETRY_URN_INVALID`,
   `ORIGIN_DEPLOYMENT_ID_REQUIRED` or `SMPP_PAYLOAD_CONTRACT_INVALID`, none of which is
   in `RECORD_ERRORS`. The record is never quarantined and the target retries it
   for ever.

## 6. Not modelled, and the plan

Not modelled: protobuf, JSON and SQL parsing, canonical encoding, the columns of
the projections and the literal table contract (`standalone-contract.ts`): data
without steps, whose outcome is a class in the modules that decide on it. HTTP and
authentication, metrics, dashboards, image builds and the scripted verification of
a deployment: no state shared with what is modelled. The two RPC channels of the
durable state: their failures are sticky, so a timeout is a crash of the modules
that use them. The timeout races of the shutdown: what the exit leaves behind is
what a crash leaves. Concurrent deployment commands: the registry has no lock and
the package documents one operator.

Read but not stated as a property: a record whose collection throws ends its
batch with 500 and leaves the earlier records stored (`apps/server.ts:113`), which
the Collector's retry turns into duplicates; a backfill whose job was cancelled
reports "completed" (`P/replay/backfill.ts:97`).

Simplifications that a reader should know of: a torn write leaves a part of a frame,
never a whole one with wrong bytes; timers fire when they are due; diagnostic pages
have no upper bound of time (`to`), and rows leave them by the window alone; a migration
statement takes effect, if at all, before the command that sent it ends.

An interrupted switch is not protected from another one that is started in its place
(§3, the premise of `CutoverLosesNothing`): the procedure in `P/replay/GENERATION.md`
excludes it, the code does not.

What stays unproved is listed in §4 with the reason. What could be added is a
composition of `WalStore` with `WalRetention`, whose writers and maintenance are each
abstracted to a step in the other's module.
