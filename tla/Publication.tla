----------------------------- MODULE Publication -----------------------------
(***************************************************************************)
(* A target's worker from the log to the query API: it projects entries    *)
(* into tables (packages/exporters/target-manager.ts), publishes what it   *)
(* projected under dense numbers (snapshot-publisher.ts), counts           *)
(* dispositions per scope (progress-ledger.ts), and a reader pages through *)
(* one snapshot of it (query-api/src/pagination.ts, progress.ts) while all *)
(* of that goes on.                                                        *)
(*                                                                         *)
(* Abstractions.  An entry is its class, a row of a table its key          *)
(* <<entry, output>>: retries send identical content and the tables keep   *)
(* one row per key (ReplacingMergeTree, read with FINAL).  All accepted    *)
(* entries share one scope, so the ledger has one bucket and the rotation  *)
(* through pages of 500 buckets does not appear.  The target is new, its   *)
(* generation active: leases are GenerationCutover's.  One table per       *)
(* output, one revision per insert (the code sends runs of equal tables,   *)
(* and blocks of 100).  flushDeadLetters is DeadLetterOutbox.              *)
(***************************************************************************)
EXTENDS Integers, FiniteSets, Sequences, FiniteSetsExt

CONSTANTS
  MaxEntries,  \* bound: entries ever received
  BatchSize,   \* entries of one flush
  IndexLimit,  \* inputs the ledger takes up per flush
  PageLimit,   \* rows per page
  None         \* "undefined"

ASSUME ConstantsAssumption ==
  /\ {MaxEntries, BatchSize, IndexLimit, PageLimit} \subseteq Nat \ {0}
  \* "undefined" is no value of any field it stands in for.
  /\ None \notin Nat \cup {"projected", "quarantined", "not-routed"}
  /\ None \notin Nat \X Nat
  /\ None \notin [ordinal : Nat, from : Nat, through : Nat]
  /\ None \notin [ordinal : Nat, ingest : Nat, through : Nat, count : Nat]
  /\ None \notin [ingest : Nat, through : Nat, count : Nat]

\* Accepted with two outputs, accepted but routed elsewhere, accepted and
\* failing in prepare() with a deterministic error, rejected at the receiver.
Outputs == [routed |-> 2, filtered |-> 0, defective |-> 0, rejected |-> 1]
Classes == DOMAIN Outputs
Entries == 1..MaxEntries
Keys    == Entries \X (1..2)

VARIABLES
  wal,          \* the class of each entry
  plan,         \* entry -> completedOutputs, or None
  disposition,  \* entry -> "projected", "quarantined", "not-routed" or None
  checkpoint,   \* the target's position
  counts,       \* target:accepted-* counters
  reserved,     \* entry -> snapshot:reservation
  last,         \* snapshot:ordinal and snapshot:sequence
  outbox,       \* entries in outbox:snapshot
  done,         \* entries in snapshot:done
  progress,     \* snapshot:progress
  version,      \* 1 once snapshot:version is: versions grow, and the newest row counts
  ledger,       \* progress:indexed and the bucket of the scope
  waiting,      \* progress:pending
  store,        \* the ClickHouse tables; of the progress rows the last one inserted
  worker,       \* flush() at its awaits
  reader        \* a client of the query API with its cursor

delivery    == <<plan, disposition, checkpoint, counts>>
publication == <<reserved, last, outbox, done, progress, version>>
vars == <<wal, delivery, publication, ledger, waiting, store, worker, reader>>

IsAccepted(e)    == wal[e] # "rejected"
AcceptedIn(S)    == {e \in S : IsAccepted(e)}
Received         == DOMAIN wal
IsDefective(e)   == wal[e] = "defective"
Disposed(S, d)   == {e \in S : disposition[e] = d}
Dispositions     == {"projected", "quarantined", "not-routed"}

Down    == [pc |-> "down", upto |-> 0, sent |-> 0, catching |-> FALSE, row |-> None]
Idle    == [Down EXCEPT !.pc = "idle"]
Waiting == [pc |-> "meta", frozen |-> None, after |-> None, collected |-> <<>>]

Init ==
  /\ wal = <<>>
  /\ plan = [e \in Entries |-> None]
  /\ disposition = [e \in Entries |-> None]
  /\ checkpoint = 0
  /\ counts = [d \in Dispositions |-> 0]
  /\ reserved = [e \in Entries |-> None]
  /\ last = [ordinal |-> 0, sequence |-> 0]
  /\ outbox = {} /\ done = {}
  /\ progress = None
  /\ version = 0
  /\ ledger = [indexed |-> 0, accepted |-> 0, disposed |-> [d \in Dispositions |-> 0],
               pending |-> 0, received |-> 0, processed |-> 0, legacy |-> FALSE]
  /\ waiting = {}
  /\ store = [rows |-> {}, revisions |-> {}, publications |-> {},
              snapshot |-> None, progress |-> None]
  /\ worker = Down
  /\ reader = Waiting

\* The log is external to the worker: appends come between any two of its
\* steps.
Accept(class) ==
  /\ Len(wal) < MaxEntries
  /\ wal' = wal \o <<class>>
  /\ UNCHANGED <<delivery, publication, ledger, waiting, store, worker, reader>>

-----------------------------------------------------------------------------
(* TargetProgressLedger *)

\* Mutant: an entry that is already disposed of is counted as pending.
UndisposedAll(S) == S
Undisposed(S) == {e \in S : disposition[e] = None}

\* indexInputs: one transaction for the next IndexLimit inputs.  Entries
\* before the checkpoint without a disposition are older than the ledger.
IndexInputs ==
  LET batch == AcceptedIn((ledger.indexed + 1)..Min({ledger.indexed + IndexLimit, Len(wal)}))
      unknown == Undisposed(batch)
      old     == {e \in unknown : e <= checkpoint}
      settled == (batch \ unknown) \cup old
  IN  /\ worker.pc = "index"
      /\ ledger' = [ledger EXCEPT
           !.indexed = Min({@ + IndexLimit, Len(wal)}),
           !.accepted = @ + Cardinality(batch),
           !.disposed = [d \in Dispositions |-> @[d] + Cardinality(Disposed(batch, d))],
           !.pending = @ + Cardinality(unknown \ old),
           !.received = Max(batch \cup {@}),
           !.processed = Max(settled \cup {@}),
           !.legacy = @ \/ old # {}]
      /\ waiting' = waiting \cup (unknown \ old)
      /\ worker' = [worker EXCEPT !.pc = "batch"]
      /\ UNCHANGED <<wal, delivery, publication, store, reader>>

\* dispositionOperations: inputs that are not mirrored yet are left to
\* indexInputs, which finds their disposition.
LedgerDisposes(e, d) ==
  IF e \in waiting
  THEN /\ ledger' = [ledger EXCEPT !.pending = @ - 1,
                                   !.processed = Max({@, e}),
                                   !.disposed[d] = @ + 1]
       /\ waiting' = waiting \ {e}
  ELSE UNCHANGED <<ledger, waiting>>

-----------------------------------------------------------------------------
(* initialize(), flush() and projectEntry() of TargetWorker *)

FirstProgress == [ordinal |-> 0, ingest |-> 0, through |-> 0, count |-> 0]

Initialized == IF progress = None THEN FirstProgress ELSE progress

Initialize ==
  /\ worker.pc = "down"
  /\ progress' = Initialized
  /\ worker' = Idle
  /\ UNCHANGED <<wal, delivery, reserved, last, outbox, done, version, ledger, waiting, store, reader>>

Begin ==
  /\ worker.pc = "idle"
  /\ worker' = [Idle EXCEPT !.pc = "index"]
  /\ UNCHANGED <<wal, delivery, publication, ledger, waiting, store, reader>>

TakeBatch ==
  /\ worker.pc = "batch"
  /\ worker' = [worker EXCEPT !.pc = "project", !.upto = Min({checkpoint + BatchSize, Len(wal)})]
  /\ UNCHANGED <<wal, delivery, publication, ledger, waiting, store, reader>>

\* The entry in hand: checkpoint and disposition are written together.
Current == checkpoint + 1
Projecting == worker.pc = "project" /\ Current <= worker.upto

Prepare ==
  /\ Projecting /\ plan[Current] = None /\ ~IsDefective(Current)
  /\ plan' = [plan EXCEPT ![Current] = 0]
  /\ UNCHANGED <<wal, disposition, checkpoint, counts, publication, ledger, waiting, store, worker, reader>>

Outstanding ==
  Projecting /\ plan[Current] # None /\ plan[Current] < Outputs[wal[Current]]

\* The rows of an output are in the table before the plan says so.
InsertOutput ==
  /\ Outstanding
  /\ store' = [store EXCEPT !.rows = @ \cup {<<Current, plan[Current] + 1>>}]
  /\ worker' = [worker EXCEPT !.pc = "inserted"]
  /\ UNCHANGED <<wal, delivery, publication, ledger, waiting, reader>>

CompleteOutput ==
  /\ worker.pc = "inserted"
  /\ plan' = [plan EXCEPT ![Current] = @ + 1]
  /\ worker' = [worker EXCEPT !.pc = "project"]
  /\ UNCHANGED <<wal, disposition, checkpoint, counts, publication, ledger, waiting, store, reader>>

\* Mutant: a plan is complete when it has been started.
CompleteOnceStarted(e) == IsDefective(e) \/ plan[e] # None
Complete(e) == IsDefective(e) \/ plan[e] = Outputs[wal[e]]

\* dispositionOperations, emptyDispositionOperations: numbers are taken in a
\* transaction of their own, and found again if the process dies before the
\* next one.
Reserve ==
  /\ Projecting /\ Complete(Current) /\ reserved[Current] = None
  /\ LET n == Outputs[wal[Current]]
         next == [ordinal |-> last.ordinal + 1, sequence |-> last.sequence + n]
     IN  /\ last' = next
         /\ reserved' = [reserved EXCEPT ![Current] =
              [ordinal |-> next.ordinal, from |-> last.sequence + 1, through |-> next.sequence]]
  /\ UNCHANGED <<wal, delivery, outbox, done, progress, version, ledger, waiting, store, worker, reader>>

DispositionOf(e) ==
  IF IsDefective(e) THEN "quarantined"
  ELSE IF wal[e] = "filtered" THEN "not-routed" ELSE "projected"

\* The commit of projectEntry() and of quarantine().  Only accepted entries
\* are counted.
Commit ==
  /\ Projecting /\ Complete(Current) /\ reserved[Current] # None
  /\ LET e == Current
         d == DispositionOf(e)
     IN  /\ checkpoint' = e
         /\ disposition' = [disposition EXCEPT ![e] = d]
         /\ counts' = [counts EXCEPT ![d] = @ + IF IsAccepted(e) THEN 1 ELSE 0]
         /\ outbox' = outbox \cup {e}
         /\ LedgerDisposes(e, d)
  /\ UNCHANGED <<wal, plan, reserved, last, done, progress, version, store, worker, reader>>

StartPublishing ==
  /\ worker.pc = "project" /\ Current > worker.upto
  /\ worker' = [worker EXCEPT !.pc = "publish"]
  /\ UNCHANGED <<wal, delivery, publication, ledger, waiting, store, reader>>

-----------------------------------------------------------------------------
(* SnapshotPublisher *)

Oldest == CHOOSE e \in outbox : \A o \in outbox : reserved[e].ordinal <= reserved[o].ordinal
Size(e) == reserved[e].through + 1 - reserved[e].from

Publishing ==
  /\ worker.pc = "publish" /\ outbox # {}
  /\ progress.through = reserved[Oldest].from - 1
  /\ progress.ordinal + 1 = reserved[Oldest].ordinal

\* A revision and its publication are inserted one after the other.
WithSent(s) ==
  LET k == worker.sent \div 2 + 1
  IN  IF worker.sent % 2 = 0
      THEN [s EXCEPT !.revisions = @ \cup {<<Oldest, k>>}]
      ELSE [s EXCEPT !.publications =
              @ \cup {[key |-> <<Oldest, k>>, number |-> reserved[Oldest].from + k - 1]}]

Sending == Publishing /\ worker.sent < 2 * Size(Oldest)

InsertPublication ==
  /\ Sending
  /\ store' = WithSent(store)
  /\ worker' = [worker EXCEPT !.sent = @ + 1]
  /\ UNCHANGED <<wal, delivery, publication, ledger, waiting, reader>>

\* Mutant: an entry is marked published when its last revision is sent.
SentMost == worker.sent + 1 >= 2 * Size(Oldest)
SentAll  == worker.sent = 2 * Size(Oldest)

MarkPublished ==
  /\ Publishing /\ SentAll
  /\ progress' = [ordinal |-> reserved[Oldest].ordinal,
                  ingest  |-> Max({progress.ingest, Oldest}),
                  through |-> Max({progress.through, reserved[Oldest].through}),
                  count   |-> progress.count + Size(Oldest)]
  /\ outbox' = outbox \ {Oldest}
  /\ done' = done \cup {Oldest}
  /\ worker' = [worker EXCEPT !.sent = 0]
  /\ UNCHANGED <<wal, delivery, reserved, last, version, ledger, waiting, store, reader>>

StartRefresh ==
  /\ worker.pc = "publish" /\ outbox = {}
  /\ worker' = [worker EXCEPT !.pc = "refresh"]
  /\ UNCHANGED <<wal, delivery, publication, ledger, waiting, store, reader>>

\* refresh(): the boundaries are read once, before the first await.
Boundary == [ingest |-> progress.ingest,
             through |-> progress.through, count |-> progress.count]

TakeVersion ==
  /\ worker.pc = "refresh"
  /\ version' = 1
  /\ worker' = [worker EXCEPT !.pc = "snapshot", !.row = Boundary]
  /\ UNCHANGED <<wal, delivery, reserved, last, outbox, done, progress, ledger, waiting, store, reader>>

InsertSnapshot ==
  /\ worker.pc = "snapshot"
  /\ store' = [store EXCEPT !.snapshot = worker.row]
  /\ worker' = [worker EXCEPT !.pc = "boundaries"]
  /\ UNCHANGED <<wal, delivery, publication, ledger, waiting, reader>>

\* The row of the target is put together from calls to the SQLite thread;
\* frames are indexed between them.
ReadBoundaries ==
  /\ worker.pc = "boundaries"
  /\ worker' = [worker EXCEPT !.pc = "accepted",
                  !.row = [received |-> Len(wal), processed |-> checkpoint, visible |-> @.ingest,
                           accepted |-> 0, disposed |-> counts, pending |-> 0, coverage |-> "exact"]]
  /\ UNCHANGED <<wal, delivery, publication, ledger, waiting, store, reader>>

ReadAccepted ==
  /\ worker.pc = "accepted"
  /\ worker' = [worker EXCEPT !.pc = "pending",
                              !.row.accepted = Cardinality(AcceptedIn(Received))]
  /\ UNCHANGED <<wal, delivery, publication, ledger, waiting, store, reader>>

ReadPending ==
  /\ worker.pc = "pending"
  /\ worker' = [worker EXCEPT !.pc = "total",
       !.row.pending = Cardinality({e \in AcceptedIn(Received) : e > checkpoint})]
  /\ UNCHANGED <<wal, delivery, publication, ledger, waiting, store, reader>>

InsertTotal ==
  /\ worker.pc = "total"
  /\ store' = [store EXCEPT !.progress = worker.row]
  /\ worker' = [worker EXCEPT !.pc = "scope"]
  /\ UNCHANGED <<wal, delivery, publication, ledger, waiting, reader>>

\* Mutant: the mirror is taken to be complete.
CoverageAssumed == "exact"
Coverage == IF ledger.indexed >= Len(wal) THEN "exact" ELSE "unknown"

\* rows(): nothing is written if no input of the scope is indexed.
ScopeRow ==
  [received |-> ledger.received, processed |-> ledger.processed,
   visible  |-> Min({ledger.processed, progress.ingest}),
   accepted |-> ledger.accepted, disposed |-> ledger.disposed, pending |-> ledger.pending,
   coverage |-> IF ledger.legacy THEN "legacy" ELSE Coverage]

InsertScope ==
  /\ worker.pc = "scope"
  /\ store' = IF ledger.accepted = 0 THEN store ELSE [store EXCEPT !.progress = ScopeRow]
  /\ worker' = Idle
  /\ UNCHANGED <<wal, delivery, publication, ledger, waiting, reader>>

-----------------------------------------------------------------------------
(* Failures *)

\* What the insert in hand would write.
Written ==
  CASE Outstanding              -> [store EXCEPT !.rows = @ \cup {<<Current, plan[Current] + 1>>}]
    [] Sending                  -> WithSent(store)
    [] worker.pc = "snapshot"   -> [store EXCEPT !.snapshot = worker.row]
    [] worker.pc = "total"      -> [store EXCEPT !.progress = worker.row]
    [] worker.pc = "scope"      -> [store EXCEPT !.progress = ScopeRow]

\* Mutant: "running" is left set when a flush ends with an error.
AfterFailureRunning ==
  IF worker.catching \/ version = 0 THEN [Down EXCEPT !.pc = "running"]
  ELSE [Idle EXCEPT !.pc = "refresh", !.catching = TRUE]
AfterFailure ==
  IF worker.catching \/ version = 0 THEN Idle
  ELSE [Idle EXCEPT !.pc = "refresh", !.catching = TRUE]

\* An insert fails, or its confirmation is lost.  flush() catches that and
\* refreshes, if a snapshot was ever published; a failure of this refresh is
\* only counted.
InsertFails ==
  /\ \/ Outstanding \/ Sending
     \/ worker.pc \in {"snapshot", "total"}
     \/ (worker.pc = "scope" /\ ledger.accepted > 0)
  /\ store' \in {store, Written}
  /\ worker' = AfterFailure
  /\ UNCHANGED <<wal, delivery, publication, ledger, waiting, reader>>

Crash ==
  /\ worker # Down
  /\ worker' = Down
  /\ UNCHANGED <<wal, delivery, publication, ledger, waiting, store, reader>>

-----------------------------------------------------------------------------
(* The query API: one request per page, several queries per request *)

PublishedWithin(b) ==
  {p \in store.publications : p.number <= b.through /\ p.key[1] <= b.ingest}
VisibleWithin(b) == {p \in PublishedWithin(b) : p.key \in store.revisions}
CountsMatch(b) ==
  Cardinality(PublishedWithin(b)) = b.count /\ Cardinality(VisibleWithin(b)) = b.count

\* Newest event first, so that what is published while a client pages
\* belongs before the rows it has seen.
Before(k, l) == k[1] > l[1] \/ (k[1] = l[1] /\ k[2] > l[2])
RestOf(b) ==
  {p.key : p \in {q \in VisibleWithin(b) : reader.after # None => Before(reader.after, q.key)}}
First(S) == CHOOSE k \in S : \A l \in S \ {k} : Before(k, l)
Page == LET f[n \in 0..PageLimit] ==
              IF n = 0 THEN <<>>
              ELSE LET rest == RestOf(reader.frozen) \ {f[n - 1][i] : i \in DOMAIN f[n - 1]}
                   IN  IF rest = {} THEN f[n - 1] ELSE f[n - 1] \o <<First(rest)>>
        IN  f[PageLimit]

\* Mutant: every page takes the newest boundary.
FrozenAnew(meta) == meta
Frozen(meta) == IF reader.frozen = None THEN meta ELSE reader.frozen

\* Without a cursor the newest snapshot is frozen; with one, the newest
\* snapshot must not be behind it.
ReadMetadata ==
  /\ reader.pc = "meta" /\ store.snapshot # None
  /\ store.snapshot.ingest >= Frozen(store.snapshot).ingest
  /\ store.snapshot.through >= Frozen(store.snapshot).through
  /\ reader' = [reader EXCEPT !.pc = "counts", !.frozen = Frozen(store.snapshot)]
  /\ UNCHANGED <<wal, delivery, publication, ledger, waiting, store, worker>>

\* SNAPSHOT_VISIBILITY_INCOMPLETE unless content and publications are there.
CheckCounts ==
  /\ reader.pc = "counts"
  /\ reader' = [reader EXCEPT !.pc = IF CountsMatch(reader.frozen) THEN "rows" ELSE "meta"]
  /\ UNCHANGED <<wal, delivery, publication, ledger, waiting, store, worker>>

ReadPage ==
  /\ reader.pc = "rows"
  /\ LET more == Cardinality(RestOf(reader.frozen)) > PageLimit
     IN  reader' = [reader EXCEPT
           !.pc = IF more THEN "meta" ELSE "finished",
           !.after = IF Page = <<>> THEN @ ELSE Page[Len(Page)],
           !.collected = @ \o Page]
  /\ UNCHANGED <<wal, delivery, publication, ledger, waiting, store, worker>>

NewQuery ==
  /\ reader.pc = "finished"
  /\ reader' = Waiting
  /\ UNCHANGED <<wal, delivery, publication, ledger, waiting, store, worker>>

-----------------------------------------------------------------------------
Flush ==
  \/ Initialize \/ Begin \/ IndexInputs \/ TakeBatch
  \/ Prepare \/ InsertOutput \/ CompleteOutput \/ Reserve \/ Commit
  \/ StartPublishing \/ InsertPublication \/ MarkPublished
  \/ StartRefresh \/ TakeVersion \/ InsertSnapshot
  \/ ReadBoundaries \/ ReadAccepted \/ ReadPending \/ InsertTotal \/ InsertScope

Next ==
  \/ \E class \in Classes : Accept(class)
  \/ Flush \/ InsertFails \/ Crash
  \/ ReadMetadata \/ CheckCounts \/ ReadPage \/ NewQuery

Spec == Init /\ [][Next]_vars

\* TargetManager flushes on a timer, and the event loop runs the
\* continuation of every await.
FairSpec == Spec /\ WF_vars(Flush)

-----------------------------------------------------------------------------
(* Properties *)

Reservations == [ordinal : Entries, from : 1..(2 * MaxEntries + 1), through : 0..(2 * MaxEntries)]

TypeOK ==
  /\ wal \in Seq(Classes) /\ Len(wal) <= MaxEntries
  /\ plan \in [Entries -> (0..2) \cup {None}]
  /\ disposition \in [Entries -> Dispositions \cup {None}]
  /\ checkpoint \in 0..Len(wal)
  /\ counts \in [Dispositions -> Nat]
  /\ reserved \in [Entries -> Reservations \cup {None}]
  /\ outbox \subseteq Entries /\ done \subseteq Entries /\ outbox \cap done = {}
  /\ \A e \in outbox \cup done : reserved[e] # None /\ disposition[e] # None
  /\ ledger.indexed \in 0..Len(wal) /\ ledger.pending \in Nat
  /\ waiting \subseteq 1..ledger.indexed
  /\ store.rows \subseteq Keys /\ store.revisions \subseteq Keys
  /\ {p.key : p \in store.publications} \subseteq Keys
  /\ worker.upto \in 0..Len(wal) /\ worker.sent \in 0..4

KeysOf(e) == {e} \X (1..Outputs[wal[e]])
KeysThrough(n) == UNION {KeysOf(e) : e \in {i \in Received : i <= n /\ disposition[i] = "projected"}}

\* A checkpoint promises that all outputs of everything before it are in the
\* tables, and that its publication is under way or done: a crash or a lost
\* confirmation between insert, plan, reservation and commit loses nothing.
CheckpointIsCovered ==
  \A e \in Received :
    /\ e <= checkpoint <=> disposition[e] # None
    /\ e <= checkpoint => e \in outbox \cup done
    /\ disposition[e] = "projected" => KeysOf(e) \subseteq store.rows

\* The target's own bookkeeping is sound at every step of a plan.
BookkeepingHolds == TypeOK /\ CheckpointIsCovered

\* A snapshot row promises only what can be read: it counts exactly the
\* revisions that exist with their publication, and they are all outputs of
\* all entries up to its boundary.
SnapshotIsReadable ==
  store.snapshot # None =>
    /\ CountsMatch(store.snapshot)
    /\ {p.key : p \in VisibleWithin(store.snapshot)} = KeysThrough(store.snapshot.ingest)

\* The pages of one cursor are one snapshot: together exactly the outputs of
\* the entries up to the boundary of the first page, each once, whatever is
\* published, retried or restarted in between.
PagesAreOneSnapshot ==
  reader.pc = "finished" =>
    LET c == reader.collected
    IN  /\ {c[i] : i \in DOMAIN c} = KeysThrough(reader.frozen.ingest)
        /\ \A i, j \in DOMAIN c : i < j => Before(c[i], c[j])

\* progressResponse().
CountsAddUp(row) ==
  row.accepted = row.pending + row.disposed["projected"] + row.disposed["quarantined"]
                 + row.disposed["not-routed"]
Completeness(row) ==
  IF row.coverage # "exact" \/ ~CountsAddUp(row)
     \/ row.processed > row.received \/ row.visible > row.processed THEN "unknown"
  ELSE IF row.pending > 0 \/ row.visible < row.processed \/ row.processed < row.received
  THEN "lagging"
  ELSE IF row.disposed["quarantined"] > 0 THEN "caught_up_with_quarantine" ELSE "caught_up"

\* When the query API says "caught up" it is true: the accepted inputs the
\* target's row speaks of (up to its received_through), and all that had
\* arrived when a scope's row was written, were disposed of, their outputs
\* can be read, and nothing was quarantined unless it says so; although the
\* rows are put together from counters, boundaries and a mirror read at
\* different times.
CaughtUpIsTrue ==
  [][store'.progress # store.progress =>
       LET row   == store'.progress
           known == AcceptedIn(IF worker.pc = "scope" THEN Received ELSE 1..row.received)
       IN  Completeness(row) \in {"caught_up", "caught_up_with_quarantine"} =>
             /\ known \subseteq done
             /\ KeysThrough(MaxEntries) \cap (known \X (1..2)) \subseteq store.revisions
             /\ Completeness(row) = "caught_up" => Disposed(known, "quarantined") = {}]_vars

\* The ledger, filled in batches that run ahead of the checkpoint or behind
\* it, says of every input it has taken up what the dispositions say.
LedgerIsExact ==
  LET known == AcceptedIn(1..ledger.indexed)
  IN  /\ waiting = {e \in known : disposition[e] = None}
      /\ ledger.pending = Cardinality(waiting) /\ ledger.accepted = Cardinality(known)
      /\ \A d \in Dispositions :
           /\ ledger.disposed[d] = Cardinality(Disposed(known, d))
           /\ counts[d] = Cardinality(Disposed(AcceptedIn(Received), d))
      /\ ~ledger.legacy

\* What a snapshot offers never goes back, not through a restart or a
\* failed flush either.
SnapshotAdvances ==
  [][store.snapshot # None =>
       \A f \in {"ingest", "through", "count"} : store'.snapshot[f] >= store.snapshot[f]]_vars

\* If inserts and the process eventually stop failing, everything received
\* is published and the snapshot shows it: no reservation, plan or outbox
\* entry that a crash left behind blocks the ones after it.
EverythingIsShown ==
  (<>[][~InsertFails /\ ~Crash]_vars) =>
    \A e \in Entries : (e \in Received ~> store.snapshot # None /\ store.snapshot.ingest >= e)

\* The snapshot follows the log: forwards only, and to its end.
SnapshotFollowsLog == SnapshotAdvances /\ EverythingIsShown
=============================================================================
