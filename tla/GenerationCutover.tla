------------------------- MODULE GenerationCutover -------------------------
(* Generations of a queryable target and the offline cutover between them   *)
(* (replay/generation.ts, exporters/generation-lifecycle.ts), with the      *)
(* Query API that reads them over a registry it loads when it starts        *)
(* (query-api/reader-registry.ts, pagination.ts).                           *)
(*                                                                          *)
(* One unit of time is five minutes: the life of a cursor. A read lease is  *)
(* two units, a snapshot may open a first page in the unit it was observed. *)
(* The administrator and the Processor exclude each other by the log's lock;*)
(* the Query API and the operator's deletions run beside both.              *)
EXTENDS Integers, FiniteSets

CONSTANTS
    Generations,  \* each on a target and a database of its own
    First,        \* the generation that is live at the start
    MaxTime, MaxInputs, MaxRevision  \* bounds

Absent == "none"

ASSUME CutoverAssumption ==
    /\ First \in Generations /\ Absent \notin Generations
    /\ MaxTime \in Nat /\ MaxInputs \in Nat /\ MaxRevision \in Nat

VARIABLES
    now,
    last,        \* last sequence of the log
    processor,   \* generation the running Processor writes, or Absent
    life, lease, \* WAL state generation:lifecycle: status and readableUntil
    processed,   \* checkpoint of the target
    through,     \* snapshot:progress: ingestThrough, below processed while
                 \* publications are in the outbox
    job,         \* replay contract: [through, live] of the full rebuild
    switches,    \* WAL state generation:switch
    registry,    \* the reader registry file: [revision, active]
    admin,       \* the running administration command: [step, switch or generation]
    row,         \* snapshot_v1 in the generation's store, or NoRow
    deleted,     \* generations whose data is deleted
    approved,    \* generations a gc dry run found eligible
    query,       \* active target of the registry the Query API loaded
    cursor,      \* the cursor a client holds
    page,        \* the page being answered
    served       \* whether the last answer was read from data, and the highest
                 \* boundary a first page showed

wal == <<life, lease, processed, through, job, switches>>
store == <<row, deleted>>
reader == <<query, cursor, page, served>>
cutoverVars == <<now, last, processor, wal, registry, admin, store, approved, reader>>

NoRow == [status |-> Absent]
Idle  == [step |-> "idle"]
NoPage   == [step |-> Absent]
NoCursor == [generation |-> Absent]
LeaseTime  == 2
CursorTime == 1

Greater(a, b) == IF a >= b THEN a ELSE b
Lesser(a, b)  == IF a <= b THEN a ELSE b

TypeOK ==
    /\ now \in 0..MaxTime /\ last \in 0..MaxInputs
    /\ processor \in Generations \cup {Absent} /\ query \in Generations
    /\ life \in [Generations -> {Absent, "active", "draining", "retired"}]
    /\ lease \in [Generations -> 0..MaxTime + LeaseTime]
    /\ \A g \in Generations : through[g] <= processed[g] /\ processed[g] <= last
    /\ registry.active \in Generations
    /\ \A s \in switches : s.status \in {"prepared", "committed"}
    /\ deleted \subseteq approved /\ approved \subseteq Generations

----------------------------------------------------------------------------
(* generation-lifecycle.ts, snapshot-publisher.ts: refresh                  *)
\* Only an active publisher extends its lease.
LeaseExtended(g) == life[g] \in {Absent, "active"}

\* A refresh extends the lease in the log and publishes it with the boundary.
Refresh(g) ==
    /\ life'  = IF LeaseExtended(g) THEN [life EXCEPT ![g] = "active"] ELSE life
    /\ lease' = IF LeaseExtended(g)
                THEN [lease EXCEPT ![g] = Greater(lease[g], now + LeaseTime)] ELSE lease
    /\ row'   = [row EXCEPT ![g] = [status |-> life'[g], until |-> lease'[g],
                                    through |-> through'[g], observed |-> now]]

\* assertGenerationWritable
Writable(g) == life[g] \in {Absent, "active"}

CutoverInit ==
    /\ now = 0 /\ last = 0 /\ processor = Absent
    /\ life = [g \in Generations |-> IF g = First THEN "active" ELSE Absent]
    /\ lease = [g \in Generations |-> IF g = First THEN LeaseTime ELSE 0]
    /\ processed = [g \in Generations |-> 0] /\ through = processed
    /\ job = [g \in Generations |-> [through |-> -1, live |-> {}]]
    /\ switches = {}
    /\ registry = [revision |-> 1, active |-> First]
    /\ admin = Idle
    /\ row = [g \in Generations |->
                IF g = First
                THEN [status |-> "active", until |-> LeaseTime, through |-> 0, observed |-> 0]
                ELSE NoRow]
    /\ deleted = {} /\ approved = {}
    /\ query = First /\ cursor = NoCursor /\ page = NoPage
    /\ served = [backed |-> TRUE, boundary |-> 0]

Tick ==
    /\ now < MaxTime /\ now' = now + 1
    /\ UNCHANGED <<last, processor, wal, registry, admin, store, approved, reader>>
----------------------------------------------------------------------------
(* The Processor, with the one of these targets the operator configured.    *)
StartProcessor(g) ==
    /\ processor = Absent /\ admin = Idle
    /\ processor' = g
    /\ UNCHANGED <<now, last, wal, registry, admin, store, approved, reader>>

StopProcessor ==
    /\ processor # Absent /\ processor' = Absent
    /\ UNCHANGED <<now, last, wal, registry, admin, store, approved, reader>>

Ingest ==
    /\ processor # Absent /\ last < MaxInputs
    /\ last' = last + 1
    /\ UNCHANGED <<now, processor, wal, registry, admin, store, approved, reader>>

Dispose ==
    /\ processor # Absent /\ processed[processor] < last /\ Writable(processor)
    /\ processed' = [processed EXCEPT ![processor] = @ + 1]
    /\ UNCHANGED <<now, last, processor, life, lease, through, job, switches, registry,
                   admin, store, approved, reader>>

\* The outbox is published; with an empty one this is the heartbeat.
Publish ==
    /\ processor # Absent
    /\ through' = [through EXCEPT ![processor] = processed[processor]]
    /\ Refresh(processor)
    /\ UNCHANGED <<now, last, processor, processed, job, switches, registry, admin,
                   deleted, approved, reader>>
----------------------------------------------------------------------------
(* The administrator                                                        *)
Offline == processor = Absent /\ admin = Idle
Switchable == Offline /\ registry.revision < MaxRevision

\* replay: a full rebuild of the log into a fresh generation.
Rebuild(g) ==
    /\ Offline /\ life[g] = Absent
    /\ processed' = [processed EXCEPT ![g] = last]
    /\ through' = [through EXCEPT ![g] = last]
    /\ job' = [job EXCEPT ![g] = [through |-> last,
                                  live |-> {h \in Generations : life[h] # Absent}]]
    /\ Refresh(g)
    /\ UNCHANGED <<now, last, processor, switches, registry, admin, deleted, approved, reader>>

\* A probe opens a first page of the generation's store.
Serves(g, status, age) ==
    /\ g \notin deleted /\ row[g].status = status
    /\ row[g].until > now /\ now - row[g].observed <= age

\* Mutant: the rebuild has all it was made of, whatever came since.
FullCoverageThen(g) == job[g].through = processed[g] /\ processed[g] = through[g]
                       /\ row[g].through = through[g]
\* inspectPromotion: the rebuild covers the whole log.
FullCoverage(g) ==
    /\ job[g].through = last
    /\ processed[g] = through[g] /\ through[g] = last
    /\ row[g].through = last

Promotable(g) == life[g] \in {Absent, "active"}

Promote(g) ==
    LET old == registry.active
        s == [from |-> old, to |-> g, revision |-> registry.revision, status |-> "prepared"]
    IN
    /\ Switchable /\ g # old
    /\ FullCoverage(g) /\ Serves(g, "active", 0)
    /\ old \in job[g].live
    /\ row[old].status \in {"active", "draining"} /\ old \notin deleted
    /\ life[old] # "retired" /\ Promotable(g)
    /\ processed[old] = through[old]
    /\ \A x \in switches : [x EXCEPT !.status = "prepared"] # s
    /\ life' = [life EXCEPT ![old] = "draining", ![g] = "active"]
    /\ lease' = [lease EXCEPT ![old] = Greater(Greater(now + LeaseTime, row[old].until), @),
                              ![g] = now + LeaseTime]
    /\ switches' = switches \cup {s}
    /\ admin' = [step |-> "drain", switch |-> s]
    /\ UNCHANGED <<now, last, processor, processed, through, job, registry, store,
                   approved, reader>>

Previous(s) == [revision |-> s.revision, active |-> s.from]
Following(s) == [revision |-> s.revision + 1, active |-> s.to]

RegistryUnchanged(s) == registry = Previous(s)

Resume(s) ==
    /\ Offline /\ s.status = "prepared"
    /\ \/ registry = Following(s) /\ admin' = [step |-> "commit", switch |-> s]
       \/ /\ registry # Following(s) /\ RegistryUnchanged(s)
          /\ admin' = [step |-> "drain", switch |-> s]
    /\ UNCHANGED <<now, last, processor, wal, registry, store, approved, reader>>

\* publishLifecycle of the drained, then of the activated generation
PublishLifecycle(step, next, g) ==
    /\ admin.step = step
    /\ admin' = [admin EXCEPT !.step = next]
    /\ UNCHANGED through /\ Refresh(g)
    /\ UNCHANGED <<now, last, processor, processed, job, switches, registry, deleted,
                   approved, reader>>

PublishDrained   == admin.step = "drain" /\ PublishLifecycle("drain", "activate", admin.switch.from)
PublishActivated == admin.step = "activate" /\ PublishLifecycle("activate", "rename", admin.switch.to)

\* atomicReaderRegistry
Rename ==
    /\ admin.step = "rename" /\ RegistryUnchanged(admin.switch)
    /\ registry' = Following(admin.switch)
    /\ admin' = [admin EXCEPT !.step = "commit"]
    /\ UNCHANGED <<now, last, processor, wal, store, approved, reader>>

Commit ==
    /\ admin.step = "commit" /\ admin.switch \in switches
    /\ switches' = (switches \ {admin.switch}) \cup {[admin.switch EXCEPT !.status = "committed"]}
    /\ admin' = Idle
    /\ UNCHANGED <<now, last, processor, life, lease, processed, through, job, registry,
                   store, approved, reader>>

\* The input barrier of a rollback.
CaughtUp(g) == through[g] = last /\ processed[g] = last

Rollback(s) ==
    LET back == [from |-> s.to, to |-> s.from, revision |-> registry.revision,
                 status |-> "prepared"]
    IN
    /\ Switchable /\ s.status = "committed" /\ registry = Following(s)
    /\ life[s.to] = "active" /\ life[s.from] = "draining"
    /\ \A g \in {s.from, s.to} : CaughtUp(g) /\ Serves(g, life[g], LeaseTime)
                                  /\ row[g].through = through[g]
    /\ \A x \in switches : [x EXCEPT !.status = "prepared"] # back
    /\ life' = [life EXCEPT ![s.to] = "draining", ![s.from] = "active"]
    /\ lease' = [g \in Generations |->
                   IF g \in {s.from, s.to} THEN Greater(now + LeaseTime, lease[g]) ELSE lease[g]]
    /\ switches' = switches \cup {back}
    /\ admin' = [step |-> "drain", switch |-> back]
    /\ UNCHANGED <<now, last, processor, processed, through, job, registry, store,
                   approved, reader>>

\* Mutant: any generation may be retired once its lease is over.
DrainingOrUnused(g) == life[g] # Absent
Draining(g) == life[g] \in {"draining", "retired"}

Retire(g) ==
    /\ Offline /\ Draining(g)
    /\ lease[g] <= now /\ processed[g] = through[g]
    /\ life' = [life EXCEPT ![g] = "retired"]
    /\ admin' = [step |-> "retire", generation |-> g]
    /\ UNCHANGED <<now, last, processor, lease, processed, through, job, switches, registry,
                   store, approved, reader>>

PublishRetired ==
    /\ admin.step = "retire"
    /\ PublishLifecycle("retire", "done", admin.generation)

\* A command ends, fails or is killed.
EndCommand ==
    /\ admin # Idle /\ admin' = Idle
    /\ UNCHANGED <<now, last, processor, wal, registry, store, approved, reader>>

\* gcDryRun prints statements; the operator runs them when he likes.
GcDryRun(g) ==
    /\ Offline /\ life[g] = "retired" /\ lease[g] <= now /\ processed[g] = through[g]
    /\ approved' = approved \cup {g}
    /\ UNCHANGED <<now, last, processor, wal, registry, admin, store, reader>>

Delete(g) ==
    /\ g \in approved /\ g \notin deleted
    /\ deleted' = deleted \cup {g} /\ row' = [row EXCEPT ![g] = NoRow]
    /\ UNCHANGED <<now, last, processor, wal, registry, admin, approved, reader>>
----------------------------------------------------------------------------
(* The Query API. It answers a page in three steps: metadata, rows, answer. *)
RestartQuery ==
    /\ query' = registry.active /\ page' = NoPage
    /\ UNCHANGED <<now, last, processor, wal, registry, admin, store, approved, cursor, served>>

BeginPage(g, kind, bound, expires) ==
    /\ expires > now
    /\ page' = [kind |-> kind, generation |-> g, through |-> bound, expires |-> expires,
                step |-> "metadata", found |-> FALSE]
    /\ UNCHANGED <<now, last, processor, wal, registry, admin, store, approved, query,
                   cursor, served>>

FirstPage ==
    /\ page = NoPage /\ Serves(query, "active", 0)
    /\ BeginPage(query, "first", row[query].through, Lesser(now + CursorTime, row[query].until))

NextPage ==
    /\ page = NoPage /\ cursor # NoCursor
    /\ LET r == row[cursor.generation] IN
       /\ r.status \in {"active", "draining"} /\ r.until > now
       /\ r.through >= cursor.through
       /\ BeginPage(cursor.generation, "next", cursor.through, Lesser(cursor.expires, r.until))

ReadRows ==
    /\ page # NoPage /\ page.step = "metadata"
    /\ page' = [page EXCEPT !.step = "rows", !.found = page.generation \notin deleted]
    /\ UNCHANGED <<now, last, processor, wal, registry, admin, store, approved, query,
                   cursor, served>>

StillReadable == page.expires > now

AnswerPage ==
    /\ page # NoPage /\ page.step = "rows"
    /\ page' = NoPage
    /\ IF StillReadable
       THEN /\ served' = [backed |-> page.found,
                          boundary |-> IF page.kind = "first"
                                       THEN Greater(served.boundary, page.through)
                                       ELSE served.boundary]
            /\ cursor' = [generation |-> page.generation, through |-> page.through,
                          expires |-> page.expires]
       ELSE cursor' = NoCursor /\ UNCHANGED served
    /\ UNCHANGED <<now, last, processor, wal, registry, admin, store, approved, query>>

CutoverNext ==
    \/ Tick
    \/ \E g \in Generations : StartProcessor(g) \/ Rebuild(g) \/ Promote(g) \/ Retire(g)
                              \/ GcDryRun(g) \/ Delete(g)
    \/ StopProcessor \/ Ingest \/ Dispose \/ Publish
    \/ \E s \in switches : Resume(s) \/ Rollback(s)
    \/ PublishDrained \/ PublishActivated \/ Rename \/ Commit \/ PublishRetired \/ EndCommand
    \/ RestartQuery \/ FirstPage \/ NextPage \/ ReadRows \/ AnswerPage

CutoverSpec == CutoverInit /\ [][CutoverNext]_cutoverVars
----------------------------------------------------------------------------
(* A page that is answered was read from data that was there: what a cursor *)
(* or a new page can reach is never deleted under it, however retirement,   *)
(* deletion, restarts and the steps of the read interleave.                 *)
PagesAreBacked == served.backed

NoSwitchWaits == \A s \in switches : s.status = "committed" \/ registry # Previous(s)

(* When the registry moves to a generation, by a promotion, a rollback or   *)
(* the resumption of an interrupted one, that generation has everything a   *)
(* first page ever showed: if an interrupted switch is resumed, as          *)
(* GENERATION.md says, before another one is started in its place.          *)
SwitchesDoNotOverlap == \A s, x \in switches : s.revision = x.revision => s = x
KeepsWhatWasShown ==
    SwitchesDoNotOverlap /\ registry' # registry
        => through[registry'.active] >= served.boundary
CutoverLosesNothing == [][KeepsWhatWasShown]_cutoverVars

(* While no switch waits to be resumed, the generation the registry names   *)
(* is active: a restarted Query API finds a generation that may serve.      *)
RegistryNamesActive == NoSwitchWaits => life[registry.active] = "active"

(* A reader is served by an active generation and from data that is there.  *)
ReadersAreServed == TypeOK /\ PagesAreBacked /\ RegistryNamesActive
============================================================================
