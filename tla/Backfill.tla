------------------------------ MODULE Backfill ------------------------------
(* The import of a v0.1 landing table (replay/backfill.ts): an export in    *)
(* keyset pages to a file, a manifest of it, and a run that validates every *)
(* line, appends the valid ones to a WAL of its own, keeps the invalid ones *)
(* as evidence, and replays the WAL. The process may end between any two    *)
(* steps and is started again; an operator edits the mapping file, changes  *)
(* the job with the replay command line, and may be wrong in saying that    *)
(* the table is sealed.                                                     *)
(*                                                                          *)
(* A row is its place in the order of (record_id, record_hash). The replay  *)
(* job itself, its batches and its pin are module ReplayJob; here an entry  *)
(* is a step. Its mapping is stored with a row, and says together with the  *)
(* scope of the replay and the routes of the targets whether the row is     *)
(* replayed at all.                                                         *)
EXTENDS Naturals, Sequences, FiniteSets, FiniteSetsExt

CONSTANTS
    Rows,       \* row -> its id, and the mapping versions under which it is
                \* valid, and selected by the scope and routes of the replay
    PageSize,
    Mappings,   \* versions of the source mapping file
    Unmade,
    MaxMishaps  \* failures of the process, edits and unsealed inserts

\* What a WAL is bound to, and a replay job: neither of them is Unmade.
Inputs  == [rows : SUBSET DOMAIN Rows, mapping : Mappings]
Replays == [through : Nat, after : Nat, projected : SUBSET DOMAIN Rows, quarantined : Nat,
            status : {"planned", "running", "paused", "completed", "failed", "cancelled"}]

ASSUME BackfillAssumption ==
    /\ DOMAIN Rows \subseteq Nat /\ IsFiniteSet(DOMAIN Rows)
    /\ Unmade \notin Inputs /\ Unmade \notin Replays

VARIABLES
    table,      \* the rows of the legacy table
    sealed,     \* those it had when the export that the manifest is of ended
    file,       \* the export file
    manifest,   \* the rows of the file it was written for, or Unmade
    mapping,    \* the source mapping file
    process,    \* what the command is doing
    bound,      \* backfill/manifestId of the WAL: manifest and mapping
    imported,   \* the rows accepted in the WAL
    unselected, \* those of them whose mapping is outside the scope or routes
    evidence,   \* backfill:invalid
    replay,     \* the replay job of the WAL
    report,     \* backfill/report
    mishaps

backfillVars == <<table, sealed, file, manifest, mapping, process, bound,
                  imported, unselected, evidence, replay, report, mishaps>>
source == <<table, sealed, file, manifest, mapping>>
walState == <<bound, imported, unselected, evidence, replay, report>>

NoProcess == [at |-> "idle"]

BackfillInit ==
    /\ table \in SUBSET DOMAIN Rows
    /\ sealed = {} /\ file = {} /\ manifest = Unmade
    /\ mapping \in Mappings
    /\ process = NoProcess
    /\ bound = Unmade /\ imported = <<>> /\ unselected = {} /\ evidence = {}
    /\ replay = Unmade /\ report = "none"
    /\ mishaps = 0

Mishap == mishaps < MaxMishaps /\ mishaps' = mishaps + 1

----------------------------------------------------------------------------
(* The operator, and failures.                                              *)
Insert(row) ==
    /\ row \notin table /\ Mishap
    /\ table' = table \cup {row}
    /\ UNCHANGED <<sealed, file, manifest, mapping, process, walState>>

EditMapping ==
    /\ Mishap
    /\ mapping' \in Mappings \ {mapping}
    /\ UNCHANGED <<table, sealed, file, manifest, process, walState>>

\* A crash, or an error that ends the command.
Fail ==
    /\ process # NoProcess /\ Mishap
    /\ process' = NoProcess
    /\ UNCHANGED <<source, walState>>

\* The replay command line, which needs the WAL directory for itself.
Administer(status) ==
    /\ process = NoProcess /\ replay # Unmade /\ Mishap
    /\ \/ status = "paused" /\ replay.status = "running"
       \/ status = "cancelled" /\ replay.status \in {"planned", "running", "paused", "failed"}
    /\ replay' = [replay EXCEPT !.status = status]
    /\ UNCHANGED <<source, process, bound, imported, unselected, evidence, report>>

----------------------------------------------------------------------------
(* exportBackfill                                                           *)
StartExport ==
    /\ process = NoProcess
    /\ process' = [at |-> "export", planned |-> Cardinality(table), rows |-> {}, after |-> 0]
    /\ UNCHANGED <<source, walState, mishaps>>

\* The next rows of the table in its order, at most a page of them.
PageOf(after) ==
    LET rest == {row \in table : row > after}
    IN {row \in rest : Cardinality({q \in rest : q <= row}) <= PageSize}

\* A page that is not full is the last.
ExportPage ==
    /\ process.at = "export"
    /\ LET page == PageOf(process.after)
       IN process' = [process EXCEPT
              !.rows = @ \cup page,
              !.after = IF page = {} THEN @ ELSE Max(page),
              !.at = IF Cardinality(page) < PageSize THEN "exported" ELSE @]
    /\ UNCHANGED <<source, walState, mishaps>>

CountsAgree ==
    /\ Cardinality(table) = process.planned
    /\ Cardinality(process.rows) = process.planned

\* BACKFILL_SOURCE_CHANGED_OR_DUPLICATE_IDENTITY, or the file takes its place;
\* what it replaces may have a manifest.
MoveExport ==
    /\ process.at = "exported"
    /\ IF CountsAgree
       THEN /\ file' = process.rows
            /\ process' = [process EXCEPT !.at = "moved"]
            /\ sealed' = table
       ELSE process' = NoProcess /\ UNCHANGED <<file, sealed>>
    /\ UNCHANGED <<table, manifest, mapping, walState, mishaps>>

WriteManifest ==
    /\ process.at = "moved"
    /\ manifest' = file
    /\ process' = NoProcess
    /\ UNCHANGED <<table, sealed, file, mapping, walState, mishaps>>

----------------------------------------------------------------------------
(* runBackfill                                                              *)
\* BACKFILL_MANIFEST_MISMATCH, BACKFILL_WAL_INPUT_MISMATCH
StartRun ==
    /\ process = NoProcess /\ manifest # Unmade /\ manifest = file
    /\ bound \in {Unmade, [rows |-> manifest, mapping |-> mapping]}
    /\ bound' = [rows |-> manifest, mapping |-> mapping]
    /\ process' = [at |-> "bound", todo |-> file, invalid |-> {}, mapping |-> Unmade]
    /\ UNCHANGED <<source, imported, unselected, evidence, replay, report, mishaps>>

\* The mapping file is read again, to be used.
LoadMapping ==
    /\ process.at = "bound"
    /\ process' = [process EXCEPT !.at = "import", !.mapping = mapping]
    /\ UNCHANGED <<source, walState, mishaps>>

Logged == {imported[k] : k \in 1..Len(imported)}

\* classify of the WAL: another row may have the id.
ClassifiedAs(row) ==
    IF row \in Logged THEN "duplicate"
    ELSE IF \E q \in Logged : Rows[q].id = Rows[row].id THEN "conflict" ELSE "new"

\* The next line of the file. A conflict ends the run, and so does any error
\* of the WAL (Fail).
ImportRow ==
    /\ process.at = "import" /\ process.todo # {}
    /\ LET row == Min(process.todo)
           valid == process.mapping \in Rows[row].valid
       IN /\ process' = IF valid /\ ClassifiedAs(row) = "conflict" THEN NoProcess
                        ELSE [process EXCEPT !.todo = @ \ {row},
                                 !.invalid = IF valid THEN @ ELSE @ \cup {row}]
          /\ imported' = IF valid /\ ClassifiedAs(row) = "new" THEN Append(imported, row) ELSE imported
          /\ unselected' = IF /\ valid /\ ClassifiedAs(row) = "new"
                              /\ process.mapping \notin Rows[row].selected
                           THEN unselected \cup {row} ELSE unselected
          /\ evidence' = IF valid THEN evidence ELSE evidence \cup {row}
    /\ UNCHANGED <<source, bound, replay, report, mishaps>>

FirstReport(invalid) == IF invalid # {} THEN "partial" ELSE "validated"

\* Mutant: an entry that is quarantined does not count.
LastReportOfInvalid(invalid, job) ==
    IF job.status = "failed" THEN "failed"
    ELSE IF invalid # {} THEN "partial" ELSE "completed"
\* Entries that were not routed leave it "completed".
LastReport(invalid, job) ==
    IF job.status = "failed" THEN "failed"
    ELSE IF invalid # {} \/ job.quarantined > 0 THEN "partial" ELSE "completed"

SameRange == replay = Unmade \/ replay.through = Len(imported)

\* Everything is imported: the report is stored and the job, which is the same
\* one for every run, is made; it refuses another range than it was made for
\* (REPLAY_IDEMPOTENCY_CONFLICT). No row is valid: the end.
CreateJob ==
    /\ process.at = "import" /\ process.todo = {}
    /\ IF imported = <<>>
       THEN /\ report' = IF process.invalid # {} THEN "partial" ELSE "completed"
            /\ process' = NoProcess /\ UNCHANGED replay
       ELSE /\ report' = FirstReport(process.invalid)
            /\ IF replay = Unmade
               THEN replay' = [through |-> Len(imported), after |-> 0, projected |-> {},
                               quarantined |-> 0, status |-> "planned"]
               ELSE UNCHANGED replay
            /\ process' = IF SameRange THEN [process EXCEPT !.at = "job"] ELSE NoProcess
    /\ UNCHANGED <<source, bound, imported, unselected, evidence, mishaps>>

\* The executor is set up, and the job started or resumed.
StartReplay ==
    /\ process.at = "job"
    /\ replay' = IF replay.status \in {"planned", "paused", "failed"}
              THEN [replay EXCEPT !.status = "running"] ELSE replay
    /\ process' = [process EXCEPT !.at = "replay"]
    /\ UNCHANGED <<source, bound, imported, unselected, evidence, report, mishaps>>

Replaying == process.at = "replay" /\ replay.status = "running"

\* The next entry is not routed, or projected, or quarantined by some target.
ReplayEntry ==
    /\ Replaying
    /\ LET row == imported[replay.after + 1]
           next == [replay EXCEPT !.after = @ + 1,
                       !.status = IF replay.after + 1 = replay.through THEN "completed" ELSE @]
       IN IF row \in unselected THEN replay' = next
          ELSE \/ replay' = [next EXCEPT !.projected = @ \cup {row}]
               \/ replay' = [next EXCEPT !.quarantined = @ + 1]
    /\ UNCHANGED <<source, process, bound, imported, unselected, evidence, report, mishaps>>

\* An error of the executor.
ReplayFails ==
    /\ Replaying /\ Mishap
    /\ replay' = [replay EXCEPT !.status = "failed"]
    /\ UNCHANGED <<source, process, bound, imported, unselected, evidence, report>>

EndRun ==
    /\ process.at = "replay" /\ replay.status # "running"
    /\ report' = LastReport(process.invalid, replay)
    /\ process' = NoProcess
    /\ UNCHANGED <<source, bound, imported, unselected, evidence, replay, mishaps>>

BackfillNext ==
    \/ \E row \in DOMAIN Rows : Insert(row)
    \/ EditMapping \/ Fail
    \/ \E status \in {"paused", "cancelled"} : Administer(status)
    \/ StartExport \/ ExportPage \/ MoveExport \/ WriteManifest
    \/ StartRun \/ LoadMapping \/ ImportRow \/ CreateJob \/ StartReplay \/ ReplayEntry \/ ReplayFails \/ EndRun

BackfillSpec == BackfillInit /\ [][BackfillNext]_backfillVars
----------------------------------------------------------------------------
\* The rows whose outputs the replay has published.
Projected == IF replay = Unmade THEN {} ELSE replay.projected

(* A backfill is reported "completed" only when the whole table is in the   *)
(* WAL, each row once, and the job has been through all of it and projected *)
(* exactly the rows that its scope and the routes of its targets select:    *)
(* none of those is quarantined, and the others are passed over in silence. *)
(* A job that an operator cancelled is excepted. While there is a manifest  *)
(* of the file, it is of every row that the table had when the export ended.*)
BackfillIsWhole ==
    /\ manifest # Unmade /\ manifest = file => file = sealed
    /\ report = "completed" /\ (replay # Unmade => replay.status # "cancelled") =>
        /\ Logged = bound.rows /\ Len(imported) = Cardinality(bound.rows)
        /\ Projected = Logged \ unselected
        /\ replay # Unmade => replay.status = "completed" /\ replay.through = Len(imported)
============================================================================
