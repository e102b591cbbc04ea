----------------------------- MODULE Migration -----------------------------
(* The migration of the bundled ClickHouse store (telemetry-schema/tools/   *)
(* migrate.ts, migration-schema.ts): under a lock of the host, the ledger   *)
(* is compared with the files of the release, each file that is not         *)
(* completed is recorded as started, executed statement by statement,       *)
(* verified against the catalogue and recorded as completed. ClickHouse has *)
(* no transactional DDL: any request may fail having taken effect or not,   *)
(* and the command may die between two of them.                             *)
EXTENDS Naturals, Sequences, FiniteSets

CONSTANTS
    Migrators,  \* commands that may run at the same time
    Releases,   \* sequences of files: name, hash and statements
    Tables      \* the catalogues a migration may find: object -> shape

VARIABLES
    tables,   \* object -> columns with their types, and engine
    ledger,   \* the events: name, hash and status (a repeated one tells nothing)
    holder,   \* the migrators that hold the lock
    migrator  \* migrator -> what its command is doing

migrationVars == <<tables, ledger, holder, migrator>>

Off == [step |-> "off"]

MigrationInit ==
    /\ tables \in Tables
    /\ ledger = {}
    /\ holder = {}
    /\ migrator = [m \in Migrators |-> Off]

----------------------------------------------------------------------------
(* migration-schema.ts                                                      *)
\* Bool is an alias that the catalogue may return for UInt8.
NormalizedType(type) == IF type = "Bool" THEN "UInt8" ELSE type

(* What the theorems take for granted of the releases: a hash tells         *)
(* contents apart, no two files of a release have a name in common          *)
(* (loadMigrations), no release puts a new file before one of another's,    *)
(* though it may edit any, a table says what engine it has, and later files *)
(* are additive (migration-schema.ts:69): a view keeps the columns it       *)
(* replaces.                                                                *)
Files == UNION {{Releases[r][i] : i \in DOMAIN Releases[r]} : r \in DOMAIN Releases}
Declared(f) == {f.statements[k] : k \in DOMAIN f.statements}

Keeps(later, earlier) ==
    later.kind = "view" /\ later.object = earlier.object =>
        /\ earlier.kind # "create"
        /\ \A c \in DOMAIN earlier.columns :
               /\ c \in DOMAIN later.columns
               /\ NormalizedType(later.columns[c]) = NormalizedType(earlier.columns[c])

ASSUME MigrationAssumption ==
    /\ \A r \in DOMAIN Releases : Releases[r] \in Seq(Files)
    /\ \A f \in Files : f.statements \in Seq(Declared(f))
    /\ \A f, g \in Files : f.name = g.name /\ f.hash = g.hash => f = g
    /\ \A r \in DOMAIN Releases : \A i, k \in DOMAIN Releases[r] :
           Releases[r][i].name = Releases[r][k].name => i = k
    /\ \A r \in DOMAIN Releases : \A i, k \in DOMAIN Releases[r] : k < i =>
           \A later \in Declared(Releases[r][i]), earlier \in Declared(Releases[r][k]) :
               Keeps(later, earlier)
    /\ \A r, q \in DOMAIN Releases : \A i \in DOMAIN Releases[r], j \in DOMAIN Releases[q] :
           Releases[r][i].name = Releases[q][j].name =>
               i = j /\ \A k \in 1..i : Releases[r][k].name = Releases[q][k].name
    /\ \A f \in Files : \A s \in Declared(f) : s.kind = "create" => s.engine # ""
    /\ \A catalogue \in Tables : \A o \in DOMAIN catalogue :
           {"columns", "engine"} \subseteq DOMAIN catalogue[o]

\* Only statements that can be repeated are accepted.
\* A view is created if it is not there ("newview", also a materialized one) or
\* replaced ("view").
RetrySafe(statement) == statement.kind \in {"create", "column", "newview", "view"}

Loadable(files) ==
    \A i \in DOMAIN files :
        /\ files[i].statements # <<>>
        /\ \A k \in DOMAIN files[i].statements : RetrySafe(files[i].statements[k])

Has(object, columns, engine) ==
    /\ object \in DOMAIN tables
    /\ \A c \in DOMAIN columns :
           /\ c \in DOMAIN tables[object].columns
           /\ NormalizedType(tables[object].columns[c]) = NormalizedType(columns[c])
    /\ engine # "" => tables[object].engine = engine

\* Mutant: CREATE ... IF NOT EXISTS went through, and that is taken as proof.
SchemaExists(statements) ==
    \A k \in DOMAIN statements : statements[k].object \in DOMAIN tables
\* assertMigrationSchema: what the statements declare is in the catalogue.
SchemaHolds(statements) ==
    \A k \in DOMAIN statements :
        Has(statements[k].object, statements[k].columns, statements[k].engine)

Created(object, shape) ==
    [o \in DOMAIN tables \cup {object} |-> IF o = object THEN shape ELSE tables[o]]
Joined(columns, added) ==
    [c \in DOMAIN columns \cup DOMAIN added |->
        IF c \in DOMAIN columns THEN columns[c] ELSE added[c]]

\* What ClickHouse does with a statement.
Executed(s) ==
    CASE s.kind \in {"create", "newview"} ->
             IF s.object \in DOMAIN tables THEN tables
             ELSE Created(s.object, [columns |-> s.columns,
                              engine |-> IF s.kind = "create" THEN s.engine ELSE "View"])
      [] s.kind = "view"   -> Created(s.object, [columns |-> s.columns, engine |-> "View"])
      [] s.kind = "column" -> [tables EXCEPT ![s.object].columns = Joined(@, s.columns)]

Executable(s) == s.kind = "column" => s.object \in DOMAIN tables
----------------------------------------------------------------------------
(* migrate.ts                                                               *)
Set(m, step) == migrator' = [migrator EXCEPT ![m] = [@ EXCEPT !.step = step]]

Unlocked == holder = {}

\* acquireMigrationLock, then loadMigrations of the release.
Acquire(m, r) ==
    /\ migrator[m] = Off
    /\ Unlocked /\ Loadable(Releases[r])
    /\ holder' = holder \cup {m}
    /\ migrator' = [migrator EXCEPT ![m] = [step |-> "history", files |-> Releases[r],
                        completed |-> {}, file |-> 1, statement |-> 1]]
    /\ UNCHANGED <<tables, ledger>>

Unlock(m) == holder' = holder \ {m} /\ migrator' = [migrator EXCEPT ![m] = Off]

\* An event of the ledger belongs to a file of the release, unchanged.
AgreesWith(files, event) ==
    \E i \in DOMAIN files : files[i].name = event.name /\ files[i].hash = event.hash

ReadHistory(m) ==
    /\ migrator[m].step = "history"
    /\ IF \A event \in ledger : AgreesWith(migrator[m].files, event)
       THEN /\ migrator' = [migrator EXCEPT ![m] = [@ EXCEPT !.step = "next",
                   !.completed = {e.name : e \in {e \in ledger : e.status = "completed"}}]]
            /\ UNCHANGED holder
       ELSE Unlock(m)
    /\ UNCHANGED <<tables, ledger>>

File(m) == migrator[m].files[migrator[m].file]

Done(m) == migrator[m].file > Len(migrator[m].files)

\* A file that was completed is verified again and skipped.
Skip(m) ==
    /\ migrator[m].step = "next" /\ ~Done(m) /\ File(m).name \in migrator[m].completed
    /\ IF SchemaHolds(File(m).statements)
       THEN /\ migrator' = [migrator EXCEPT ![m].file = @ + 1] /\ UNCHANGED holder
       ELSE Unlock(m)
    /\ UNCHANGED <<tables, ledger>>

Event(m, status) == [name |-> File(m).name, hash |-> File(m).hash, status |-> status]

\* An insert into the ledger: it fails, or its answer is lost, or neither.
Record(m, status) == ledger' \in {ledger, ledger \cup {Event(m, status)}}

StartFile(m) ==
    /\ migrator[m].step = "next" /\ ~Done(m) /\ File(m).name \notin migrator[m].completed
    /\ \/ /\ ledger' = ledger \cup {Event(m, "started")}
          /\ migrator' = [migrator EXCEPT ![m] = [@ EXCEPT !.step = "execute", !.statement = 1]]
          /\ UNCHANGED holder
       \/ Record(m, "started") /\ Unlock(m)
    /\ UNCHANGED tables

Execute(m) ==
    LET statements == File(m).statements
        k == migrator[m].statement
    IN
    /\ migrator[m].step = "execute" /\ k <= Len(statements)
    /\ IF ~Executable(statements[k]) THEN Set(m, "failing") /\ UNCHANGED tables
       ELSE \/ /\ tables' = Executed(statements[k])
               /\ migrator' = [migrator EXCEPT ![m].statement = k + 1]
            \/ /\ tables' \in {tables, Executed(statements[k])}
               /\ Set(m, "failing")
    /\ UNCHANGED <<ledger, holder>>

Verify(m) ==
    /\ migrator[m].step = "execute" /\ migrator[m].statement > Len(File(m).statements)
    /\ Set(m, IF SchemaHolds(File(m).statements) THEN "verified" ELSE "failing")
    /\ UNCHANGED <<tables, ledger, holder>>

Complete(m) ==
    /\ migrator[m].step = "verified"
    /\ \/ /\ ledger' = ledger \cup {Event(m, "completed")}
          /\ migrator' = [migrator EXCEPT ![m] =
                 [@ EXCEPT !.step = "next", !.file = migrator[m].file + 1]]
       \/ Record(m, "completed") /\ Set(m, "failing")
    /\ UNCHANGED <<tables, holder>>

\* The failure is recorded if it can be, and the command ends.
FailMigration(m) ==
    /\ migrator[m].step = "failing"
    /\ Record(m, "failed") /\ Unlock(m)
    /\ UNCHANGED tables

End(m) ==
    /\ migrator[m].step = "next" /\ Done(m)
    /\ Unlock(m)
    /\ UNCHANGED <<tables, ledger>>

\* The process dies and the operating system takes its lock.
Die(m) ==
    /\ migrator[m] # Off
    /\ Unlock(m)
    /\ UNCHANGED <<tables, ledger>>

MigrationNext ==
    \E m \in Migrators :
        \/ \E r \in DOMAIN Releases : Acquire(m, r)
        \/ ReadHistory(m) \/ Skip(m) \/ StartFile(m) \/ Execute(m) \/ Verify(m) \/ Complete(m)
        \/ FailMigration(m) \/ End(m) \/ Die(m)

MigrationSpec == MigrationInit /\ [][MigrationNext]_migrationVars
----------------------------------------------------------------------------
\* The file of an event, in whichever release has it.
FileOf(event) ==
    CHOOSE f \in Files : f.name = event.name /\ f.hash = event.hash

\* Every column is there, as it was declared or under its alias.
InForce(statement) ==
    /\ statement.object \in DOMAIN tables
    /\ \A c \in DOMAIN statement.columns : \E d \in DOMAIN tables[statement.object].columns :
           /\ d = c
           /\ \/ tables[statement.object].columns[d] = statement.columns[c]
              \/ {tables[statement.object].columns[d], statement.columns[c]} = {"Bool", "UInt8"}
    /\ statement.kind = "create" => tables[statement.object].engine = statement.engine

(* The ledger can be believed: a file that is completed in it has its       *)
(* columns, types and engines in the store, also where it found a table of  *)
(* that name, and a file that was ever begun has one content, whoever runs  *)
(* which release after which interruption ("IF NOT EXISTS alone is never    *)
(* proof", migration-schema.ts:69).                                         *)
LedgerIsTrue ==
    /\ \A e \in ledger : e.status = "completed" =>
           \A k \in DOMAIN FileOf(e).statements : InForce(FileOf(e).statements[k])
    /\ \A e, f \in ledger : e.name = f.name => e.hash = f.hash
============================================================================
