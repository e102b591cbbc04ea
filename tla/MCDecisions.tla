---------------------------- MODULE MCDecisions ----------------------------
(***************************************************************************)
(* One run for the components whose properties are safety properties of a  *)
(* single component.  A behaviour follows one of them, its subject; the    *)
(* others rest in an initial state.                                        *)
(***************************************************************************)
EXTENDS Ingestion, GenerationCutover, FreeSpace, ReplaySetup, ProviderOps, CurrentAuthority,
        Deployment, ComposeConfig, Migration, QueryReadiness, DiagnosticQuery, Backfill

VARIABLE subject

----------------------------------------------------------------------------
\* Ingestion: records of one execution that collide in every way, in batches.
R(id, hash, revision, terminal, sequence) ==
    [ingress |-> "trusted", valid |-> TRUE, id |-> id, hash |-> hash, identity |-> "e",
     revision |-> revision, terminal |-> terminal, sequence |-> sequence]
MCRecords ==
    [a  |-> R("a", 1, 1, None, 1),
     b  |-> R("a", 2, None, None, 2),     \* the id of a again
     c  |-> R("c", 3, 1, "failed", 3),    \* the revision of a
     d  |-> R("d", 4, 2, "succeeded", 3),
     e  |-> R("e", 5, None, "failed", 2),
     f  |-> [R("f", 6, None, None, None) EXCEPT !.valid = FALSE],
     g  |-> [R("g", 7, None, None, None) EXCEPT !.ingress = "untrusted"],
     h  |-> R("h", 8, 3, None, 2)]
MCBatches == [x |-> <<"a", "d">>, y |-> <<"f", "e", "b">>, z |-> <<"c", "g">>]

\* ProviderOps: one shared target.
MCTargets == [s |-> "shared"]

\* Migration: releases that follow each other, and two with an edited file.
Statement(kind, object, columns, engine) ==
    [kind |-> kind, object |-> object, columns |-> columns, engine |-> engine]
Base == [name |-> "001", hash |-> "a", statements |->
    <<Statement("create", "fact", [id |-> "String", quality |-> "Bool"], "MergeTree"),
      Statement("newview", "current", [id |-> "String"], "")>>]
Added == [name |-> "002", hash |-> "b", statements |->
    <<Statement("column", "fact", [projected |-> "DateTime"], ""),
      Statement("view", "current", [id |-> "String", projected |-> "DateTime"], "")>>]
Edited == [name |-> "002", hash |-> "c", statements |->
    <<Statement("column", "fact", [projected |-> "String"], "")>>]
Rebased == [name |-> "001", hash |-> "d", statements |->
    <<Statement("create", "fact", [id |-> "UInt64", quality |-> "Bool"], "MergeTree")>>]
MCReleases == [old |-> <<Base>>, new |-> <<Base, Added>>, edited |-> <<Base, Edited>>,
               rebased |-> <<Rebased, Added>>]

\* The catalogue before the first run: empty, or with a "fact" or a "current" of
\* a shape.
Landed(type) == [columns |-> [id |-> type, quality |-> "UInt8"], engine |-> "MergeTree"]
MCTables == {[o \in {} |-> Landed("String")], [fact |-> Landed("String")], [fact |-> Landed("UInt64")],
             [current |-> Landed("UInt64")]}

\* ReplaySetup: two jobs for one target, which an alias leads to a live one.
MCJobs == [a |-> [generation |-> "g", targets |-> {"t"}],
           b |-> [generation |-> "g", targets |-> {"t"}]]
At(e) == [endpoint |-> e, generation |-> "g"]
MCTargetFiles == {[t |-> At("isolated")], [t |-> At("alias")]}
MCLiveFiles == {[l |-> At("live")], [l |-> At("other")]}
MCInstances == [live |-> "i1", alias |-> "i1", isolated |-> "i2", other |-> "i3"]

\* QueryReadiness, DiagnosticQuery and Backfill.
MCStores == {"standalone", "authority"}

Row(time, key, id) == [time |-> time, key |-> key, id |-> id]
MCRows == {Row(0, 0, 1), Row(0, 2, 1), Row(1, 1, 1), Row(1, 1, 2), Row(2, 1, 1)}

Legacy(id, valid, selected) == [id |-> id, valid |-> valid, selected |-> selected]
MCLegacyRows == <<Legacy(1, {1, 2}, {1, 2}), Legacy(2, {2}, {2}),
                  Legacy(1, {1}, {1}), Legacy(4, {1, 2}, {2})>>

----------------------------------------------------------------------------
OneOf(S) == CHOOSE x \in S : TRUE

Subjects == {"ingestion", "cutover", "space", "setup", "records", "authority", "deployment",
             "configuration", "migration", "readiness", "diagnostics", "backfill"}

\* There is no record to be sent while ProviderOps rests: with one, every state
\* of the others would carry its forty fields twice.
NoRecord ==
    /\ signed = Missing /\ wire = Missing /\ fieldEdits = 0 /\ recordStage = "composing"
    /\ logEntry = NothingLogged
    /\ disposition = [t \in DOMAIN Targets |-> "pending"]
    /\ written = [t \in DOMAIN Targets |-> {}]

\* Nor is there a setting while ComposeConfig rests.
NoConfiguration ==
    /\ setting = Missing /\ configEdits = 0 /\ configStage = "editing"
    /\ ownTargets = {} /\ ownMappings = {} /\ delivered = <<>>

MCInit ==
    /\ subject \in Subjects
    /\ Init /\ CutoverInit /\ AuthorityInit
    /\ SpaceInit
    /\ subject # "space" => free = Capacity /\ archiveFree
    /\ SetupInit
    /\ subject # "setup" => targetFile = OneOf(TargetFiles) /\ liveFile = OneOf(LiveFiles)
    /\ IF subject = "records" THEN RecordInit ELSE NoRecord
    /\ DeploymentInit
    /\ subject # "deployment" =>
          release = 1 /\ legacy = {} /\ env = [e \in EnvFiles |-> OneOf(Projects)]
    /\ IF subject = "configuration" THEN ConfigInit ELSE NoConfiguration
    /\ MigrationInit
    /\ subject # "migration" => tables = OneOf(Tables)
    /\ ReadinessInit
    /\ subject # "readiness" => condition = [s \in Stores |-> "up"]
    /\ DiagnosticsInit
    /\ subject # "diagnostics" => inserted = {} /\ limit = OneOf(Limits)
    /\ BackfillInit
    /\ subject # "backfill" => table = {} /\ mapping = OneOf(Mappings)

\* The subject takes a step, and no other component does.
MCNext ==
    /\ UNCHANGED subject
    /\ subject # "ingestion" => UNCHANGED vars
    /\ subject # "cutover" => UNCHANGED cutoverVars
    /\ subject # "space" => UNCHANGED spaceVars
    /\ subject # "setup" => UNCHANGED setupVars
    /\ subject # "records" => UNCHANGED recordVars
    /\ subject # "authority" => UNCHANGED authorityVars
    /\ subject # "deployment" => UNCHANGED deploymentVars
    /\ subject # "configuration" => UNCHANGED configVars
    /\ subject # "migration" => UNCHANGED migrationVars
    /\ subject # "readiness" => UNCHANGED readinessVars
    /\ subject # "diagnostics" => UNCHANGED diagnosticsVars
    /\ subject # "backfill" => UNCHANGED backfillVars
    /\ \/ subject = "ingestion" /\ Next
       \/ subject = "cutover" /\ CutoverNext
       \/ subject = "space" /\ SpaceNext
       \/ subject = "setup" /\ SetupNext
       \/ subject = "records" /\ RecordNext
       \/ subject = "authority" /\ AuthorityNext
       \/ subject = "deployment" /\ DeploymentNext
       \/ subject = "configuration" /\ ConfigNext
       \/ subject = "migration" /\ MigrationNext
       \/ subject = "readiness" /\ ReadinessNext
       \/ subject = "diagnostics" /\ DiagnosticsNext
       \/ subject = "backfill" /\ BackfillNext

MCSpec ==
    MCInit /\ [][MCNext]_<<subject, vars, cutoverVars, spaceVars, setupVars, recordVars,
                          authorityVars, deploymentVars, configVars, migrationVars,
                          readinessVars, diagnosticsVars, backfillVars>>
============================================================================
