---------------------------- MODULE ProviderOps ----------------------------
(* The way of one SMPP record from its producer to the rows of the targets: *)
(* it is signed, may lose its nulls or change on the OTLP transport, is     *)
(* restored, validated, mapped and written to the log as accepted or        *)
(* rejected (apps/processor.ts), and is then normalised and projected, or   *)
(* quarantined, at each target (exporters/target-manager.ts).               *)
EXTENDS Naturals, FiniteSets, ProviderRecords

CONSTANTS
    Targets,      \* target name -> its type: "diagnostic" or "shared"
    MaxFieldEdits \* how many fields of a valid sample the producer or the
                  \* transport may change

VARIABLES
    signed,      \* the envelope as the producer hashed it
    wire,        \* the envelope as it arrives
    fieldEdits,  \* number of changed fields
    recordStage, \* "composing", "sent", then the status collect answers
    logEntry,    \* what the log keeps: kind and envelope
    disposition, \* target -> "pending", "projected", "quarantined", "not-routed", "failing"
    written      \* target -> relations written for the record

recordVars == <<signed, wire, fieldEdits, recordStage, logEntry, disposition, written>>

----------------------------------------------------------------------------
(* canonical.ts: the hash proves the fields it covers.                      *)
MatchesHash(e) == \A f \in Hashed : e[f] = signed[f]

Lost(v) == v \in {Missing, Empty}

\* Mutant: the mission id of an unresolved relation is not restored.
NullableOfTaskOnly(e) ==
    (IF e.type = "task" THEN {"reasonCode", "currentSubstate"} ELSE {})
    \cup (IF /\ e.semantic = "reconciliation" /\ e.schema = "reconciliation"
             /\ e.status # "found"
          THEN {"payloadExecutionId"} ELSE {})
\* The payload fields that may be null in an envelope of this family.
NullableFields(e) ==
    NullableOfTaskOnly(e)
    \cup (IF e.fact = "mission_relation" /\ e.mission # "exact"
          THEN {"payloadMissionId"} ELSE {})

\* An empty or missing nullable field is made null again, and the result kept
\* only when the hash the producer signed proves it.
Restored(e) ==
    LET candidate == [f \in Fields |-> IF f \in NullableFields(e) /\ Lost(e[f])
                                       THEN Null ELSE e[f]]
    IN IF ~MatchesHash(e) /\ MatchesHash(candidate) THEN candidate ELSE e
----------------------------------------------------------------------------
(* smpp-runtime-semantics.ts                                                *)
IsGiven(v) == v \notin {Missing, Null}
Text(v)  == v \notin {Missing, Null, Empty}
ShortText(v) == Text(v) /\ v # "long"
OptionalShort(v) == IsGiven(v) => ShortText(v)

CommittedRuntime(e) == e.source = "committed_postgres" /\ e.instance = "authority"

CommonTaskIdentity(e) == ShortText(e.taskId) /\ e.echo # "differs"

ExternalExecutionIdentity(e, required) ==
    /\ OptionalShort(e.executionId) /\ OptionalShort(e.payloadExecutionId)
    /\ IsGiven(e.executionId) /\ IsGiven(e.payloadExecutionId)
           => e.executionId = e.payloadExecutionId
    /\ required => IsGiven(e.executionId) \/ IsGiven(e.payloadExecutionId)

IsUncertainty(e)      == "uncertainty" \in {e.semantic, e.schema}
IsReconciliation(e)   == "reconciliation" \in {e.semantic, e.schema}
IsBusinessTerminal(e) == e.business # Missing \/ e.isError # Missing

Uncertainty(e) ==
    /\ e.semantic = "uncertainty" /\ e.schema = "uncertainty"
    /\ e.type = "recovery" /\ CommittedRuntime(e) /\ CommonTaskIdentity(e)
    /\ e.echo = "same" /\ e.detail = "valid" /\ e.redispatch = "false"

Reconciliation(e) ==
    /\ e.semantic = "reconciliation" /\ e.schema = "reconciliation"
    /\ e.type = "recovery" /\ CommittedRuntime(e) /\ CommonTaskIdentity(e)
    /\ e.status # Missing /\ e.detail = "valid" /\ e.echo = "same"
    /\ ExternalExecutionIdentity(e, e.status = "found")
    /\ e.validated # Missing
    /\ e.status = "found" => e.validated = "true"

BusinessTerminal(e) ==
    /\ e.type = "task" /\ CommittedRuntime(e) /\ CommonTaskIdentity(e)
    /\ e.business # Missing /\ e.isError # Missing /\ e.detail = "valid"
    /\ (e.business = "failed") = (e.isError = "true")

Evidence(e) ==
    /\ ShortText(e.taskId) /\ ShortText(e.executionId) /\ ShortText(e.resourceId)
    /\ ShortText(e.provider) /\ ShortText(e.eventId) /\ e.sequence = "0"
    /\ OptionalShort(e.missionId)
    /\ IsGiven(e.missionId) => e.evidence = "mission"

MissionRelation(e) ==
    /\ e.fact = "mission_relation" /\ e.type = "progress"
    /\ ShortText(e.taskId) /\ ShortText(e.executionId)
    /\ e.mission # Missing /\ e.payloadMission = e.mission
    /\ OptionalShort(e.missionId) /\ OptionalShort(e.payloadMissionId)
    /\ IF IsGiven(e.missionId) THEN e.payloadMissionId = e.missionId
       ELSE ~IsGiven(e.payloadMissionId)
    /\ (e.mission = "exact") = IsGiven(e.missionId)
    /\ e.refs # Missing /\ e.payloadRefs = e.refs
    /\ e.mission = "exact" => e.refs = "some"
    /\ e.detail = "valid" /\ e.echo = "same"

\* Mutant: a committed record binds whatever it says of the execution.
ClosesIdentityAlways(e) ==
    CommittedRuntime(e) /\ Text(e.taskId) /\ Text(e.executionId)
\* A record of the committed runtime that names task and execution binds them,
\* unless it reports that the runtime does not know.
ClosesIdentity(e) ==
    /\ CommittedRuntime(e) /\ Text(e.taskId) /\ Text(e.executionId)
    /\ ~IsUncertainty(e)
    /\ ~(IsReconciliation(e) /\ e.status # "found")

\* inspectSmppRuntimeSemantic throws nothing.
InspectAccepts(e) ==
    /\ e.verdict = Missing
    /\ IsUncertainty(e)      => Uncertainty(e)
    /\ IsReconciliation(e)   => Reconciliation(e)
    /\ IsBusinessTerminal(e) => BusinessTerminal(e)
    /\ e.evidence # Missing   => Evidence(e)
    /\ e.fact # Missing       => MissionRelation(e)
    /\ ClosesIdentity(e)     => ShortText(e.taskId) /\ ShortText(e.executionId)

BindingSource(e) ==
    IF IsReconciliation(e) /\ e.status = "found" THEN "smpp_runtime_reconciliation_found"
    ELSE IF ClosesIdentity(e) THEN "smpp_runtime_committed_binding" ELSE "none"
----------------------------------------------------------------------------
(* provider-correlation-policy.ts and validation.ts                         *)
NormalizeCorrelation(e) ==
    /\ e.evaluationId = Missing /\ e.legacyOrigin = Missing
    /\ e.originTask # Missing => e.originSystem # Missing
    /\ e.originTask # Missing /\ e.originSystem = "sdar" => e.originDeployment # Missing
    /\ e.attempt # "bad"

ValidEnvelope(e) ==
    /\ e.envelope # "incomplete"
    /\ Text(e.provider) /\ Text(e.instance)
    /\ \A f \in {"taskId", "resourceId", "executionId", "commandId", "eventId"} :
           e[f] = Missing \/ Text(e[f])
    /\ e.sequence # "negative"
    /\ e.time = "ordered" /\ e.category = "expected"
    /\ e.type = "task"     => e.taskId # Missing
    /\ e.type = "command"  => e.commandId # Missing
    /\ e.type = "resource" => e.resourceId # Missing
    /\ e.type = "progress" => e.executionId # Missing
    /\ NormalizeCorrelation(e)
    /\ e.otlp = "same"
    /\ MatchesHash(e)
    /\ InspectAccepts(e)
    /\ e.envelope # "sensitive"

TrustedIngress(e) == e.ingress = "trusted"
----------------------------------------------------------------------------
(* smpp-provider-ops-v1.ts and urn.ts                                       *)
\* encodeEntityUrn refuses an identity of more than 512 characters or one with
\* a control character.
Encodable(v) == v \notin {"long", "control"}

EntityIds(e) ==
    {v \in {e.instance, e.provider, e.taskId, e.resourceId, e.executionId} : Text(v)}
    \cup (IF e.fact = "mission_relation" /\ e.mission = "exact" THEN {e.missionId} ELSE {})

OriginIds(e) == IF e.originSystem = "sdar" THEN {e.originTask} \ {Missing} ELSE {}

OriginRelations(e) == {[type |-> "invokes", basis |-> "provider_correlation_metadata"] :
                           id \in OriginIds(e)}

Relations(e) ==
    OriginRelations(e)
    \cup {[type |-> "task_execution_binding", basis |-> b] :
             b \in {BindingSource(e)} \
                     (IF Text(e.taskId) /\ Text(e.executionId) THEN {"none"}
                      ELSE {BindingSource(e)})}
    \cup {[type |-> "execution_mission_binding", basis |-> m] :
             m \in IF e.fact = "mission_relation" /\ e.mission = "exact"
                   THEN {"provider_authoritative_mission_identity"} ELSE {}}

(* sdar-shared-warehouse-projection.ts and provider-ops-payload-catalog.ts  *)
CatalogAccepts(e) ==
    /\ e.catalogued # "invalid"
    /\ e.type = "task"     => e.reasonCode # Empty
    /\ e.type = "recovery" => e.payloadExecutionId # Empty
    /\ e.type = "progress" => e.payloadMissionId \notin {Empty, "long"}

\* What preparing an accepted record throws: "record" is one of the errors
\* output-plan.ts lists as defects of the record, "unknown" any other.
PrepareError(e, t) ==
    IF ~NormalizeCorrelation(e) \/ ~InspectAccepts(e) THEN "record"
    ELSE IF \E v \in EntityIds(e) \cup OriginIds(e) : ~Encodable(v) THEN "unknown"
    ELSE IF e.originSystem = "sdar" /\ e.originDeployment = Missing THEN "unknown"
    ELSE IF Targets[t] = "shared" /\ ~CatalogAccepts(e) THEN "unknown"
    ELSE "none"
----------------------------------------------------------------------------
NothingLogged == [kind |-> "none"]

RecordInit ==
    /\ signed \in SampleRecords
    /\ wire = signed
    /\ fieldEdits = 0
    /\ recordStage = "composing"
    /\ logEntry = NothingLogged
    /\ disposition = [t \in DOMAIN Targets |-> "pending"]
    /\ written = [t \in DOMAIN Targets |-> {}]

\* The producer fills one field otherwise and signs the result.
Sign(f, v) ==
    /\ recordStage = "composing" /\ fieldEdits < MaxFieldEdits /\ signed[f] # v
    /\ signed' = [signed EXCEPT ![f] = v]
    /\ wire' = signed'
    /\ fieldEdits' = fieldEdits + 1
    /\ UNCHANGED <<recordStage, logEntry, disposition, written>>

\* OTLP has no null: the transport drops every null or makes it empty, or
\* keeps it (a JSON body).
SendRecord(null) ==
    /\ recordStage = "composing"
    /\ wire' = [f \in Fields |-> IF signed[f] = Null THEN null ELSE signed[f]]
    /\ recordStage' = "sent"
    /\ UNCHANGED <<signed, fieldEdits, logEntry, disposition, written>>

\* A field changes on the way, and no more than one: of a record that the
\* producer had changed, too, one that its hash does not cover.
Damage(f, v) ==
    /\ recordStage = "sent" /\ fieldEdits < MaxFieldEdits /\ wire[f] # v
    /\ fieldEdits = 0 \/ f \notin Hashed
    /\ wire' = [wire EXCEPT ![f] = v]
    /\ fieldEdits' = MaxFieldEdits
    /\ UNCHANGED <<signed, recordStage, logEntry, disposition, written>>

Collected(status) ==
    /\ recordStage = "sent" /\ recordStage' = status
    /\ UNCHANGED <<signed, wire, fieldEdits, disposition, written>>

\* An untrusted ingress leaves nothing in the log.
RejectIngress ==
    /\ ~TrustedIngress(wire)
    /\ Collected("rejected_permanent") /\ UNCHANGED logEntry

\* A refusal for lack of room (or queue) changes nothing here: the record stays
\* sent, and the sender tries again.

\* Invalid and unmapped records are kept, too, as rejected ones.
Store ==
    /\ TrustedIngress(wire)
    /\ LET e == Restored(wire)
           accepted == ValidEnvelope(e) /\ wire.mapping = "mapped"
       IN /\ logEntry' = [kind |-> IF accepted THEN "accepted" ELSE "rejected", envelope |-> e]
          /\ Collected(IF accepted THEN "accepted" ELSE "rejected_permanent")

\* The target takes the entry. An unknown error is left to the next attempt.
DisposeEntry(t, d, rs) ==
    /\ logEntry # NothingLogged /\ disposition[t] \in {"pending", "failing"}
    /\ disposition' = [disposition EXCEPT ![t] = d]
    /\ written' = [written EXCEPT ![t] = rs]
    /\ UNCHANGED <<signed, wire, fieldEdits, recordStage, logEntry>>

Routed(e) == e.mapping = "mapped" /\ e.route = "routed"

ProjectEntry(t) ==
    /\ logEntry # NothingLogged
    /\ LET e == logEntry.envelope
           error == IF logEntry.kind = "rejected" THEN "none" ELSE PrepareError(e, t)
       IN IF ~Routed(e) THEN DisposeEntry(t, "not-routed", {})
          ELSE IF error = "record" THEN DisposeEntry(t, "quarantined", {})
          ELSE IF error = "unknown" THEN DisposeEntry(t, "failing", {})
          ELSE DisposeEntry(t, "projected", IF logEntry.kind = "accepted" THEN Relations(e) ELSE {})

RecordNext ==
    \/ \E f \in Fields : \E v \in FieldValues[f] : Sign(f, v) \/ Damage(f, v)
    \/ \E null \in {Null, Missing, Empty} : SendRecord(null)
    \/ RejectIngress \/ Store
    \/ \E t \in DOMAIN Targets : ProjectEntry(t)

RecordSpec == RecordInit /\ [][RecordNext]_recordVars
\* The flush loop of a target tries a pending entry again.
FairSpec == RecordSpec /\ \A t \in DOMAIN Targets : WF_recordVars(ProjectEntry(t))
----------------------------------------------------------------------------
(* A task and an execution are bound, and an execution and a mission, only  *)
(* by a record that reports it as known: one of the committed runtime that  *)
(* is neither an uncertainty nor a reconciliation without a validated       *)
(* finding, and a mission relation that is exact and names its sources.     *)
BindingsAreKnown ==
    \A t \in DOMAIN Targets : \A r \in written[t] :
        LET e == logEntry.envelope IN
        /\ r.type = "task_execution_binding" =>
              /\ e.source = "committed_postgres" /\ e.instance = "authority"
              /\ Encodable(e.taskId) /\ Encodable(e.executionId)
              /\ "uncertainty" \notin {e.semantic, e.schema}
              /\ "reconciliation" \in {e.semantic, e.schema} =>
                     e.status = "found" /\ e.validated = "true"
        /\ r.type = "execution_mission_binding" =>
              e.mission = "exact" /\ e.refs = "some" /\ e.missionId = e.payloadMissionId

(* What is accepted is what the producer signed, nulls included.            *)
AcceptedAsSigned ==
    logEntry.kind = "accepted" => \A f \in Hashed : logEntry.envelope[f] = signed[f]

(* Nothing is stored or bound that the producer did not sign and know.      *)
NothingIsInvented == BindingsAreKnown /\ AcceptedAsSigned

\* The envelope fills the nullable fields of its family, with null or a value,
\* and no other field is null.
FrozenShape(e) ==
    LET nullable ==
          (IF e.type = "task" THEN {"reasonCode", "currentSubstate"} ELSE {})
          \cup (IF e.semantic = "reconciliation" /\ e.status # "found"
                THEN {"payloadExecutionId"} ELSE {})
          \cup (IF e.fact # Missing /\ e.mission # "exact" THEN {"payloadMissionId"} ELSE {})
    IN \A f \in Fields : IF f \in nullable THEN ~Lost(e[f]) ELSE e[f] # Null

(* Losing its nulls on the transport, dropped or emptied, never costs a     *)
(* valid record its acceptance.                                             *)
TransportLossIsUndone ==
    /\ recordStage = "rejected_permanent"
    /\ FrozenShape(signed) /\ ValidEnvelope(signed)
    /\ TrustedIngress(signed) /\ signed.mapping = "mapped"
    => \E f \in Fields : wire[f] # signed[f] /\ ~(signed[f] = Null /\ Lost(wire[f]))

(* A record that was accepted is projected, quarantined or not routed at    *)
(* every target in the end: one bad record never blocks the target for ever *)
(* (docs/DEBUG_HISTORY_AND_GAPS_2026-09-07.md:59).                          *)
BadRecordNeverBlocks ==
    \A t \in DOMAIN Targets :
        logEntry # NothingLogged ~> disposition[t] \in {"projected", "quarantined", "not-routed"}
============================================================================
