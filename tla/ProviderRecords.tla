-------------------------- MODULE ProviderRecords --------------------------
(* The records of the SMPP producers: an envelope is a function from the    *)
(* fields the code decides on to small sets of values; a field that is not  *)
(* listed is one no decision reads. "detail" stands for the enumerated and  *)
(* free-text fields a semantic payload needs (classes, statuses, times,     *)
(* refs), "echo" for the task id, operation, argument hash and time that a  *)
(* payload repeats.                                                         *)
Missing == "absent"
Null   == "null"
Empty  == "empty"
\* "long": over the 512 characters, "control": with a control character.
\* Both are strings that an entity URN refuses. A command id may be given "in
\* payload" only.
Id == {Missing, Null, Empty, "id", "long", "control"}

\* The values a field of a record can have.
FieldValues ==
    [type         |-> {"task", "command", "recovery", "progress", "resource", "other"},
     category     |-> {"expected", "other"},
     provider     |-> {Empty, "id", "long"}, instance |-> {Empty, "id", "control", "authority"},
     taskId       |-> Id, resourceId |-> {Missing, Empty, "id", "long"}, executionId |-> Id,
     commandId    |-> {Missing, Empty, "id", "in payload"}, eventId |-> {Missing, Null, "id"},
     sequence     |-> {Missing, "0", "negative"},
     time         |-> {"ordered", "reversed"},
     envelope     |-> {"complete", "incomplete", "sensitive"},
     otlp         |-> {"same", "differs"},
     verdict      |-> {Missing, "given"},
     evaluationId |-> {Missing, "given"},
     source       |-> {Missing, "committed_postgres"},
     semantic     |-> {Missing, "uncertainty", "reconciliation"},
     schema       |-> {Missing, "uncertainty", "reconciliation"},
     echo         |-> {Missing, "same", "differs"},
     detail       |-> {Missing, "valid", "invalid"},
     redispatch   |-> {Missing, "false", "true"},
     status       |-> {Missing, "found", "not_found", "conflict"},
     validated    |-> {Missing, "true", "false"},
     payloadExecutionId |-> {Missing, Null, Empty, "id", "different"},
     reasonCode   |-> {Missing, Null, Empty, "text"},
     currentSubstate |-> {Missing, Null, Empty, "text"},
     business     |-> {Missing, "succeeded", "failed"},
     isError      |-> {Missing, "true", "false"},
     evidence     |-> {Missing, "position", "mission"},
     fact         |-> {Missing, "mission_relation", "other"},
     mission      |-> {Missing, "exact", "unresolved", "conflict"},
     payloadMission |-> {Missing, "exact", "unresolved", "conflict"},
     missionId    |-> Id, payloadMissionId |-> {Missing, Null, Empty, "id", "control"},
     refs         |-> {Missing, "none", "some"}, payloadRefs |-> {Missing, "none", "some"},
     originSystem |-> {Missing, "sdar", "other"},
     originDeployment |-> {Missing, "deployment"},
     originTask   |-> {Missing, "id", "control"},
     attempt      |-> {Missing, "1", "bad"},
     legacyOrigin |-> {Missing, "given"},
     catalogued   |-> {Missing, "valid", "invalid"},
     ingress      |-> {"trusted", "untrusted"},
     mapping      |-> {"mapped", "unmapped"}, route |-> {"routed", "other"}]

Fields == DOMAIN FieldValues

\* What the record hash covers (canonical.ts). The instance is left out of it,
\* and what the receiver adds is not part of the record.
Hashed == Fields \ {"instance", "otlp", "ingress", "mapping", "route"}

Ordinary == [category |-> "expected", provider |-> "id", instance |-> "authority",
             time |-> "ordered", envelope |-> "complete", otlp |-> "same",
             ingress |-> "trusted", mapping |-> "mapped", route |-> "routed"]

\* An envelope of the given fields, the others as an ordinary record has them.
Envelope(fields) ==
    [f \in Fields |-> IF f \in DOMAIN fields THEN fields[f]
                      ELSE IF f \in DOMAIN Ordinary THEN Ordinary[f] ELSE Missing]

\* The valid records a producer starts from, one for each semantic family.
SampleRecords ==
    {Envelope([type |-> "task", taskId |-> "id", executionId |-> "id",
               source |-> "committed_postgres", reasonCode |-> Null, currentSubstate |-> Null,
               business |-> "succeeded", isError |-> "false", detail |-> "valid"]),
     Envelope([type |-> "recovery", taskId |-> "id", source |-> "committed_postgres",
               semantic |-> "uncertainty", schema |-> "uncertainty", echo |-> "same",
               detail |-> "valid", redispatch |-> "false"]),
     Envelope([type |-> "recovery", taskId |-> "id", source |-> "committed_postgres",
               semantic |-> "reconciliation", schema |-> "reconciliation", echo |-> "same",
               detail |-> "valid", status |-> "found", validated |-> "true",
               executionId |-> "id", payloadExecutionId |-> "id"]),
     Envelope([type |-> "recovery", taskId |-> "id", source |-> "committed_postgres",
               semantic |-> "reconciliation", schema |-> "reconciliation", echo |-> "same",
               detail |-> "valid", status |-> "conflict", validated |-> "false",
               payloadExecutionId |-> Null]),
     Envelope([type |-> "resource", instance |-> "id", taskId |-> "id", executionId |-> "id",
               resourceId |-> "id", eventId |-> "id", sequence |-> "0", evidence |-> "position",
               catalogued |-> "valid"]),
     Envelope([type |-> "progress", instance |-> "id", taskId |-> "id", executionId |-> "id",
               fact |-> "mission_relation", mission |-> "exact", payloadMission |-> "exact",
               missionId |-> "id", payloadMissionId |-> "id", refs |-> "some",
               payloadRefs |-> "some", echo |-> "same", detail |-> "valid"]),
     Envelope([type |-> "progress", instance |-> "id", taskId |-> "id", executionId |-> "id",
               fact |-> "mission_relation", mission |-> "unresolved",
               payloadMission |-> "unresolved", payloadMissionId |-> Null, refs |-> "none",
               payloadRefs |-> "none", echo |-> "same", detail |-> "valid"]),
     Envelope([type |-> "command", instance |-> "id", commandId |-> "id",
               originSystem |-> "sdar", originDeployment |-> "deployment",
               originTask |-> "id", attempt |-> "1"])}
=============================================================================
