-------------------------- MODULE CurrentAuthority --------------------------
(* The answer of the query API to "which device mission does this execution *)
(* of this task serve now?" (query-api/src/current-authority.ts, scope.ts   *)
(* and the current-authority route of server.ts), for one task and one      *)
(* execution. The projection keeps appending rows to the shared warehouse   *)
(* while a request is answered by two or three separate queries.            *)
(*                                                                          *)
(* A scope stands for the five columns tenant, project, environment, SMPP   *)
(* source and deployment. Record ids and times are numbers: the code        *)
(* compares them, and nothing else.                                         *)
EXTENDS Integers, FiniteSets, FiniteSetsExt

CONSTANTS
    Scopes,       \* the scopes rows are stored under
    Default,      \* the configured default scope, or NoScope
    NoScope,      \* no scope; also the unreadable scope of an old row
    Missions,     \* ids of device missions
    NoMission,    \* no mission
    MaxRecord,    \* bound on the records of mission observations
    MaxObservedAt, \* bound on the times they were observed
    RowLimit      \* rows at which the discovery of a scope gives up

ASSUME AuthorityAssumption ==
    /\ IsFiniteSet(Scopes) /\ NoScope \notin Scopes
    /\ Default \in Scopes \cup {NoScope}
    /\ NoMission \notin Missions
    /\ MaxRecord \in Nat /\ MaxObservedAt \in Nat

VARIABLES
    facts,        \* rows of external_provider_fact for the task and execution
    relations,    \* scope -> rows of external_entity_relation_fact, under FINAL
    inquiry       \* the request being answered, and its answer

authorityVars == <<facts, relations, inquiry>>

\* An observation that is not exact is unresolved or in conflict: the code
\* treats both the same, and they are one value here.
Statuses == {"exact", "open"}
Fact == [record : 1..MaxRecord, scope : Scopes \cup {NoScope}, status : Statuses,
         mission : Missions \cup {NoMission}, observedAt : 1..MaxObservedAt,
         refs : {"canonical", "foreign"}]

\* What is stored for an observation: one that is not exact names no mission,
\* an old exact row may name none, and only the references of an exact one
\* are ever looked at.
Observable(f) ==
    /\ f.status = "open" => f.mission = NoMission
    /\ f.mission = NoMission => f.refs = "canonical"

----------------------------------------------------------------------------
(* The order of observations and the selection of the current one.          *)
After(f, g) ==
    \/ f.observedAt > g.observedAt
    \/ f.observedAt = g.observedAt /\ f.record > g.record

\* Mutant: only exact observations are looked at, so an old one survives
\* the observation that withdrew it.
LatestExact(rows) ==
    {f \in rows : f.status = "exact"
                  /\ \A g \in rows : g.status = "exact" => g = f \/ After(f, g)}
\* currentMissionStateSql: the latest of the rows, by time and then record.
Latest(rows) == {f \in rows : \A g \in rows : g = f \/ After(f, g)}

\* selectCurrentMissionAuthority: the reference. The latest observation
\* decides, and only an exact one that names a mission binds.
Selected(rows) ==
    IF \E f \in rows : /\ f.status = "exact" /\ f.mission # NoMission
                       /\ \A g \in rows \ {f} : After(f, g)
    THEN (CHOOSE f \in rows : \A g \in rows \ {f} : After(f, g)).mission
    ELSE NoMission

InScope(s) == {f \in facts : f.scope = s}

----------------------------------------------------------------------------
(* The scope of a request.                                                  *)
Parameters == {"none", "partial"} \cup Scopes

\* requestedAuthorityScope: all five parameters or none, and none that
\* contradicts the configured scope.
Requested(parameters) ==
    CASE parameters = "none"    -> Default
      [] parameters = "partial" -> NoScope
      [] OTHER                  -> parameters
Refuses(parameters) ==
    \/ parameters = "partial"
    \/ parameters \in Scopes /\ Default # NoScope /\ parameters # Default

\* The rows resolveLegacyAuthorityScope looks at, by their scope: one for each
\* scope of the facts, and one for each binding found by a reconciliation.
FactScopes == {f.scope : f \in facts}
RelationScopes == {s \in Scopes : relations[s] = "found"}
CandidateScopes == FactScopes \cup RelationScopes
DiscoveryRows == Cardinality(FactScopes) + Cardinality(RelationScopes)

\* Mutant: the first scope that is found is taken.
AmbiguousNever == DiscoveryRows >= RowLimit
Ambiguous == DiscoveryRows >= RowLimit \/ Cardinality(CandidateScopes \ {NoScope}) > 1

----------------------------------------------------------------------------
NoInquiry == [stage |-> "idle"]

AuthorityInit == facts = {} /\ relations = [s \in Scopes |-> "none"] /\ inquiry = NoInquiry

\* The projection stores an observation. A record is stored once: a replay
\* writes the same row, and FINAL keeps one.
ProjectFact(f) ==
    /\ \A g \in facts : g.record # f.record
    /\ Observable(f)
    /\ facts' = facts \cup {f}
    /\ UNCHANGED <<relations, inquiry>>

\* It stores the binding of the task to the execution. A committed binding
\* and one found by a reconciliation have the same relation id, so the row
\* written last is the one FINAL returns.
ProjectRelation(s, source) ==
    /\ relations[s] # source
    /\ relations' = [relations EXCEPT ![s] = source]
    /\ UNCHANGED <<facts, inquiry>>

\* The code of the response, and nothing else.
Respond(code) ==
    /\ inquiry' = [stage |-> "answered", code |-> code]
    /\ UNCHANGED <<facts, relations>>

\* A request arrives. "known" remembers the rows it finds stored.
Ask(parameters) ==
    /\ inquiry.stage = "idle"
    /\ IF Refuses(parameters)
       THEN Respond(400)
       ELSE /\ inquiry' = [stage |-> IF Requested(parameters) = NoScope
                                     THEN "discover" ELSE "read",
                           scope |-> Requested(parameters), explicit |-> TRUE,
                           known |-> facts, binding |-> "unread",
                           state |-> {}, stateRead |-> FALSE,
                           selected |-> NoMission, missions |-> {}]
            /\ UNCHANGED <<facts, relations>>

\* resolveLegacyAuthorityScope: the only scope the rows are stored under. The
\* rows come in any order, so an unreadable one may be met before a second scope.
Discover ==
    /\ inquiry.stage = "discover"
    /\ \/ Ambiguous /\ Respond(409)
       \/ NoScope \in CandidateScopes /\ DiscoveryRows < RowLimit /\ Respond(503)
       \/ CandidateScopes = {} /\ Respond(200)
       \/ /\ ~Ambiguous /\ NoScope \notin CandidateScopes
          /\ \E s \in CandidateScopes :
                inquiry' = [inquiry EXCEPT !.stage = "read", !.explicit = FALSE, !.scope = s]
          /\ UNCHANGED <<facts, relations>>

\* currentTaskExecutionSql: only a binding found by a reconciliation counts.
ReadRelation ==
    /\ inquiry.stage = "read" /\ inquiry.binding = "unread"
    /\ inquiry' = [inquiry EXCEPT !.binding = relations[inquiry.scope]]
    /\ UNCHANGED <<facts, relations>>

\* currentMissionStateSql. "selected" remembers what the reference selects from
\* the rows of the scope.
ReadState ==
    /\ inquiry.stage = "read" /\ ~inquiry.stateRead
    /\ inquiry' = [inquiry EXCEPT
          !.state = Latest(InScope(inquiry.scope)),
          !.stateRead = TRUE,
          !.selected = Selected({f \in facts : f.scope = inquiry.scope})]
    /\ UNCHANGED <<facts, relations>>

\* convergeCurrentExecutionMission: an exact observation that names a mission
\* and whose entity references are of the same scope, for a bound execution.
Converges(binding, f) ==
    /\ f.status = "exact" /\ f.mission # NoMission
    /\ binding = "found"
    /\ f.refs = "canonical"

\* Both queries have answered.
AnswerMission ==
    /\ inquiry.stage = "read" /\ inquiry.binding # "unread" /\ inquiry.stateRead
    /\ inquiry' = [inquiry EXCEPT
          !.stage = "answered",
          !.missions = {f.mission : f \in {g \in inquiry.state :
                                       Converges(inquiry.binding, g)}}]
    /\ UNCHANGED <<facts, relations>>

\* A query fails: the route answers 503.
QueryFails == inquiry.stage \in {"discover", "read"} /\ Respond(503)

\* The response is sent, and the next request may come.
Close ==
    /\ inquiry.stage = "answered"
    /\ inquiry' = NoInquiry
    /\ UNCHANGED <<facts, relations>>

AuthorityNext ==
    \/ \E f \in Fact : ProjectFact(f)
    \/ \E s \in Scopes, source \in {"committed", "found"} : ProjectRelation(s, source)
    \/ \E p \in Parameters : Ask(p)
    \/ Discover \/ ReadRelation \/ ReadState \/ AnswerMission \/ QueryFails \/ Close

AuthoritySpec == AuthorityInit /\ [][AuthorityNext]_authorityVars

----------------------------------------------------------------------------
ShownMissions == IF "missions" \in DOMAIN inquiry THEN inquiry.missions ELSE {}

(* The mission that is shown is the one the reference reducer selects from  *)
(* the rows of that one scope, a reconciliation had found the binding, and  *)
(* no observation that was stored before the request arrived is later than  *)
(* the one it rests on: an old exact observation never outlives the         *)
(* unresolved or conflicting one that withdrew it.                          *)
AuthorityIsCurrent ==
    inquiry.stage = "answered" /\ ShownMissions # {} =>
        /\ inquiry.binding = "found"
        /\ ShownMissions = {inquiry.selected}
        /\ \A f \in inquiry.known, g \in inquiry.state :
              f.scope = inquiry.scope => f = g \/ After(g, f)

(* A request that names no scope is answered under the only scope the rows  *)
(* of its task and execution were stored under when it arrived; among two,  *)
(* none is picked (resolveLegacyAuthorityScope).                            *)
LegacyScopeIsUnique ==
    inquiry.stage \in {"read", "answered"} /\ "explicit" \in DOMAIN inquiry =>
        inquiry.explicit \/ \A f \in inquiry.known : f.scope = inquiry.scope
=============================================================================
