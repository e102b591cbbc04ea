---------------------------- MODULE Query_proofs ----------------------------
(* Theorems about what readers are shown: the answers of the query API, and *)
(* the dead letters in the stores that the dashboards read.                 *)
EXTENDS CurrentAuthority, QueryReadiness, DiagnosticQuery, DeadLetterOutbox,
        FiniteSetTheorems, TLAPS

USE AuthorityAssumption

----------------------------------------------------------------------------
(* CurrentAuthority: what Latest and Selected pick among any rows is the    *)
(* same observation, or none.                                               *)

LEMMA LatestIsSelected ==
    ASSUME NEW rows \in SUBSET Fact
    PROVE  \/ Latest(rows) = {} /\ Selected(rows) = NoMission
           \/ \E f \in rows :
                 /\ Latest(rows) = {f}
                 /\ \A g \in rows : g = f \/ After(f, g)
                 /\ Selected(rows) = IF f.status = "exact" /\ f.mission # NoMission
                                     THEN f.mission ELSE NoMission
<1>1. \A f, g \in rows : ~(After(f, g) /\ After(g, f))
  BY DEF Fact, After
<1>2. CASE \E f \in rows : \A g \in rows : g = f \/ After(f, g)
  <2>1. PICK f \in rows : \A g \in rows : g = f \/ After(f, g)
    BY <1>2
  <2>2. \A h \in rows : (\A g \in rows : g = h \/ After(h, g)) => h = f
    BY <2>1, <1>1
  <2>3. Latest(rows) = {f}
    BY <2>1, <2>2 DEF Latest
  <2>4. (CHOOSE h \in rows : \A g \in rows \ {h} : After(h, g)) = f
    BY <2>1, <2>2
  <2>5. Selected(rows) = IF f.status = "exact" /\ f.mission # NoMission
                         THEN f.mission ELSE NoMission
    <3>1. CASE f.status = "exact" /\ f.mission # NoMission
      BY <3>1, <2>1, <2>4 DEF Selected
    <3>2. CASE ~(f.status = "exact" /\ f.mission # NoMission)
      BY <3>2, <2>1, <2>2 DEF Selected
    <3> QED BY <3>1, <3>2
  <2> QED BY <2>1, <2>3, <2>5
<1>3. CASE ~ \E f \in rows : \A g \in rows : g = f \/ After(f, g)
  <2>1. Latest(rows) = {}
    BY <1>3 DEF Latest
  <2>2. Selected(rows) = NoMission
    BY <1>3 DEF Selected
  <2> QED BY <2>1, <2>2
<1> QED BY <1>2, <1>3

\* A set with at most one element outside of none is that element.
LEMMA OneScope ==
    ASSUME IsFiniteSet(CandidateScopes), ~Ambiguous, NoScope \notin CandidateScopes,
           NEW s \in CandidateScopes
    PROVE  CandidateScopes = {s}
<1>1. CandidateScopes \ {NoScope} = CandidateScopes
  OBVIOUS
<1>2. Cardinality(CandidateScopes) <= 1 /\ Cardinality(CandidateScopes) \in Nat
  <2>1. Cardinality(CandidateScopes) \in Nat
    BY FS_CardinalityType
  <2>2. ~(Cardinality(CandidateScopes) > 1)
    BY <1>1 DEF Ambiguous
  <2> QED BY <2>1, <2>2
<1>3. Cardinality(CandidateScopes) # 0
  BY FS_EmptySet
<1>4. Cardinality(CandidateScopes) = 1
  BY <1>2, <1>3
<1> QED BY <1>4, FS_Singleton

----------------------------------------------------------------------------
Binding == {"unread", "none", "committed", "found"}
Inquiry ==
    [stage : {"discover", "read", "answered"}, scope : Scopes \cup {NoScope},
     explicit : BOOLEAN, known : SUBSET Fact, binding : Binding,
     state : SUBSET Fact, stateRead : BOOLEAN,
     selected : Missions \cup {NoMission}, missions : SUBSET (Missions \cup {NoMission})]
Refusal == [stage : {"answered"}, code : {200, 400, 409, 503}]

AuthorityTypeOK ==
    /\ facts \in SUBSET Fact
    /\ relations \in [Scopes -> {"none", "committed", "found"}]
    /\ inquiry \in {NoInquiry} \cup Inquiry \cup Refusal

\* The rows a state query reads are stored ones of the scope, and among them
\* all that were known when the request arrived; it and the reference look at
\* the same rows.
StateIsOf(q, rows) ==
    /\ q.state = Latest(rows) /\ q.selected = Selected(rows)
    /\ {f \in q.known : f.scope = q.scope} \subseteq rows
StateIsRead(q) == \E rows \in SUBSET facts : StateIsOf(q, rows)

\* The missions of an answer are those of the state that was read.
MissionsAreOf(q) ==
    q.missions = {f.mission : f \in {g \in q.state : Converges(q.binding, g)}}

InquiryIsTrue(q) ==
    /\ q.known \subseteq facts
    /\ q.stage = "discover" => q.stateRead = FALSE
    /\ q.stage # "discover" => q.scope \in Scopes
    /\ q.stateRead = TRUE => StateIsRead(q)
    /\ q.stage = "answered" => q.stateRead = TRUE /\ MissionsAreOf(q)
    /\ q.stage # "discover" => q.explicit = TRUE \/ \A f \in q.known : f.scope = q.scope

AuthorityInvariant ==
    AuthorityTypeOK /\ (inquiry \in Inquiry => InquiryIsTrue(inquiry))

----------------------------------------------------------------------------
\* A request that did not change goes on being true while rows are added.
LEMMA InquiryStays ==
    ASSUME inquiry \in Inquiry, InquiryIsTrue(inquiry), facts \subseteq facts',
           UNCHANGED inquiry
    PROVE  InquiryIsTrue(inquiry)'
<1>1. (inquiry.known \subseteq facts)'
  BY DEF InquiryIsTrue
<1>2. inquiry.stateRead = TRUE => StateIsRead(inquiry)'
  <2> SUFFICES ASSUME inquiry.stateRead = TRUE PROVE StateIsRead(inquiry)'
    OBVIOUS
  <2>1. PICK rows \in SUBSET facts : StateIsOf(inquiry, rows)
    BY DEF InquiryIsTrue, StateIsRead
  <2>2. StateIsOf(inquiry, rows)'
    BY <2>1 DEF StateIsOf, Latest, Selected, After
  <2> QED BY <2>1, <2>2 DEF StateIsRead
<1>3. MissionsAreOf(inquiry)' = MissionsAreOf(inquiry)
  BY DEF MissionsAreOf, Converges
<1> QED BY <1>1, <1>2, <1>3 DEF InquiryIsTrue

LEMMA FactStep ==
    ASSUME AuthorityInvariant, NEW f \in Fact, ProjectFact(f)
    PROVE  AuthorityInvariant'
<1>1. AuthorityTypeOK'
  BY DEF AuthorityInvariant, AuthorityTypeOK, ProjectFact
<1>2. facts \subseteq facts' /\ UNCHANGED inquiry
  BY DEF ProjectFact
<1>3. inquiry' \in Inquiry => InquiryIsTrue(inquiry)'
  BY <1>2, InquiryStays DEF AuthorityInvariant
<1> QED BY <1>1, <1>3 DEF AuthorityInvariant

LEMMA RelationStep ==
    ASSUME AuthorityInvariant, NEW s \in Scopes, NEW source \in {"committed", "found"},
           ProjectRelation(s, source)
    PROVE  AuthorityInvariant'
<1>1. AuthorityTypeOK'
  BY DEF AuthorityInvariant, AuthorityTypeOK, ProjectRelation
<1>2. facts \subseteq facts' /\ UNCHANGED inquiry
  BY DEF ProjectRelation
<1>3. inquiry' \in Inquiry => InquiryIsTrue(inquiry)'
  BY <1>2, InquiryStays DEF AuthorityInvariant
<1> QED BY <1>1, <1>3 DEF AuthorityInvariant

\* A response without an answer says nothing.
LEMMA RefusalStep ==
    ASSUME AuthorityTypeOK, NEW code \in {200, 400, 409, 503}, Respond(code)
    PROVE  AuthorityInvariant'
<1>1. inquiry' \in Refusal
  BY DEF Respond, Refusal
<1>2. inquiry' \notin Inquiry
  <2>1. DOMAIN inquiry' = {"stage", "code"}
    BY DEF Respond
  <2>2. \A q \in Inquiry : "scope" \in DOMAIN q
    BY DEF Inquiry
  <2> QED BY <2>1, <2>2
<1> QED BY <1>1, <1>2 DEF AuthorityInvariant, AuthorityTypeOK, Respond

LEMMA AskStep ==
    ASSUME AuthorityInvariant, NEW p \in Parameters, Ask(p)
    PROVE  AuthorityInvariant'
<1>1. CASE Refuses(p)
  <2>1. Respond(400)
    BY <1>1 DEF Ask
  <2> QED BY <2>1, RefusalStep DEF AuthorityInvariant
<1>2. CASE ~Refuses(p)
  <2> DEFINE stage == IF Requested(p) = NoScope THEN "discover" ELSE "read"
             q == [stage |-> stage, scope |-> Requested(p), explicit |-> TRUE,
                   known |-> facts, binding |-> "unread", state |-> {},
                   stateRead |-> FALSE, selected |-> NoMission, missions |-> {}]
  <2>1. inquiry' = q /\ UNCHANGED <<facts, relations>>
    BY <1>2 DEF Ask
  <2>2. Requested(p) \in Scopes \cup {NoScope}
    BY DEF Requested, Parameters
  <2>3. q \in Inquiry
    <3>1. stage \in {"discover", "read", "answered"}
      OBVIOUS
    <3> HIDE DEF stage
    <3> QED BY <3>1, <2>2 DEF Inquiry, Binding, AuthorityInvariant, AuthorityTypeOK
  <2>4. InquiryIsTrue(inquiry)'
    BY <2>1, <2>2 DEF InquiryIsTrue
  <2> HIDE DEF q
  <2> QED BY <2>1, <2>3, <2>4 DEF AuthorityInvariant, AuthorityTypeOK
<1> QED BY <1>1, <1>2

LEMMA ScopesAreFinite ==
    ASSUME AuthorityTypeOK
    PROVE  IsFiniteSet(CandidateScopes) /\ CandidateScopes \subseteq Scopes \cup {NoScope}
<1>1. CandidateScopes \subseteq Scopes \cup {NoScope}
  BY DEF CandidateScopes, FactScopes, RelationScopes, AuthorityTypeOK, Fact
<1>2. IsFiniteSet(Scopes \cup {NoScope})
  BY FS_Singleton, FS_Union
<1> QED BY <1>1, <1>2, FS_Subset

LEMMA DiscoverStep ==
    ASSUME AuthorityInvariant, Discover
    PROVE  AuthorityInvariant'
<1>1. CASE Respond(409) \/ Respond(503) \/ Respond(200)
  BY <1>1, RefusalStep DEF AuthorityInvariant
<1>2. CASE /\ ~Ambiguous /\ NoScope \notin CandidateScopes
           /\ \E s \in CandidateScopes :
                inquiry' = [inquiry EXCEPT !.stage = "read", !.explicit = FALSE, !.scope = s]
           /\ UNCHANGED <<facts, relations>>
  <2>1. PICK s \in CandidateScopes :
          inquiry' = [inquiry EXCEPT !.stage = "read", !.explicit = FALSE, !.scope = s]
    BY <1>2
  <2>2. inquiry \in Inquiry /\ inquiry.stage = "discover"
    <3>1. inquiry.stage = "discover" /\ inquiry \in {NoInquiry} \cup Inquiry \cup Refusal
      BY DEF Discover, AuthorityInvariant, AuthorityTypeOK
    <3> QED BY <3>1 DEF NoInquiry, Refusal
  <2>3. s \in Scopes
    BY <1>2, ScopesAreFinite DEF AuthorityInvariant
  <2>4. CandidateScopes = {s}
    BY <1>2, ScopesAreFinite, OneScope DEF AuthorityInvariant
  <2>5. inquiry' \in Inquiry
    BY <2>1, <2>2, <2>3 DEF Inquiry
  <2>6. \A f \in facts : f.scope = s
    BY <2>4 DEF CandidateScopes, FactScopes
  <2>7. inquiry'.known = inquiry.known /\ inquiry'.stateRead = inquiry.stateRead
        /\ inquiry'.stage = "read" /\ inquiry'.scope = s
    BY <2>1, <2>2 DEF Inquiry
  <2>8. InquiryIsTrue(inquiry) /\ inquiry.stateRead = FALSE
    BY <2>2 DEF AuthorityInvariant, InquiryIsTrue
  <2>9. UNCHANGED facts /\ inquiry.known \subseteq facts
    BY <1>2, <2>8 DEF InquiryIsTrue
  <2>10. InquiryIsTrue(inquiry)'
    BY <2>3, <2>6, <2>7, <2>8, <2>9 DEF InquiryIsTrue
  <2> QED BY <2>5, <2>10, <1>2 DEF AuthorityInvariant, AuthorityTypeOK
<1> QED BY <1>1, <1>2 DEF Discover

LEMMA ReadRelationStep ==
    ASSUME AuthorityInvariant, ReadRelation
    PROVE  AuthorityInvariant'
<1>1. inquiry \in Inquiry /\ inquiry.stage = "read"
  BY DEF ReadRelation, AuthorityInvariant, AuthorityTypeOK, NoInquiry, Refusal
<1>2. InquiryIsTrue(inquiry) /\ inquiry.scope \in Scopes
  BY <1>1 DEF AuthorityInvariant, InquiryIsTrue
<1>3. relations[inquiry.scope] \in Binding
  BY <1>2 DEF AuthorityInvariant, AuthorityTypeOK, Binding
<1>4. inquiry' \in Inquiry
  BY <1>1, <1>3 DEF Inquiry, ReadRelation
<1>5. /\ inquiry'.known = inquiry.known /\ inquiry'.stateRead = inquiry.stateRead
      /\ inquiry'.stage = "read" /\ inquiry'.scope = inquiry.scope
      /\ inquiry'.explicit = inquiry.explicit
      /\ inquiry'.state = inquiry.state /\ inquiry'.selected = inquiry.selected
  BY <1>1 DEF Inquiry, ReadRelation
<1>6. inquiry.stateRead = TRUE => StateIsRead(inquiry)'
  BY <1>2, <1>5 DEF InquiryIsTrue, StateIsRead, StateIsOf, ReadRelation
<1>7. InquiryIsTrue(inquiry)'
  BY <1>2, <1>5, <1>6 DEF InquiryIsTrue, ReadRelation
<1> QED BY <1>4, <1>7 DEF AuthorityInvariant, AuthorityTypeOK, ReadRelation

LEMMA ReadStateStep ==
    ASSUME AuthorityInvariant, ReadState
    PROVE  AuthorityInvariant'
<1>1. inquiry \in Inquiry /\ inquiry.stage = "read"
  BY DEF ReadState, AuthorityInvariant, AuthorityTypeOK, NoInquiry, Refusal
<1>2. InquiryIsTrue(inquiry) /\ inquiry.scope \in Scopes
  BY <1>1 DEF AuthorityInvariant, InquiryIsTrue
<1> DEFINE rows == {f \in facts : f.scope = inquiry.scope}
<1>3. rows \in SUBSET Fact /\ rows \in SUBSET facts
  BY DEF AuthorityInvariant, AuthorityTypeOK
<1>4. Latest(rows) \in SUBSET Fact /\ Selected(rows) \in Missions \cup {NoMission}
  <2>1. Latest(rows) \in SUBSET Fact
    BY <1>3 DEF Latest
  <2>2. \A f \in rows : f.mission \in Missions \cup {NoMission}
    BY <1>3 DEF Fact
  <2> HIDE DEF rows
  <2> QED BY <1>3, <2>1, <2>2, LatestIsSelected
<1>5. inquiry' = [inquiry EXCEPT !.state = Latest(rows), !.stateRead = TRUE,
                                 !.selected = Selected(rows)]
  BY DEF ReadState, InScope
<1> HIDE DEF rows
<1>6. inquiry' \in Inquiry
  BY <1>1, <1>4, <1>5 DEF Inquiry
<1>7. /\ inquiry'.known = inquiry.known /\ inquiry'.stateRead = TRUE
      /\ inquiry'.stage = "read" /\ inquiry'.scope = inquiry.scope
      /\ inquiry'.explicit = inquiry.explicit
      /\ inquiry'.state = Latest(rows) /\ inquiry'.selected = Selected(rows)
  BY <1>1, <1>5 DEF Inquiry
<1>8. UNCHANGED facts
  BY DEF ReadState
<1>9. {f \in inquiry.known : f.scope = inquiry.scope} \subseteq rows
  BY <1>2 DEF rows, InquiryIsTrue
<1>10. StateIsRead(inquiry)'
  <2>1. StateIsOf(inquiry', rows)
    BY <1>7, <1>9 DEF StateIsOf
  <2> QED BY <2>1, <1>3, <1>8 DEF StateIsRead, StateIsOf, Latest, Selected, After
<1>11. InquiryIsTrue(inquiry)'
  BY <1>1, <1>2, <1>7, <1>8, <1>10 DEF InquiryIsTrue
<1> QED BY <1>6, <1>11 DEF AuthorityInvariant, AuthorityTypeOK, ReadState

LEMMA AnswerStep ==
    ASSUME AuthorityInvariant, AnswerMission
    PROVE  AuthorityInvariant'
<1>1. inquiry \in Inquiry /\ inquiry.stage = "read"
  BY DEF AnswerMission, AuthorityInvariant, AuthorityTypeOK, NoInquiry, Refusal
<1>2. InquiryIsTrue(inquiry) /\ inquiry.scope \in Scopes
  BY <1>1 DEF AuthorityInvariant, InquiryIsTrue
<1> DEFINE missions == {f.mission : f \in {g \in inquiry.state : Converges(inquiry.binding, g)}}
<1>3. missions \in SUBSET (Missions \cup {NoMission})
  BY <1>1 DEF Inquiry, Fact
<1>4. inquiry' = [inquiry EXCEPT !.stage = "answered", !.missions = missions]
  BY DEF AnswerMission
<1> HIDE DEF missions
<1>5. inquiry' \in Inquiry
  BY <1>1, <1>3, <1>4 DEF Inquiry
<1>6. /\ inquiry'.known = inquiry.known /\ inquiry'.stateRead = inquiry.stateRead
      /\ inquiry'.stage = "answered" /\ inquiry'.scope = inquiry.scope
      /\ inquiry'.explicit = inquiry.explicit /\ inquiry'.binding = inquiry.binding
      /\ inquiry'.state = inquiry.state /\ inquiry'.selected = inquiry.selected
      /\ inquiry'.missions = missions
  BY <1>1, <1>4 DEF Inquiry
<1>7. MissionsAreOf(inquiry)'
  BY <1>6 DEF missions, MissionsAreOf, Converges
<1>8. inquiry.stateRead = TRUE
  BY <1>1 DEF AnswerMission, Inquiry
<1>9. StateIsRead(inquiry)'
  BY <1>2, <1>6, <1>8 DEF InquiryIsTrue, StateIsRead, StateIsOf, AnswerMission
<1>10. InquiryIsTrue(inquiry)'
  BY <1>1, <1>2, <1>6, <1>7, <1>8, <1>9 DEF InquiryIsTrue, AnswerMission
<1> QED BY <1>5, <1>10 DEF AuthorityInvariant, AuthorityTypeOK, AnswerMission

----------------------------------------------------------------------------
LEMMA AuthorityInductive == AuthoritySpec => []AuthorityInvariant
<1>1. AuthorityInit => AuthorityInvariant
  <2> SUFFICES ASSUME AuthorityInit PROVE AuthorityInvariant
    OBVIOUS
  <2>1. inquiry = NoInquiry /\ NoInquiry \notin Inquiry
    BY DEF AuthorityInit, NoInquiry, Inquiry
  <2> QED BY <2>1 DEF AuthorityInit, AuthorityInvariant, AuthorityTypeOK
<1>2. AuthorityInvariant /\ [AuthorityNext]_authorityVars => AuthorityInvariant'
  <2> SUFFICES ASSUME AuthorityInvariant, [AuthorityNext]_authorityVars
               PROVE  AuthorityInvariant'
    OBVIOUS
  <2>1. CASE \E f \in Fact : ProjectFact(f)
    BY <2>1, FactStep
  <2>2. CASE \E s \in Scopes, source \in {"committed", "found"} : ProjectRelation(s, source)
    BY <2>2, RelationStep
  <2>3. CASE \E p \in Parameters : Ask(p)
    BY <2>3, AskStep
  <2>4. CASE Discover
    BY <2>4, DiscoverStep
  <2>5. CASE ReadRelation
    BY <2>5, ReadRelationStep
  <2>6. CASE ReadState
    BY <2>6, ReadStateStep
  <2>7. CASE AnswerMission
    BY <2>7, AnswerStep
  <2>8. CASE QueryFails
    BY <2>8, RefusalStep DEF QueryFails, AuthorityInvariant
  <2>9. CASE Close
    <3>1. inquiry' = NoInquiry /\ NoInquiry \notin Inquiry
      BY <2>9 DEF Close, NoInquiry, Inquiry
    <3> QED BY <2>9, <3>1 DEF Close, AuthorityInvariant, AuthorityTypeOK
  <2>10. CASE UNCHANGED authorityVars
    <3>1. UNCHANGED <<facts, relations, inquiry>>
      BY <2>10 DEF authorityVars
    <3>2. AuthorityTypeOK'
      BY <3>1 DEF AuthorityInvariant, AuthorityTypeOK
    <3> QED BY <3>1, <3>2, InquiryStays DEF AuthorityInvariant
  <2> QED BY <2>1, <2>2, <2>3, <2>4, <2>5, <2>6, <2>7, <2>8, <2>9, <2>10
       DEF AuthorityNext
<1> QED BY <1>1, <1>2, PTL DEF AuthoritySpec

LEMMA ShownIsTrue ==
    ASSUME AuthorityInvariant, inquiry.stage = "answered", ShownMissions # {}
    PROVE  /\ inquiry.binding = "found"
           /\ ShownMissions = {inquiry.selected}
           /\ \A f \in inquiry.known, g \in inquiry.state :
                 f.scope = inquiry.scope => f = g \/ After(g, f)
<1>1. inquiry \in Inquiry
  <2>1. "missions" \in DOMAIN inquiry
    BY DEF ShownMissions
  <2>2. \A q \in Refusal : "missions" \notin DOMAIN q
    BY DEF Refusal
  <2>3. inquiry # NoInquiry
    BY DEF NoInquiry
  <2> QED BY <2>1, <2>2, <2>3 DEF AuthorityInvariant, AuthorityTypeOK
<1>2. InquiryIsTrue(inquiry)
  BY <1>1 DEF AuthorityInvariant
<1>3. MissionsAreOf(inquiry) /\ StateIsRead(inquiry)
  BY <1>2 DEF InquiryIsTrue
<1>4. ShownMissions = inquiry.missions
  BY <1>1 DEF ShownMissions, Inquiry
<1>5. PICK g \in inquiry.state : Converges(inquiry.binding, g)
  BY <1>3, <1>4 DEF MissionsAreOf
<1>6. PICK rows \in SUBSET facts : StateIsOf(inquiry, rows)
  BY <1>3 DEF StateIsRead
<1>7. rows \in SUBSET Fact
  BY <1>6 DEF AuthorityInvariant, AuthorityTypeOK
<1>8. PICK f \in rows : /\ Latest(rows) = {f}
                        /\ \A h \in rows : h = f \/ After(f, h)
                        /\ Selected(rows) = IF f.status = "exact" /\ f.mission # NoMission
                                            THEN f.mission ELSE NoMission
  BY <1>5, <1>6, <1>7, LatestIsSelected DEF StateIsOf
<1>9. inquiry.state = {f} /\ g = f
  BY <1>5, <1>6, <1>8 DEF StateIsOf
<1>10. inquiry.binding = "found"
  BY <1>5 DEF Converges
<1>11. inquiry.missions = {f.mission}
  BY <1>3, <1>5, <1>9 DEF MissionsAreOf
<1>12. inquiry.selected = f.mission
  BY <1>5, <1>6, <1>8, <1>9 DEF StateIsOf, Converges
<1>13. \A h \in inquiry.known : h.scope = inquiry.scope => h = f \/ After(f, h)
  BY <1>6, <1>8 DEF StateIsOf
<1> QED BY <1>4, <1>9, <1>10, <1>11, <1>12, <1>13

(* The mission that is shown is the current one of one scope, however many  *)
(* observations are stored while the request is answered                    *)
(* (current-authority.ts).                                                  *)
THEOREM MissionIsCurrent == AuthoritySpec => []AuthorityIsCurrent
<1>1. AuthorityInvariant => AuthorityIsCurrent
  BY ShownIsTrue DEF AuthorityIsCurrent
<1> QED BY <1>1, AuthorityInductive, PTL

(* A request without a scope is answered under the only one there is        *)
(* (resolveLegacyAuthorityScope, scope.ts).                                 *)
THEOREM ScopeIsUnique == AuthoritySpec => []LegacyScopeIsUnique
<1>1. ASSUME AuthorityInvariant, inquiry.stage \in {"read", "answered"},
             "explicit" \in DOMAIN inquiry
      PROVE  inquiry.explicit \/ \A f \in inquiry.known : f.scope = inquiry.scope
  <2>1. inquiry \in Inquiry
    <3>1. \A q \in Refusal : "explicit" \notin DOMAIN q
      BY DEF Refusal
    <3>2. inquiry # NoInquiry
      BY <1>1 DEF NoInquiry
    <3> QED BY <1>1, <3>1, <3>2 DEF AuthorityInvariant, AuthorityTypeOK
  <2>2. InquiryIsTrue(inquiry)
    BY <1>1, <2>1 DEF AuthorityInvariant
  <2> QED BY <1>1, <2>2 DEF InquiryIsTrue
<1>2. AuthorityInvariant => LegacyScopeIsUnique
  BY <1>1 DEF LegacyScopeIsUnique
<1> QED BY <1>2, AuthorityInductive, PTL

----------------------------------------------------------------------------
(* QueryReadiness                                                           *)
Asked == [state : {"idle", "waiting", "answered"}, at : Nat, result : {NoneYet} \cup Results]

ReadinessTypeOK ==
    /\ clock \in Nat /\ expiresAt \in Nat
    /\ condition \in [Stores -> {"up", "down", "slow"}]
    /\ upUntil \in [Stores -> {NoneYet} \cup Nat]
    /\ cached \in {NoneYet} \cup Results
    /\ pending \in {NoneYet} \cup Rounds
    /\ answer \in [Askers -> Asked]

\* The store was up at a time that an answer or a result of time t, if it says
\* "ready", may be as old as.
UpShortlyBefore(s, t) ==
    \E from \in Nat : from <= clock /\ t <= from + TimeoutMs + CacheMs /\ WasUp(s, from)

\* later knows of no older success than earlier.
Knows(later, earlier) ==
    earlier # NoneYet => later # NoneYet /\ earlier <= later
Follows(later, earlier) ==
    \A s \in Enabled : Knows(later.stores[s].lastSuccessAt, earlier.stores[s].lastSuccessAt)

\* What the running round knows: its own probes, and that it began after the
\* last one ended.
RoundInv ==
    pending # NoneYet =>
        /\ pending.startedAt <= clock /\ clock <= pending.startedAt + TimeoutMs
        /\ \A s \in Enabled :
              /\ pending.probe[s].status = "ready" =>
                    /\ pending.probe[s].lastSuccessAt # NoneYet
                    /\ pending.startedAt <= pending.probe[s].lastSuccessAt
                    /\ pending.probe[s].lastSuccessAt <= clock
                    /\ WasUp(s, pending.startedAt)
              /\ pending.probe[s].status # "ready" => pending.probe[s].lastSuccessAt = NoneYet
              /\ cached # NoneYet => Knows(pending.startedAt, cached.stores[s].lastSuccessAt)

CacheInv ==
    cached # NoneYet =>
        \A s \in Enabled :
            /\ Knows(clock, cached.stores[s].lastSuccessAt)
            /\ cached.status = "ready" => UpShortlyBefore(s, expiresAt)

AnswerInv ==
    \A r \in Answered :
        /\ answer[r].result # NoneYet /\ answer[r].at <= clock
        /\ cached # NoneYet /\ Follows(cached, answer[r].result)
        /\ answer[r].result.status = "ready" =>
              \A s \in Enabled : UpShortlyBefore(s, answer[r].at)
        /\ \A q \in Answered : answer[r].at < answer[q].at => Follows(answer[q].result, answer[r].result)

ReadinessInvariant == ReadinessTypeOK /\ RoundInv /\ CacheInv /\ AnswerInv

----------------------------------------------------------------------------
LEMMA KnowsIsTransitive ==
    ASSUME NEW a \in {NoneYet} \cup Nat, NEW b \in {NoneYet} \cup Nat, NEW c \in {NoneYet} \cup Nat,
           Knows(b, a), Knows(c, b)
    PROVE  Knows(c, a)
BY ReadinessAssumption DEF Knows

LEMMA FollowsIsTransitive ==
    ASSUME NEW a \in Results, NEW b \in Results, NEW c \in Results, Follows(b, a), Follows(c, b)
    PROVE  Follows(c, a)
<1> SUFFICES ASSUME NEW s \in Enabled
             PROVE  Knows(c.stores[s].lastSuccessAt, a.stores[s].lastSuccessAt)
  BY DEF Follows
<1>1. /\ a.stores[s].lastSuccessAt \in {NoneYet} \cup Nat
      /\ b.stores[s].lastSuccessAt \in {NoneYet} \cup Nat
      /\ c.stores[s].lastSuccessAt \in {NoneYet} \cup Nat
  BY DEF Results, Outcomes
<1> QED BY <1>1, KnowsIsTransitive DEF Follows

LEMMA FollowsItself ==
    ASSUME NEW a \in Results
    PROVE  Follows(a, a)
<1>1. \A s \in Enabled : a.stores[s].lastSuccessAt \in {NoneYet} \cup Nat
  BY DEF Results, Outcomes
<1> QED BY <1>1 DEF Follows, Knows

\* What was seen up stays seen.
LEMMA WasUpStays ==
    ASSUME ReadinessTypeOK, NEW s \in Stores, NEW from \in Nat, from <= clock, WasUp(s, from),
           \/ UNCHANGED <<condition, upUntil>>
           \/ \E q \in Stores, to \in {"up", "down", "slow"} : Change(q, to)
    PROVE  WasUp(s, from)'
<1>1. CASE UNCHANGED <<condition, upUntil>>
  BY <1>1 DEF WasUp
<1>2. ASSUME NEW q \in Stores, NEW to \in {"up", "down", "slow"}, Change(q, to)
      PROVE  WasUp(s, from)'
  <2>1. CASE q # s
    <3>1. condition'[s] = condition[s] /\ upUntil'[s] = upUntil[s]
      BY <1>2, <2>1 DEF Change, ReadinessTypeOK
    <3> QED BY <3>1 DEF WasUp
  <2>2. CASE q = s /\ condition[s] = "up"
    <3>1. upUntil'[s] = clock /\ clock \in Nat
      BY <1>2, <2>2 DEF Change, ReadinessTypeOK
    <3> QED BY <3>1, ReadinessAssumption DEF WasUp
  <2>3. CASE q = s /\ condition[s] # "up"
    <3>1. upUntil'[s] = upUntil[s]
      BY <1>2, <2>3 DEF Change, ReadinessTypeOK
    <3> QED BY <2>3, <3>1 DEF WasUp
  <2> QED BY <2>1, <2>2, <2>3
<1> QED BY <1>1, <1>2

\* The clock and the stores go on; nothing is asked or answered.
LEMMA WorldStep ==
    ASSUME ReadinessInvariant, UNCHANGED <<cached, expiresAt, pending, answer>>,
           clock' \in Nat, clock <= clock',
           pending # NoneYet => clock' <= pending.startedAt + TimeoutMs,
           ReadinessTypeOK',
           \/ UNCHANGED <<condition, upUntil>>
           \/ \E q \in Stores, to \in {"up", "down", "slow"} : Change(q, to)
    PROVE  ReadinessInvariant'
<1> USE DEF ReadinessInvariant
<1>1. \A s \in Enabled, from \in Nat : from <= clock /\ WasUp(s, from) => WasUp(s, from)'
  BY WasUpStays, ReadinessAssumption
<1>2. \A s \in Enabled : \A t : UpShortlyBefore(s, t) => UpShortlyBefore(s, t)'
  <2> SUFFICES ASSUME NEW s \in Enabled, NEW t, NEW from \in Nat, from <= clock,
                      t <= from + TimeoutMs + CacheMs, WasUp(s, from)
               PROVE  \E f \in Nat : f <= clock' /\ t <= f + TimeoutMs + CacheMs /\ WasUp(s, f)'
    BY DEF UpShortlyBefore
  <2>1. from <= clock'
    BY DEF ReadinessTypeOK
  <2> QED BY <1>1, <2>1
<1>3. RoundInv'
  <2>1. pending # NoneYet => pending.startedAt \in Nat /\ \A s \in Enabled :
           pending.probe[s].lastSuccessAt \in {NoneYet} \cup Nat
    BY DEF ReadinessTypeOK, Rounds, Outcomes
  <2> QED BY <1>1, <2>1 DEF RoundInv, ReadinessTypeOK
<1>4. CacheInv'
  <2>1. cached # NoneYet => \A s \in Enabled : cached.stores[s].lastSuccessAt \in {NoneYet} \cup Nat
    BY DEF ReadinessTypeOK, Results, Outcomes
  <2>2. cached # NoneYet => \A s \in Enabled : Knows(clock', cached.stores[s].lastSuccessAt)
    BY <2>1, ReadinessAssumption DEF CacheInv, Knows, ReadinessTypeOK
  <2> QED BY <1>2, <2>2 DEF CacheInv
<1>5. AnswerInv'
  <2>1. Answered' = Answered
    BY DEF Answered
  <2>2. \A r \in Answered : answer[r].at \in Nat
    BY DEF Answered, ReadinessTypeOK, Asked
  <2>3. \A r \in Answered : answer[r].at <= clock'
    BY <2>2 DEF AnswerInv, ReadinessTypeOK
  <2> QED BY <1>2, <2>1, <2>3 DEF AnswerInv
<1> QED BY <1>3, <1>4, <1>5

LEMMA ClockTickStep ==
    ASSUME ReadinessInvariant, ClockTick
    PROVE  ReadinessInvariant'
<1>1. /\ clock' = clock + 1 /\ clock \in Nat
      /\ UNCHANGED <<condition, upUntil, cached, expiresAt, pending, answer>>
      /\ pending # NoneYet => clock < pending.startedAt + TimeoutMs
  BY DEF ClockTick, ReadinessInvariant, ReadinessTypeOK
<1>2. pending # NoneYet => clock' <= pending.startedAt + TimeoutMs
  BY <1>1, ReadinessAssumption DEF ReadinessInvariant, ReadinessTypeOK, Rounds
<1>3. ReadinessTypeOK'
  BY <1>1 DEF ReadinessInvariant, ReadinessTypeOK
<1>4. clock' \in Nat /\ clock <= clock'
  BY <1>1
<1> QED BY <1>1, <1>2, <1>3, <1>4, WorldStep

LEMMA ChangeStep ==
    ASSUME ReadinessInvariant, NEW s \in Stores, NEW to \in {"up", "down", "slow"}, Change(s, to)
    PROVE  ReadinessInvariant'
<1>1. /\ UNCHANGED <<clock, cached, expiresAt, pending, answer>>
      /\ condition' = [condition EXCEPT ![s] = to]
      /\ upUntil' = IF condition[s] = "up" THEN [upUntil EXCEPT ![s] = clock] ELSE upUntil
  BY DEF Change
<1>2. ReadinessTypeOK'
  BY <1>1 DEF ReadinessInvariant, ReadinessTypeOK
<1>3. clock' \in Nat /\ clock <= clock' /\ (pending # NoneYet => clock' <= pending.startedAt + TimeoutMs)
  BY <1>1 DEF ReadinessInvariant, ReadinessTypeOK, RoundInv
<1> QED BY <1>1, <1>2, <1>3, WorldStep

\* A probe finds something; only what it finds "ready" needs to be so.
LEMMA FoundStep ==
    ASSUME ReadinessInvariant, NEW s \in Enabled, s \in Probing, NEW found \in Outcomes,
           Found(s, found),
           found.status = "ready" => found.lastSuccessAt = clock /\ WasUp(s, clock),
           found.status # "ready" => found.lastSuccessAt = NoneYet
    PROVE  ReadinessInvariant'
<1> USE DEF ReadinessInvariant
<1>1. pending # NoneYet /\ pending \in Rounds
  BY DEF Probing, ReadinessTypeOK
<1>2. /\ pending' = [pending EXCEPT !.probe[s] = found]
      /\ UNCHANGED <<clock, condition, upUntil, cached, expiresAt, answer>>
  BY DEF Found
<1>3. /\ pending' \in Rounds /\ pending'.startedAt = pending.startedAt
      /\ pending'.probe[s] = found
      /\ \A q \in Enabled : q # s => pending'.probe[q] = pending.probe[q]
  BY <1>1, <1>2 DEF Rounds
<1>4. ReadinessTypeOK'
  BY <1>2, <1>3 DEF ReadinessTypeOK
<1>5. RoundInv'
  <2>1. clock \in Nat /\ pending.startedAt \in Nat /\ pending.startedAt <= clock
    BY <1>1 DEF ReadinessTypeOK, Rounds, RoundInv
  <2>2. WasUp(s, clock) => WasUp(s, pending.startedAt)
    BY <2>1, ReadinessAssumption DEF WasUp, ReadinessTypeOK
  <2>3. \A q \in Enabled, t \in Nat : WasUp(q, t)' <=> WasUp(q, t)
    BY <1>2 DEF WasUp
  <2> QED BY <1>1, <1>2, <1>3, <2>1, <2>2, <2>3, ReadinessAssumption DEF RoundInv
<1>6. CacheInv'
  BY <1>2 DEF CacheInv, UpShortlyBefore, WasUp
<1>7. AnswerInv'
  BY <1>2 DEF AnswerInv, UpShortlyBefore, WasUp, Answered
<1> QED BY <1>4, <1>5, <1>6, <1>7

LEMMA ProbeStepIs ==
    \A name \in {"columns", "tables", "unavailable"} :
        /\ ProbeStep(name) \in Outcomes /\ ProbeStep(name).status = name
        /\ ProbeStep(name).lastSuccessAt = NoneYet
BY DEF ProbeStep, Outcomes

LEMMA ProbeIsFound ==
    ASSUME ReadinessInvariant, NEW s \in Enabled,
           ProbeColumns(s) \/ ProbeTables(s) \/ ProbeFails(s) \/ ProbeTimesOut(s)
    PROVE  ReadinessInvariant'
<1>1. s \in Probing
  BY DEF ProbeColumns, ProbeTables, ProbeFails, ProbeTimesOut
<1>2. CASE ProbeColumns(s)
  <2>1. Found(s, ProbeStep("tables"))
    BY <1>2 DEF ProbeColumns
  <2> QED BY <1>1, <2>1, ProbeStepIs, FoundStep
<1>3. CASE ProbeTables(s)
  <2>1. Found(s, Ready(clock)) /\ WasUp(s, clock)
    BY <1>3 DEF ProbeTables, WasUp
  <2>2. Ready(clock) \in Outcomes /\ Ready(clock).status = "ready" /\ Ready(clock).lastSuccessAt = clock
    BY DEF Ready, Outcomes, ReadinessInvariant, ReadinessTypeOK
  <2> QED BY <1>1, <2>1, <2>2, FoundStep
<1>4. CASE ProbeFails(s) \/ ProbeTimesOut(s)
  <2>1. Found(s, ProbeStep("unavailable"))
    BY <1>4 DEF ProbeFails, ProbeTimesOut, Unavailable
  <2> QED BY <1>1, <2>1, ProbeStepIs, FoundStep
<1> QED BY <1>2, <1>3, <1>4

\* The result of a round: it knows more than the one before, and "ready" says
\* that every store was up since it began.
LEMMA RoundEnds ==
    ASSUME ReadinessInvariant, pending # NoneYet, Probing = {}, NEW stores, NEW result,
           stores = [s \in Enabled |-> WithLastSuccess(s, pending.probe[s])],
           result = [status |-> Overall(stores), stores |-> stores]
    PROVE  /\ result \in Results
           /\ cached # NoneYet => Follows(result, cached)
           /\ \A s \in Enabled :
                 /\ Knows(clock, result.stores[s].lastSuccessAt)
                 /\ result.status = "ready" => UpShortlyBefore(s, clock + CacheMs)
<1> USE DEF ReadinessInvariant
<1>1. pending \in Rounds /\ clock \in Nat /\ cached \in {NoneYet} \cup Results
  BY DEF ReadinessTypeOK
<1>2. result.stores = stores /\ result.status = Overall(stores)
  OBVIOUS
<1>3. ASSUME NEW s \in Enabled
      PROVE  /\ stores[s] \in Outcomes
             /\ cached # NoneYet => Knows(stores[s].lastSuccessAt, cached.stores[s].lastSuccessAt)
             /\ Knows(clock, stores[s].lastSuccessAt)
             /\ stores[s].status = "ready" => WasUp(s, pending.startedAt)
  <2> DEFINE found == pending.probe[s]
  <2>1. found \in Outcomes /\ found.status \in {"ready", "unavailable"} /\ pending.startedAt \in Nat
        /\ pending.startedAt <= clock
    BY <1>1 DEF Rounds, Outcomes, Probing, RoundInv
  <2>2. stores[s] = WithLastSuccess(s, found)
    OBVIOUS
  <2>3. cached # NoneYet => cached.stores[s].lastSuccessAt \in {NoneYet} \cup Nat
    BY <1>1 DEF Results, Outcomes
  <2>4. CASE found.status = "ready"
    <3>1. stores[s] = found
      BY <2>2, <2>4 DEF WithLastSuccess
    <3>2. /\ found.lastSuccessAt \in Nat
          /\ pending.startedAt <= found.lastSuccessAt /\ found.lastSuccessAt <= clock
          /\ WasUp(s, pending.startedAt)
          /\ cached # NoneYet => Knows(pending.startedAt, cached.stores[s].lastSuccessAt)
      BY <2>1, <2>4 DEF RoundInv, Outcomes
    <3>5. clock # NoneYet /\ found.lastSuccessAt # NoneYet
      BY <1>1, <3>2, ReadinessAssumption
    <3>3. Knows(clock, found.lastSuccessAt) /\ Knows(found.lastSuccessAt, pending.startedAt)
      BY <3>2, <3>5 DEF Knows
    <3> HIDE DEF found
    <3>4. cached # NoneYet => Knows(found.lastSuccessAt, cached.stores[s].lastSuccessAt)
      BY <2>1, <2>3, <3>2, <3>3, KnowsIsTransitive
    <3> QED BY <2>1, <3>1, <3>2, <3>3, <3>4
  <2>5. CASE found.status # "ready" /\ cached = NoneYet
    <3>1. stores[s] = found /\ found.lastSuccessAt = NoneYet
      BY <2>2, <2>5, <2>1 DEF WithLastSuccess, RoundInv
    <3> QED BY <2>1, <2>5, <3>1 DEF Knows
  <2>6. CASE found.status # "ready" /\ cached # NoneYet
    <3> DEFINE known == cached.stores[s].lastSuccessAt
    <3>1. stores[s] = [found EXCEPT !.lastSuccessAt = known]
      BY <2>1, <2>2, <2>6 DEF WithLastSuccess
    <3>2. stores[s] \in Outcomes /\ stores[s].lastSuccessAt = known /\ stores[s].status = found.status
      <4> HIDE DEF found, known
      <4> QED BY <2>1, <2>3, <2>6, <3>1 DEF Outcomes, known
    <3>3. Knows(known, known) /\ Knows(clock, known)
      BY <2>3, <2>6 DEF Knows, CacheInv
    <3> QED BY <2>6, <3>2, <3>3
  <2> QED BY <2>4, <2>5, <2>6
<1>4. result \in Results
  <2>1. stores \in [Enabled -> Outcomes]
    BY <1>3
  <2>2. Overall(stores) \in {"ready", "unavailable"}
    BY DEF Overall
  <2> HIDE DEF Results
  <2> QED BY <2>1, <2>2 DEF Results
<1>5. cached # NoneYet => Follows(result, cached)
  BY <1>2, <1>3 DEF Follows
<1>6. ASSUME NEW s \in Enabled, result.status = "ready"
      PROVE  UpShortlyBefore(s, clock + CacheMs)
  <2>1. stores[s].status = "ready"
    BY <1>2, <1>6 DEF Overall
  <2>2. WasUp(s, pending.startedAt)
    BY <1>3, <2>1
  <2>3. /\ pending.startedAt \in Nat /\ pending.startedAt <= clock
        /\ clock + CacheMs <= pending.startedAt + TimeoutMs + CacheMs
    BY <1>1, ReadinessAssumption DEF Rounds, RoundInv
  <2> QED BY <2>2, <2>3 DEF UpShortlyBefore
<1> QED BY <1>2, <1>3, <1>4, <1>5, <1>6

LEMMA FinishStep ==
    ASSUME ReadinessInvariant, Finish
    PROVE  ReadinessInvariant'
<1> USE DEF ReadinessInvariant
<1>1. pending # NoneYet /\ Probing = {} /\ pending' = NoneYet /\ expiresAt' = clock + CacheMs
      /\ UNCHANGED <<clock, condition, upUntil>>
  BY DEF Finish
<1>2. PICK stores : stores = [s \in Enabled |-> WithLastSuccess(s, pending.probe[s])]
  OBVIOUS
<1>3. PICK result : result = [status |-> Overall(stores), stores |-> stores]
  OBVIOUS
<1>4. /\ cached' = result
      /\ answer' = [r \in Askers |-> IF answer[r].state = "waiting" THEN Given(result) ELSE answer[r]]
  BY <1>2, <1>3 DEF Finish
<1>5. /\ result \in Results
      /\ cached # NoneYet => Follows(result, cached)
      /\ \A s \in Enabled :
            /\ Knows(clock, result.stores[s].lastSuccessAt)
            /\ result.status = "ready" => UpShortlyBefore(s, clock + CacheMs)
  BY <1>1, <1>2, <1>3, RoundEnds
<1>6. result # NoneYet /\ clock \in Nat /\ CacheMs \in Nat /\ TimeoutMs \in Nat
  BY <1>5, ReadinessAssumption DEF ReadinessTypeOK
<1>7. Given(result) \in Asked /\ Given(result).at = clock /\ Given(result).result = result
      /\ Given(result).state = "answered"
  BY <1>5, <1>6 DEF Given, Asked
<1>8. ReadinessTypeOK'
  <2>1. answer' \in [Askers -> Asked]
    BY <1>4, <1>7 DEF ReadinessTypeOK
  <2> QED BY <1>1, <1>4, <1>5, <1>6, <2>1 DEF ReadinessTypeOK
<1>9. RoundInv'
  BY <1>1 DEF RoundInv
<1>10. \A s \in Enabled : \A t : UpShortlyBefore(s, t)' <=> UpShortlyBefore(s, t)
  BY <1>1 DEF UpShortlyBefore, WasUp
<1>11. CacheInv'
  BY <1>1, <1>4, <1>5, <1>10 DEF CacheInv
<1>12. AnswerInv'
  <2>1. \A r \in Answered' : \/ answer'[r] = Given(result)
                             \/ r \in Answered /\ answer'[r] = answer[r]
    BY <1>4 DEF Answered
  <2>2. \A r \in Answered : answer[r].result \in Results /\ answer[r].at \in Nat
    BY DEF Answered, AnswerInv, ReadinessTypeOK, Asked
  <2>3. \A r \in Answered : Follows(result, answer[r].result)
    <3>1. \A r \in Answered : cached # NoneYet /\ Follows(cached, answer[r].result)
      BY DEF AnswerInv
    <3>2. cached # NoneYet => cached \in Results
      BY DEF ReadinessTypeOK
    <3> QED BY <1>5, <2>2, <3>1, <3>2, FollowsIsTransitive
  <2>4. \A s \in Enabled : result.status = "ready" => UpShortlyBefore(s, clock)
    <3> SUFFICES ASSUME NEW s \in Enabled, result.status = "ready" PROVE UpShortlyBefore(s, clock)
      OBVIOUS
    <3>1. PICK from \in Nat : from <= clock /\ clock + CacheMs <= from + TimeoutMs + CacheMs /\ WasUp(s, from)
      BY <1>5 DEF UpShortlyBefore
    <3> QED BY <1>6, <3>1 DEF UpShortlyBefore
  <2>5. Follows(result, result)
    BY <1>5, FollowsItself
  <2> SUFFICES ASSUME NEW r \in Answered'
               PROVE  /\ answer'[r].result # NoneYet /\ answer'[r].at <= clock
                      /\ Follows(result, answer'[r].result)
                      /\ answer'[r].result.status = "ready" =>
                            \A s \in Enabled : UpShortlyBefore(s, answer'[r].at)
                      /\ \A q \in Answered' : answer'[r].at < answer'[q].at =>
                            Follows(answer'[q].result, answer'[r].result)
    BY <1>1, <1>4, <1>6, <1>10 DEF AnswerInv
  <2>6. CASE answer'[r] = Given(result)
    <3>1. \A q \in Answered' : answer'[q].at <= clock
      BY <1>6, <1>7, <2>1 DEF AnswerInv
    <3>2. \A q \in Answered' : answer'[q].at \in Nat
      BY <1>6, <1>7, <2>1, <2>2
    <3>3. \A q \in Answered' : ~(answer'[r].at < answer'[q].at)
      BY <1>6, <1>7, <2>6, <3>1, <3>2
    <3> QED BY <1>6, <1>7, <2>4, <2>5, <2>6, <3>3
  <2>7. CASE r \in Answered /\ answer'[r] = answer[r]
    BY <1>7, <2>1, <2>3, <2>7 DEF AnswerInv
  <2> QED BY <2>1, <2>6, <2>7
<1> QED BY <1>8, <1>9, <1>11, <1>12

LEMMA RequestStep ==
    ASSUME ReadinessInvariant, NEW r \in Askers, Request(r)
    PROVE  ReadinessInvariant'
<1> USE DEF ReadinessInvariant
<1>1. UNCHANGED <<clock, condition, upUntil, cached, expiresAt>> /\ clock \in Nat
  BY DEF Request, ReadinessTypeOK
<1>2. \A s \in Enabled : \A t : UpShortlyBefore(s, t)' <=> UpShortlyBefore(s, t)
  BY <1>1 DEF UpShortlyBefore, WasUp
<1>6. \A s \in Enabled : \A t : WasUp(s, t)' <=> WasUp(s, t)
  BY <1>1 DEF WasUp
<1>3. CacheInv'
  BY <1>1, <1>2 DEF CacheInv
<1>4. CASE Fresh
  <2>1. /\ answer' = [answer EXCEPT ![r] = Given(cached)] /\ UNCHANGED pending
        /\ cached # NoneYet /\ clock < expiresAt /\ cached \in Results
    BY <1>4 DEF Request, Fresh, ReadinessTypeOK
  <2>2. Given(cached) \in Asked /\ Given(cached).at = clock /\ Given(cached).result = cached
        /\ Given(cached).state = "answered"
    BY <1>1, <2>1 DEF Given, Asked
  <2>3. ReadinessTypeOK'
    BY <1>1, <2>1, <2>2 DEF ReadinessTypeOK
  <2>4. RoundInv'
    BY <1>1, <1>6, <2>1 DEF RoundInv
  <2>5. \A q \in Answered' : \/ answer'[q] = Given(cached)
                             \/ q \in Answered /\ answer'[q] = answer[q]
    BY <2>1 DEF Answered, ReadinessTypeOK
  <2>6. \A s \in Enabled : cached.status = "ready" => UpShortlyBefore(s, clock)
    <3> SUFFICES ASSUME NEW s \in Enabled, cached.status = "ready" PROVE UpShortlyBefore(s, clock)
      OBVIOUS
    <3>1. PICK from \in Nat : from <= clock /\ expiresAt <= from + TimeoutMs + CacheMs /\ WasUp(s, from)
      BY <2>1 DEF CacheInv, UpShortlyBefore
    <3>2. clock <= from + TimeoutMs + CacheMs
      BY <1>1, <2>1, <3>1, ReadinessAssumption DEF ReadinessTypeOK
    <3> QED BY <3>1, <3>2 DEF UpShortlyBefore
  <2>7. Follows(cached, cached)
    BY <2>1, FollowsItself
  <2>8. \A q \in Answered' : answer'[q].at <= clock /\ answer'[q].at \in Nat
    BY <1>1, <2>2, <2>5 DEF AnswerInv, Answered, ReadinessTypeOK, Asked
  <2>9. AnswerInv'
    <3> SUFFICES ASSUME NEW p \in Answered'
                 PROVE  /\ answer'[p].result # NoneYet /\ answer'[p].at <= clock
                        /\ Follows(cached, answer'[p].result)
                        /\ answer'[p].result.status = "ready" =>
                              \A s \in Enabled : UpShortlyBefore(s, answer'[p].at)
                        /\ \A q \in Answered' : answer'[p].at < answer'[q].at =>
                              Follows(answer'[q].result, answer'[p].result)
      BY <1>1, <1>2, <2>1 DEF AnswerInv
    <3>1. CASE answer'[p] = Given(cached)
      <4>1. \A q \in Answered' : ~(answer'[p].at < answer'[q].at)
        BY <1>1, <2>2, <2>8, <3>1
      <4> QED BY <2>1, <2>2, <2>6, <2>7, <2>8, <3>1, <4>1
    <3>2. CASE p \in Answered /\ answer'[p] = answer[p]
      BY <2>2, <2>5, <3>2 DEF AnswerInv
    <3> QED BY <2>5, <3>1, <3>2
  <2> QED BY <1>3, <2>3, <2>4, <2>9
<1>5. CASE ~Fresh
  <2> DEFINE waits == [Unasked EXCEPT !.state = "waiting"]
             round == [startedAt |-> clock, probe |-> [s \in Enabled |-> ProbeStep("columns")]]
  <2>1. /\ answer' = [answer EXCEPT ![r] = waits]
        /\ pending' = IF pending # NoneYet THEN pending ELSE round
    BY <1>5 DEF Request
  <2>2. waits \in Asked /\ waits.state = "waiting"
    BY DEF Unasked, Asked
  <2>3. round \in Rounds /\ round.startedAt = clock
        /\ \A s \in Enabled : round.probe[s] = ProbeStep("columns")
    BY <1>1, ProbeStepIs DEF Rounds
  <2> HIDE DEF waits, round
  <2>4. ReadinessTypeOK'
    <3>1. answer' \in [Askers -> Asked]
      BY <2>1, <2>2 DEF ReadinessTypeOK
    <3>2. pending' \in {NoneYet} \cup Rounds
      BY <2>1, <2>3 DEF ReadinessTypeOK
    <3> QED BY <1>1, <3>1, <3>2 DEF ReadinessTypeOK
  <2>5. RoundInv'
    <3>1. CASE pending # NoneYet
      <4>1. pending' = pending
        BY <2>1, <3>1
      <4> QED BY <1>1, <1>6, <4>1 DEF RoundInv
    <3>2. CASE pending = NoneYet
      <4>1. pending' = round
        BY <2>1, <3>2
      <4>2. clock <= clock + TimeoutMs
        BY <1>1, ReadinessAssumption
      <4>3. cached # NoneYet => \A s \in Enabled : Knows(clock, cached.stores[s].lastSuccessAt)
        BY DEF CacheInv
      <4> QED BY <1>1, <2>3, <4>1, <4>2, <4>3, ProbeStepIs DEF RoundInv
    <3> QED BY <3>1, <3>2
  <2>6. AnswerInv'
    <3>1. \A q \in Answered' : q \in Answered /\ answer'[q] = answer[q]
      BY <2>1, <2>2 DEF Answered, ReadinessTypeOK
    <3> QED BY <1>1, <1>2, <3>1 DEF AnswerInv
  <2> QED BY <1>3, <2>4, <2>5, <2>6
<1> QED BY <1>4, <1>5

LEMMA ReadinessInductive ==
    ASSUME ReadinessInvariant, [ReadinessNext]_readinessVars
    PROVE  ReadinessInvariant'
<1>1. CASE UNCHANGED readinessVars
  <2> USE <1>1 DEF readinessVars, ReadinessInvariant
  <2>1. ReadinessTypeOK'
    BY DEF ReadinessTypeOK
  <2>2. RoundInv' /\ CacheInv'
    BY DEF RoundInv, CacheInv, UpShortlyBefore, WasUp
  <2>3. AnswerInv'
    BY DEF AnswerInv, Answered, UpShortlyBefore, WasUp
  <2> QED BY <2>1, <2>2, <2>3
<1> QED BY <1>1, ClockTickStep, FinishStep, ChangeStep, ProbeIsFound, RequestStep DEF ReadinessNext

LEMMA ReadinessStarts == ReadinessInit => ReadinessInvariant
<1> SUFFICES ASSUME ReadinessInit PROVE ReadinessInvariant
  OBVIOUS
<1>1. ReadinessTypeOK
  <2>1. Unasked \in Asked
    BY DEF Unasked, Asked
  <2> QED BY <2>1 DEF ReadinessInit, ReadinessTypeOK
<1>2. Answered = {}
  BY DEF ReadinessInit, Answered, Unasked
<1> QED BY <1>1, <1>2 DEF ReadinessInit, ReadinessInvariant, RoundInv, CacheInv, AnswerInv

(* Whatever requests share a round or are answered from the cache, and      *)
(* whatever the stores do meanwhile: "ready" is no older than a round and   *)
(* the time its result is kept, and a later answer knows of no older        *)
(* success (readiness.ts).                                                  *)
THEOREM ReadyIsRecent == ReadinessSpec => []AnswersAreFresh
<1>1. ReadinessInvariant => AnswersAreFresh
  <2> SUFFICES ASSUME ReadinessInvariant PROVE AnswersAreFresh
    OBVIOUS
  <2> USE DEF ReadinessInvariant
  <2>1. ASSUME NEW r \in Answered, NEW s \in Enabled, answer[r].at = clock,
               answer[r].result.status = "ready"
        PROVE  WasUp(s, IF clock < TimeoutMs + CacheMs THEN 0 ELSE clock - TimeoutMs - CacheMs)
    <3>1. PICK from \in Nat : from <= clock /\ clock <= from + TimeoutMs + CacheMs /\ WasUp(s, from)
      BY <2>1 DEF AnswerInv, UpShortlyBefore
    <3> DEFINE since == IF clock < TimeoutMs + CacheMs THEN 0 ELSE clock - TimeoutMs - CacheMs
    <3>2. since \in Nat /\ since <= from
      BY <3>1, ReadinessAssumption DEF ReadinessTypeOK
    <3> HIDE DEF since
    <3>3. WasUp(s, since)
      BY <3>1, <3>2, ReadinessAssumption DEF WasUp, ReadinessTypeOK
    <3> QED BY <3>3 DEF since
  <2>2. ASSUME NEW r \in Answered, NEW q \in Answered, NEW s \in Enabled,
               answer[r].at < answer[q].at
        PROVE  Knows(answer[q].result.stores[s].lastSuccessAt, answer[r].result.stores[s].lastSuccessAt)
    BY <2>2 DEF AnswerInv, Follows
  <2> QED BY <2>1, <2>2 DEF AnswersAreFresh, Knows
<1> QED BY <1>1, ReadinessStarts, ReadinessInductive, PTL DEF ReadinessSpec

----------------------------------------------------------------------------
(* DiagnosticQuery: a row that has not been shown yet has at least offset   *)
(* others before it, so that no page starts behind it.                      *)
DiagnosticsTypeOK ==
    /\ inserted \in SUBSET DiagnosticRows
    /\ present \in Nat /\ limit \in Nat /\ offset \in Nat
    /\ lowerBound \in {{}, {1}}
    /\ atStart \subseteq inserted

\* The rows of a table that come before r.
RowsBefore(rows, r) == {q \in rows : SortsBefore(q, r)}
SoleIn(rows, r) == \A q \in rows : q.time = r.time /\ q.key = r.key => q = r

NotYetShown ==
    walk = "walking" =>
        \A r \in atStart \cap Matching :
            Sole(r) /\ r \notin shown => offset <= Cardinality(RowsBefore(Matching, r))

WalkInvariant ==
    /\ DiagnosticsTypeOK /\ NotYetShown /\ NothingSkipped
    /\ walk = "idle" => offset = 0

----------------------------------------------------------------------------
LEMMA MaxOfTwo ==
    ASSUME NEW a \in Int, NEW b \in Int
    PROVE  Max({a, b}) = IF a >= b THEN a ELSE b
<1>1. CASE a >= b
  <2>1. \A x \in {a, b} : (\A y \in {a, b} : x >= y) <=> x = a
    BY <1>1
  <2> QED BY <1>1, <2>1 DEF Max
<1>2. CASE ~(a >= b)
  <2>1. \A x \in {a, b} : (\A y \in {a, b} : x >= y) <=> x = b
    BY <1>2
  <2> QED BY <1>2, <2>1 DEF Max
<1> QED BY <1>1, <1>2

LEMMA MinOfTwo ==
    ASSUME NEW a \in Int, NEW b \in Int
    PROVE  Min({a, b}) = IF a <= b THEN a ELSE b
<1>1. CASE a <= b
  <2>1. \A x \in {a, b} : (\A y \in {a, b} : x <= y) <=> x = a
    BY <1>1
  <2> QED BY <1>1, <2>1 DEF Min
<1>2. CASE ~(a <= b)
  <2>1. \A x \in {a, b} : (\A y \in {a, b} : x <= y) <=> x = b
    BY <1>2
  <2> QED BY <1>2, <2>1 DEF Min
<1> QED BY <1>1, <1>2

LEMMA MaxOfOne == Max({1}) = 1
BY DEF Max

\* A set of finite sets is counted by its parts.
LEMMA SubsetsAreCounted ==
    ASSUME NEW rows \in SUBSET DiagnosticRows
    PROVE  /\ IsFiniteSet(rows) /\ Cardinality(rows) \in Nat
           /\ \A s \in SUBSET rows : /\ IsFiniteSet(s) /\ Cardinality(s) \in Nat
                                     /\ Cardinality(s) <= Cardinality(rows)
                                     /\ Cardinality(s) = Cardinality(rows) => s = rows
<1>1. IsFiniteSet(rows)
  BY DiagnosticsAssumption, FS_Subset
<1> QED BY <1>1, FS_Subset, FS_CardinalityType

LEMMA PartsAreAdded ==
    ASSUME NEW rows \in SUBSET DiagnosticRows, NEW a \in SUBSET rows, NEW b \in SUBSET rows,
           a \cap b = {}
    PROVE  Cardinality(a \cup b) = Cardinality(a) + Cardinality(b)
<1>1. IsFiniteSet(a) /\ IsFiniteSet(b)
  BY SubsetsAreCounted
<1>2. Cardinality(a \cap b) = 0
  BY FS_EmptySet
<1>3. Cardinality(a \cup b) = Cardinality(a) + Cardinality(b) - Cardinality(a \cap b)
  BY <1>1, FS_Union
<1>4. Cardinality(a) \in Nat /\ Cardinality(b) \in Nat
  BY <1>1, FS_CardinalityType
<1> QED BY <1>2, <1>3, <1>4

\* A row whose key is its own comes before or behind any other.
LEMMA SoleIsOrdered ==
    ASSUME NEW rows \in SUBSET DiagnosticRows, NEW r \in rows, SoleIn(rows, r), NEW q \in rows, q # r
    PROVE  SortsBefore(q, r) <=> ~SortsBefore(r, q)
BY DiagnosticsAssumption DEF SoleIn, SortsBefore

\* What a page does to a row that has offset others before it.
LEMMA PageIsOrdered ==
    ASSUME NEW rows \in SUBSET DiagnosticRows, NEW page \in SUBSET rows,
           NEW skipped \in SUBSET (rows \ page), NEW from \in Nat, NEW most \in Nat,
           Cardinality(page) = Min({most + 1, Max({Cardinality(rows) - from, 0})}),
           Cardinality(skipped) = Min({from, Cardinality(rows)}),
           \A a \in skipped, b \in page : ~SortsBefore(b, a),
           \A a \in skipped \cup page, b \in rows \ (skipped \cup page) : ~SortsBefore(b, a),
           NEW r \in rows, SoleIn(rows, r), from <= Cardinality(RowsBefore(rows, r))
    PROVE  /\ Cardinality(page) <= most => r \in page
           /\ \A slice \in SUBSET page :
                 /\ Cardinality(page) > most /\ Cardinality(slice) = most /\ r \notin slice
                 /\ \A a \in slice, b \in page \ slice : ~SortsBefore(b, a)
                 => from + most <= Cardinality(RowsBefore(rows, r))
<1> DEFINE before == RowsBefore(rows, r)
           n == Cardinality(rows)
<1>1. before \in SUBSET rows /\ r \notin before
  BY DiagnosticsAssumption DEF RowsBefore, SortsBefore
<1>2. n \in Nat /\ \A s \in SUBSET rows : /\ IsFiniteSet(s) /\ Cardinality(s) \in Nat
                                          /\ Cardinality(s) <= n /\ (Cardinality(s) = n => s = rows)
  BY SubsetsAreCounted
<1>3. Cardinality(skipped) = IF from <= n THEN from ELSE n
  BY <1>2, MinOfTwo
<1>4. Cardinality(page) = IF most + 1 <= (IF n - from >= 0 THEN n - from ELSE 0)
                          THEN most + 1 ELSE IF n - from >= 0 THEN n - from ELSE 0
  BY <1>2, MaxOfTwo, MinOfTwo
<1>5. \A q \in rows : q # r => (q \in before <=> ~SortsBefore(r, q))
  BY SoleIsOrdered DEF RowsBefore
<1>6. r \notin skipped
  <2> SUFFICES ASSUME r \in skipped PROVE FALSE
    OBVIOUS
  <2>1. before \subseteq skipped
    <3> SUFFICES ASSUME NEW q \in before, q \notin skipped PROVE FALSE
      OBVIOUS
    <3>1. SortsBefore(q, r)
      BY DEF RowsBefore
    <3> QED BY <1>1, <3>1
  <2>2. before # skipped
    BY <1>1
  <2>3. Cardinality(before) < Cardinality(skipped)
    <3>1. IsFiniteSet(skipped) /\ Cardinality(skipped) \in Nat /\ Cardinality(before) \in Nat
      BY <1>1, <1>2
    <3> QED BY <2>1, <2>2, <3>1, FS_Subset
  <2> QED BY <1>1, <1>2, <1>3, <2>3
<1>7. skipped \cap page = {} /\ Cardinality(skipped \cup page) = Cardinality(skipped) + Cardinality(page)
  BY PartsAreAdded
<1>8. ASSUME Cardinality(page) <= most
      PROVE  r \in page
  <2>1. Cardinality(skipped \cup page) = n
    BY <1>2, <1>3, <1>4, <1>7, <1>8
  <2>2. skipped \cup page = rows
    BY <1>2, <2>1
  <2> QED BY <1>6, <2>2
<1>9. ASSUME NEW slice \in SUBSET page, Cardinality(page) > most, Cardinality(slice) = most,
             r \notin slice, \A a \in slice, b \in page \ slice : ~SortsBefore(b, a)
      PROVE  from + most <= Cardinality(before)
  <2>1. skipped \cup slice \subseteq before
    <3> SUFFICES ASSUME NEW q \in skipped \cup slice PROVE q \in before
      OBVIOUS
    <3>1. q \in rows /\ q # r
      BY <1>6, <1>9
    <3>2. ~SortsBefore(r, q)
      BY <1>6, <1>9
    <3> QED BY <1>5, <3>1, <3>2
  <2>2. Cardinality(skipped) = from
    BY <1>2, <1>3, <1>4, <1>9
  <2>3. Cardinality(skipped \cup slice) = from + most
    BY <1>9, <2>2, PartsAreAdded
  <2>4. IsFiniteSet(before)
    BY <1>1, <1>2
  <2> QED BY <2>1, <2>3, <2>4, FS_Subset
<1> QED BY <1>8, <1>9

----------------------------------------------------------------------------
LEMMA SinceIsANumber ==
    ASSUME DiagnosticsTypeOK
    PROVE  Since(lowerBound) = IF lowerBound = {1} THEN 1
                               ELSE IF present - Window >= 0 THEN present - Window ELSE 0
<1>1. lowerBound = {1} => Since(lowerBound) = 1
  BY MaxOfOne DEF Since
<1>2. lowerBound = {} => Since(lowerBound) = IF present - Window >= 0 THEN present - Window ELSE 0
  BY MaxOfTwo, DiagnosticsAssumption DEF Since, DiagnosticsTypeOK
<1> QED BY <1>1, <1>2 DEF DiagnosticsTypeOK

LEMMA MatchingRows ==
    ASSUME DiagnosticsTypeOK
    PROVE  Matching \in SUBSET DiagnosticRows /\ Matching \subseteq inserted
BY DEF Matching, MatchingFrom, DiagnosticsTypeOK

\* Rows are inserted, or the window moves: what still matches keeps the rows
\* before it.
LEMMA TableStep ==
    ASSUME WalkInvariant, UNCHANGED <<offset, shown, atStart, walk>>, DiagnosticsTypeOK',
           inserted \subseteq inserted',
           (atStart \cap Matching') \subseteq Matching,
           \A r \in Matching \cap Matching' : RowsBefore(Matching, r) \subseteq RowsBefore(Matching, r)'
    PROVE  WalkInvariant'
<1> USE DEF WalkInvariant
<1>1. \A r \in atStart \cap Matching' : r \in Matching /\ (Sole(r)' => Sole(r))
  BY DEF Sole
<1>2. NotYetShown'
  <2> SUFFICES ASSUME walk = "walking", NEW r \in atStart \cap Matching', Sole(r)', r \notin shown
               PROVE  offset <= Cardinality(RowsBefore(Matching, r)')
    BY DEF NotYetShown
  <2>1. offset <= Cardinality(RowsBefore(Matching, r))
    BY <1>1 DEF NotYetShown
  <2>2. /\ RowsBefore(Matching, r) \subseteq RowsBefore(Matching, r)'
        /\ RowsBefore(Matching, r)' \in SUBSET DiagnosticRows
    <3>1. Matching' \in SUBSET DiagnosticRows
      BY DEF Matching, MatchingFrom, DiagnosticsTypeOK
    <3> QED BY <1>1, <3>1 DEF RowsBefore
  <2>3. /\ Cardinality(RowsBefore(Matching, r)) <= Cardinality(RowsBefore(Matching, r)')
        /\ Cardinality(RowsBefore(Matching, r)) \in Nat /\ Cardinality(RowsBefore(Matching, r)') \in Nat
    BY <2>2, SubsetsAreCounted
  <2> QED BY <2>1, <2>3 DEF DiagnosticsTypeOK
<1>3. NothingSkipped'
  BY <1>1 DEF NothingSkipped
<1> QED BY <1>2, <1>3

LEMMA InsertStep ==
    ASSUME WalkInvariant, NEW r \in DiagnosticRows, InsertRow(r)
    PROVE  WalkInvariant'
<1>1. /\ inserted' = inserted \cup {r}
      /\ UNCHANGED <<present, lowerBound, limit, offset, shown, atStart, walk>>
  BY DEF InsertRow
<1>2. DiagnosticsTypeOK'
  BY <1>1 DEF WalkInvariant, DiagnosticsTypeOK
<1>3. Since(lowerBound)' = Since(lowerBound)
  BY <1>1 DEF Since
<1>4. Matching \subseteq Matching' /\ \A q \in Matching' : q \in inserted => q \in Matching
  BY <1>1, <1>3 DEF Matching, MatchingFrom
<1>5. (atStart \cap Matching') \subseteq Matching
  BY <1>4 DEF WalkInvariant, DiagnosticsTypeOK
<1>6. \A q \in Matching \cap Matching' : RowsBefore(Matching, q) \subseteq RowsBefore(Matching, q)'
  BY <1>4 DEF RowsBefore
<1> QED BY <1>1, <1>2, <1>5, <1>6, TableStep

LEMMA PresentStep ==
    ASSUME WalkInvariant, PresentMoves
    PROVE  WalkInvariant'
<1>1. /\ present' = present + 1
      /\ UNCHANGED <<inserted, lowerBound, limit, offset, shown, atStart, walk>>
  BY DEF PresentMoves
<1>2. DiagnosticsTypeOK'
  BY <1>1 DEF WalkInvariant, DiagnosticsTypeOK
<1>3. Since(lowerBound) <= Since(lowerBound)' /\ Since(lowerBound) \in Nat /\ Since(lowerBound)' \in Nat
  <2>1. Since(lowerBound)' = IF lowerBound' = {1} THEN 1
                             ELSE IF present' - Window >= 0 THEN present' - Window ELSE 0
    BY <1>1, <1>2, MaxOfOne, MaxOfTwo, DiagnosticsAssumption DEF Since, DiagnosticsTypeOK
  <2>2. Since(lowerBound) = IF lowerBound = {1} THEN 1
                            ELSE IF present - Window >= 0 THEN present - Window ELSE 0
    BY SinceIsANumber DEF WalkInvariant
  <2>3. present \in Nat /\ Window \in Nat
    BY DiagnosticsAssumption DEF WalkInvariant, DiagnosticsTypeOK
  <2> QED BY <1>1, <2>1, <2>2, <2>3
<1>4. \A q \in inserted : q.time \in Nat
  BY DiagnosticsAssumption DEF WalkInvariant, DiagnosticsTypeOK
<1>5. Matching' \subseteq Matching
  BY <1>1, <1>3, <1>4 DEF Matching, MatchingFrom
<1>6. ASSUME NEW q \in Matching'
      PROVE  RowsBefore(Matching, q) \subseteq RowsBefore(Matching, q)'
  <2> SUFFICES ASSUME NEW p \in Matching, SortsBefore(p, q)
               PROVE  p \in Matching'
    BY DEF RowsBefore
  <2>1. p \in inserted /\ q \in inserted /\ q.time >= Since(lowerBound)'
    BY <1>1 DEF Matching, MatchingFrom
  <2>2. p.time >= q.time
    BY <1>4, <2>1 DEF SortsBefore
  <2>3. p.time >= Since(lowerBound)'
    BY <1>3, <1>4, <2>1, <2>2
  <2> QED BY <1>1, <2>1, <2>3 DEF Matching, MatchingFrom
<1> QED BY <1>1, <1>2, <1>5, <1>6, TableStep

LEMMA BeginStep ==
    ASSUME WalkInvariant, NEW bound \in {{}, {1}}, BeginWalk(bound)
    PROVE  WalkInvariant'
<1>1. /\ walk = "idle" /\ lowerBound' = bound /\ walk' = "walking"
      /\ atStart' = MatchingFrom(bound)
      /\ UNCHANGED <<inserted, present, limit, offset, shown>>
  BY DEF BeginWalk
<1>2. DiagnosticsTypeOK'
  BY <1>1 DEF WalkInvariant, DiagnosticsTypeOK, MatchingFrom
<1>3. \A r : Cardinality(RowsBefore(Matching, r)') \in Nat
  <2> SUFFICES ASSUME NEW r PROVE Cardinality(RowsBefore(Matching, r)') \in Nat
    OBVIOUS
  <2>1. RowsBefore(Matching, r)' \in SUBSET DiagnosticRows
    BY <1>2 DEF RowsBefore, Matching, MatchingFrom, DiagnosticsTypeOK
  <2> QED BY <2>1, SubsetsAreCounted
<1>4. offset' = 0
  BY <1>1 DEF WalkInvariant
<1>5. NotYetShown'
  BY <1>3, <1>4 DEF NotYetShown
<1> QED BY <1>1, <1>2, <1>5 DEF WalkInvariant, NothingSkipped

LEMMA PageStep ==
    ASSUME WalkInvariant, ReadPage
    PROVE  WalkInvariant'
<1> USE DEF WalkInvariant
<1>1. PICK result \in QueryResults : \E slice \in Slices(result) :
        /\ shown' = shown \cup slice
        /\ IF Cardinality(result) > limit
           THEN offset' = NextOffset /\ UNCHANGED walk
           ELSE walk' = "end" /\ UNCHANGED offset
  BY DEF ReadPage
<1>2. PICK slice \in Slices(result) :
        /\ shown' = shown \cup slice
        /\ IF Cardinality(result) > limit
           THEN offset' = NextOffset /\ UNCHANGED walk
           ELSE walk' = "end" /\ UNCHANGED offset
  BY <1>1
<1>3. walk = "walking" /\ UNCHANGED <<inserted, present, lowerBound, limit, atStart>>
  BY DEF ReadPage
<1>4. PICK M : M = Matching
  OBVIOUS
<1>5. /\ M \in SUBSET DiagnosticRows /\ Matching' = M
      /\ offset \in Nat /\ limit \in Nat
  BY <1>3, <1>4, MatchingRows DEF DiagnosticsTypeOK, Matching, MatchingFrom, Since
<1>6. /\ result \in SUBSET M
      /\ Cardinality(result) = Min({limit + 1, Max({Cardinality(M) - offset, 0})})
      /\ \E skipped \in kSubset(Min({offset, Cardinality(M)}), M \ result) :
            /\ \A a \in skipped, b \in result : ~SortsBefore(b, a)
            /\ \A a \in skipped \cup result, b \in M \ (skipped \cup result) : ~SortsBefore(b, a)
  BY <1>4 DEF QueryResults
<1>7. PICK skipped \in SUBSET (M \ result) :
        /\ Cardinality(skipped) = Min({offset, Cardinality(M)})
        /\ \A a \in skipped, b \in result : ~SortsBefore(b, a)
        /\ \A a \in skipped \cup result, b \in M \ (skipped \cup result) : ~SortsBefore(b, a)
  BY <1>6 DEF kSubset
<1>8. /\ ~(Cardinality(result) > limit) => slice = result
      /\ Cardinality(result) > limit =>
            /\ slice \in SUBSET result /\ Cardinality(slice) = limit
            /\ \A a \in slice, b \in result \ slice : ~SortsBefore(b, a)
  <2>1. Cardinality(result) \in Nat
    BY <1>5, <1>6, SubsetsAreCounted
  <2> QED BY <1>2, <1>5, <2>1 DEF Slices, kSubset
<1>9. \A r \in M : Sole(r) => SoleIn(M, r)
  BY <1>4, MatchingRows DEF Sole, SoleIn
<1>10. ASSUME NEW r \in atStart \cap M, Sole(r), r \notin shown
       PROVE  /\ Cardinality(result) <= limit => r \in result
              /\ Cardinality(result) > limit /\ r \notin slice =>
                    offset + limit <= Cardinality(RowsBefore(M, r))
  <2>1. offset <= Cardinality(RowsBefore(M, r))
    BY <1>3, <1>4, <1>10 DEF NotYetShown
  <2> QED BY <1>5, <1>6, <1>7, <1>8, <1>9, <1>10, <2>1, PageIsOrdered
<1>11. DiagnosticsTypeOK'
  BY <1>2, <1>3 DEF DiagnosticsTypeOK, NextOffset
<1>12. \A r : Sole(r)' <=> Sole(r)
  BY <1>3 DEF Sole
<1>13. NotYetShown'
  <2> SUFFICES ASSUME walk' = "walking", NEW r \in atStart \cap M, Sole(r), r \notin shown'
               PROVE  offset' <= Cardinality(RowsBefore(Matching, r)')
    BY <1>3, <1>5, <1>12 DEF NotYetShown
  <2>1. Cardinality(result) > limit /\ offset' = offset + limit /\ r \notin shown /\ r \notin slice
    BY <1>2 DEF NextOffset
  <2>2. RowsBefore(Matching, r)' = RowsBefore(M, r)
    BY <1>5 DEF RowsBefore
  <2> QED BY <1>10, <2>1, <2>2
<1>14. NothingSkipped'
  <2> SUFFICES ASSUME walk' = "end", NEW r \in atStart \cap M, Sole(r)
               PROVE  r \in shown'
    BY <1>3, <1>5, <1>12 DEF NothingSkipped
  <2>1. ~(Cardinality(result) > limit) /\ Cardinality(result) \in Nat
    BY <1>2, <1>3, <1>5, <1>6, SubsetsAreCounted
  <2>2. Cardinality(result) <= limit /\ slice = result
    BY <1>5, <1>8, <2>1
  <2> QED BY <1>2, <1>10, <2>2
<1>15. walk' # "idle"
  BY <1>2, <1>3
<1> QED BY <1>11, <1>13, <1>14, <1>15

LEMMA WalkInductive ==
    ASSUME WalkInvariant, [DiagnosticsNext]_diagnosticsVars
    PROVE  WalkInvariant'
<1>1. CASE OffsetRefused
  BY <1>1 DEF OffsetRefused, WalkInvariant, DiagnosticsTypeOK, NotYetShown, NothingSkipped
<1>2. CASE UNCHANGED diagnosticsVars
  BY <1>2 DEF diagnosticsVars, WalkInvariant, DiagnosticsTypeOK, NotYetShown, NothingSkipped,
              Sole, RowsBefore, Matching, MatchingFrom, Since
<1> QED BY <1>1, <1>2, InsertStep, PresentStep, BeginStep, PageStep DEF DiagnosticsNext

LEMMA WalkStarts == DiagnosticsInit => WalkInvariant
BY DiagnosticsAssumption
   DEF DiagnosticsInit, WalkInvariant, DiagnosticsTypeOK, NotYetShown, NothingSkipped

(* Rows that are inserted between two pages and rows that leave the window  *)
(* move the others, and a row with a sort key of its own that was there     *)
(* from the start is still shown (observability-query.ts, server.ts).       *)
THEOREM NothingIsSkipped == DiagnosticsSpec => []NothingSkipped
<1>1. WalkInvariant => NothingSkipped
  BY DEF WalkInvariant
<1> QED BY <1>1, WalkStarts, WalkInductive, PTL DEF DiagnosticsSpec
----------------------------------------------------------------------------
(* DeadLetterOutbox                                                         *)
\* What a flush is about to delete from the outbox has a row in its store.
CopiedIsStored ==
    \A w \in Workers : copied[w] # None =>
        \E s \in IssueStatuses : <<copied[w], s>> \in mirror[w]

OutboxInvariant ==
    /\ TypeOK /\ DOMAIN scanned = Workers /\ DOMAIN copied = Workers
    /\ IssuesReachAStore /\ CopiedIsStored

\* Rows are never taken from a store.
RowsStay == \A w \in Workers : mirror[w] \subseteq mirror'[w]

LEMMA OutboxStarts == Init => OutboxInvariant
BY DEF Init, OutboxInvariant, TypeOK, IssuesReachAStore, CopiedIsStored

LEMMA QuarantineStep ==
    ASSUME None \notin IssueStatuses, OutboxInvariant,
           NEW w \in Workers, NEW i \in Issues, Quarantine(w, i)
    PROVE  OutboxInvariant'
<1> USE DEF OutboxInvariant, Quarantine
<1>1. TypeOK'
  BY DEF TypeOK, IssueStatuses
<1>2. IssuesReachAStore'
  BY DEF TypeOK, IssuesReachAStore, IssueStatuses
<1>3. CopiedIsStored'
  BY DEF CopiedIsStored
<1> QED BY <1>1, <1>2, <1>3

LEMMA ResolveStep ==
    ASSUME None \notin IssueStatuses, OutboxInvariant, NEW i \in Issues, Resolve(i)
    PROVE  OutboxInvariant'
<1> USE DEF OutboxInvariant, Resolve
<1>1. TypeOK'
  BY DEF TypeOK, IssueStatuses
<1>2. IssuesReachAStore'
  BY DEF TypeOK, IssuesReachAStore, IssueStatuses
<1>3. CopiedIsStored'
  BY DEF CopiedIsStored
<1> QED BY <1>1, <1>2, <1>3

LEMMA ScanStep ==
    ASSUME OutboxInvariant, NEW w \in Workers, Scan(w)
    PROVE  OutboxInvariant'
<1> USE DEF OutboxInvariant, Scan
<1>1. copied[w] = None
  BY DEF TypeOK
<1>2. Scanned(w) \in UNION {[D -> IssueStatuses] : D \in SUBSET Issues}
  <2> DEFINE D == {n \in Issues : outbox[n] # None}
  <2>1. D \in SUBSET Issues /\ Scanned(w) = [i \in D |-> outbox[i]]
    BY DEF Scanned
  <2>2. \A i \in D : outbox[i] \in IssueStatuses
    BY DEF TypeOK
  <2>3. Scanned(w) \in [D -> IssueStatuses]
    BY <2>1, <2>2
  <2> QED BY <2>1, <2>3
<1>3. TypeOK'
  <2>1. ASSUME NEW v \in Workers
        PROVE  /\ scanned'[v] = None \/ scanned'[v] \in UNION {[D -> IssueStatuses] : D \in SUBSET Issues}
               /\ copied'[v] # None => scanned'[v] # None /\ copied'[v] \in DOMAIN scanned'[v]
    <3>1. CASE v = w
      <4>1. scanned'[v] \in {scanned[v], Scanned(w)}
        BY <3>1
      <4> QED BY <1>1, <1>2, <3>1, <4>1 DEF TypeOK
    <3>2. CASE v # w
      <4>1. scanned'[v] = scanned[v]
        BY <3>2
      <4> QED BY <4>1 DEF TypeOK
    <3> QED BY <3>1, <3>2
  <2> QED BY <2>1 DEF TypeOK
<1>4. IssuesReachAStore' /\ CopiedIsStored'
  BY DEF IssuesReachAStore, CopiedIsStored
<1> QED BY <1>3, <1>4

\* The status an insertion carries is one.
LEMMA RowIsOne ==
    ASSUME TypeOK, NEW w \in Workers, scanned[w] # None, NEW i \in DOMAIN scanned[w]
    PROVE  i \in Issues /\ scanned[w][i] \in IssueStatuses
<1>1. PICK D \in SUBSET Issues : scanned[w] \in [D -> IssueStatuses]
  BY DEF TypeOK
<1> QED BY <1>1

LEMMA CopyStep ==
    ASSUME OutboxInvariant, NEW w \in Workers, NEW i \in Issues, Insert(w, i)
    PROVE  OutboxInvariant'
<1> USE DEF OutboxInvariant, Insert
<1>1. scanned[w][i] \in IssueStatuses
  BY RowIsOne
<1>2. TypeOK'
  <2>1. mirror' \in [Workers -> SUBSET (Issues \X IssueStatuses)]
    BY <1>1 DEF TypeOK, Row
  <2>2. \A v \in Workers : copied'[v] # None =>
           scanned'[v] # None /\ copied'[v] \in DOMAIN scanned'[v]
    BY DEF TypeOK
  <2> QED BY <2>1, <2>2 DEF TypeOK
<1>3. RowsStay
  BY DEF TypeOK, RowsStay
<1>4. IssuesReachAStore'
  BY <1>3 DEF RowsStay, IssuesReachAStore
<1>5. CopiedIsStored'
  <2> SUFFICES ASSUME NEW v \in Workers, copied'[v] # None
               PROVE  \E s \in IssueStatuses : <<copied'[v], s>> \in mirror'[v]
    BY DEF CopiedIsStored
  <2>1. CASE v = w
    <3>1. <<i, scanned[w][i]>> \in mirror'[w]
      BY DEF Row, TypeOK
    <3>2. copied'[v] \in {i, copied[w]}
      BY <2>1
    <3> QED BY <1>1, <2>1, <3>1, <3>2
  <2>2. CASE v # w
    BY <1>3, <2>2 DEF RowsStay, CopiedIsStored
  <2> QED BY <2>1, <2>2
<1> QED BY <1>2, <1>4, <1>5

LEMMA InsertFailsStep ==
    ASSUME OutboxInvariant, NEW w \in Workers, NEW i \in Issues, InsertFails(w, i)
    PROVE  OutboxInvariant'
<1> USE DEF OutboxInvariant, InsertFails
<1>1. scanned[w][i] \in IssueStatuses
  BY RowIsOne
<1>2. mirror' \in [Workers -> SUBSET (Issues \X IssueStatuses)] /\ RowsStay
  BY <1>1 DEF TypeOK, Row, RowsStay
<1>3. TypeOK'
  BY <1>2 DEF TypeOK
<1>4. IssuesReachAStore' /\ CopiedIsStored'
  BY <1>2 DEF RowsStay, IssuesReachAStore, CopiedIsStored
<1> QED BY <1>3, <1>4

LEMMA DeleteStep ==
    ASSUME OutboxInvariant, NEW w \in Workers, Delete(w)
    PROVE  OutboxInvariant'
<1> USE DEF OutboxInvariant, Delete, Remaining
<1>1. copied[w] \in Issues /\ scanned[w] # None
  BY RowIsOne DEF TypeOK
<1>2. outbox' \in [Issues -> IssueStatuses \cup {None}]
  BY DEF TypeOK
<1>3. TypeOK'
  <2>1. ASSUME NEW v \in Workers
        PROVE  /\ scanned'[v] = None \/ scanned'[v] \in UNION {[D -> IssueStatuses] : D \in SUBSET Issues}
               /\ copied'[v] # None => scanned'[v] # None /\ copied'[v] \in DOMAIN scanned'[v]
    <3>1. CASE v = w
      <4> DEFINE rest == [i \in DOMAIN scanned[w] \ {copied[w]} |-> scanned[w][i]]
      <4>1. PICK D \in SUBSET Issues : scanned[w] \in [D -> IssueStatuses]
        BY <1>1 DEF TypeOK
      <4>2. rest \in [D \ {copied[w]} -> IssueStatuses]
        BY <4>1
      <4>3. scanned'[v] \in {None, rest, scanned[v]}
        BY <3>1
      <4>4. copied'[v] = None \/ (copied'[v] = copied[v] /\ scanned'[v] = scanned[v])
        BY <3>1
      <4>5. rest \in UNION {[E -> IssueStatuses] : E \in SUBSET Issues}
        BY <4>2
      <4> HIDE DEF rest
      <4> QED BY <4>3, <4>4, <4>5 DEF TypeOK
    <3>2. CASE v # w
      <4>1. scanned'[v] = scanned[v] /\ copied'[v] = copied[v]
        BY <3>2
      <4> QED BY <4>1 DEF TypeOK
    <3> QED BY <3>1, <3>2
  <2> QED BY <1>2, <2>1 DEF TypeOK
<1>4. IssuesReachAStore'
  <2> SUFFICES ASSUME NEW i \in Issues, dlq'[i] # None, outbox'[i] = None
               PROVE  \E v \in Workers, s \in IssueStatuses : <<i, s>> \in mirror'[v]
    BY DEF IssuesReachAStore
  <2>1. CASE i = copied[w]
    BY <2>1 DEF CopiedIsStored
  <2>2. CASE i # copied[w]
    BY <2>2 DEF IssuesReachAStore, TypeOK
  <2> QED BY <2>1, <2>2
<1>5. CopiedIsStored'
  <2> SUFFICES ASSUME NEW v \in Workers, copied'[v] # None
               PROVE  copied'[v] = copied[v]
    BY DEF CopiedIsStored
  <2> QED OBVIOUS
<1> QED BY <1>3, <1>4, <1>5

LEMMA OutboxInductive ==
    ASSUME None \notin IssueStatuses
    PROVE  Spec => []OutboxInvariant
<1>1. OutboxInvariant /\ [Next]_vars => OutboxInvariant'
  <2> SUFFICES ASSUME OutboxInvariant, [Next]_vars PROVE OutboxInvariant'
    OBVIOUS
  <2>1. ASSUME NEW w \in Workers, NEW i \in Issues, Quarantine(w, i) PROVE OutboxInvariant'
    BY <2>1, QuarantineStep
  <2>2. ASSUME NEW i \in Issues, Resolve(i) PROVE OutboxInvariant'
    BY <2>2, ResolveStep
  <2>3. ASSUME NEW w \in Workers, Flush(w) PROVE OutboxInvariant'
    BY <2>3, ScanStep, CopyStep, DeleteStep DEF Flush
  <2>4. CASE Fails
    BY <2>4, InsertFailsStep DEF Fails
  <2>5. CASE Crash
    BY <2>5 DEF Crash, OutboxInvariant, TypeOK, IssuesReachAStore, CopiedIsStored
  <2>6. CASE UNCHANGED vars
    BY <2>6 DEF vars, OutboxInvariant, TypeOK, IssuesReachAStore, CopiedIsStored
  <2> QED BY <2>1, <2>2, <2>3, <2>4, <2>5, <2>6 DEF Next
<1> QED BY <1>1, OutboxStarts, PTL DEF Spec

(* The safety half of DeadLettersReachAStore (target-manager.ts:            *)
(* flushDeadLetters): a dead letter that no store has a row of is still in  *)
(* the outbox, for any number of issues and workers, whichever of them      *)
(* flush at the same time, fail or die between insertion and deletion.      *)
THEOREM NoDeadLetterIsForgotten ==
    ASSUME None \notin IssueStatuses
    PROVE  Spec => [](TypeOK /\ IssuesReachAStore)
<1>1. OutboxInvariant => TypeOK /\ IssuesReachAStore
  BY DEF OutboxInvariant
<1> QED BY <1>1, OutboxInductive, PTL
==============================================================================
