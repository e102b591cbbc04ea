--------------------------- MODULE QueryReadiness ---------------------------
(* What the query API says of its own readiness (readiness.ts): one round   *)
(* of probes over every enabled store at a time, shared by the requests     *)
(* that come while it runs, its result kept for CacheMs after it ended, and *)
(* each probe given up after TimeoutMs. A probe reads the columns first and *)
(* every table after them; why it failed is left out.                       *)
EXTENDS Naturals, FiniteSets

CONSTANTS
    Stores,      \* standalone, authority, snapshots and the historical readers
    Enabled,     \* the ones that are probed
    TimeoutMs, CacheMs,
    Askers,
    NoneYet,
    MaxClock, MaxChanges

\* What a probe has found, a result and a round: none of them is NoneYet.
Outcomes == [status : {"columns", "tables", "ready", "unavailable"},
             lastSuccessAt : {NoneYet} \cup Nat]
Results  == [status : {"ready", "unavailable"}, stores : [Enabled -> Outcomes]]
Rounds   == [startedAt : Nat, probe : [Enabled -> Outcomes]]

ASSUME ReadinessAssumption ==
    /\ Enabled \subseteq Stores
    /\ TimeoutMs \in Nat /\ CacheMs \in Nat
    /\ NoneYet \notin Nat /\ NoneYet \notin Results /\ NoneYet \notin Rounds

VARIABLES
    clock,
    condition,  \* store -> "up", "down" (refuses, no schema, no access) or "slow"
    upUntil,    \* store -> when it was last seen to stop being up
    changes,
    cached,     \* the last result: status and, for each enabled store, its own
    expiresAt,
    pending,    \* the round that runs: when it started and what each probe found
    answer      \* request -> its state, and when it was answered with what

readinessVars == <<clock, condition, upUntil, changes, cached, expiresAt, pending, answer>>

Unasked == [state |-> "idle", at |-> 0, result |-> NoneYet]
Given(result) == [state |-> "answered", at |-> clock, result |-> result]

ReadinessInit ==
    /\ clock = 0
    /\ condition \in [Stores -> {"up", "down"}]
    /\ upUntil = [s \in Stores |-> NoneYet]
    /\ changes = 0
    /\ cached = NoneYet /\ expiresAt = 0 /\ pending = NoneYet
    /\ answer = [r \in Askers |-> Unasked]

----------------------------------------------------------------------------
(* A store becomes reachable, fails, or stops answering in time.            *)
Change(s, to) ==
    /\ changes < MaxChanges /\ condition[s] # to
    /\ condition' = [condition EXCEPT ![s] = to]
    /\ upUntil' = IF condition[s] = "up" THEN [upUntil EXCEPT ![s] = clock] ELSE upUntil
    /\ changes' = changes + 1
    /\ UNCHANGED <<clock, cached, expiresAt, pending, answer>>

Probing == {s \in Enabled : pending # NoneYet /\ pending.probe[s].status \in {"columns", "tables"}}

\* The timer of a probe fires, and a round that is done ends, before time goes on.
ClockTick ==
    /\ clock < MaxClock
    /\ pending # NoneYet => Probing # {} /\ clock < pending.startedAt + TimeoutMs
    /\ clock' = clock + 1
    /\ UNCHANGED <<condition, upUntil, changes, cached, expiresAt, pending, answer>>

----------------------------------------------------------------------------
Found(s, found) ==
    /\ pending' = [pending EXCEPT !.probe[s] = found]
    /\ UNCHANGED <<clock, condition, upUntil, changes, cached, expiresAt, answer>>

ProbeStep(name) == [status |-> name, lastSuccessAt |-> NoneYet]
Ready(at) == [status |-> "ready", lastSuccessAt |-> at]
Unavailable == ProbeStep("unavailable")

ProbeColumns(s) == s \in Probing /\ pending.probe[s] = ProbeStep("columns") /\ condition[s] = "up" /\ Found(s, ProbeStep("tables"))
ProbeTables(s)  == s \in Probing /\ pending.probe[s] = ProbeStep("tables") /\ condition[s] = "up" /\ Found(s, Ready(clock))
ProbeFails(s)   == s \in Probing /\ condition[s] = "down" /\ Found(s, Unavailable)

\* A probe may still be under way at any store when its time is up.
ProbeTimesOut(s) ==
    /\ s \in Probing /\ clock = pending.startedAt + TimeoutMs
    /\ Found(s, Unavailable)

\* Mutant: what was known of an unavailable store is forgotten.
WithLastSuccessForgotten(s, found) == found
WithLastSuccess(s, found) ==
    IF found.status = "unavailable" /\ cached # NoneYet
    THEN [found EXCEPT !.lastSuccessAt = cached.stores[s].lastSuccessAt] ELSE found

Overall(stores) == IF \A s \in Enabled : stores[s].status = "ready" THEN "ready" ELSE "unavailable"

\* The round ends: the result is kept, and every request that waits is answered.
Finish ==
    /\ pending # NoneYet /\ Probing = {}
    /\ LET stores == [s \in Enabled |-> WithLastSuccess(s, pending.probe[s])]
           result == [status |-> Overall(stores), stores |-> stores]
       IN /\ cached' = result
          /\ answer' = [r \in Askers |->
                          IF answer[r].state = "waiting" THEN Given(result) ELSE answer[r]]
    /\ expiresAt' = clock + CacheMs
    /\ pending' = NoneYet
    /\ UNCHANGED <<clock, condition, upUntil, changes>>

Fresh == cached # NoneYet /\ clock < expiresAt

\* GET /health, /health/ready and /metrics.
Request(r) ==
    /\ answer[r].state # "waiting"
    /\ IF Fresh
       THEN answer' = [answer EXCEPT ![r] = Given(cached)] /\ UNCHANGED pending
       ELSE /\ answer' = [answer EXCEPT ![r] = [Unasked EXCEPT !.state = "waiting"]]
            /\ pending' = IF pending # NoneYet THEN pending
                          ELSE [startedAt |-> clock, probe |-> [s \in Enabled |-> ProbeStep("columns")]]
    /\ UNCHANGED <<clock, condition, upUntil, changes, cached, expiresAt>>

ReadinessNext ==
    \/ ClockTick \/ Finish
    \/ \E s \in Stores, to \in {"up", "down", "slow"} : Change(s, to)
    \/ \E s \in Enabled : ProbeColumns(s) \/ ProbeTables(s) \/ ProbeFails(s) \/ ProbeTimesOut(s)
    \/ \E r \in Askers : Request(r)

ReadinessSpec == ReadinessInit /\ [][ReadinessNext]_readinessVars
----------------------------------------------------------------------------
Answered == {r \in Askers : answer[r].state = "answered"}

\* The store was up at some time between from and the present.
WasUp(s, from) == condition[s] = "up" \/ (upUntil[s] # NoneYet /\ upUntil[s] >= from)

(* An answer that has just been given is no older than a round and the time *)
(* its result is kept: "ready" says that every enabled store was up in that *)
(* time. Of two answers the later one knows of no older success.            *)
AnswersAreFresh ==
    /\ \A r \in Answered, s \in Enabled :
        answer[r].at = clock /\ answer[r].result.status = "ready" =>
            WasUp(s, IF clock < TimeoutMs + CacheMs THEN 0 ELSE clock - TimeoutMs - CacheMs)
    /\ \A r, q \in Answered, s \in Enabled :
        LET earlier == answer[r].result.stores[s].lastSuccessAt
            later   == answer[q].result.stores[s].lastSuccessAt
        IN answer[r].at < answer[q].at /\ earlier # NoneYet => later # NoneYet /\ earlier <= later
============================================================================
