---------------------------- MODULE ComposeStack ----------------------------
(* The containers that deploy/joint-development/compose.mjs generates, and  *)
(* the order docker compose starts them in: a container is started when its *)
(* depends_on conditions hold. When the host restarts, docker starts what   *)
(* had been running without looking at depends_on, and what runs to its end *)
(* is not run again. Images, mounts and environment are left out.           *)
EXTENDS Naturals, FiniteSets

CONSTANTS
    MaxFaults   \* how many times a container fails or the host restarts

VARIABLES
    mode,    \* Processor TLS, and whether runtime and adapter run elsewhere
    container,  \* service -> "created", "running", "healthy", "completed", "failed"
    owned,   \* the Processor's user owns the WAL volume
    schema,  \* the bundled store is migrated
    faults

vars == <<mode, container, owned, schema, faults>>

Modes == [tls : BOOLEAN, attached : BOOLEAN]

Waits(on, for) == [on |-> on, for |-> for]

\* Each service: what it waits for, whether it has a health check, and which
\* services have to be healthy for it to be.
RuntimeDb == [waits |-> {}, checked |-> TRUE, needs |-> {}]
AdapterDb == [waits |-> {}, checked |-> TRUE, needs |-> {}]
Runtime ==
    [waits |-> {Waits("runtime-db", "healthy"), Waits("adapter", "started"),
                Waits("otel-collector", "started")},
     checked |-> TRUE, needs |-> {"runtime-db"}]
Adapter == [waits |-> {Waits("adapter-db", "healthy")}, checked |-> FALSE, needs |-> {}]
ClickHouse == [waits |-> {}, checked |-> TRUE, needs |-> {}]
MigrateOnce == [waits |-> {Waits("clickhouse", "healthy")}, checked |-> FALSE,
                needs |-> {"clickhouse"}]
WalInit == [waits |-> {}, checked |-> FALSE, needs |-> {}]
Processor(tls) ==
    [waits |-> {Waits("telemetry-migrate", "completed"), Waits("wal-init", "completed")},
     checked |-> ~tls, needs |-> {"clickhouse"}]
\* Mutant: the Collector waits for a healthy Processor with TLS, too.
CollectorHealthy(tls) ==
    [waits |-> {Waits("telemetry-processor", "healthy")}, checked |-> FALSE, needs |-> {}]
Collector(tls) ==
    [waits |-> {Waits("telemetry-processor", IF tls THEN "started" ELSE "healthy")},
     checked |-> FALSE, needs |-> {}]
QueryApi == [waits |-> {Waits("telemetry-migrate", "completed")}, checked |-> TRUE,
             needs |-> {"clickhouse"}]
Grafana == [waits |-> {}, checked |-> FALSE, needs |-> {}]

Service(s) ==
    CASE s = "runtime-db" -> RuntimeDb
      [] s = "adapter-db" -> AdapterDb
      [] s = "runtime" -> Runtime
      [] s = "adapter" -> Adapter
      [] s = "clickhouse" -> ClickHouse
      [] s = "telemetry-migrate" -> MigrateOnce
      [] s = "wal-init" -> WalInit
      [] s = "telemetry-processor" -> Processor(mode.tls)
      [] s = "otel-collector" -> Collector(mode.tls)
      [] s = "query-api" -> QueryApi
      [] s = "grafana" -> Grafana

Bundled == {"clickhouse", "telemetry-migrate", "wal-init", "telemetry-processor",
            "otel-collector", "query-api", "grafana"}

Services == Bundled \cup IF mode.attached THEN {}
                         ELSE {"runtime-db", "adapter-db", "runtime", "adapter"}

\* Those with restart: "no".
OneShots == {"telemetry-migrate", "wal-init"}

Runs(s) == container[s] \in {"running", "healthy"}

Holds(wait) ==
    CASE wait.for = "started"   -> Runs(wait.on)
      [] wait.for = "healthy"   -> container[wait.on] = "healthy"
      [] wait.for = "completed" -> container[wait.on] = "completed"

Init ==
    /\ mode \in Modes
    /\ container = [s \in Services |-> "created"]
    /\ owned = FALSE /\ schema = FALSE
    /\ faults = 0

Becomes(s, st) == container' = [container EXCEPT ![s] = st]

\* docker compose up.
Start(s) ==
    /\ container[s] = "created"
    /\ \A wait \in Service(s).waits : Holds(wait)
    /\ Becomes(s, "running")
    /\ UNCHANGED <<mode, owned, schema, faults>>

\* The health check of a container succeeds.
BecomeHealthy(s) ==
    /\ container[s] = "running" /\ Service(s).checked
    /\ \A n \in Service(s).needs : container[n] = "healthy"
    /\ Becomes(s, "healthy")
    /\ UNCHANGED <<mode, owned, schema, faults>>

RunToEnd(s) ==
    /\ s \in OneShots /\ container[s] = "running"
    /\ \A n \in Service(s).needs : container[n] = "healthy"
    /\ Becomes(s, "completed")
    /\ owned' = (owned \/ s = "wal-init")
    /\ schema' = (schema \/ s = "telemetry-migrate")
    /\ UNCHANGED <<mode, faults>>

\* A container ends: a service is restarted by docker, a one-shot is not.
Fail(s) ==
    /\ Runs(s) /\ faults < MaxFaults
    /\ Becomes(s, IF s \in OneShots THEN "failed" ELSE "running")
    /\ faults' = faults + 1
    /\ UNCHANGED <<mode, owned, schema>>

\* A one-shot that failed ends `up`; the operator gives the command again. (It
\* also runs those again that had completed, which changes nothing.)
Retry(s) ==
    /\ container[s] = "failed"
    /\ Becomes(s, "created")
    /\ UNCHANGED <<mode, owned, schema, faults>>

\* The host restarts: what was running runs again in no order.
Reboot ==
    /\ faults < MaxFaults
    /\ container' = [s \in Services |-> IF ~Runs(s) THEN container[s]
                                     ELSE IF s \in OneShots THEN "failed" ELSE "running"]
    /\ faults' = faults + 1
    /\ UNCHANGED <<mode, owned, schema>>

Next ==
    \/ \E s \in Services : Start(s) \/ BecomeHealthy(s) \/ RunToEnd(s) \/ Fail(s) \/ Retry(s)
    \/ Reboot

Progress == \E s \in Services : Start(s) \/ BecomeHealthy(s) \/ RunToEnd(s) \/ Retry(s)

\* compose and docker go on with whatever can start, and the operator retries.
Spec == Init /\ [][Next]_vars /\ WF_vars(Progress)
----------------------------------------------------------------------------
IsUp ==
    \A s \in Services :
        IF s \in OneShots THEN container[s] = "completed"
        ELSE container[s] = IF Service(s).checked THEN "healthy" ELSE "running"

\* The Processor writes its log, it and the query API use the store.
NothingPremature ==
    /\ Runs("telemetry-processor") => owned /\ schema
    /\ Runs("query-api") => schema

(* The stack comes up in every mode, after failures and restarts of the     *)
(* host, too: no condition waits for what cannot happen, as the health of a *)
(* service without a health check (compose.mjs:442, :501). And no service   *)
(* ever runs before the store is migrated and the log's volume is the       *)
(* Processor's, not even when a restart of the host ignores the order.      *)
StackComesUp == []NothingPremature /\ <>[]IsUp
============================================================================
