--------------------------- MODULE ComposeConfig ---------------------------
(* What `config` accepts (catalog.mjs, compose.mjs) and whether a stack     *)
(* with that configuration delivers: the values an operator sets and the    *)
(* mapping and target files he may write himself are checked, the Processor *)
(* loads the files (source-mapping.ts, target-manager.ts), and a record of  *)
(* each authority the Collector may see finds its targets, or does not.     *)
(*                                                                          *)
(* A setting stands for the entries that are checked together. The identity *)
(* of a mapping is reduced to the runtime instance it names.                *)
EXTENDS Naturals, Sequences, FiniteSets, SequencesExt

CONSTANTS
    MaxConfigEdits  \* changes an operator makes to a working configuration

VARIABLES
    setting,      \* the entries of the env file
    ownMappings,  \* {} or the operator's own mappings
    ownTargets,   \* {} or the operator's own targets
    configEdits,
    configStage,  \* "editing", "refused", "generated", "running"
    delivered     \* instance -> the targets a record of it reaches, once one came

configVars == <<setting, ownMappings, ownTargets, configEdits, configStage, delivered>>

Standalone == "standalone-smpp"
Shared     == "sdar-warehouse-shadow"
\* Records name the runtime's own instance or the durable authority.
Instances  == {"runtime", "authority"}

SettingValues ==
    [entries        |-> {"valid", "invalid"},
     noAuth         |-> BOOLEAN,
     runtimeAuth    |-> {"anonymous", "tokens"},
     credentialFree |-> {{}, {"runtime"}, {"runtime", "adapter"}},
     apiKeys        |-> {{}, {"query"}, {"processor", "query"}},
     identities     |-> {"exact", "mismatched", "missing"},
     attached       |-> BOOLEAN,
     sharedUrl      |-> {"none", "plain", "with-credentials"},
     sharedPassword |-> {"given", "inherited", "missing"},
     ports          |-> {"distinct", "duplicate"},
     databases      |-> {"bundled", "elsewhere"},
     snapshots      |-> {"true", "1", "false"},
     snapshotTarget |-> {Standalone, Shared},
     collectors     |-> {"default", "includes", "excludes"},
     tls            |-> BOOLEAN,
     collectorFile  |-> BOOLEAN,
     walDir         |-> {"absolute", "relative"}]

Open == [entries |-> "valid", noAuth |-> TRUE, runtimeAuth |-> "anonymous",
         credentialFree |-> {"runtime", "adapter"}, apiKeys |-> {}, identities |-> "exact",
         attached |-> FALSE, sharedUrl |-> "plain", sharedPassword |-> "given",
         ports |-> "distinct", databases |-> "bundled", snapshots |-> "true",
         snapshotTarget |-> Standalone, collectors |-> "default", tls |-> FALSE,
         collectorFile |-> FALSE, walDir |-> "absolute"]
Authenticated == [Open EXCEPT !.noAuth = FALSE, !.runtimeAuth = "tokens",
                              !.credentialFree = {}, !.apiKeys = {"processor", "query"}]
AttachedAlone == [Open EXCEPT !.attached = TRUE, !.sharedUrl = "none",
                              !.sharedPassword = "missing", !.databases = "elsewhere"]

----------------------------------------------------------------------------
(* catalog.mjs: each entry is checked by itself and booleans are spelled    *)
(* one way afterwards.                                                      *)
Validated(s) == s.entries = "valid"

Normalised(v) == v \in {"true", "1"}

(* compose.mjs                                                              *)
AuthIsConsistent(s) ==
    IF s.noAuth
    THEN /\ s.runtimeAuth = "anonymous" /\ s.credentialFree = {"runtime", "adapter"}
         /\ s.apiKeys = {}
    ELSE /\ s.runtimeAuth # "anonymous" /\ s.credentialFree = {}
         /\ s.apiKeys = {"processor", "query"}

IdentitiesAreExact(s) == s.identities = "exact"

SharedEnabled(s) == ~s.attached \/ s.sharedUrl # "none"

SharedIsUsable(s) == SharedEnabled(s) => s.sharedUrl = "plain"

\* A password is given, or kept from the revision before.
SecretsAreKnown(s) == SharedEnabled(s) => s.sharedPassword # "missing"

PortsAreDistinct(s) == s.ports = "distinct"

DatabasesAreBundled(s) == s.attached \/ s.databases = "bundled"

Routes(s) == IF SharedEnabled(s) THEN {Standalone, Shared} ELSE {Standalone}

Mapping(i, routes) == [instance |-> i, active |-> TRUE, current |-> TRUE, routes |-> routes]

GeneratedMappings(s) == <<Mapping("runtime", Routes(s)), Mapping("authority", Routes(s))>>

GeneratedTargets(s) ==
    [t \in Routes(s) |-> [type |-> t, enabled |-> TRUE, url |-> TRUE, layers |-> "valid",
                          routes |-> {t},
                          snapshot |-> t = Standalone /\ Normalised(s.snapshots)]]

MappingsInUse == IF ownMappings = {} THEN GeneratedMappings(setting)
                 ELSE CHOOSE f \in ownMappings : TRUE
TargetsInUse == IF ownTargets = {} THEN GeneratedTargets(setting)
                ELSE CHOOSE f \in ownTargets : TRUE

MappingsMatch(s) ==
    \A i \in Instances : \E k \in DOMAIN MappingsInUse :
        /\ MappingsInUse[k].instance = i /\ MappingsInUse[k].active
        /\ Routes(s) \subseteq MappingsInUse[k].routes

TargetsMatch(s) ==
    \A t \in Routes(s) :
        /\ t \in DOMAIN TargetsInUse /\ TargetsInUse[t].type = t
        /\ TargetsInUse[t].enabled /\ TargetsInUse[t].url

\* Mutant: some target writes snapshots, whichever the query reads.
SnapshotsAreWrittenSomewhere(s) ==
    Normalised(s.snapshots) =>
        \E t \in DOMAIN TargetsInUse : TargetsInUse[t].enabled /\ TargetsInUse[t].snapshot
\* The target that the query is told to read writes them.
SnapshotsAreWritten(s) ==
    Normalised(s.snapshots) =>
        /\ s.snapshotTarget \in DOMAIN TargetsInUse
        /\ TargetsInUse[s.snapshotTarget].enabled /\ TargetsInUse[s.snapshotTarget].snapshot

\* The Collector of the stack is on the list, which it is by default.
CollectorIsAllowed(s) == s.collectors # "excludes"

TlsIsComplete(s) == s.tls => s.collectorFile

WalDirIsAbsolute(s) == s.walDir = "absolute"

Accepted(s) ==
    /\ Validated(s) /\ AuthIsConsistent(s) /\ IdentitiesAreExact(s) /\ SharedIsUsable(s)
    /\ SecretsAreKnown(s) /\ PortsAreDistinct(s) /\ DatabasesAreBundled(s)
    /\ MappingsMatch(s) /\ TargetsMatch(s) /\ SnapshotsAreWritten(s)
    /\ CollectorIsAllowed(s) /\ TlsIsComplete(s) /\ WalDirIsAbsolute(s)
----------------------------------------------------------------------------
(* The Processor                                                            *)
LoadsMappings == \A k \in DOMAIN MappingsInUse : MappingsInUse[k].instance # "*"

LoadsTargets ==
    /\ DOMAIN TargetsInUse # {}
    /\ \A t \in DOMAIN TargetsInUse : TargetsInUse[t].layers = "valid" /\ TargetsInUse[t].url

Matches(m, i) == m.active /\ m.current /\ m.instance \in {i, "unnamed"}

FirstMatch(i) ==
    CHOOSE k \in DOMAIN MappingsInUse :
        /\ Matches(MappingsInUse[k], i)
        /\ \A j \in 1..k - 1 : ~Matches(MappingsInUse[j], i)

\* The routes of the first mapping that matches, or {} without one.
Resolved(i) ==
    IF \E k \in DOMAIN MappingsInUse : Matches(MappingsInUse[k], i)
    THEN MappingsInUse[FirstMatch(i)].routes ELSE {}

IngressTrusted == setting.collectors # "excludes"

Reached(i) ==
    IF ~IngressTrusted THEN {}
    ELSE {t \in DOMAIN TargetsInUse :
             TargetsInUse[t].enabled /\ TargetsInUse[t].routes \cap Resolved(i) # {}}
----------------------------------------------------------------------------
ConfigInit ==
    /\ setting \in {Open, Authenticated, AttachedAlone}
    /\ ownMappings = {} /\ ownTargets = {}
    /\ configEdits = 0
    /\ configStage = "editing"
    /\ delivered = [i \in {} |-> {}]

Editing == configStage = "editing" /\ configEdits < MaxConfigEdits /\ configEdits' = configEdits + 1
        /\ UNCHANGED <<configStage, delivered>>

EditSetting(f, v) ==
    /\ Editing /\ setting[f] # v
    /\ setting' = [setting EXCEPT ![f] = v]
    /\ UNCHANGED <<ownMappings, ownTargets>>

\* A mapping of the operator's own is inserted, replaced or retired.
NewMappings ==
    {[instance |-> i, active |-> TRUE, current |-> c, routes |-> r] :
        i \in {"runtime", "unnamed", "*"}, c \in BOOLEAN, r \in {{}, Routes(setting)}}

EditMappingFile ==
    /\ Editing
    /\ \/ \E m \in NewMappings, k \in 1..Len(MappingsInUse) + 1 :
              ownMappings' = {InsertAt(MappingsInUse, k, m)}
       \/ \E k \in DOMAIN MappingsInUse :
              \/ ownMappings' = {[MappingsInUse EXCEPT ![k].active = FALSE]}
              \/ ownMappings' = {[MappingsInUse EXCEPT ![k].current = FALSE]}
              \/ ownMappings' = {[MappingsInUse EXCEPT ![k].routes = {Standalone}]}
    /\ UNCHANGED <<setting, ownTargets>>

EditTargetFile ==
    /\ Editing
    /\ \E t \in DOMAIN TargetsInUse :
        \/ ownTargets' = {[u \in DOMAIN TargetsInUse \ {t} |-> TargetsInUse[u]]}
        \/ ownTargets' = {[TargetsInUse EXCEPT ![t].enabled = FALSE]}
        \/ ownTargets' = {[TargetsInUse EXCEPT ![t].url = FALSE]}
        \/ ownTargets' = {[TargetsInUse EXCEPT ![t].type = "shadow"]}
        \/ ownTargets' = {[TargetsInUse EXCEPT ![t].layers = "invalid"]}
        \/ ownTargets' = {[TargetsInUse EXCEPT ![t].routes = {}]}
        \/ ownTargets' = {[TargetsInUse EXCEPT ![t].snapshot = ~@]}
    /\ UNCHANGED <<setting, ownMappings>>

Generate ==
    /\ configStage = "editing"
    /\ configStage' = IF Accepted(setting) THEN "generated" ELSE "refused"
    /\ UNCHANGED <<setting, ownMappings, ownTargets, configEdits, delivered>>

\* The Processor starts with the files, or the command refuses them.
Load ==
    /\ configStage = "generated"
    /\ configStage' = IF LoadsMappings /\ LoadsTargets THEN "running" ELSE "refused"
    /\ UNCHANGED <<setting, ownMappings, ownTargets, configEdits, delivered>>

Deliver(i) ==
    /\ configStage = "running" /\ i \notin DOMAIN delivered
    /\ delivered' = [j \in DOMAIN delivered \cup {i} |->
                        IF j = i THEN Reached(i) ELSE delivered[j]]
    /\ UNCHANGED <<setting, ownMappings, ownTargets, configEdits, configStage>>

ConfigNext ==
    \/ \E f \in DOMAIN SettingValues : \E v \in SettingValues[f] : EditSetting(f, v)
    \/ EditMappingFile \/ EditTargetFile \/ Generate \/ Load
    \/ \E i \in Instances : Deliver(i)

ConfigSpec == ConfigInit /\ [][ConfigNext]_configVars
----------------------------------------------------------------------------
\* A file of the operator's own that the checks let pass and that routes a
\* record of i elsewhere: a mapping that is met first or is out of date, or a
\* target that leaves its own route out.
Diverted(i) ==
    \/ \E k \in DOMAIN MappingsInUse :
          \/ MappingsInUse[k].instance = "unnamed"
          \/ MappingsInUse[k].instance = i /\ MappingsInUse[k] # Mapping(i, Routes(setting))
    \/ \E t \in Routes(setting) : TargetsInUse[t].routes = {}

(* A configuration that was accepted and loaded works: every record reaches *)
(* every target of the deployment, unless a file of the operator's own      *)
(* diverts it, and when the query is to read snapshots, the target it reads *)
(* them of is loaded, enabled and writes them.                              *)
AcceptedConfigurationDelivers ==
    /\ \A i \in DOMAIN delivered : delivered[i] = Routes(setting) \/ Diverted(i)
    /\ configStage = "running" /\ setting.snapshots # "false" =>
           /\ setting.snapshotTarget \in DOMAIN TargetsInUse
           /\ TargetsInUse[setting.snapshotTarget].enabled
           /\ TargetsInUse[setting.snapshotTarget].snapshot
============================================================================
