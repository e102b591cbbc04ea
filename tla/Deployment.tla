----------------------------- MODULE Deployment -----------------------------
(* The operator's command line (deploy/joint-development/cli.mjs) and the   *)
(* registry it keeps beside the env files: `up` prepares a revision, builds *)
(* it, records the attempt, starts and migrates the bundled store, verifies *)
(* readers and writers and starts the rest; `down` and `status` find the    *)
(* deployment in the registry alone. Every docker call may fail and the     *)
(* command may die between two steps, which leaves what was done. One       *)
(* command runs at a time: the registry has no lock.                        *)
(*                                                                          *)
(* Secrets are the automatic ones; `secret` stands for the four of a        *)
(* revision. Images are told apart by the WAL reader version they support.  *)
EXTENDS Naturals, FiniteSets

CONSTANTS
    Projects,      \* names an env file may give its project
    EnvFiles,      \* env files of one directory, which share a registry
    Images,        \* reader versions of the releases, 1 for one that states none
    MaxRevisions   \* how many revisions the operator may generate

\* "none" stands for an operation that names no project.
ASSUME DeploymentAssumption ==
    /\ MaxRevisions \in Nat
    /\ "none" \notin Projects

VARIABLES
    env,        \* env file -> the project it names
    release,    \* the image the operator's release builds
    descriptor, \* project -> its deployment.json, or Nothing
    legacy,     \* projects of an old release: compose.json and no descriptor
    secret,     \* revision -> its automatic secret
    made,       \* number of revisions generated
    volume,     \* project -> secret it was initialised with, migrated, WAL marker
    running,    \* project -> revision of its store and of its services
    opened,     \* images that opened the WAL, each with the marker it found
    command     \* the command under way

deploymentVars == <<env, release, descriptor, legacy, secret, made, volume,
                    running, opened, command>>

Nothing   == [phase |-> "none"]
\* A set: the revision whose containers run, or none.
Stopped   == [store |-> {}, services |-> {}]
NoCommand == [step |-> "idle"]

\* The revision and secret of a deployment that an old release left.
LegacyRevision == 0

Revisions == LegacyRevision..MaxRevisions

DeploymentInit ==
    /\ env \in [EnvFiles -> Projects]
    /\ release \in Images
    /\ descriptor = [p \in Projects |-> Nothing]
    /\ legacy \in SUBSET Projects
    /\ secret = [r \in Revisions |-> r]
    /\ made = 0
    /\ volume = [p \in Projects |->
           [secret   |-> IF p \in legacy THEN {LegacyRevision} ELSE {},
            migrated |-> p \in legacy, marker |-> 0]]
    /\ running = [p \in Projects |-> IF p \in legacy
                  THEN [store |-> {LegacyRevision}, services |-> {LegacyRevision}] ELSE Stopped]
    /\ opened = {}
    /\ command = NoCommand

----------------------------------------------------------------------------
(* deployment-state.mjs                                                     *)
Deployed == {p \in Projects : descriptor[p] # Nothing}

Adopted(p, e) == [phase |-> "legacy", env |-> e, revision |-> LegacyRevision, last |-> 0]

\* The deployments that an operation on env file e may mean.
Candidates(e, id) ==
    {p \in Deployed : IF id = "none" THEN descriptor[p].env = e ELSE p = id}

LegacyCandidates(id) == {p \in legacy \ Deployed : id \in {"none", p}}

\* p is the one deployment resolveDeployment returns.
Resolves(e, id, p) ==
    IF Candidates(e, id) # {} THEN Candidates(e, id) = {p}
    ELSE LegacyCandidates(id) = {p}

\* An old deployment is recorded when it is resolved.
AfterResolve(e, p) ==
    IF p \in Deployed THEN descriptor ELSE [descriptor EXCEPT ![p] = Adopted(p, e)]

\* saveDeployment replaces the descriptor in one rename.
Save(descriptors, p, d) == [descriptors EXCEPT ![p] = d]
----------------------------------------------------------------------------
\* The operator edits an env file or unpacks another release.
RenameProject(e, p) ==
    /\ command = NoCommand /\ env[e] # p
    /\ env' = [env EXCEPT ![e] = p]
    /\ UNCHANGED <<release, descriptor, legacy, secret, made, volume, running,
                   opened, command>>

Unpack(image) ==
    /\ command = NoCommand /\ release # image
    /\ release' = image
    /\ UNCHANGED <<env, descriptor, legacy, secret, made, volume, running,
                   opened, command>>

\* Mutant: the passwords of the last revision are not copied.
InheritedNever(e, p) == made + 1
\* The secret of the next revision: that of the deployment it replaces.
Inherited(e, p) ==
    IF \E q \in Projects : Resolves(e, p, q)
    THEN secret[AfterResolve(e, p)[p].revision] ELSE made + 1

\* up, check and config: the env file is read and a revision written.
Prepare(e, kind) ==
    /\ command = NoCommand /\ made < MaxRevisions
    /\ LET p == env[e] IN
       /\ descriptor' = IF LegacyCandidates(p) = {p} THEN AfterResolve(e, p) ELSE descriptor
       /\ made' = made + 1
       /\ secret' = [secret EXCEPT ![made + 1] = Inherited(e, p)]
       /\ command' = IF kind = "config" THEN NoCommand
                     ELSE [step |-> "prepared", kind |-> kind, env |-> e, project |-> p,
                           revision |-> made + 1, image |-> release]
    /\ UNCHANGED <<env, release, legacy, volume, running, opened>>

Step(from, to) ==
    /\ command.step = from
    /\ command' = IF to = "idle" THEN NoCommand ELSE [command EXCEPT !.step = to]
    /\ UNCHANGED <<env, release, legacy, secret, made>>

Build ==
    /\ Step("prepared", "built")
    /\ UNCHANGED <<descriptor, volume, running, opened>>

\* PORT_CONFLICT: a host port may be held by this project's own containers and
\* by nothing else, be it another project or a program of the host.
CheckPorts ==
    /\ command.step = "built" /\ command.kind = "up"
    /\ \E step \in {"clear", "idle"} : Step("built", step)
    /\ UNCHANGED <<descriptor, volume, running, opened>>

\* Mutant: the attempt is recorded once everything has come up.
AttemptUnrecorded == descriptor
Attempt ==
    LET p == command.project IN
    Save(descriptor, p, [phase |-> "attempted", env |-> command.env,
                         revision |-> command.revision,
                         last |-> IF descriptor[p] = Nothing THEN 0 ELSE descriptor[p].last])

RecordAttempt ==
    /\ command.step = "clear"
    /\ Step("clear", "attempted")
    /\ descriptor' = Attempt
    /\ UNCHANGED <<volume, running, opened>>

\* A volume takes the secret it is first started with.
Initialised(p) ==
    IF volume[p].secret = {}
    THEN [volume EXCEPT ![p].secret = {secret[command.revision]}] ELSE volume

StartStore ==
    /\ command.step = "attempted"
    /\ Step("attempted", "stored")
    /\ running' = [running EXCEPT ![command.project].store = {command.revision}]
    /\ volume' = Initialised(command.project)
    /\ UNCHANGED <<descriptor, opened>>

Migrate ==
    /\ command.step = "stored"
    /\ Step("stored", "migrated")
    /\ volume' = [volume EXCEPT ![command.project].migrated = TRUE]
    /\ UNCHANGED <<descriptor, running, opened>>

(* preflight.mjs: every enabled target has its schema and INSERT grants,    *)
(* and every store the query API reads answers the probe.                   *)
WritersPass(p, sharedReady) == volume[p].migrated /\ sharedReady
ReadersPass(p, sharedReady) == running[p].store # {} /\ volume[p].migrated /\ sharedReady

\* `check` ends with it and has started nothing.
Preflight(sharedReady) ==
    LET p == command.project
        passed == WritersPass(p, sharedReady) /\ ReadersPass(p, sharedReady)
    IN
    /\ \/ /\ command.step = "migrated"
          /\ Step("migrated", IF passed THEN "verified" ELSE "idle")
       \/ command.step = "built" /\ command.kind = "check" /\ Step("built", "idle")
    /\ UNCHANGED <<descriptor, volume, running, opened>>

\* wal-reader-guard.mjs: the entry point starts the Processor only with an
\* image that reads the required version and the one the volume states.
Readable(image, marker) == image >= 2 /\ image >= marker

Opened(p, image) ==
    IF Readable(image, volume[p].marker)
    THEN /\ opened' = opened \cup {[image |-> image, marker |-> volume[p].marker]}
         /\ volume' = [volume EXCEPT ![p].marker = image]
    ELSE UNCHANGED <<opened, volume>>

StartServices ==
    LET p == command.project IN
    /\ command.step = "verified"
    /\ Step("verified", IF Readable(command.image, volume[p].marker) THEN "started" ELSE "idle")
    /\ running' = [running EXCEPT ![p].services = {command.revision}]
    /\ Opened(p, command.image)
    /\ UNCHANGED descriptor

\* Ready checks, then the descriptor says active.
Activate ==
    LET p == command.project IN
    /\ command.step = "started"
    /\ Step("started", "idle")
    /\ descriptor' = Save(descriptor, p, [descriptor[p] EXCEPT !.phase = "active",
                                                               !.last = command.revision])
    /\ UNCHANGED <<volume, running, opened>>

\* A docker call fails, a check does not pass in time or the command is killed.
Abort ==
    /\ command # NoCommand
    /\ Step(command.step, "idle")
    /\ UNCHANGED <<descriptor, volume, running, opened>>

\* status, logs and down look the deployment up and call docker compose.
Resolve(e, id, kind) ==
    /\ command = NoCommand
    /\ \E p \in Projects :
        /\ Resolves(e, id, p)
        /\ descriptor' = AfterResolve(e, p)
        /\ running' = IF kind = "down" THEN [running EXCEPT ![p] = Stopped] ELSE running
        /\ command' = IF kind = "down"
                      THEN [step |-> "downed", project |-> p, was |-> descriptor'[p]] ELSE NoCommand
    /\ UNCHANGED <<env, release, legacy, secret, made, volume, opened>>

RecordStop ==
    /\ command.step = "downed"
    /\ Step("downed", "idle")
    /\ descriptor' = Save(descriptor, command.project, [command.was EXCEPT !.phase = "stopped"])
    /\ UNCHANGED <<volume, running, opened>>

DeploymentNext ==
    \/ \E e \in EnvFiles : \/ \E p \in Projects : RenameProject(e, p)
                           \/ \E kind \in {"up", "check", "config"} : Prepare(e, kind)
                           \/ \E id \in Projects \cup {"none"} : \E kind \in {"down", "status"} :
                                  Resolve(e, id, kind)
    \/ \E image \in Images : Unpack(image)
    \/ Build \/ CheckPorts \/ RecordAttempt \/ StartStore \/ Migrate
    \/ \E sharedReady \in BOOLEAN : Preflight(sharedReady)
    \/ StartServices \/ Activate \/ Abort \/ RecordStop

DeploymentSpec == DeploymentInit /\ [][DeploymentNext]_deploymentVars
----------------------------------------------------------------------------
(* What was started can be found and stopped: a project with containers is  *)
(* named by the registry, whatever became of its env file and wherever the  *)
(* command that started it ended (cli.mjs:193, README.md of the package).   *)
StaysOperable ==
    \A p \in Projects : \A e \in EnvFiles : running[p] # Stopped => Resolves(e, p, p)

(* A volume is used as it was made: every recorded and every running        *)
(* revision carries the secret the project's volumes were initialised with, *)
(* and no image opens a log that a later release has written.               *)
VolumesFit ==
    /\ \A p \in Projects : \A s \in volume[p].secret :
           /\ descriptor[p] # Nothing => secret[descriptor[p].revision] = s
           /\ \A r \in running[p].store \cup running[p].services : secret[r] = s
    /\ \A o \in opened : o.image >= o.marker
============================================================================
