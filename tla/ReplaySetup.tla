---------------------------- MODULE ReplaySetup ----------------------------
(* What a replay passes before it may project (replay/executor.ts:12-66):   *)
(* the target files are read, the isolated targets are compared with the    *)
(* live ones by name, endpoint and database identity, and a transaction     *)
(* binds every (target, generation) to one job and the job to one contract. *)
(* Each run request and each call of the command line does this again,      *)
(* while an operator edits the files and databases are created anew. The    *)
(* command line reads the files every time, a Processor when it starts.     *)
(*                                                                          *)
(* A target is its endpoint and its generation; the databases of an         *)
(* endpoint are one identity. Two endpoints may lead to one instance.       *)
EXTENDS Naturals, FiniteSets

CONSTANTS
    Jobs,         \* job -> [generation, targets]
    TargetFiles,  \* what an operator may have in REPLAY_TARGETS_FILE
    LiveFiles,    \* and in the file of the live targets: name -> [endpoint, generation]
    InstanceAt,   \* endpoint -> the instance it leads to
    SetupRequests,
    Unbound,
    MaxEdits

VARIABLES
    targetFile, liveFile,
    database,     \* instance -> the identity of its databases
    owner,        \* namespace replay:target-owner
    contract,     \* namespace replay:contracts
    setup,        \* request -> how far createReplayExecutor is, and what it has read
    edits

setupVars == <<targetFile, liveFile, database, owner, contract, setup, edits>>

AtRest == [at |-> "idle"]

SetupInit ==
    /\ targetFile \in TargetFiles /\ liveFile \in LiveFiles
    /\ database = [i \in {InstanceAt[e] : e \in DOMAIN InstanceAt} |-> <<i, 0>>]
    /\ owner = <<>> /\ contract = <<>>
    /\ setup = [r \in SetupRequests |-> AtRest]
    /\ edits = 0

----------------------------------------------------------------------------
(* The operator.                                                            *)
Edit == edits < MaxEdits /\ edits' = edits + 1 /\ UNCHANGED <<owner, contract, setup>>

EditTargets == Edit /\ targetFile' \in TargetFiles /\ UNCHANGED <<liveFile, database>>
EditLive    == Edit /\ liveFile' \in LiveFiles /\ UNCHANGED <<targetFile, database>>
Recreate(i) ==
    /\ Edit
    /\ database' = [database EXCEPT ![i] = <<i, edits + 1>>]
    /\ UNCHANGED <<targetFile, liveFile>>

----------------------------------------------------------------------------
(* createReplayExecutor                                                     *)
Endpoints(targets) == {targets[t].endpoint : t \in DOMAIN targets}

\* assertGenerationIsolation
Isolated(job, targets, live) ==
    /\ DOMAIN live # {}
    /\ DOMAIN targets = Jobs[job].targets
    /\ DOMAIN targets \cap DOMAIN live = {}
    /\ \A t \in DOMAIN targets : targets[t].generation = Jobs[job].generation
    /\ Endpoints(targets) \cap Endpoints(live) = {}

\* databaseIdentities, of every target of a file.
Identities(targets) == [t \in DOMAIN targets |-> database[InstanceAt[targets[t].endpoint]]]

AsSet(identities) == {identities[t] : t \in DOMAIN identities}

Unchanged == UNCHANGED <<targetFile, liveFile, database, edits>>

BeginSetup(r, job) ==
    /\ setup[r] = AtRest
    /\ Isolated(job, targetFile, liveFile)
    /\ setup' = [setup EXCEPT ![r] =
                    [at |-> "live", job |-> job, targets |-> targetFile, live |-> liveFile,
                     avoid |-> {}, identities |-> <<>>, owners |-> <<>>, prior |-> Unbound]]
    /\ Unchanged /\ UNCHANGED <<owner, contract>>

ProbeLive(r) ==
    /\ setup[r].at = "live"
    /\ setup' = [setup EXCEPT ![r].avoid = AsSet(Identities(setup[r].live)), ![r].at = "own"]
    /\ Unchanged /\ UNCHANGED <<owner, contract>>

Alias(r, identities) == AsSet(identities) \cap setup[r].avoid # {}

\* REPLAY_LIVE_DATABASE_ALIAS ends the request.
ProbeOwn(r) ==
    /\ setup[r].at = "own"
    /\ LET found == Identities(setup[r].targets)
       IN setup' = [setup EXCEPT ![r] =
                       IF Alias(r, found) THEN AtRest
                       ELSE [@ EXCEPT !.identities = found, !.at = "check"]]
    /\ Unchanged /\ UNCHANGED <<owner, contract>>

Contract(r) == [targets |-> setup[r].targets, live |-> setup[r].live,
                identities |-> setup[r].identities]

Prior(job) == IF job \in DOMAIN contract THEN contract[job] ELSE Unbound

Keys(r) == {<<t, Jobs[setup[r].job].generation>> : t \in DOMAIN setup[r].targets}
Owner(key) == IF key \in DOMAIN owner THEN owner[key] ELSE Unbound
Owners(r) == [key \in Keys(r) |-> Owner(key)]

\* What is bound is read and compared; the transaction expects it as it was.
Check(r) ==
    /\ setup[r].at = "check"
    /\ LET prior == Prior(setup[r].job)
           accepted == /\ prior = Unbound \/ prior = Contract(r)
                       /\ \A key \in Keys(r) : Owner(key) \in {Unbound, setup[r].job}
       IN setup' = [setup EXCEPT ![r] =
                       IF accepted THEN [@ EXCEPT !.owners = Owners(r), !.prior = prior, !.at = "bind"]
                       ELSE AtRest]
    /\ Unchanged /\ UNCHANGED <<owner, contract>>

\* Mutant: the transaction checks nothing.
AsExpectedAlways(r) == TRUE
AsExpected(r) == Owners(r) = setup[r].owners /\ Prior(setup[r].job) = setup[r].prior

\* Another request of the same job has bound the same.
Converged(r) ==
    /\ \A key \in Keys(r) : Owner(key) = setup[r].job
    /\ Prior(setup[r].job) = Contract(r)

\* A namespace with a value put under keys.
With(namespace, keys, value) ==
    [k \in DOMAIN namespace \cup keys |-> IF k \in keys THEN value ELSE namespace[k]]

Bind(r) ==
    /\ setup[r].at = "bind"
    /\ IF AsExpected(r)
       THEN /\ owner' = With(owner, Keys(r), setup[r].job)
            /\ contract' = With(contract, {setup[r].job}, Contract(r))
            /\ setup' = [setup EXCEPT ![r].at = "ready"]
       ELSE /\ setup' = [setup EXCEPT ![r] = IF Converged(r) THEN [@ EXCEPT !.at = "ready"] ELSE AtRest]
            /\ UNCHANGED <<owner, contract>>
    /\ Unchanged

\* The batch that the executor is made for ends, or the setup fails on the
\* way: a store that does not answer, an initialisation that fails.
Leave(r) ==
    /\ setup[r] # AtRest
    /\ setup' = [setup EXCEPT ![r] = AtRest]
    /\ Unchanged /\ UNCHANGED <<owner, contract>>

SetupNext ==
    \/ EditTargets \/ EditLive
    \/ \E i \in DOMAIN database : Recreate(i)
    \/ \E r \in SetupRequests :
        \/ \E job \in DOMAIN Jobs : BeginSetup(r, job)
        \/ ProbeLive(r) \/ ProbeOwn(r) \/ Check(r) \/ Bind(r) \/ Leave(r)

SetupSpec == SetupInit /\ [][SetupNext]_setupVars
----------------------------------------------------------------------------
Executors == {r \in SetupRequests : setup[r].at = "ready"}

(* Whoever may project writes to no database of a live target, and to the   *)
(* databases its job was bound to first; no two jobs project to one         *)
(* (target, generation), ever, whatever is edited between their requests.   *)
ReplaysStayApart ==
    \A r \in Executors :
        /\ \A t \in DOMAIN setup[r].identities : setup[r].identities[t] \notin setup[r].avoid
        /\ \A key \in Keys(r) : Owner(key) = setup[r].job
        /\ Prior(setup[r].job) = Contract(r)
        /\ \A q \in Executors :
            IF setup[q].job = setup[r].job THEN setup[q].identities = setup[r].identities
            ELSE Keys(q) \cap Keys(r) = {}
============================================================================
