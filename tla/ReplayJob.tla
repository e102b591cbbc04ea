----------------------------- MODULE ReplayJob -----------------------------
(***************************************************************************)
(* A replay job (packages/replay/replay.ts): created together with its     *)
(* source pin, moved by administrators between states, and worked off in   *)
(* batches whose every step reads the stored job, awaits the executor, and *)
(* writes back in a transaction that requires the job it read.             *)
(*                                                                         *)
(* Abstractions.  The range is 1..Through; afterSequence is "after".  The  *)
(* timestamps in the job make every write a new value, so a transaction    *)
(* succeeds exactly if the job was not written since it was read: "fresh"  *)
(* holds who read the present job.  The executor (projection to isolated   *)
(* targets) decides an entry once and answers the same on every retry.     *)
(***************************************************************************)
EXTENDS Naturals, FiniteSets

CONSTANTS
  Admins,    \* concurrent administrative requests
  Actions,   \* the transitions administrators use
  Through,   \* throughSequence
  Limit,     \* batch limit
  None       \* "undefined"

ASSUME ConstantsAssumption ==
  /\ Actions \subseteq {"start", "pause", "resume", "cancel"}
  /\ Through \in Nat \ {0} /\ Limit \in Nat \ {0}
  /\ "runner" \notin Admins

Entries      == 1..Through
Statuses     == {"planned", "running", "paused", "completed", "failed", "cancelled"}
Dispositions == {"projected", "quarantined", "not-routed"}
JobRows == [status : Statuses, after : Nat, projected : Nat, quarantined : Nat, notRouted : Nat]

ASSUME NoneAssumption == None \notin JobRows \cup Dispositions

VARIABLES
  inScope,   \* entries the scope matches
  decided,   \* the executor's durable disposition of an entry
  job,       \* the replay_job row
  pinned,    \* whether the pin replay:<id> exists
  pc,        \* where runBatch is
  todo,      \* entries of the running batch
  result,    \* disposition of the entry in work
  next,      \* job the runner is about to store
  admin,     \* job each administrative request is about to store
  fresh      \* who read the stored job as it is now

vars == <<inScope, decided, job, pinned, pc, todo, result, next, admin, fresh>>

Init ==
  /\ inScope \in SUBSET Entries
  /\ decided = [e \in Entries |-> None]
  /\ job = None /\ pinned = FALSE
  /\ pc = "idle" /\ todo = {} /\ result = None /\ next = None
  /\ admin = [a \in Admins |-> None]
  /\ fresh = {}

Create ==
  /\ job = None
  /\ job' = [status |-> "planned", after |-> 0, projected |-> 0, quarantined |-> 0, notRouted |-> 0]
  /\ pinned' = TRUE /\ fresh' = {}
  /\ UNCHANGED <<inScope, decided, pc, todo, result, next, admin>>

-----------------------------------------------------------------------------
(* The transaction of a transition or of the runner. *)

Replaces(who) == who \in fresh

\* Mutant: completing leaves the pin.
ReleasesCancelled(j) == j.status = "cancelled"
Releases(j) == j.status \in {"completed", "cancelled"}

Store(j) ==
  /\ job' = j
  /\ pinned' = (pinned /\ ~Releases(j))
  /\ fresh' = {}

-----------------------------------------------------------------------------
(* transition(): read and check, then the transaction. *)

Allowed(action) ==
  CASE action = "start"  -> {"planned"}
    [] action = "pause"  -> {"running"}
    [] action = "resume" -> {"paused", "failed"}
    [] action = "cancel" -> {"planned", "running", "paused", "failed"}

Desired(action) ==
  CASE action = "cancel" -> "cancelled"
    [] action = "pause"  -> "paused"
    [] OTHER             -> "running"

Transition(a, action) ==
  /\ job # None /\ admin[a] = None
  /\ job.status \in Allowed(action)
  /\ admin' = [admin EXCEPT ![a] = [job EXCEPT !.status = Desired(action)]]
  /\ fresh' = fresh \cup {a}
  /\ UNCHANGED <<inScope, decided, job, pinned, pc, todo, result, next>>

TransitionStored(a) ==
  /\ admin[a] # None
  /\ IF Replaces(a) THEN Store(admin[a]) ELSE UNCHANGED <<job, pinned, fresh>>
  /\ admin' = [admin EXCEPT ![a] = None]
  /\ UNCHANGED <<inScope, decided, pc, todo, result, next>>

-----------------------------------------------------------------------------
(* runBatch() *)

Running == job # None /\ job.status = "running"

\* Mutant: the range excludes its last entry.
BatchExclusive == {e \in Entries : job.after < e /\ e <= job.after + Limit /\ e < Through}
Batch == {e \in Entries : job.after < e /\ e <= job.after + Limit}

BatchBegin ==
  /\ pc = "idle" /\ Running
  /\ todo' = Batch
  /\ pc' = "batch"
  /\ UNCHANGED <<inScope, decided, job, pinned, result, next, admin, fresh>>

Return == pc' = "idle" /\ todo' = {} /\ result' = None /\ next' = None

BatchEnd ==
  /\ pc = "batch" /\ todo = {}
  /\ Return
  /\ UNCHANGED <<inScope, decided, job, pinned, admin, fresh>>

Entry == CHOOSE e \in todo : \A n \in todo : e <= n

\* The entry's turn: the stored job must still be running.
EntryBegin ==
  /\ pc = "batch" /\ todo # {}
  /\ IF job.status = "running"
     THEN pc' = "project" /\ UNCHANGED <<todo, result, next>>
     ELSE Return
  /\ UNCHANGED <<inScope, decided, job, pinned, admin, fresh>>

Decisions(e) ==
  IF e \notin inScope THEN {"not-routed"}
  ELSE IF decided[e] = None THEN Dispositions ELSE {decided[e]}

Project ==
  /\ pc = "project"
  /\ \E d \in Decisions(Entry) :
       /\ result' = d
       /\ decided' = IF Entry \in inScope THEN [decided EXCEPT ![Entry] = d] ELSE decided
  /\ pc' = "projected"
  /\ UNCHANGED <<inScope, job, pinned, todo, next, admin, fresh>>

\* Mutant: the last entry also completes a job that was paused meanwhile.
StatusAfterAny(j, e) == IF e = Through THEN "completed" ELSE j.status
StatusAfter(j, e) == IF e = Through /\ j.status = "running" THEN "completed" ELSE j.status

Counted(j, d) ==
  [j EXCEPT !.projected   = IF d = "projected"   THEN @ + 1 ELSE @,
            !.quarantined = IF d = "quarantined" THEN @ + 1 ELSE @,
            !.notRouted   = IF d = "not-routed"  THEN @ + 1 ELSE @]

\* Back from the executor: the stored job is read again.
Continue ==
  /\ pc = "projected"
  /\ IF job.status = "cancelled"
     THEN Return /\ UNCHANGED fresh
     ELSE /\ next' = [Counted(job, result) EXCEPT !.after = Entry, !.status = StatusAfter(job, Entry)]
          /\ fresh' = fresh \cup {"runner"}
          /\ pc' = "store" /\ UNCHANGED <<todo, result>>
  /\ UNCHANGED <<inScope, decided, job, pinned, admin>>

\* validate() or project() throws.
ProjectFails ==
  /\ pc = "project" /\ Entry \in inScope
  /\ IF job.status = "cancelled"
     THEN Return /\ UNCHANGED fresh
     ELSE /\ next' = [job EXCEPT !.status = "failed"]
          /\ fresh' = fresh \cup {"runner"}
          /\ pc' = "fail" /\ UNCHANGED <<todo, result>>
  /\ UNCHANGED <<inScope, decided, job, pinned, admin>>

\* STATE_COMPARE_FAILED ends the batch.
StoreNext ==
  /\ pc \in {"store", "fail"}
  /\ IF Replaces("runner") THEN Store(next) ELSE UNCHANGED <<job, pinned, fresh>>
  /\ IF Replaces("runner") /\ pc = "store"
     THEN pc' = "batch" /\ todo' = todo \ {Entry} /\ result' = None /\ next' = None
     ELSE Return
  /\ UNCHANGED <<inScope, decided, admin>>

Crash ==
  /\ Return
  /\ admin' = [a \in Admins |-> None]
  /\ fresh' = {}
  /\ UNCHANGED <<inScope, decided, job, pinned>>

-----------------------------------------------------------------------------
Runner ==
  \/ BatchBegin \/ EntryBegin \/ Project \/ Continue \/ ProjectFails \/ StoreNext \/ BatchEnd

Next ==
  \/ Create
  \/ \E a \in Admins, action \in Actions : Transition(a, action)
  \/ \E a \in Admins : TransitionStored(a)
  \/ Runner
  \/ Crash

Spec == Init /\ [][Next]_vars

\* The command line and the backfill call runBatch while the job is running.
FairSpec == Spec /\ WF_vars(Runner)

-----------------------------------------------------------------------------
(* Properties *)

TypeOK ==
  /\ inScope \subseteq Entries
  /\ decided \in [Entries -> Dispositions \cup {None}]
  /\ job \in JobRows \cup {None} /\ next \in JobRows \cup {None}
  /\ pinned \in BOOLEAN
  /\ pc \in {"idle", "batch", "project", "projected", "store", "fail"}
  /\ todo \subseteq Entries
  /\ result \in Dispositions \cup {None}
  /\ admin \in [Admins -> JobRows \cup {None}]
  /\ fresh \subseteq Admins \cup {"runner"}

\* The source pin exists exactly as long as the job may still read its
\* input: no race of a cancel, a pause or a completion leaks or drops it.
PinnedWhileNeeded ==
  job # None => (pinned <=> job.status \notin {"completed", "cancelled"})

\* The job's counters are the executor's durable decisions on the entries it
\* counts as processed: nothing is skipped or counted twice through pauses,
\* failures, lost compare-and-sets and restarts.
OutcomesOf(d) ==
  Cardinality({e \in 1..job.after : IF e \in inScope THEN decided[e] = d ELSE d = "not-routed"})

CountsMatchOutcomes ==
  job # None =>
    /\ job.projected = OutcomesOf("projected")
    /\ job.quarantined = OutcomesOf("quarantined")
    /\ job.notRouted = OutcomesOf("not-routed")
    /\ job.projected + job.quarantined + job.notRouted = job.after

\* Only a job whose whole range was decided is completed.
CompletedIsComplete ==
  job # None /\ job.status = "completed" =>
    job.after = Through /\ \A e \in inScope : decided[e] # None

\* The job's row, its pin and the executor's decisions tell one story at every
\* moment, whoever races whom and whatever is cut off.
ReplayIsAccounted == TypeOK /\ PinnedWhileNeeded /\ CountsMatchOutcomes /\ CompletedIsComplete

\* A completed or cancelled job never changes again, whoever still runs.
FinalIsFinal == [][job # None /\ Releases(job) => job' = job]_vars

\* A pause takes effect: while it lasts nobody but an administrator ends it.
PauseHolds ==
  [][job # None /\ job.status = "paused" /\ job'.status # "paused" =>
       \/ job'.status = "failed"
       \/ \E a \in Admins : admin[a] # None /\ admin'[a] = None]_vars

\* What an administrator was told holds: no batch that was under way and no
\* other request undoes a cancel, a completion or a pause.
AdministratorsAreObeyed == FinalIsFinal /\ PauseHolds

\* If the process eventually stays up, a running job that is driven reaches
\* the end of its range or is stopped, whatever its batches lose to pauses,
\* failures and compare-and-sets.
RangeIsReached ==
  (<>[][~Crash]_vars) => (Running ~> ~Running \/ job.after = Through)

\* What the tests and the plan of the repository say: it also ends, completed
\* or stopped, and does not run for ever.
RunningEnds == (<>[][~Crash]_vars) => (Running ~> ~Running)
=============================================================================
