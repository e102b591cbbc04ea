---------------------------- MODULE Replay_proofs ----------------------------
(***************************************************************************)
(* Proofs about replays: ReplayJob for every range, every batch limit,     *)
(* every scope and every number of concurrent administrators; ReplaySetup  *)
(* for all jobs, target files, aliases between endpoints, numbers of       *)
(* concurrent requests and of edits; Backfill for every legacy table, all  *)
(* mappings and any number of mishaps.                                     *)
(***************************************************************************)
EXTENDS ReplayJob, ReplaySetup, Backfill, FiniteSetTheorems, TLAPS

-----------------------------------------------------------------------------
(***************************************************************************)
(* ReplayJob                                                               *)
(***************************************************************************)
(* The inductive invariant. *)

\* What the executor decided on an entry, as the counters see it.
OutcomeIs(e, d) == IF e \in inScope THEN decided[e] = d ELSE d = "not-routed"

\* The running batch is the next entries after the job's position; the entry in
\* work has been decided as the runner remembers.
BatchInv ==
  /\ job # None => job.after <= Through
  /\ job = None => ~pinned
  /\ pc # "idle" => job # None /\ \E last \in 0..Through : todo = (job.after + 1)..last
  /\ pc \in {"project", "projected", "store", "fail"} => todo # {}
  /\ pc \in {"projected", "store"} => result \in Dispositions /\ OutcomeIs(Entry, result)

\* What the runner and the administrators are about to store was made of the job
\* as it is, unless the job has been written since.
FreshInv ==
  /\ "runner" \in fresh /\ pc \in {"store", "fail"} =>
       /\ job.status # "cancelled"
       /\ next = IF pc = "store"
                 THEN [Counted(job, result) EXCEPT !.after = Entry, !.status = StatusAfter(job, Entry)]
                 ELSE [job EXCEPT !.status = "failed"]
  /\ \A a \in Admins : a \in fresh /\ admin[a] # None =>
       /\ job # None /\ ~Releases(job)
       /\ \E action \in Actions : admin[a] = [job EXCEPT !.status = Desired(action)]

\* Everything before the job's position has been decided.
DecidedInv == job # None => \A e \in 1..job.after : e \in inScope => decided[e] # None

ReplayInv == ReplayIsAccounted /\ BatchInv /\ FreshInv /\ DecidedInv
-----------------------------------------------------------------------------
(* Lemmas about the operators the actions are built from. *)

\* What a move of the job keeps.
SamePosition(j, k) ==
  /\ k.after = j.after /\ k.projected = j.projected
  /\ k.quarantined = j.quarantined /\ k.notRouted = j.notRouted

LEMMA StatusOnly ==
  ASSUME NEW j \in JobRows, NEW status \in Statuses
  PROVE  LET k == [j EXCEPT !.status = status]
         IN k \in JobRows /\ k.status = status /\ SamePosition(j, k)
BY DEF JobRows, SamePosition

\* Counting an entry and moving past it.
MovedPast(j, d, e, status) == [Counted(j, d) EXCEPT !.after = e, !.status = status]

LEMMA Advanced ==
  ASSUME NEW j \in JobRows, NEW d \in Dispositions, NEW e \in Nat, NEW status \in Statuses
  PROVE  LET k == MovedPast(j, d, e, status)
         IN /\ k \in JobRows /\ k.status = status /\ k.after = e
            /\ k.projected   = j.projected   + (IF d = "projected"   THEN 1 ELSE 0)
            /\ k.quarantined = j.quarantined + (IF d = "quarantined" THEN 1 ELSE 0)
            /\ k.notRouted   = j.notRouted   + (IF d = "not-routed"  THEN 1 ELSE 0)
            /\ k.projected + k.quarantined + k.notRouted = j.projected + j.quarantined + j.notRouted + 1
<1> DEFINE c == Counted(j, d)
           k == [c EXCEPT !.after = e, !.status = status]
<1>1. /\ c \in JobRows
      /\ c.projected   = IF d = "projected"   THEN j.projected + 1   ELSE j.projected
      /\ c.quarantined = IF d = "quarantined" THEN j.quarantined + 1 ELSE j.quarantined
      /\ c.notRouted   = IF d = "not-routed"  THEN j.notRouted + 1   ELSE j.notRouted
  <2>1. CASE d = "projected"
    <3>1. c = [j EXCEPT !.projected = j.projected + 1]
      BY <2>1 DEF Counted, JobRows
    <3> QED
      BY <2>1, <3>1 DEF JobRows
  <2>2. CASE d = "quarantined"
    <3>1. c = [j EXCEPT !.quarantined = j.quarantined + 1]
      BY <2>2 DEF Counted, JobRows
    <3> QED
      BY <2>2, <3>1 DEF JobRows
  <2>3. CASE d = "not-routed"
    <3>1. c = [j EXCEPT !.notRouted = j.notRouted + 1]
      BY <2>3 DEF Counted, JobRows
    <3> QED
      BY <2>3, <3>1 DEF JobRows
  <2> QED
    BY <2>1, <2>2, <2>3 DEF Dispositions
<1>2. /\ j.projected \in Nat /\ j.quarantined \in Nat /\ j.notRouted \in Nat
  BY DEF JobRows
<1> HIDE DEF c
<1>3. /\ k \in JobRows /\ k.status = status /\ k.after = e
      /\ k.projected = c.projected /\ k.quarantined = c.quarantined /\ k.notRouted = c.notRouted
  BY <1>1 DEF JobRows
<1> HIDE DEF k
<1>4. /\ k.projected   = j.projected   + (IF d = "projected"   THEN 1 ELSE 0)
      /\ k.quarantined = j.quarantined + (IF d = "quarantined" THEN 1 ELSE 0)
      /\ k.notRouted   = j.notRouted   + (IF d = "not-routed"  THEN 1 ELSE 0)
  BY <1>1, <1>2, <1>3
<1>5. k.projected + k.quarantined + k.notRouted = j.projected + j.quarantined + j.notRouted + 1
  BY <1>2, <1>4 DEF Dispositions
<1> QED
  BY <1>3, <1>4, <1>5 DEF k, c, MovedPast

\* The entry in work is the one after the job's position; the rest follows it.
LEMMA EntryIs ==
  ASSUME TypeOK, BatchInv, pc # "idle", todo # {}
  PROVE  /\ job # None /\ job \in JobRows /\ job.after \in Nat /\ job.after < Through
         /\ Entry = job.after + 1 /\ Entry \in todo /\ Entry \in Entries
         /\ \E last \in 0..Through : todo \ {Entry} = (Entry + 1)..last
<1>1. PICK last \in 0..Through : todo = (job.after + 1)..last
  BY DEF BatchInv
<1>2. job # None /\ job \in JobRows /\ job.after \in Nat
  BY DEF BatchInv, TypeOK, JobRows
<1> DEFINE e == job.after + 1
<1>3. e \in todo /\ (\A n \in todo : e <= n) /\ e <= last
  BY <1>1, <1>2
<1>4. \A m \in todo : (\A n \in todo : m <= n) => m = e
  BY <1>1, <1>2, <1>3
<1>5. Entry = e
  BY <1>3, <1>4 DEF Entry
<1>6. todo \ {e} = (e + 1)..last /\ e \in 1..Through /\ job.after < Through
  BY <1>1, <1>2, <1>3, ConstantsAssumption
<1> QED
  BY <1>2, <1>3, <1>5, <1>6 DEF Entries

\* While an entry is in work the job is not completed.
LEMMA InWork ==
  ASSUME TypeOK, BatchInv, CompletedIsComplete, pc # "idle", todo # {}
  PROVE  job.status # "completed"
<1>1. job # None /\ job.after \in Nat /\ job.after < Through
  BY EntryIs
<1> QED
  BY <1>1, ConstantsAssumption DEF CompletedIsComplete

\* How the stored job moves.
Stored(j) == job' = j /\ pinned' = (pinned /\ ~Releases(j)) /\ fresh' = {}

StatusMoves ==
  \E status \in Statuses \ {"completed"} : Stored([job EXCEPT !.status = status])

PositionMoves ==
  /\ pc = "store"
  /\ Stored(MovedPast(job, result, Entry, StatusAfter(job, Entry)))

LEMMA JobMoves ==
  ASSUME ReplayInv, [Next]_vars
  PROVE  /\ inScope' = inScope
         /\ \/ job' = job /\ pinned' = pinned
            \/ Create
            \/ /\ job # None /\ ~Releases(job) /\ decided' = decided
               /\ StatusMoves \/ PositionMoves
<1>1. TypeOK /\ BatchInv /\ FreshInv /\ CompletedIsComplete
  BY DEF ReplayInv, ReplayIsAccounted
<1>2. inScope' = inScope
  BY DEF Next, Create, Transition, TransitionStored, Runner, BatchBegin, EntryBegin, Project,
     Continue, ProjectFails, StoreNext, BatchEnd, Crash, vars
<1>3. CASE \/ \E a \in Admins, action \in Actions : Transition(a, action)
           \/ BatchBegin \/ EntryBegin \/ Project \/ Continue \/ ProjectFails \/ BatchEnd
           \/ Crash \/ UNCHANGED vars
  BY <1>2, <1>3 DEF Transition, BatchBegin, EntryBegin, Project, Continue, ProjectFails, BatchEnd,
     Crash, vars
<1>4. ASSUME NEW a \in Admins, TransitionStored(a)
      PROVE  \/ job' = job /\ pinned' = pinned
             \/ job # None /\ ~Releases(job) /\ decided' = decided /\ StatusMoves
  <2>1. CASE a \notin fresh
    BY <1>4, <2>1 DEF TransitionStored, Replaces
  <2>2. CASE a \in fresh
    <3>1. PICK action \in Actions : admin[a] = [job EXCEPT !.status = Desired(action)]
      BY <1>1, <1>4, <2>2 DEF TransitionStored, FreshInv
    <3>2. job # None /\ ~Releases(job)
      BY <1>1, <1>4, <2>2 DEF TransitionStored, FreshInv
    <3>3. Desired(action) \in Statuses \ {"completed"}
      BY DEF Desired, Statuses
    <3>4. Stored([job EXCEPT !.status = Desired(action)]) /\ decided' = decided
      BY <1>4, <2>2, <3>1 DEF TransitionStored, Replaces, Store, Stored
    <3> QED
      BY <3>2, <3>3, <3>4 DEF StatusMoves
  <2> QED
    BY <2>1, <2>2
<1>5. CASE StoreNext
  <2>1. CASE "runner" \notin fresh
    BY <1>2, <1>5, <2>1 DEF StoreNext, Replaces
  <2>2. CASE "runner" \in fresh
    <3>1. pc \in {"store", "fail"} /\ Stored(next) /\ decided' = decided
      BY <1>5, <2>2 DEF StoreNext, Replaces, Store, Stored
    <3>2. pc # "idle" /\ todo # {} /\ job # None
      BY <1>1, <3>1 DEF BatchInv
    <3>3. ~Releases(job)
      BY <1>1, <2>2, <3>1, <3>2, InWork DEF FreshInv, Releases
    <3>4. CASE pc = "store"
      BY <1>1, <1>2, <2>2, <3>1, <3>2, <3>3, <3>4 DEF FreshInv, PositionMoves, MovedPast
    <3>5. CASE pc = "fail"
      <4>1. next = [job EXCEPT !.status = "failed"] /\ "failed" \in Statuses \ {"completed"}
        BY <1>1, <2>2, <3>1, <3>5 DEF FreshInv, Statuses
      <4> QED
        BY <1>2, <3>1, <3>2, <3>3, <4>1 DEF StatusMoves
    <3> QED
      BY <3>1, <3>4, <3>5
  <2> QED
    BY <2>1, <2>2
<1> QED
  BY <1>2, <1>3, <1>4, <1>5 DEF Next, Runner

-----------------------------------------------------------------------------
(* The inductive invariant holds. *)

LEMMA InitInv == Init => ReplayInv
<1> SUFFICES ASSUME Init PROVE ReplayInv
  OBVIOUS
<1>1. TypeOK
  BY DEF Init, TypeOK, Entries
<1>2. PinnedWhileNeeded /\ CountsMatchOutcomes /\ CompletedIsComplete /\ DecidedInv
  BY DEF Init, PinnedWhileNeeded, CountsMatchOutcomes, CompletedIsComplete, DecidedInv
<1>3. BatchInv /\ FreshInv
  BY DEF Init, BatchInv, FreshInv
<1> QED
  BY <1>1, <1>2, <1>3 DEF ReplayInv, ReplayIsAccounted

LEMMA TypeStep == ReplayInv /\ [Next]_vars => TypeOK'
<1> SUFFICES ASSUME ReplayInv, [Next]_vars PROVE TypeOK'
  OBVIOUS
<1>1. TypeOK /\ BatchInv /\ FreshInv
  BY DEF ReplayInv, ReplayIsAccounted
<1>2. CASE Create
  BY <1>1, <1>2 DEF Create, TypeOK, JobRows, Statuses
<1>3. ASSUME NEW a \in Admins, NEW action \in Actions, Transition(a, action) PROVE TypeOK'
  <2>1. [job EXCEPT !.status = Desired(action)] \in JobRows
    BY <1>1, <1>3 DEF Transition, TypeOK, JobRows, Statuses, Desired
  <2> QED
    BY <1>1, <1>3, <2>1 DEF Transition, TypeOK
<1>4. ASSUME NEW a \in Admins, TransitionStored(a) PROVE TypeOK'
  BY <1>1, <1>4 DEF TransitionStored, Store, Replaces, TypeOK
<1>5. CASE BatchBegin \/ EntryBegin \/ BatchEnd \/ Crash
  BY <1>1, <1>5 DEF BatchBegin, EntryBegin, BatchEnd, Crash, Return, Batch, TypeOK
<1>6. CASE Project
  <2>1. Entry \in Entries
    BY <1>1, <1>6, EntryIs DEF Project, BatchInv
  <2>2. PICK d \in Decisions(Entry) :
          /\ result' = d
          /\ decided' = IF Entry \in inScope THEN [decided EXCEPT ![Entry] = d] ELSE decided
    BY <1>6 DEF Project
  <2>3. d \in Dispositions
    BY <1>1, <2>1 DEF Decisions, Dispositions, TypeOK
  <2>4. decided' \in [Entries -> Dispositions \cup {None}]
    BY <1>1, <2>1, <2>2, <2>3 DEF TypeOK
  <2> QED
    BY <1>1, <1>6, <2>2, <2>3, <2>4 DEF Project, TypeOK
<1>7. CASE Continue
  <2>1. pc # "idle" /\ todo # {} /\ result \in Dispositions
    BY <1>1, <1>7 DEF Continue, BatchInv
  <2>2. job \in JobRows /\ Entry \in Nat
    BY <1>1, <2>1, EntryIs DEF Entries
  <2>3. StatusAfter(job, Entry) \in Statuses
    BY <2>2 DEF StatusAfter, Statuses, JobRows
  <2>4. [Counted(job, result) EXCEPT !.after = Entry, !.status = StatusAfter(job, Entry)] \in JobRows
    BY <2>1, <2>2, <2>3, Advanced DEF MovedPast
  <2> QED
    BY <1>1, <1>7, <2>4 DEF Continue, Return, TypeOK
<1>8. CASE ProjectFails
  <2>1. job \in JobRows
    BY <1>1, <1>8, EntryIs DEF ProjectFails, BatchInv
  <2>2. [job EXCEPT !.status = "failed"] \in JobRows
    BY <2>1 DEF JobRows, Statuses
  <2> QED
    BY <1>1, <1>8, <2>2 DEF ProjectFails, Return, TypeOK
<1>9. CASE StoreNext
  <2>1. "runner" \in fresh => next \in JobRows
    <3>1. "runner" \in fresh => next # None
      <4>1. ASSUME "runner" \in fresh PROVE next \in JobRows
        <5>1. pc \in {"store", "fail"} /\ pc # "idle" /\ todo # {}
          BY <1>1, <1>9 DEF StoreNext, BatchInv
        <5>2. job \in JobRows /\ Entry \in Nat
          BY <1>1, <5>1, EntryIs DEF Entries
        <5>3. StatusAfter(job, Entry) \in Statuses /\ "failed" \in Statuses
          BY <5>2 DEF StatusAfter, Statuses, JobRows
        <5>4. CASE pc = "store"
          <6>1. result \in Dispositions
            BY <1>1, <5>4 DEF BatchInv
          <6>2. next = MovedPast(job, result, Entry, StatusAfter(job, Entry))
            BY <1>1, <4>1, <5>4 DEF FreshInv, MovedPast
          <6> QED
            BY <5>2, <5>3, <6>1, <6>2, Advanced
        <5>5. CASE pc = "fail"
          BY <1>1, <4>1, <5>2, <5>3, <5>5, StatusOnly DEF FreshInv
        <5> QED
          BY <5>1, <5>4, <5>5
      <4> QED
        BY <4>1, NoneAssumption
    <3> QED
      BY <1>1, <3>1 DEF TypeOK
  <2> QED
    BY <1>1, <1>9, <2>1 DEF StoreNext, Store, Return, Replaces, TypeOK
<1>10. CASE UNCHANGED vars
  BY <1>1, <1>10 DEF vars, TypeOK
<1> QED
  BY <1>2, <1>3, <1>4, <1>5, <1>6, <1>7, <1>8, <1>9, <1>10 DEF Next, Runner

\* The pin.
LEMMA PinStep == ReplayInv /\ [Next]_vars => PinnedWhileNeeded' /\ (job' = None => ~pinned')
<1> SUFFICES ASSUME ReplayInv, [Next]_vars
             PROVE  PinnedWhileNeeded' /\ (job' = None => ~pinned')
  OBVIOUS
<1>1. TypeOK /\ PinnedWhileNeeded /\ BatchInv /\ TypeOK'
  BY TypeStep DEF ReplayInv, ReplayIsAccounted
<1>2. CASE job' = job /\ pinned' = pinned
  BY <1>1, <1>2 DEF PinnedWhileNeeded, BatchInv
<1>3. CASE Create
  BY <1>3, NoneAssumption DEF Create, PinnedWhileNeeded, JobRows, Statuses
<1>4. CASE job # None /\ ~Releases(job) /\ pinned' = (pinned /\ ~Releases(job')) /\ job' \in JobRows
  BY <1>1, <1>4, NoneAssumption DEF PinnedWhileNeeded, Releases
<1>5. ASSUME job # None, ~Releases(job), StatusMoves PROVE PinnedWhileNeeded' /\ (job' = None => ~pinned')
  <2>1. job \in JobRows
    BY <1>1, <1>5 DEF TypeOK
  <2> QED
    BY <1>4, <1>5, <2>1, StatusOnly DEF StatusMoves, Stored
<1>6. ASSUME job # None, ~Releases(job), PositionMoves PROVE PinnedWhileNeeded' /\ (job' = None => ~pinned')
  <2>1. pc # "idle" /\ todo # {} /\ result \in Dispositions
    BY <1>1, <1>6 DEF PositionMoves, BatchInv
  <2>2. job \in JobRows /\ Entry \in Nat
    BY <1>1, <2>1, EntryIs DEF Entries
  <2>3. StatusAfter(job, Entry) \in Statuses
    BY <2>2 DEF StatusAfter, Statuses, JobRows
  <2>4. job' \in JobRows
    BY <1>6, <2>1, <2>2, <2>3, Advanced DEF PositionMoves, Stored
  <2> QED
    BY <1>4, <1>6, <2>4 DEF PositionMoves, Stored
<1> QED
  BY <1>2, <1>3, <1>5, <1>6, JobMoves

\* What the executor has decided stays decided, and what it decides now lies
\* beyond the job's position.
LEMMA DecidedGrows ==
  ASSUME ReplayInv, [Next]_vars
  PROVE  /\ \A e \in Entries : decided[e] # None => decided'[e] = decided[e]
         /\ job # None => \A e \in 1..job.after : decided'[e] = decided[e]
<1>1. TypeOK /\ BatchInv /\ DecidedInv
  BY DEF ReplayInv, ReplayIsAccounted
<1>2. CASE ~Project
  <2>1. decided' = decided
    BY <1>2 DEF Next, Create, Transition, TransitionStored, Runner, BatchBegin, EntryBegin,
       Continue, ProjectFails, StoreNext, BatchEnd, Crash, vars
  <2> QED
    BY <2>1
<1>3. CASE Project
  <2>1. pc # "idle" /\ todo # {}
    BY <1>1, <1>3 DEF Project, BatchInv
  <2>2. Entry = job.after + 1 /\ Entry \in Entries /\ job.after \in Nat
    BY <1>1, <2>1, EntryIs
  <2>3. PICK d \in Decisions(Entry) :
          decided' = IF Entry \in inScope THEN [decided EXCEPT ![Entry] = d] ELSE decided
    BY <1>3 DEF Project
  <2>4. \A e \in Entries : e # Entry => decided'[e] = decided[e]
    BY <1>1, <2>3 DEF TypeOK
  <2>5. decided[Entry] # None => decided'[Entry] = decided[Entry]
    BY <1>1, <2>2, <2>3 DEF Decisions, TypeOK
  <2>6. job # None => \A e \in 1..job.after : e \in Entries /\ e # Entry
    BY <1>1, <2>2, ConstantsAssumption DEF BatchInv, Entries
  <2> QED
    BY <2>4, <2>5, <2>6
<1> QED
  BY <1>2, <1>3

\* The entries up to a position with an outcome.
OutcomeSet(d, n) ==
  {e \in 1..n : IF e \in inScope THEN decided[e] = d ELSE d = "not-routed"}

\* One more entry belongs to exactly the outcome it was decided for.
LEMMA OneOutcomeMore ==
  ASSUME NEW n \in Nat, NEW d \in Dispositions, OutcomeIs(n + 1, d), NEW o \in Dispositions
  PROVE  Cardinality(OutcomeSet(o, n + 1)) =
           Cardinality(OutcomeSet(o, n)) + (IF o = d THEN 1 ELSE 0)
<1>1. IsFiniteSet(OutcomeSet(o, n)) /\ n + 1 \notin OutcomeSet(o, n)
  <2>1. OutcomeSet(o, n) \subseteq 1..n
    BY DEF OutcomeSet
  <2>2. IsFiniteSet(1..n)
    BY FS_Interval
  <2> QED
    BY <2>1, <2>2, FS_Subset
<1>2. 1..(n + 1) = (1..n) \cup {n + 1}
  OBVIOUS
<1>3. CASE o = d
  <2>1. OutcomeSet(o, n + 1) = OutcomeSet(o, n) \cup {n + 1}
    BY <1>2, <1>3 DEF OutcomeSet, OutcomeIs
  <2>2. Cardinality(OutcomeSet(o, n) \cup {n + 1}) = Cardinality(OutcomeSet(o, n)) + 1
    BY <1>1, FS_AddElement
  <2> QED
    BY <1>3, <2>1, <2>2
<1>4. CASE o # d
  <2>1. OutcomeSet(o, n + 1) = OutcomeSet(o, n)
    BY <1>2, <1>4 DEF OutcomeSet, OutcomeIs
  <2>2. Cardinality(OutcomeSet(o, n)) \in Nat
    BY <1>1, FS_CardinalityType
  <2> QED
    BY <1>4, <2>1, <2>2
<1> QED
  BY <1>3, <1>4

\* What a job that has been decided up to its position counts.
CountsAre(j) ==
  /\ j.projected   = Cardinality(OutcomeSet("projected", j.after))
  /\ j.quarantined = Cardinality(OutcomeSet("quarantined", j.after))
  /\ j.notRouted   = Cardinality(OutcomeSet("not-routed", j.after))
  /\ j.projected + j.quarantined + j.notRouted = j.after

LEMMA CountsStep == ReplayInv /\ [Next]_vars => CountsMatchOutcomes' /\ DecidedInv'
<1> SUFFICES ASSUME ReplayInv, [Next]_vars PROVE CountsMatchOutcomes' /\ DecidedInv'
  OBVIOUS
<1>1. TypeOK /\ BatchInv /\ CountsMatchOutcomes /\ DecidedInv /\ inScope' = inScope
  BY JobMoves DEF ReplayInv, ReplayIsAccounted
<1>2. job # None => CountsAre(job)
  BY <1>1 DEF CountsMatchOutcomes, CountsAre, OutcomesOf, OutcomeSet
<1>3. ASSUME NEW j, job' = j, CountsAre(j),
             \A e \in 1..j.after : /\ decided'[e] = decided[e]
                                   /\ e \in inScope => decided[e] # None
      PROVE  CountsMatchOutcomes' /\ DecidedInv'
  <2>1. \A d \in Dispositions :
          {e \in 1..j.after : IF e \in inScope THEN decided'[e] = d ELSE d = "not-routed"}
            = OutcomeSet(d, j.after)
    BY <1>3 DEF OutcomeSet
  <2>2. \A d \in Dispositions : OutcomesOf(d)' = Cardinality(OutcomeSet(d, j.after))
    BY <1>1, <1>3, <2>1 DEF OutcomesOf
  <2>3. CountsMatchOutcomes'
    BY <1>3, <2>2 DEF CountsMatchOutcomes, CountsAre, Dispositions
  <2>4. DecidedInv'
    BY <1>1, <1>3 DEF DecidedInv
  <2> QED
    BY <2>3, <2>4
<1>4. job # None => \A e \in 1..job.after : /\ decided'[e] = decided[e]
                                            /\ e \in inScope => decided[e] # None
  BY <1>1, DecidedGrows DEF DecidedInv
<1>5. CASE job' = job
  <2>1. CASE job = None
    BY <1>5, <2>1 DEF CountsMatchOutcomes, DecidedInv
  <2>2. CASE job # None
    BY <1>2, <1>3, <1>4, <1>5, <2>2
  <2> QED
    BY <2>1, <2>2
<1>6. CASE Create
  <2> DEFINE j == [status |-> "planned", after |-> 0, projected |-> 0, quarantined |-> 0,
                   notRouted |-> 0]
  <2>1. job' = j
    BY <1>6 DEF Create
  <2>2. \A d \in Dispositions : OutcomeSet(d, 0) = {}
    BY DEF OutcomeSet
  <2>3. CountsAre(j)
    BY <2>2, FS_EmptySet DEF CountsAre, Dispositions
  <2>4. \A e \in 1..j.after : FALSE
    OBVIOUS
  <2> QED
    BY <1>3, <2>1, <2>3, <2>4
<1>7. ASSUME job # None, StatusMoves PROVE CountsMatchOutcomes' /\ DecidedInv'
  <2>1. PICK status \in Statuses : job' = [job EXCEPT !.status = status]
    BY <1>7 DEF StatusMoves, Stored
  <2> DEFINE j == [job EXCEPT !.status = status]
  <2>2. SamePosition(job, j)
    BY <1>1, <1>7, StatusOnly DEF TypeOK
  <2> HIDE DEF j
  <2>3. CountsAre(j)
    BY <1>2, <1>7, <2>2 DEF CountsAre, SamePosition
  <2>4. \A e \in 1..j.after : decided'[e] = decided[e] /\ (e \in inScope => decided[e] # None)
    BY <1>4, <1>7, <2>2 DEF SamePosition
  <2>5. job' = j
    BY <2>1 DEF j
  <2> QED
    BY <1>3, <2>3, <2>4, <2>5
<1>8. ASSUME job # None, PositionMoves, decided' = decided
      PROVE  CountsMatchOutcomes' /\ DecidedInv'
  <2> DEFINE n == job.after
             j == MovedPast(job, result, Entry, StatusAfter(job, Entry))
  <2>1. pc # "idle" /\ todo # {} /\ result \in Dispositions /\ OutcomeIs(Entry, result)
    BY <1>1, <1>8 DEF PositionMoves, BatchInv
  <2>2. job \in JobRows /\ n \in Nat /\ Entry = n + 1 /\ Entry \in Nat
    BY <1>1, <2>1, EntryIs
  <2>3. StatusAfter(job, Entry) \in Statuses
    BY <2>2 DEF StatusAfter, Statuses, JobRows
  <2>4. /\ j.after = Entry
        /\ j.projected   = job.projected   + (IF result = "projected"   THEN 1 ELSE 0)
        /\ j.quarantined = job.quarantined + (IF result = "quarantined" THEN 1 ELSE 0)
        /\ j.notRouted   = job.notRouted   + (IF result = "not-routed"  THEN 1 ELSE 0)
        /\ j.projected + j.quarantined + j.notRouted = job.projected + job.quarantined + job.notRouted + 1
    BY <2>1, <2>2, <2>3, Advanced
  <2>5. job' = j
    BY <1>8 DEF PositionMoves, Stored
  <2> HIDE DEF n, j
  <2>6. \A o \in Dispositions :
          Cardinality(OutcomeSet(o, n + 1)) =
            Cardinality(OutcomeSet(o, n)) + (IF o = result THEN 1 ELSE 0)
    BY <2>1, <2>2, OneOutcomeMore
  <2>7. CountsAre(j)
    <3>1. /\ job.projected   = Cardinality(OutcomeSet("projected", n))
          /\ job.quarantined = Cardinality(OutcomeSet("quarantined", n))
          /\ job.notRouted   = Cardinality(OutcomeSet("not-routed", n))
          /\ job.projected + job.quarantined + job.notRouted = n
      BY <1>2, <1>8 DEF CountsAre, n
    <3>2. /\ j.projected   = Cardinality(OutcomeSet("projected", n + 1))
          /\ j.quarantined = Cardinality(OutcomeSet("quarantined", n + 1))
          /\ j.notRouted   = Cardinality(OutcomeSet("not-routed", n + 1))
      BY <2>4, <2>6, <3>1 DEF Dispositions
    <3> QED
      BY <2>2, <2>4, <3>1, <3>2 DEF CountsAre
  <2>8. ASSUME NEW e \in 1..j.after
        PROVE  decided'[e] = decided[e] /\ (e \in inScope => decided[e] # None)
    <3>1. CASE e = n + 1
      BY <1>8, <2>1, <2>2, <3>1, NoneAssumption DEF OutcomeIs
    <3>2. CASE e # n + 1
      <4>1. e \in 1..n
        BY <2>2, <2>4, <3>2
      <4> QED
        BY <1>4, <1>8, <4>1 DEF n
    <3> QED
      BY <3>1, <3>2
  <2> QED
    BY <1>3, <2>5, <2>7, <2>8
<1> QED
  BY <1>5, <1>6, <1>7, <1>8, JobMoves

\* Completion.
LEMMA CompletedStep == ReplayInv /\ [Next]_vars => CompletedIsComplete'
<1> SUFFICES ASSUME ReplayInv, [Next]_vars, job' # None, job'.status = "completed"
             PROVE  job'.after = Through /\ \A e \in inScope' : decided'[e] # None
  BY DEF CompletedIsComplete
<1>1. TypeOK /\ BatchInv /\ CompletedIsComplete /\ DecidedInv' /\ inScope' = inScope
  BY CountsStep, JobMoves DEF ReplayInv, ReplayIsAccounted
<1>2. ASSUME job'.after = Through PROVE \A e \in inScope' : decided'[e] # None
  BY <1>1, <1>2 DEF DecidedInv, TypeOK, Entries
<1>3. CASE job' = job
  BY <1>1, <1>2, <1>3 DEF CompletedIsComplete
<1>4. CASE Create
  BY <1>4 DEF Create
<1>5. ASSUME job # None, StatusMoves PROVE FALSE
  <2>1. PICK status \in Statuses \ {"completed"} : job' = [job EXCEPT !.status = status]
    BY <1>5 DEF StatusMoves, Stored
  <2>2. job'.status = status
    BY <1>1, <1>5, <2>1, StatusOnly DEF TypeOK
  <2> QED
    BY <2>1, <2>2
<1>6. ASSUME job # None, ~Releases(job), PositionMoves PROVE job'.after = Through
  <2>1. pc # "idle" /\ todo # {} /\ result \in Dispositions
    BY <1>1, <1>6 DEF PositionMoves, BatchInv
  <2>2. job \in JobRows /\ Entry \in Nat
    BY <1>1, <2>1, EntryIs DEF Entries
  <2>3. StatusAfter(job, Entry) \in Statuses
    BY <2>2 DEF StatusAfter, Statuses, JobRows
  <2> DEFINE j == MovedPast(job, result, Entry, StatusAfter(job, Entry))
  <2>4. job' = j
    BY <1>6 DEF PositionMoves, Stored
  <2>5. j.after = Entry /\ j.status = StatusAfter(job, Entry)
    BY <2>1, <2>2, <2>3, Advanced
  <2> QED
    BY <1>6, <2>4, <2>5 DEF StatusAfter, Releases
<1> QED
  BY <1>2, <1>3, <1>4, <1>5, <1>6, JobMoves

\* Where the running batch is.
LEMMA BatchStep == ReplayInv /\ [Next]_vars => BatchInv'
<1> SUFFICES ASSUME ReplayInv, [Next]_vars PROVE BatchInv'
  OBVIOUS
<1>1. TypeOK /\ TypeOK' /\ BatchInv /\ FreshInv /\ CompletedIsComplete /\ (job' = None => ~pinned')
  BY TypeStep, PinStep DEF ReplayInv, ReplayIsAccounted
<1>2. Through \in Nat /\ Limit \in Nat /\ Through > 0
  BY ConstantsAssumption
\* An entry that stays in work stays as it was decided.
<1>3. ASSUME pc' = pc, todo' = todo, result' = result, inScope' = inScope, decided' = decided,
             \/ job' = job
             \/ job # None /\ job' # None /\ job'.after = job.after
             \/ pc = "idle" /\ job' # None /\ job'.after = 0
      PROVE  BatchInv'
  <2>1. job' # None => job'.after <= Through
    BY <1>1, <1>2, <1>3 DEF BatchInv
  <2>2. pc' # "idle" => job' # None /\ \E last \in 0..Through : todo' = (job'.after + 1)..last
    BY <1>1, <1>3 DEF BatchInv
  <2>3. Entry' = Entry
    BY <1>3 DEF Entry
  <2>4. pc' \in {"projected", "store"} => result' \in Dispositions /\ OutcomeIs(Entry, result)'
    BY <1>1, <1>3, <2>3 DEF BatchInv, OutcomeIs
  <2> QED
    BY <1>1, <1>3, <2>1, <2>2, <2>4 DEF BatchInv
<1>4. ASSUME Return, job' = job \/ (job # None /\ job' # None /\ job'.after = job.after)
      PROVE  BatchInv'
  BY <1>1, <1>4 DEF BatchInv, Return
<1>5. CASE Create
  <2>1. /\ job' = [status |-> "planned", after |-> 0, projected |-> 0, quarantined |-> 0, notRouted |-> 0]
        /\ job = None /\ UNCHANGED <<inScope, decided, pc, todo, result>>
    BY <1>5 DEF Create
  <2>2. job' \in JobRows /\ job'.after = 0
    BY <2>1 DEF JobRows, Statuses
  <2>3. job' # None
    BY <2>2, NoneAssumption
  <2>4. pc = "idle"
    BY <1>1, <2>1 DEF BatchInv
  <2> QED
    BY <1>3, <2>1, <2>2, <2>3, <2>4
<1>6. ASSUME NEW a \in Admins, NEW action \in Actions, Transition(a, action) PROVE BatchInv'
  BY <1>3, <1>6 DEF Transition
<1>7. ASSUME NEW a \in Admins, TransitionStored(a) PROVE BatchInv'
  <2>1. CASE a \notin fresh
    BY <1>3, <1>7, <2>1 DEF TransitionStored, Replaces
  <2>2. CASE a \in fresh
    <3>1. job' = admin[a] /\ admin[a] # None /\ job # None
      BY <1>1, <1>7, <2>2 DEF TransitionStored, Replaces, Store, FreshInv
    <3>2. PICK action \in Actions : admin[a] = [job EXCEPT !.status = Desired(action)]
      BY <1>1, <1>7, <2>2, <3>1 DEF FreshInv
    <3>3. job'.after = job.after
      BY <1>1, <3>1, <3>2 DEF TypeOK, JobRows
    <3> QED
      BY <1>3, <1>7, <3>1, <3>3 DEF TransitionStored
  <2> QED
    BY <2>1, <2>2
<1>8. CASE BatchBegin
  <2>1. job # None /\ job.after \in Nat /\ job.after <= Through
    BY <1>1, <1>8 DEF BatchBegin, Running, TypeOK, JobRows, BatchInv
  <2>2. \E last \in 0..Through : Batch = (job.after + 1)..last
    <3>1. CASE job.after + Limit <= Through
      <4>1. Batch = (job.after + 1)..(job.after + Limit)
        BY <1>2, <2>1, <3>1 DEF Batch, Entries
      <4> QED
        BY <1>2, <2>1, <3>1, <4>1
    <3>2. CASE ~(job.after + Limit <= Through)
      <4>1. Batch = (job.after + 1)..Through
        BY <1>2, <2>1, <3>2 DEF Batch, Entries
      <4> QED
        BY <1>2, <4>1
    <3> QED
      BY <3>1, <3>2
  <2> QED
    BY <1>1, <1>8, <2>1, <2>2 DEF BatchBegin, BatchInv
<1>9. CASE BatchEnd \/ Crash
  BY <1>4, <1>9 DEF BatchEnd, Crash
<1>10. CASE EntryBegin
  <2>1. CASE job.status = "running"
    BY <1>1, <1>10, <2>1 DEF EntryBegin, BatchInv
  <2>2. CASE job.status # "running"
    BY <1>4, <1>10, <2>2 DEF EntryBegin
  <2> QED
    BY <2>1, <2>2
<1>11. CASE Project
  <2>1. pc # "idle" /\ todo # {} /\ Entry \in Entries
    BY <1>1, <1>11, EntryIs DEF Project, BatchInv
  <2>2. PICK d \in Decisions(Entry) :
          /\ result' = d
          /\ decided' = IF Entry \in inScope THEN [decided EXCEPT ![Entry] = d] ELSE decided
    BY <1>11 DEF Project
  <2>3. /\ todo' = todo /\ job' = job /\ inScope' = inScope /\ pc' = "projected" /\ Entry' = Entry
    BY <1>11 DEF Project, Entry
  <2>4. d \in Dispositions
    BY <1>1, <2>1 DEF Decisions, Dispositions, TypeOK
  <2>5. OutcomeIs(Entry, result)'
    BY <1>1, <2>1, <2>2, <2>3 DEF OutcomeIs, Decisions, TypeOK
  <2> QED
    BY <1>1, <2>1, <2>2, <2>3, <2>4, <2>5 DEF BatchInv
<1>12. CASE Continue
  <2>1. CASE job.status = "cancelled"
    BY <1>4, <1>12, <2>1 DEF Continue
  <2>2. CASE job.status # "cancelled"
    <3>1. /\ pc = "projected" /\ pc' = "store" /\ todo' = todo /\ result' = result
          /\ job' = job /\ inScope' = inScope /\ decided' = decided
      BY <1>12, <2>2 DEF Continue
    <3>2. Entry' = Entry
      BY <3>1 DEF Entry
    <3> QED
      BY <1>1, <3>1, <3>2 DEF BatchInv, OutcomeIs
  <2> QED
    BY <2>1, <2>2
<1>13. CASE ProjectFails
  <2>1. CASE job.status = "cancelled"
    BY <1>4, <1>13, <2>1 DEF ProjectFails
  <2>2. CASE job.status # "cancelled"
    BY <1>1, <1>13, <2>2 DEF ProjectFails, BatchInv
  <2> QED
    BY <2>1, <2>2
<1>14. CASE StoreNext
  <2>1. pc # "idle" /\ todo # {} /\ job # None
    BY <1>1, <1>14 DEF StoreNext, BatchInv
  <2>2. /\ job \in JobRows /\ job.after \in Nat /\ job.after < Through /\ Entry = job.after + 1
        /\ Entry \in Nat /\ \E last \in 0..Through : todo \ {Entry} = (Entry + 1)..last
    BY <1>1, <2>1, EntryIs
  <2>3. CASE "runner" \notin fresh
    BY <1>4, <1>14, <2>3 DEF StoreNext, Replaces
  <2>4. CASE "runner" \in fresh /\ pc = "fail"
    <3>1. job' = [job EXCEPT !.status = "failed"] /\ Return
      BY <1>1, <1>14, <2>4 DEF StoreNext, Replaces, Store, FreshInv
    <3>2. job' \in JobRows /\ job'.after = job.after
      BY <2>2, <3>1 DEF JobRows, Statuses
    <3> QED
      BY <1>4, <2>1, <3>1, <3>2, NoneAssumption
  <2>5. CASE "runner" \in fresh /\ pc = "store"
    <3> DEFINE j == MovedPast(job, result, Entry, StatusAfter(job, Entry))
    <3>1. job' = j /\ pc' = "batch" /\ todo' = todo \ {Entry}
      BY <1>1, <1>14, <2>5 DEF StoreNext, Replaces, Store, FreshInv, MovedPast
    <3>2. result \in Dispositions /\ StatusAfter(job, Entry) \in Statuses
      BY <1>1, <2>2, <2>5 DEF BatchInv, StatusAfter, Statuses, JobRows
    <3>3. j \in JobRows /\ j.after = Entry
      BY <2>2, <3>2, Advanced
    <3> HIDE DEF j
    <3>4. job' # None /\ job'.after = Entry /\ Entry <= Through
      BY <1>2, <2>2, <3>1, <3>3, NoneAssumption
    <3> QED
      BY <1>1, <2>2, <3>1, <3>4 DEF BatchInv
  <2> QED
    BY <1>14, <2>3, <2>4, <2>5 DEF StoreNext
<1>15. CASE UNCHANGED vars
  BY <1>3, <1>15 DEF vars
<1> QED
  BY <1>5, <1>6, <1>7, <1>8, <1>9, <1>10, <1>11, <1>12, <1>13, <1>14, <1>15 DEF Next, Runner

\* What is about to be stored.
LEMMA FreshStep == ReplayInv /\ [Next]_vars => FreshInv'
<1> SUFFICES ASSUME ReplayInv, [Next]_vars PROVE FreshInv'
  OBVIOUS
<1>1. TypeOK /\ BatchInv /\ FreshInv /\ CompletedIsComplete
  BY DEF ReplayInv, ReplayIsAccounted
<1>2. "runner" \notin Admins
  BY ConstantsAssumption
<1> DEFINE RunnerReady ==
      "runner" \in fresh /\ pc \in {"store", "fail"} =>
       /\ job.status # "cancelled"
       /\ next = IF pc = "store"
                 THEN [Counted(job, result) EXCEPT !.after = Entry, !.status = StatusAfter(job, Entry)]
                 ELSE [job EXCEPT !.status = "failed"]
           AdminReady(a) ==
      a \in fresh /\ admin[a] # None =>
       /\ job # None /\ ~Releases(job)
       /\ \E action \in Actions : admin[a] = [job EXCEPT !.status = Desired(action)]
<1>3. RunnerReady /\ \A a \in Admins : AdminReady(a)
  BY <1>1 DEF FreshInv
<1>4. ASSUME RunnerReady', \A a \in Admins : AdminReady(a)' PROVE FreshInv'
  BY <1>4 DEF FreshInv
<1>5. ASSUME job' = job, pc' = pc, next' = next, result' = result, todo' = todo,
             "runner" \in fresh' => "runner" \in fresh
      PROVE  RunnerReady'
  <2>1. Entry' = Entry
    BY <1>5 DEF Entry
  <2> QED
    BY <1>3, <1>5, <2>1 DEF Counted, StatusAfter
<1>6. ASSUME job' = job, NEW a \in Admins, admin'[a] \in {admin[a], None}, a \in fresh' => a \in fresh
      PROVE  AdminReady(a)'
  BY <1>3, <1>6 DEF Releases, Desired
<1>7. ASSUME fresh' = {} PROVE FreshInv'
  BY <1>7 DEF FreshInv
<1>8. ASSUME job' = job, admin' = admin, fresh' \subseteq fresh \cup {"runner"}
      PROVE  \A a \in Admins : AdminReady(a)'
  BY <1>2, <1>6, <1>8
<1>9. CASE Create \/ Crash
  BY <1>7, <1>9 DEF Create, Crash
<1>10. ASSUME NEW a \in Admins, NEW action \in Actions, Transition(a, action) PROVE FreshInv'
  <2>1. /\ job # None /\ job.status \in Allowed(action) /\ job' = job
        /\ admin' = [admin EXCEPT ![a] = [job EXCEPT !.status = Desired(action)]]
        /\ fresh' = fresh \cup {a}
        /\ pc' = pc /\ next' = next /\ result' = result /\ todo' = todo
    BY <1>10 DEF Transition
  <2>2. RunnerReady'
    BY <1>2, <1>5, <2>1
  <2>3. ~Releases(job)
    <3>1. action \in {"start", "pause", "resume", "cancel"}
      BY ConstantsAssumption
    <3>2. Allowed(action) \subseteq {"planned", "running", "paused", "failed"}
      BY <3>1 DEF Allowed
    <3> QED
      BY <2>1, <3>2 DEF Releases
  <2>4. admin'[a] = [job EXCEPT !.status = Desired(action)]
    BY <1>1, <2>1 DEF TypeOK
  <2>5. AdminReady(a)'
    BY <2>1, <2>3, <2>4 DEF Releases, Desired
  <2>6. ASSUME NEW n \in Admins, n # a PROVE AdminReady(n)'
    <3>1. admin'[n] = admin[n] /\ (n \in fresh' => n \in fresh)
      BY <1>1, <2>1, <2>6 DEF TypeOK
    <3> QED
      BY <1>6, <2>1, <3>1
  <2> QED
    BY <1>4, <2>2, <2>5, <2>6
<1>11. ASSUME NEW a \in Admins, TransitionStored(a) PROVE FreshInv'
  <2>1. CASE a \in fresh
    BY <1>7, <1>11, <2>1 DEF TransitionStored, Replaces, Store
  <2>2. CASE a \notin fresh
    <3>1. /\ job' = job /\ fresh' = fresh /\ admin' = [admin EXCEPT ![a] = None]
          /\ pc' = pc /\ next' = next /\ result' = result /\ todo' = todo
      BY <1>11, <2>2 DEF TransitionStored, Replaces
    <3>2. \A n \in Admins : admin'[n] \in {admin[n], None}
      BY <1>1, <3>1 DEF TypeOK
    <3> QED
      BY <1>4, <1>5, <1>6, <3>1, <3>2
  <2> QED
    BY <2>1, <2>2
<1>12. CASE BatchBegin \/ BatchEnd \/ EntryBegin \/ Project
  <2>1. job' = job /\ admin' = admin /\ fresh' = fresh /\ pc' \notin {"store", "fail"}
    BY <1>12 DEF BatchBegin, BatchEnd, EntryBegin, Project, Return
  <2> QED
    BY <1>4, <1>8, <2>1
<1>13. CASE Continue
  <2>1. job' = job /\ admin' = admin /\ fresh' \subseteq fresh \cup {"runner"}
    BY <1>13 DEF Continue
  <2>2. RunnerReady'
    <3>1. CASE job.status = "cancelled"
      BY <1>13, <3>1 DEF Continue, Return
    <3>2. CASE job.status # "cancelled"
      <4>1. /\ pc' = "store" /\ todo' = todo /\ result' = result
            /\ next' = [Counted(job, result) EXCEPT !.after = Entry, !.status = StatusAfter(job, Entry)]
        BY <1>13, <3>2 DEF Continue
      <4>2. Entry' = Entry
        BY <4>1 DEF Entry
      <4> QED
        BY <2>1, <3>2, <4>1, <4>2 DEF Counted, StatusAfter
    <3> QED
      BY <3>1, <3>2
  <2> QED
    BY <1>4, <1>8, <2>1, <2>2
<1>14. CASE ProjectFails
  <2>1. job' = job /\ admin' = admin /\ fresh' \subseteq fresh \cup {"runner"}
    BY <1>14 DEF ProjectFails
  <2>2. RunnerReady'
    BY <1>14 DEF ProjectFails, Return
  <2> QED
    BY <1>4, <1>8, <2>1, <2>2
<1>15. CASE StoreNext
  <2>1. CASE "runner" \in fresh
    BY <1>7, <1>15, <2>1 DEF StoreNext, Replaces, Store
  <2>2. CASE "runner" \notin fresh
    <3>1. job' = job /\ admin' = admin /\ fresh' = fresh
      BY <1>15, <2>2 DEF StoreNext, Replaces
    <3> QED
      BY <1>4, <1>8, <2>2, <3>1
  <2> QED
    BY <2>1, <2>2
<1>16. CASE UNCHANGED vars
  BY <1>4, <1>5, <1>8, <1>16 DEF vars
<1> QED
  BY <1>9, <1>10, <1>11, <1>12, <1>13, <1>14, <1>15, <1>16 DEF Next, Runner

LEMMA NextInv == ReplayInv /\ [Next]_vars => ReplayInv'
BY TypeStep, PinStep, CountsStep, CompletedStep, BatchStep, FreshStep
   DEF ReplayInv, ReplayIsAccounted

LEMMA Invariance == Spec => []ReplayInv
BY InitInv, NextInv, PTL DEF Spec

-----------------------------------------------------------------------------
(* The theorems. *)

\* Whatever administrators, batches, lost compare-and-sets and process deaths
\* interleave: a replay job holds its source pin exactly as long as it may still
\* read, its counters are the executor's decisions on the entries before its
\* position, each once, and it is completed only when its whole range is decided.
THEOREM Accounted == Spec => []ReplayIsAccounted
<1>1. ReplayInv => ReplayIsAccounted
  BY DEF ReplayInv
<1> QED
  BY <1>1, Invariance, PTL

\* A job that releases its pin is final.
LEMMA Final ==
  ASSUME ReplayInv, Next, job # None, Releases(job)
  PROVE  job' = job
<1>1. CASE Create
  BY <1>1 DEF Create
<1> QED
  BY <1>1, JobMoves

\* Out of "paused" leads a failure of the entry in work, or a request.
LEMMA Paused ==
  ASSUME ReplayInv, Next, job # None, job.status = "paused", job'.status # "paused"
  PROVE  \/ job'.status = "failed"
         \/ \E a \in Admins : admin[a] # None /\ admin'[a] = None
<1>1. TypeOK /\ BatchInv /\ FreshInv
  BY DEF ReplayInv, ReplayIsAccounted
<1>2. job \in JobRows /\ job' # job
  BY <1>1 DEF TypeOK
<1>3. ASSUME NEW a \in Admins, TransitionStored(a)
      PROVE  admin[a] # None /\ admin'[a] = None
  BY <1>1, <1>3 DEF TransitionStored, TypeOK
<1>4. CASE StoreNext
  <2>1. "runner" \in fresh /\ job' = next /\ pc \in {"store", "fail"}
    BY <1>2, <1>4 DEF StoreNext, Replaces, Store
  <2>2. CASE pc = "fail"
    BY <1>1, <1>2, <2>1, <2>2, StatusOnly DEF FreshInv, Statuses
  <2>3. CASE pc = "store"
    <3> DEFINE j == MovedPast(job, result, Entry, StatusAfter(job, Entry))
    <3>1. pc # "idle" /\ todo # {} /\ result \in Dispositions
      BY <1>1, <2>3 DEF BatchInv
    <3>2. Entry \in Nat
      BY <1>1, <3>1, EntryIs DEF Entries
    <3>3. StatusAfter(job, Entry) = "paused" /\ "paused" \in Statuses
      BY DEF StatusAfter, Statuses
    <3>4. j.status = "paused"
      BY <1>2, <3>1, <3>2, <3>3, Advanced
    <3>5. job' = j
      BY <1>1, <2>1, <2>3 DEF FreshInv, MovedPast
    <3> QED
      BY <3>4, <3>5
  <2> QED
    BY <2>1, <2>2, <2>3
<1>5. CASE Create \/ Crash \/ BatchBegin \/ EntryBegin \/ Project \/ Continue \/ ProjectFails
           \/ BatchEnd \/ \E a \in Admins, action \in Actions : Transition(a, action)
  BY <1>2, <1>5 DEF Create, Crash, BatchBegin, EntryBegin, Project, Continue, ProjectFails,
     BatchEnd, Transition
<1> QED
  BY <1>3, <1>4, <1>5 DEF Next, Runner

\* A cancel, a completion and a pause hold against every batch that was under way
\* and every request that had read the job before.
THEOREM Obeyed == Spec => AdministratorsAreObeyed
<1>1. ReplayInv /\ [Next]_vars => [job # None /\ Releases(job) => job' = job]_vars
  BY Final
<1>2. ReplayInv /\ [Next]_vars =>
        [job # None /\ job.status = "paused" /\ job'.status # "paused" =>
           \/ job'.status = "failed"
           \/ \E a \in Admins : admin[a] # None /\ admin'[a] = None]_vars
  BY Paused
<1> QED
  BY <1>1, <1>2, Invariance, PTL DEF Spec, AdministratorsAreObeyed, FinalIsFinal, PauseHolds

-----------------------------------------------------------------------------
(***************************************************************************)
(* ReplaySetup                                                             *)
(***************************************************************************)
(* The inductive invariant. *)

\* What the constants are: Unbound is no job and no contract.
ConstantsFit ==
    /\ Unbound \notin DOMAIN Jobs
    /\ \A c, l, i : [targets |-> c, live |-> l, identities |-> i] # Unbound

\* A request that is under way knows its job and what it has read.
Stages == {"live", "own", "check", "bind", "ready"}

UnderWay(x) ==
    /\ x = [at |-> x.at, job |-> x.job, targets |-> x.targets, live |-> x.live,
            avoid |-> x.avoid, identities |-> x.identities, owners |-> x.owners,
            prior |-> x.prior]
    /\ x.at \in Stages /\ x.job \in DOMAIN Jobs

RequestInv ==
    /\ setup = [r \in SetupRequests |-> setup[r]]
    /\ \A r \in SetupRequests : setup[r] = AtRest \/ UnderWay(setup[r])

\* What a request is about to project to is none of what it must avoid.
NoAliasInv ==
    \A r \in SetupRequests : setup[r].at \in {"check", "bind", "ready"} =>
        ~Alias(r, setup[r].identities)

\* A request that is about to bind expects to find nothing, or what it binds.
ExpectedInv ==
    \A r \in SetupRequests : setup[r].at = "bind" =>
        /\ \A key \in Keys(r) : setup[r].owners[key] \in {Unbound, setup[r].job}
        /\ setup[r].prior \in {Unbound, Contract(r)}

\* Whoever may project is bound.
Bound(r) ==
    /\ \A key \in Keys(r) : Owner(key) = setup[r].job
    /\ Prior(setup[r].job) = Contract(r)

BoundInv == \A r \in Executors : Bound(r)

SetupInv == RequestInv /\ NoAliasInv /\ ExpectedInv /\ BoundInv
-----------------------------------------------------------------------------
(* Lemmas about the operators the actions are built from. *)

\* What is under a key of a namespace, before and after a value is put under keys.
Under(namespace, key) == IF key \in DOMAIN namespace THEN namespace[key] ELSE Unbound

LEMMA UnderAfter ==
  ASSUME NEW namespace, NEW keys, NEW value, NEW key
  PROVE  Under(With(namespace, keys, value), key) =
           IF key \in keys THEN value ELSE Under(namespace, key)
BY DEF With, Under

LEMMA UnderIs ==
  /\ \A key : Owner(key) = Under(owner, key)
  /\ \A ours : Prior(ours) = Under(contract, ours)
BY DEF Owner, Prior, Under

\* What a request has come to, as far as the invariant looks at it.
Sound(x) ==
    /\ x.at \in {"check", "bind", "ready"} => AsSet(x.identities) \cap x.avoid = {}
    /\ x.at = "bind" =>
        /\ \A key \in {<<t, Jobs[x.job].generation>> : t \in DOMAIN x.targets} :
             x.owners[key] \in {Unbound, x.job}
        /\ x.prior \in {Unbound, [targets |-> x.targets, live |-> x.live,
                               identities |-> x.identities]}

LEMMA SoundIs ==
  NoAliasInv /\ ExpectedInv <=> \A r \in SetupRequests : Sound(setup[r])
BY DEF NoAliasInv, ExpectedInv, Sound, Alias, Keys, Contract

\* One request moves, to a state that is sound.
LEMMA OneMoves ==
  ASSUME SetupInv, NEW r \in SetupRequests, NEW x, setup' = [setup EXCEPT ![r] = x],
         x = AtRest \/ UnderWay(x), Sound(x)
  PROVE  RequestInv' /\ NoAliasInv' /\ ExpectedInv'
<1>1. RequestInv /\ \A q \in SetupRequests : Sound(setup[q])
  BY SoundIs DEF SetupInv
<1>2. \A q \in SetupRequests : setup'[q] = IF q = r THEN x ELSE setup[q]
  BY <1>1 DEF RequestInv
<1>3. setup' = [q \in SetupRequests |-> setup'[q]]
  BY <1>1 DEF RequestInv
<1>4. RequestInv'
  BY <1>1, <1>2, <1>3 DEF RequestInv
<1>5. \A q \in SetupRequests : Sound(setup'[q])
  BY <1>1, <1>2
<1>6. NoAliasInv' /\ ExpectedInv'
  BY <1>5, SoundIs DEF NoAliasInv, ExpectedInv, Sound, Alias, Keys, Contract
<1> QED
  BY <1>4, <1>6

\* What is bound stays bound while nothing new is bound.
LEMMA StillBound ==
  ASSUME SetupInv, UNCHANGED <<owner, contract>>, NEW r \in SetupRequests, NEW x,
         setup' = [setup EXCEPT ![r] = x],
         x.at = "ready" => Bound(r)'
  PROVE  BoundInv'
<1>1. RequestInv /\ BoundInv
  BY DEF SetupInv
<1>2. \A q \in SetupRequests : setup'[q] = IF q = r THEN x ELSE setup[q]
  BY <1>1 DEF RequestInv
<1>3. ASSUME NEW q \in SetupRequests, setup'[q].at = "ready" PROVE Bound(q)'
  <2>1. CASE q = r
    BY <1>2, <1>3, <2>1
  <2>2. CASE q # r
    <3>1. setup'[q] = setup[q] /\ Bound(q)
      BY <1>1, <1>2, <1>3, <2>2 DEF BoundInv, Executors
    <3> QED
      BY <3>1 DEF Bound, Keys, Owner, Prior, Contract
  <2> QED
    BY <2>1, <2>2
<1> QED
  BY <1>3 DEF BoundInv, Executors

\* A step of a request that neither binds nor ends in an executor.
LEMMA Moves ==
  ASSUME SetupInv, UNCHANGED <<owner, contract>>, NEW r \in SetupRequests, NEW x,
         setup' = [setup EXCEPT ![r] = x], x = AtRest \/ UnderWay(x), Sound(x), x.at # "ready"
  PROVE  SetupInv'
BY OneMoves, StillBound DEF SetupInv

\* A request that comes to a new stage.
Record(at, ours, targets, live, avoid, identities, owners, prior) ==
    [at |-> at, job |-> ours, targets |-> targets, live |-> live, avoid |-> avoid,
     identities |-> identities, owners |-> owners, prior |-> prior]

LEMMA RecordIs ==
  ASSUME NEW at, NEW ours, NEW targets, NEW live, NEW avoid, NEW identities, NEW owners, NEW prior
  PROVE  LET x == Record(at, ours, targets, live, avoid, identities, owners, prior)
         IN /\ x.at = at /\ x.job = ours /\ x.targets = targets /\ x.live = live /\ x.avoid = avoid
            /\ x.identities = identities /\ x.owners = owners /\ x.prior = prior
            /\ at \in Stages /\ ours \in DOMAIN Jobs => UnderWay(x)
BY DEF Record, UnderWay

LEMMA RecordMoves ==
  ASSUME NEW x, UnderWay(x), NEW v
  PROVE  /\ [x EXCEPT !.avoid = v, !.at = "own"] =
              Record("own", x.job, x.targets, x.live, v, x.identities, x.owners, x.prior)
         /\ [x EXCEPT !.identities = v, !.at = "check"] =
              Record("check", x.job, x.targets, x.live, x.avoid, v, x.owners, x.prior)
         /\ [x EXCEPT !.at = "ready"] =
              Record("ready", x.job, x.targets, x.live, x.avoid, x.identities, x.owners, x.prior)
<1>1. DOMAIN x = {"at", "job", "targets", "live", "avoid", "identities", "owners", "prior"}
  BY DEF UnderWay
<1>2. [x EXCEPT !.avoid = v, !.at = "own"] =
            Record("own", x.job, x.targets, x.live, v, x.identities, x.owners, x.prior)
  <2> DEFINE y == [x EXCEPT !.avoid = v]
  <2>1. y = Record(x.at, x.job, x.targets, x.live, v, x.identities, x.owners, x.prior)
    BY <1>1 DEF Record
  <2> HIDE DEF y
  <2>2. [y EXCEPT !.at = "own"] =
            Record("own", x.job, x.targets, x.live, v, x.identities, x.owners, x.prior)
    BY <2>1 DEF Record
  <2> QED
    BY <2>2 DEF y
<1>3. [x EXCEPT !.identities = v, !.at = "check"] =
            Record("check", x.job, x.targets, x.live, x.avoid, v, x.owners, x.prior)
  <2> DEFINE y == [x EXCEPT !.identities = v]
  <2>1. y = Record(x.at, x.job, x.targets, x.live, x.avoid, v, x.owners, x.prior)
    BY <1>1 DEF Record
  <2> HIDE DEF y
  <2>2. [y EXCEPT !.at = "check"] =
            Record("check", x.job, x.targets, x.live, x.avoid, v, x.owners, x.prior)
    BY <2>1 DEF Record
  <2> QED
    BY <2>2 DEF y
<1>4. [x EXCEPT !.at = "ready"] =
            Record("ready", x.job, x.targets, x.live, x.avoid, x.identities, x.owners,
            x.prior)
  BY <1>1 DEF Record
<1> QED
  BY <1>2, <1>3, <1>4

LEMMA RecordBinds ==
  ASSUME NEW x, UnderWay(x), NEW v, NEW w
  PROVE  [[[x EXCEPT !.owners = v] EXCEPT !.prior = w] EXCEPT !.at = "bind"] =
           Record("bind", x.job, x.targets, x.live, x.avoid, x.identities, v, w)
<1>1. DOMAIN x = {"at", "job", "targets", "live", "avoid", "identities", "owners", "prior"}
  BY DEF UnderWay
<1> DEFINE y == [x EXCEPT !.owners = v]
             z == [y EXCEPT !.prior = w]
<1>2. y = Record(x.at, x.job, x.targets, x.live, x.avoid, x.identities, v, x.prior)
  BY <1>1 DEF Record
<1> HIDE DEF y
<1>3. z = Record(x.at, x.job, x.targets, x.live, x.avoid, x.identities, v, w)
  BY <1>2 DEF Record
<1> HIDE DEF z
<1>4. [z EXCEPT !.at = "bind"] =
            Record("bind", x.job, x.targets, x.live, x.avoid, x.identities, v, w)
  BY <1>3 DEF Record
<1> QED
  BY <1>4 DEF y, z

\* A request that gives up leaves no trace.
LEMMA IdleIs == Sound(AtRest) /\ AtRest.at = "idle"
BY DEF Sound, AtRest

-----------------------------------------------------------------------------
(* Every step keeps the invariant. *)

\* A transaction that finds what it expects binds its request and takes nothing
\* from another.
LEMMA BindStep ==
  ASSUME ConstantsFit, SetupInv, NEW r \in SetupRequests, Bind(r), AsExpected(r)
  PROVE  BoundInv'
<1> DEFINE ours == setup[r].job
<1>1. RequestInv /\ ExpectedInv /\ BoundInv /\ setup[r].at = "bind"
  BY DEF SetupInv, Bind
<1>2. UnderWay(setup[r]) /\ ours \in DOMAIN Jobs
  BY <1>1 DEF RequestInv, AtRest, UnderWay
<1>3. /\ owner' = With(owner, Keys(r), ours)
      /\ contract' = With(contract, {ours}, Contract(r))
      /\ setup' = [setup EXCEPT ![r].at = "ready"]
  BY DEF Bind
<1>4. /\ setup'[r].job = ours /\ Keys(r)' = Keys(r) /\ Contract(r)' = Contract(r)
      /\ \A q \in SetupRequests : q # r => setup'[q] = setup[q]
  BY <1>1, <1>2, <1>3 DEF RequestInv, UnderWay, Keys, Contract
\* What the transaction finds is free or the request's own.
<1>5. \A key \in Keys(r) : Owner(key) \in {Unbound, ours}
  BY <1>1 DEF AsExpected, Owners, ExpectedInv
<1>6. Prior(ours) \in {Unbound, Contract(r)}
  BY <1>1 DEF AsExpected, ExpectedInv
\* Bound, as the namespaces tell it.
<1>7. \A q : Bound(q)' <=> /\ \A key \in Keys(q)' : Under(owner', key) = setup'[q].job
                           /\ Under(contract', setup'[q].job) = Contract(q)'
  BY DEF Bound, Owner, Prior, Under
<1>8. Bound(r)'
  <2>1. \A key \in Keys(r) : Under(owner', key) = ours
    BY <1>3, UnderAfter
  <2>2. Under(contract', ours) = Contract(r)
    BY <1>3, UnderAfter
  <2> QED
    BY <1>4, <1>7, <2>1, <2>2
<1>9. ASSUME NEW q \in SetupRequests, q # r, setup'[q].at = "ready" PROVE Bound(q)'
  <2>1. setup'[q] = setup[q] /\ Bound(q) /\ UnderWay(setup[q]) /\ setup[q].job # Unbound
    BY <1>1, <1>4, <1>9 DEF BoundInv, Executors, RequestInv, AtRest, UnderWay, ConstantsFit
  <2>2. Keys(q)' = Keys(q) /\ Contract(q)' = Contract(q) /\ setup'[q].job = setup[q].job
    BY <2>1 DEF Keys, Contract
  <2>3. ASSUME NEW key \in Keys(q) PROVE Under(owner', key) = setup[q].job
    <3>1. Owner(key) = setup[q].job
      BY <2>1 DEF Bound
    <3>2. key \in Keys(r) => setup[q].job = ours
      BY <1>5, <2>1, <3>1
    <3> QED
      BY <1>3, <3>1, <3>2, UnderAfter, UnderIs
  <2>4. Under(contract', setup[q].job) = Contract(q)
    <3>1. Prior(setup[q].job) = Contract(q) /\ Contract(q) # Unbound
      BY <2>1 DEF Bound, Contract, ConstantsFit
    <3>2. setup[q].job = ours => Contract(r) = Contract(q)
      BY <1>6, <3>1
    <3> QED
      BY <1>3, <3>1, <3>2, UnderAfter, UnderIs
  <2> QED
    BY <1>7, <2>2, <2>3, <2>4
<1> QED
  BY <1>8, <1>9 DEF BoundInv, Executors

LEMMA SetupStep == ConstantsFit /\ SetupInv /\ [SetupNext]_setupVars => SetupInv'
<1> SUFFICES ASSUME ConstantsFit, SetupInv, [SetupNext]_setupVars PROVE SetupInv'
  OBVIOUS
<1>1. RequestInv /\ NoAliasInv /\ ExpectedInv /\ BoundInv
  BY DEF SetupInv
<1>2. \A r \in SetupRequests : Sound(setup[r]) /\ (setup[r] = AtRest \/ UnderWay(setup[r]))
  BY <1>1, SoundIs DEF RequestInv
\* The operator only edits files and databases.
<1>3. ASSUME UNCHANGED <<owner, contract, setup>> PROVE SetupInv'
  BY <1>1, <1>3 DEF SetupInv, RequestInv, NoAliasInv, ExpectedInv, BoundInv, Executors, Bound,
     Alias, Keys, Contract, Owner, Prior
<1>4. CASE EditTargets \/ EditLive \/ \E i \in DOMAIN database : Recreate(i)
  BY <1>3, <1>4 DEF EditTargets, EditLive, Recreate, Edit
<1>5. ASSUME NEW r \in SetupRequests, NEW ours \in DOMAIN Jobs, BeginSetup(r, ours) PROVE SetupInv'
  <2> DEFINE x == [at |-> "live", job |-> ours, targets |-> targetFile, live |-> liveFile,
                   avoid |-> {}, identities |-> <<>>, owners |-> <<>>, prior |-> Unbound]
  <2>1. UnderWay(x) /\ Sound(x) /\ x.at # "ready"
    BY DEF UnderWay, Stages, Sound
  <2>2. setup' = [setup EXCEPT ![r] = x] /\ UNCHANGED <<owner, contract>>
    BY <1>5 DEF BeginSetup
  <2> QED
    BY <2>1, <2>2, Moves
<1>6. ASSUME NEW r \in SetupRequests, ProbeLive(r) PROVE SetupInv'
  <2> DEFINE x == [setup[r] EXCEPT !.avoid = AsSet(Identities(setup[r].live)), !.at = "own"]
  <2>1. UnderWay(setup[r])
    BY <1>2, <1>6 DEF ProbeLive, AtRest
  <2>2. x = Record("own", setup[r].job, setup[r].targets, setup[r].live,
                   AsSet(Identities(setup[r].live)), setup[r].identities, setup[r].owners,
                   setup[r].prior)
    BY <2>1, RecordMoves
  <2>3. setup' = [setup EXCEPT ![r] = x] /\ UNCHANGED <<owner, contract>>
    BY <1>1, <1>6 DEF ProbeLive, RequestInv
  <2> HIDE DEF x
  <2>4. UnderWay(x) /\ x.at = "own"
    BY <2>1, <2>2, RecordIs DEF UnderWay, Stages
  <2>5. Sound(x)
    BY <2>4 DEF Sound
  <2> QED
    BY <2>3, <2>4, <2>5, Moves
<1>7. ASSUME NEW r \in SetupRequests, ProbeOwn(r) PROVE SetupInv'
  <2> DEFINE found == Identities(setup[r].targets)
             y == [setup[r] EXCEPT !.identities = found, !.at = "check"]
             x == IF Alias(r, found) THEN AtRest ELSE y
  <2>1. UnderWay(setup[r])
    BY <1>2, <1>7 DEF ProbeOwn, AtRest
  <2>2. setup' = [setup EXCEPT ![r] = x] /\ UNCHANGED <<owner, contract>>
    BY <1>7 DEF ProbeOwn
  <2>3. ~Alias(r, found) => UnderWay(y) /\ Sound(y) /\ y.at # "ready"
    <3>1. y = Record("check", setup[r].job, setup[r].targets, setup[r].live, setup[r].avoid,
                     found, setup[r].owners, setup[r].prior)
      BY <2>1, RecordMoves
    <3> HIDE DEF y, found
    <3>2. UnderWay(y) /\ y.at = "check" /\ y.identities = found /\ y.avoid = setup[r].avoid
      BY <2>1, <3>1, RecordIs DEF UnderWay, Stages
    <3> QED
      BY <3>2 DEF Sound, Alias
  <2>4. (x = AtRest \/ UnderWay(x)) /\ Sound(x) /\ x.at # "ready"
    BY <2>3, IdleIs
  <2> QED
    BY <2>2, <2>4, Moves
<1>8. ASSUME NEW r \in SetupRequests, Check(r) PROVE SetupInv'
  <2> DEFINE prior == Prior(setup[r].job)
             accepted == /\ prior = Unbound \/ prior = Contract(r)
                         /\ \A key \in Keys(r) : Owner(key) \in {Unbound, setup[r].job}
             y == [[[setup[r] EXCEPT !.owners = Owners(r)] EXCEPT !.prior = prior] EXCEPT !.at = "bind"]
             x == IF accepted THEN y ELSE AtRest
  <2>1. UnderWay(setup[r]) /\ Sound(setup[r]) /\ setup[r].at = "check"
    BY <1>2, <1>8 DEF Check, AtRest
  <2>2. setup' = [setup EXCEPT ![r] = x] /\ UNCHANGED <<owner, contract>>
    BY <1>8 DEF Check
  <2>3. /\ UnderWay(y) /\ y.at = "bind" /\ y.job = setup[r].job /\ y.targets = setup[r].targets
        /\ y.live = setup[r].live /\ y.identities = setup[r].identities
        /\ y.avoid = setup[r].avoid /\ y.owners = Owners(r) /\ y.prior = prior
    <3>1. y = Record("bind", setup[r].job, setup[r].targets, setup[r].live, setup[r].avoid,
                     setup[r].identities, Owners(r), prior)
      <4> DEFINE s == setup[r]
                 found == Owners(r)
      <4>1. UnderWay(s)
        BY <2>1
      <4> HIDE DEF s, found, prior
      <4>2. [[[s EXCEPT !.owners = found] EXCEPT !.prior = prior] EXCEPT !.at = "bind"] =
              Record("bind", s.job, s.targets, s.live, s.avoid, s.identities, found, prior)
        BY <4>1, RecordBinds
      <4> QED
        BY <4>2 DEF s, found, prior
    <3> HIDE DEF y, prior
    <3> QED
      BY <2>1, <3>1, RecordIs DEF UnderWay, Stages
  <2>4. accepted => Sound(y)
    <3> HIDE DEF y, prior
    <3> QED
      BY <2>1, <2>3 DEF Sound, Owners, Keys, Contract
  <2>5. (x = AtRest \/ UnderWay(x)) /\ Sound(x) /\ x.at # "ready"
    BY <2>3, <2>4, IdleIs
  <2> QED
    BY <2>2, <2>5, Moves
<1>9. ASSUME NEW r \in SetupRequests, Bind(r) PROVE SetupInv'
  <2> DEFINE y == [setup[r] EXCEPT !.at = "ready"]
  <2>1. UnderWay(setup[r]) /\ Sound(setup[r]) /\ setup[r].at = "bind"
    BY <1>2, <1>9 DEF Bind, AtRest
  <2>2. /\ UnderWay(y) /\ y.job = setup[r].job /\ y.targets = setup[r].targets
        /\ y.live = setup[r].live /\ y.identities = setup[r].identities /\ y.at = "ready"
        /\ y.avoid = setup[r].avoid
    <3>1. y = Record("ready", setup[r].job, setup[r].targets, setup[r].live, setup[r].avoid,
                     setup[r].identities, setup[r].owners, setup[r].prior)
      BY <2>1, RecordMoves
    <3> HIDE DEF y
    <3> QED
      BY <2>1, <3>1, RecordIs DEF UnderWay, Stages
  <2>3. Sound(y)
    <3> HIDE DEF y
    <3> QED
      BY <2>1, <2>2 DEF Sound
  <2>4. CASE AsExpected(r)
    <3>1. setup' = [setup EXCEPT ![r] = y]
      BY <1>1, <1>9, <2>4 DEF Bind, RequestInv
    <3> QED
      BY <1>9, <2>2, <2>3, <2>4, <3>1, OneMoves, BindStep DEF SetupInv
  <2>5. CASE ~AsExpected(r) /\ Converged(r)
    <3>1. setup' = [setup EXCEPT ![r] = y] /\ UNCHANGED <<owner, contract>>
      BY <1>9, <2>5 DEF Bind
    <3>2. setup'[r] = y
      BY <1>1, <3>1 DEF RequestInv
    <3>3. Bound(r)'
      <4> HIDE DEF y
      <4>1. Keys(r)' = Keys(r) /\ Contract(r)' = Contract(r) /\ setup'[r].job = setup[r].job
        BY <2>2, <3>2 DEF Keys, Contract
      <4>2. Prior(setup[r].job)' = Prior(setup[r].job) /\ \A key : Owner(key)' = Owner(key)
        BY <3>1, <4>1 DEF Prior, Owner
      <4> QED
        BY <2>5, <4>1, <4>2 DEF Bound, Converged
    <3> QED
      BY <2>2, <2>3, <3>1, <3>3, OneMoves, StillBound DEF SetupInv
  <2>6. CASE ~AsExpected(r) /\ ~Converged(r)
    BY <1>9, <2>6, Moves, IdleIs DEF Bind
  <2> QED
    BY <2>4, <2>5, <2>6
<1>10. ASSUME NEW r \in SetupRequests, Leave(r) PROVE SetupInv'
  BY <1>10, Moves, IdleIs DEF Leave
<1>11. CASE UNCHANGED setupVars
  BY <1>3, <1>11 DEF setupVars
<1> QED
  BY <1>4, <1>5, <1>6, <1>7, <1>8, <1>9, <1>10, <1>11 DEF SetupNext

-----------------------------------------------------------------------------
(* The theorems. *)

\* The bindings and what the requests expect of them are inductive.
THEOREM SetupInductive ==
  ASSUME ConstantsFit
  PROVE  SetupSpec => []SetupInv
<1>1. SetupInit => SetupInv
  BY DEF SetupInit, SetupInv, RequestInv, NoAliasInv, ExpectedInv, BoundInv, Executors, AtRest
<1>2. SetupInv /\ [SetupNext]_setupVars => SetupInv'
  BY SetupStep
<1> QED
  BY <1>1, <1>2, PTL DEF SetupSpec

\* No executor writes to a database of a live target it was compared with or to
\* what another job projects to, and every executor of a job projects to the same
\* databases: for any jobs, files, aliases and number of requests at once.
THEOREM Apart ==
  ASSUME ConstantsFit
  PROVE  SetupSpec => []ReplaysStayApart
<1>1. ASSUME SetupInv PROVE ReplaysStayApart
  <2> SUFFICES ASSUME NEW r \in Executors
               PROVE  /\ \A t \in DOMAIN setup[r].identities :
                           setup[r].identities[t] \notin setup[r].avoid
                      /\ \A key \in Keys(r) : Owner(key) = setup[r].job
                      /\ Prior(setup[r].job) = Contract(r)
                      /\ \A q \in Executors :
                          IF setup[q].job = setup[r].job
                          THEN setup[q].identities = setup[r].identities
                          ELSE Keys(q) \cap Keys(r) = {}
    BY DEF ReplaysStayApart
  <2>1. ~Alias(r, setup[r].identities)
    BY <1>1 DEF SetupInv, NoAliasInv, Executors
  <2>2. \A t \in DOMAIN setup[r].identities : setup[r].identities[t] \notin setup[r].avoid
    BY <2>1 DEF Alias, AsSet
  <2>3. \A q \in Executors : Bound(q)
    BY <1>1 DEF SetupInv, BoundInv
  <2>4. ASSUME NEW q \in Executors, setup[q].job = setup[r].job
        PROVE  setup[q].identities = setup[r].identities
    <3>1. Contract(q) = Contract(r)
      BY <2>3, <2>4 DEF Bound
    <3> QED
      BY <3>1 DEF Contract
  <2>5. ASSUME NEW q \in Executors, setup[q].job # setup[r].job PROVE Keys(q) \cap Keys(r) = {}
    BY <2>3, <2>5 DEF Bound
  <2> QED
    BY <2>2, <2>3, <2>4, <2>5 DEF Bound
<1> QED
  BY <1>1, SetupInductive, PTL

-----------------------------------------------------------------------------
(***************************************************************************)
(* Backfill                                                                *)
(***************************************************************************)
(* The inductive invariant. *)

\* An export holds rows of the table only: rows are never taken from it.
Exporting ==
    /\ process.at \in {"export", "exported", "moved"}
    /\ process = [at |-> process.at, planned |-> process.planned,
                  rows |-> process.rows, after |-> process.after]
    /\ process.rows \subseteq table

\* A run accounts for every row its WAL is bound to.
RunningImport ==
    /\ process.at \in {"bound", "import", "job", "replay"}
    /\ process = [at |-> process.at, todo |-> process.todo,
                  invalid |-> process.invalid, mapping |-> process.mapping]
    /\ bound # Unmade
    /\ process.todo \subseteq bound.rows
    /\ bound.rows \subseteq Logged \cup process.invalid \cup process.todo
    /\ process.at \in {"job", "replay"} =>
        /\ process.todo = {} /\ replay # Unmade
        /\ replay.through = Len(imported)
    /\ process.at = "replay" => replay.status \notin {"planned", "paused"}

SourceInv ==
    /\ table \in SUBSET DOMAIN Rows
    /\ file = sealed /\ file \in SUBSET DOMAIN Rows
    /\ mapping \in Mappings

\* The WAL holds rows of its input, each once.
LogInv ==
    /\ bound \in {Unmade} \cup Inputs
    /\ imported \in Seq(DOMAIN Rows)
    /\ \A j, k \in 1..Len(imported) : imported[j] = imported[k] => j = k
    /\ bound = Unmade => imported = <<>>
    /\ bound # Unmade => Logged \subseteq bound.rows

\* A job has been through what it has published or passed over: each entry up
\* to its position is projected, or outside the scope and the routes, as long
\* as none is quarantined; and a job is completed when no entry is left.
Traversed(other) ==
    /\ 1 <= other.through /\ other.through <= Len(imported)
    /\ IF other.status = "completed" THEN other.after = other.through
       ELSE other.after < other.through
    /\ other.projected \subseteq Logged \ unselected
    /\ other.quarantined = 0 =>
           \A k \in 1..other.after : imported[k] \in other.projected \cup unselected

ReplayedInv ==
    /\ replay \in {Unmade} \cup Replays
    /\ replay # Unmade => Traversed(replay)

ProcessInv == process = NoProcess \/ Exporting \/ RunningImport

Finished ==
    report = "completed" /\ (replay # Unmade => replay.status # "cancelled")

WholeInv ==
    /\ report = "completed" => bound # Unmade
    /\ Finished =>
        /\ Logged = bound.rows
        /\ Projected = Logged \ unselected
        /\ replay # Unmade => /\ replay.status = "completed"
                              /\ replay.through = Len(imported)

BackfillInvariant == SourceInv /\ LogInv /\ ReplayedInv /\ ProcessInv /\ WholeInv

-----------------------------------------------------------------------------
(* Lemmas about least elements and about the log. *)

\* A nonempty family of subsets of a finite set has a smallest member.
LEMMA SmallestSubset ==
  ASSUME NEW S, IsFiniteSet(S), NEW F \in SUBSET (SUBSET S), F # {}
  PROVE  \E m \in F : \A n \in F : n \subseteq m => n = m
<1>1. IsWellFoundedOn(StrictSubsetOrdering(S), SUBSET S)
  BY FS_StrictSubsetOrderingWellFounded, FS_FiniteSubsetsOfFinite
<1>2. PICK m \in F : \A n \in F : <<n, m>> \notin StrictSubsetOrdering(S)
  BY <1>1, WFMin
<1> QED
  BY <1>2 DEF StrictSubsetOrdering

\* A nonempty set of numbers has a least element.
LEMMA Smallest ==
  ASSUME NEW T \in SUBSET Nat, T # {}
  PROVE  \E x \in T : \A y \in T : x <= y
<1>1. PICK n \in T : TRUE
  OBVIOUS
<1> DEFINE S == 0..n
           F == {0..k : k \in T \cap S}
<1>2. IsFiniteSet(S)
  BY <1>1, FS_Interval
<1>3. 0..n \in F
  BY <1>1
<1>4. F \in SUBSET (SUBSET S)
  BY <1>1
<1>5. PICK m \in F : \A k \in F : k \subseteq m => k = m
  <2> HIDE DEF F, S
  <2> QED BY <1>2, <1>3, <1>4, SmallestSubset
<1>6. PICK x \in T \cap S : m = 0..x
  BY <1>5
<1>7. ASSUME NEW y \in T, y < x PROVE FALSE
  <2>1. 0..y \in F
    BY <1>1, <1>6, <1>7
  <2>2. 0..y \subseteq m
    BY <1>6, <1>7
  <2>3. 0..y = m
    BY <1>5, <2>1, <2>2
  <2>4. x \in 0..x /\ x \notin 0..y
    BY <1>6, <1>7
  <2> QED
    BY <2>3, <2>4, <1>6
<1> QED
  BY <1>6, <1>7

\* The next line of a file is one of its lines.
LEMMA MinIsOf ==
  ASSUME NEW T \in SUBSET Nat, T # {}
  PROVE  Min(T) \in T
BY Smallest DEF Min

\* A WAL without repetitions has as many entries as rows.
LEMMA EntriesAreRows ==
  ASSUME LogInv
  PROVE  IsFiniteSet(Logged) /\ Cardinality(Logged) = Len(imported)
<1> DEFINE n == Len(imported)
<1>1. n \in Nat /\ imported \in [1..n -> DOMAIN Rows]
  BY DEF LogInv
<1>2. imported \in Bijection(1..n, Logged)
  <2>1. imported \in [1..n -> Logged]
    BY <1>1 DEF Logged
  <2>2. imported \in Surjection(1..n, Logged)
    BY <2>1 DEF Surjection, Logged
  <2>3. imported \in Injection(1..n, Logged)
    BY <2>1 DEF LogInv, Injection, IsInjective
  <2> QED
    BY <2>2, <2>3 DEF Bijection
<1>3. ExistsBijection(1..n, Logged)
  BY <1>2 DEF ExistsBijection
<1>4. IsFiniteSet(Logged)
  BY <1>1, <1>3, FS_NatBijection
<1>5. Cardinality(Logged) = n
  <2> HIDE DEF n
  <2> QED
    BY <1>1, <1>3, FS_CountingElements
<1> QED
  BY <1>4, <1>5

\* The invariant says what a report says.
LEMMA WholeFromInvariant ==
  ASSUME BackfillInvariant
  PROVE  BackfillIsWhole
<1>1. Len(imported) = Cardinality(Logged)
  BY EntriesAreRows DEF BackfillInvariant
<1> QED
  BY <1>1 DEF BackfillInvariant, SourceInv, WholeInv, Finished, BackfillIsWhole

-----------------------------------------------------------------------------
(* The steps. *)

LEMMA BackfillInitInvariant ==
  ASSUME BackfillInit
  PROVE  BackfillInvariant
<1>1. SourceInv
  BY DEF BackfillInit, SourceInv
<1>2. LogInv
  BY DEF BackfillInit, LogInv
<1>3. ReplayedInv /\ ProcessInv
  BY DEF BackfillInit, ReplayedInv, ProcessInv
<1>4. WholeInv
  BY DEF BackfillInit, WholeInv, Finished
<1> QED
  BY <1>1, <1>2, <1>3, <1>4 DEF BackfillInvariant

\* What the steps leave alone.
LEMMA WalUnchanged ==
  ASSUME LogInv, ReplayedInv, WholeInv, UNCHANGED walState
  PROVE  LogInv' /\ ReplayedInv' /\ WholeInv' /\ Logged' = Logged
BY DEF walState, Logged, LogInv, ReplayedInv, Traversed, WholeInv, Finished, Projected

LEMMA ImportUnchanged ==
  ASSUME RunningImport, UNCHANGED <<process, bound, imported, replay>>
  PROVE  RunningImport'
BY DEF RunningImport, Logged

LEMMA ProcessUnchanged ==
  ASSUME ProcessInv, UNCHANGED <<process, bound, imported, replay>>, table \subseteq table'
  PROVE  ProcessInv'
<1>1. CASE process = NoProcess
  BY <1>1 DEF ProcessInv, NoProcess
<1>2. CASE Exporting
  <2>1. Exporting'
    BY <1>2 DEF Exporting
  <2> QED
    BY <2>1 DEF ProcessInv
<1>3. CASE RunningImport
  BY <1>3, ImportUnchanged DEF ProcessInv
<1> QED
  BY <1>1, <1>2, <1>3 DEF ProcessInv

LEMMA SourceSteps ==
  ASSUME BackfillInvariant,
         \/ \E row \in DOMAIN Rows : Insert(row)
         \/ EditMapping \/ Fail
  PROVE  BackfillInvariant'
<1> USE DEF BackfillInvariant
<1>1. ASSUME NEW row \in DOMAIN Rows, Insert(row) PROVE BackfillInvariant'
  <2>1. LogInv' /\ ReplayedInv' /\ WholeInv'
    BY <1>1, WalUnchanged DEF Insert
  <2>2. ProcessInv'
    BY <1>1, ProcessUnchanged DEF Insert, walState
  <2>3. SourceInv'
    BY <1>1 DEF Insert, SourceInv
  <2> QED
    BY <2>1, <2>2, <2>3
<1>2. CASE EditMapping
  <2>1. LogInv' /\ ReplayedInv' /\ WholeInv'
    BY <1>2, WalUnchanged DEF EditMapping
  <2>2. ProcessInv'
    BY <1>2, ProcessUnchanged DEF EditMapping, walState
  <2>3. SourceInv'
    BY <1>2 DEF EditMapping, SourceInv
  <2> QED
    BY <2>1, <2>2, <2>3
<1>3. CASE Fail
  <2>1. LogInv' /\ ReplayedInv' /\ WholeInv'
    BY <1>3, WalUnchanged DEF Fail
  <2>2. ProcessInv' /\ SourceInv'
    BY <1>3 DEF Fail, source, SourceInv, ProcessInv, NoProcess
  <2> QED
    BY <2>1, <2>2
<1> QED
  BY <1>1, <1>2, <1>3

LEMMA ExportSteps ==
  ASSUME BackfillInvariant, StartExport \/ ExportPage \/ MoveExport \/ WriteManifest
  PROVE  BackfillInvariant'
<1> USE DEF BackfillInvariant
<1>1. LogInv' /\ ReplayedInv' /\ WholeInv'
  BY WalUnchanged DEF StartExport, ExportPage, MoveExport, WriteManifest
<1>2. CASE StartExport
  <2>1. Exporting'
    BY <1>2 DEF StartExport, Exporting
  <2>2. SourceInv'
    BY <1>2 DEF StartExport, source, SourceInv
  <2> QED
    BY <1>1, <2>1, <2>2 DEF ProcessInv
<1>3. CASE ExportPage
  <2> DEFINE page == PageOf(process.after)
  <2>1. Exporting
    BY <1>3 DEF ExportPage, ProcessInv, NoProcess, RunningImport
  <2>2. page \subseteq table
    BY DEF PageOf
  <2>3. /\ process' = [process EXCEPT !.rows = @ \cup page,
              !.after = IF page = {} THEN @ ELSE Max(page),
              !.at = IF Cardinality(page) < PageSize THEN "exported" ELSE @]
        /\ table' = table /\ process.at = "export"
    BY <1>3 DEF ExportPage, source
  <2> HIDE DEF page
  <2>4. PICK a, at : /\ process' = [process EXCEPT !.rows = @ \cup page, !.after = a, !.at = at]
                     /\ at \in {"export", "exported"}
    BY <2>3
  <2>5. process' = [at |-> at, planned |-> process.planned, rows |-> process.rows \cup page, after |-> a]
    BY <2>4, <2>1 DEF Exporting
  <2>6. Exporting'
    BY <2>1, <2>2, <2>3, <2>4, <2>5 DEF Exporting
  <2>7. SourceInv'
    BY <1>3 DEF ExportPage, source, SourceInv
  <2> QED
    BY <1>1, <2>6, <2>7 DEF ProcessInv
<1>4. CASE MoveExport
  <2>1. Exporting
    BY <1>4 DEF MoveExport, ProcessInv, NoProcess, RunningImport
  <2>2. CASE CountsAgree
    <3>1. process.rows = table
      <4>1. IsFiniteSet(table) /\ process.rows \subseteq table
        BY <2>1, BackfillAssumption, FS_Subset DEF SourceInv, Exporting
      <4>2. Cardinality(table) = Cardinality(process.rows)
        BY <2>2 DEF CountsAgree
      <4> QED
        BY <4>1, <4>2, FS_Subset
    <3>2. /\ file' = process.rows /\ sealed' = table /\ table' = table /\ mapping' = mapping
          /\ process' = [process EXCEPT !.at = "moved"]
      BY <1>4, <2>2 DEF MoveExport
    <3>3. Exporting'
      BY <3>2, <2>1 DEF Exporting
    <3>4. SourceInv'
      BY <3>1, <3>2 DEF SourceInv
    <3> QED
      BY <1>1, <3>3, <3>4 DEF ProcessInv
  <2>3. CASE ~CountsAgree
    BY <1>1, <1>4, <2>3 DEF MoveExport, SourceInv, ProcessInv, NoProcess
  <2> QED
    BY <2>2, <2>3
<1>5. CASE WriteManifest
  BY <1>1, <1>5 DEF WriteManifest, SourceInv, ProcessInv, NoProcess
<1> QED
  BY <1>2, <1>3, <1>4, <1>5

\* A WAL is bound once: an input that is there is the same one.
LEMMA StartSteps ==
  ASSUME BackfillInvariant, StartRun \/ LoadMapping
  PROVE  BackfillInvariant'
<1> USE DEF BackfillInvariant
<1>1. CASE StartRun
  <2> DEFINE input == [rows |-> manifest, mapping |-> mapping]
  <2>1. /\ bound \in {Unmade, input} /\ bound' = input
        /\ process' = [at |-> "bound", todo |-> file, invalid |-> {}, mapping |-> Unmade]
        /\ manifest = file
        /\ UNCHANGED <<table, sealed, file, manifest, mapping, imported, unselected, evidence,
                        replay, report>>
    BY <1>1 DEF StartRun, source
  <2>2. input \in Inputs /\ input # Unmade /\ input.rows = file
    BY <2>1, BackfillAssumption DEF SourceInv, Inputs
  <2>3. SourceInv'
    BY <2>1 DEF SourceInv
  <2>4. Logged' = Logged /\ (bound = Unmade => Logged = {})
    BY <2>1 DEF Logged, LogInv
  <2> HIDE DEF input
  <2>5. LogInv'
    <3>1. Logged' \subseteq bound'.rows
      BY <2>1, <2>4 DEF LogInv
    <3> QED
      BY <3>1, <2>1, <2>2 DEF LogInv
  <2>6. ReplayedInv'
    BY <2>1, <2>4 DEF ReplayedInv, Traversed
  <2>7. WholeInv'
    BY <2>1, <2>2, <2>4 DEF WholeInv, Finished, Projected
  <2>8. RunningImport'
    BY <2>1, <2>2 DEF RunningImport
  <2> QED
    BY <2>3, <2>5, <2>6, <2>7, <2>8 DEF ProcessInv
<1>2. CASE LoadMapping
  <2>1. LogInv' /\ ReplayedInv' /\ WholeInv' /\ Logged' = Logged
    BY <1>2, WalUnchanged DEF LoadMapping
  <2>2. SourceInv'
    BY <1>2 DEF LoadMapping, source, SourceInv
  <2>3. RunningImport
    BY <1>2 DEF LoadMapping, ProcessInv, NoProcess, Exporting
  <2>4. process' = [process EXCEPT !.at = "import", !.mapping = mapping] /\ bound' = bound
    BY <1>2 DEF LoadMapping, walState
  <2>5. process' = [at |-> "import", todo |-> process.todo, invalid |-> process.invalid, mapping |-> mapping]
    BY <2>3, <2>4 DEF RunningImport
  <2>6. RunningImport'
    BY <2>1, <2>3, <2>4, <2>5 DEF RunningImport
  <2> QED
    BY <2>1, <2>2, <2>6 DEF ProcessInv
<1> QED
  BY <1>1, <1>2

\* The WAL after a line of the file: the row is in it, or it is invalid, or the
\* run has ended.
LEMMA ImportStep ==
  ASSUME BackfillInvariant, ImportRow
  PROVE  BackfillInvariant'
<1> USE DEF BackfillInvariant
<1> DEFINE row == Min(process.todo)
           valid == process.mapping \in Rows[row].valid
           added == valid /\ ClassifiedAs(row) = "new"
<1>1. /\ process.at = "import" /\ process.todo # {}
      /\ process' = IF valid /\ ClassifiedAs(row) = "conflict" THEN NoProcess
                    ELSE [process EXCEPT !.todo = @ \ {row},
                             !.invalid = IF valid THEN @ ELSE @ \cup {row}]
      /\ imported' = IF valid /\ ClassifiedAs(row) = "new" THEN Append(imported, row) ELSE imported
      /\ unselected' = IF /\ valid /\ ClassifiedAs(row) = "new"
                          /\ process.mapping \notin Rows[row].selected
                       THEN unselected \cup {row} ELSE unselected
      /\ UNCHANGED <<table, sealed, file, manifest, mapping, bound, replay, report>>
  BY DEF ImportRow, source
<1>2. RunningImport
  BY <1>1 DEF ProcessInv, NoProcess, Exporting
<1>3. bound \in Inputs
  BY <1>2 DEF LogInv, RunningImport
<1>4. bound.rows \in SUBSET DOMAIN Rows /\ process.todo \in SUBSET Nat
  BY <1>2, <1>3, BackfillAssumption DEF RunningImport, Inputs
<1>5. row \in process.todo /\ row \in bound.rows /\ row \in DOMAIN Rows
  BY <1>1, <1>2, <1>4, MinIsOf DEF RunningImport
<1>6. /\ ClassifiedAs(row) = "new" => row \notin Logged
      /\ ClassifiedAs(row) \notin {"new", "conflict"} => row \in Logged
  BY DEF ClassifiedAs
<1>7. SourceInv'
  BY <1>1 DEF SourceInv
<1> HIDE DEF row, valid
<1>8. CASE added
  <2>1. imported' = Append(imported, row) /\ row \notin Logged
    BY <1>1, <1>6, <1>8
  <2>2. Len(imported') = Len(imported) + 1 /\ Len(imported) \in Nat
    BY <2>1 DEF LogInv
  <2>3. \A k \in 1..Len(imported) : imported'[k] = imported[k]
    BY <2>1 DEF LogInv
  <2>4. imported'[Len(imported) + 1] = row
    BY <2>1 DEF LogInv
  <2>5. Logged' = Logged \cup {row}
    BY <2>2, <2>3, <2>4 DEF Logged
  <2>6. LogInv'
    <3>1. imported' \in Seq(DOMAIN Rows)
      BY <2>1, <1>5 DEF LogInv
    <3>2. \A j, k \in 1..Len(imported') : imported'[j] = imported'[k] => j = k
      BY <2>1, <2>2, <2>3, <2>4 DEF LogInv, Logged
    <3> QED
      BY <3>1, <3>2, <2>5, <1>1, <1>2, <1>5 DEF LogInv, RunningImport
  <2>7. ReplayedInv'
    <3>1. SUFFICES ASSUME replay # Unmade PROVE Traversed(replay)'
      BY <1>1 DEF ReplayedInv
    <3>2. replay \in Replays /\ Traversed(replay) /\ replay' = replay
      BY <1>1, <3>1 DEF ReplayedInv
    <3>3. replay.through \in Nat /\ replay.after \in Nat /\ replay.after <= replay.through
      BY <3>2 DEF Traversed, Replays
    <3>4. unselected \subseteq unselected' /\ unselected' \subseteq unselected \cup {row}
      BY <1>1
    <3>5. replay.projected \subseteq Logged' \ unselected'
      BY <2>1, <2>5, <3>2, <3>4 DEF Traversed
    <3>6. \A k \in 1..replay.after : imported'[k] = imported[k]
      BY <2>2, <2>3, <3>2, <3>3 DEF Traversed
    <3>7. replay.quarantined = 0 =>
            \A k \in 1..replay.after : imported'[k] \in replay.projected \cup unselected'
      BY <3>2, <3>4, <3>6 DEF Traversed
    <3>8. replay.through <= Len(imported')
      BY <2>2, <3>2, <3>3 DEF Traversed
    <3> QED
      BY <3>2, <3>5, <3>7, <3>8 DEF Traversed
  <2>8. ~Finished
    BY <2>1, <1>5 DEF WholeInv
  <2>9. WholeInv'
    BY <2>8, <1>1, <1>2 DEF WholeInv, Finished, RunningImport
  <2>10. process' = [process EXCEPT !.todo = @ \ {row}, !.invalid = @]
    BY <1>1, <1>8
  <2>11. process' = [at |-> "import", todo |-> process.todo \ {row},
                     invalid |-> process.invalid, mapping |-> process.mapping]
    BY <2>10, <1>1, <1>2 DEF RunningImport
  <2>12. RunningImport'
    BY <2>5, <2>11, <1>1, <1>2 DEF RunningImport
  <2> QED
    BY <1>7, <2>6, <2>7, <2>9, <2>12 DEF ProcessInv
<1>9. CASE ~added
  <2>1. imported' = imported /\ unselected' = unselected /\ Logged' = Logged
    BY <1>1, <1>9 DEF Logged
  <2>2. LogInv' /\ ReplayedInv' /\ WholeInv'
    BY <2>1, <1>1 DEF LogInv, ReplayedInv, Traversed, WholeInv, Finished, Projected
  <2>3. CASE valid /\ ClassifiedAs(row) = "conflict"
    BY <1>1, <1>7, <2>2, <2>3 DEF ProcessInv, NoProcess
  <2>4. CASE ~(valid /\ ClassifiedAs(row) = "conflict")
    <3>1. process' = [process EXCEPT !.todo = @ \ {row},
                        !.invalid = IF valid THEN @ ELSE @ \cup {row}]
      BY <1>1, <2>4
    <3>2. PICK i : /\ i = IF valid THEN process.invalid ELSE process.invalid \cup {row}
                   /\ process' = [process EXCEPT !.todo = @ \ {row}, !.invalid = i]
      BY <3>1
    <3>3. process' = [at |-> "import", todo |-> process.todo \ {row},
                      invalid |-> i, mapping |-> process.mapping]
      BY <3>2, <1>1, <1>2 DEF RunningImport
    <3>4. row \in Logged \cup i /\ process.invalid \subseteq i
      BY <3>2, <1>6, <1>9, <2>4
    <3>5. RunningImport'
      BY <2>1, <3>3, <3>4, <1>1, <1>2 DEF RunningImport
    <3> QED
      BY <1>7, <2>2, <3>5 DEF ProcessInv
  <2> QED
    BY <2>3, <2>4
<1> QED
  BY <1>8, <1>9

\* What is reported before the job is made is "completed" only of nothing.
LEMMA JobStep ==
  ASSUME BackfillInvariant, CreateJob
  PROVE  BackfillInvariant'
<1> USE DEF BackfillInvariant
<1>1. /\ process.at = "import" /\ process.todo = {}
      /\ UNCHANGED <<table, sealed, file, manifest, mapping, bound, imported, unselected, evidence>>
  BY DEF CreateJob, source
<1>2. RunningImport
  BY <1>1 DEF CreateJob, ProcessInv, NoProcess, Exporting
<1>3. SourceInv' /\ LogInv' /\ Logged' = Logged
  BY <1>1 DEF SourceInv, LogInv, Logged
<1>4. CASE imported = <<>>
  <2>1. /\ report' = IF process.invalid # {} THEN "partial" ELSE "completed"
        /\ process' = NoProcess /\ replay' = replay
    BY <1>4 DEF CreateJob
  <2>2. Logged = {} /\ Len(imported) = 0
    BY <1>4 DEF Logged
  <2>3. replay = Unmade
    <3>1. replay # Unmade => replay.through \in Nat
      BY DEF ReplayedInv, Replays
    <3> QED
      BY <3>1, <2>2 DEF ReplayedInv, Traversed
  <2>4. process.invalid = {} => bound.rows = {}
    BY <1>1, <1>2, <2>2 DEF RunningImport
  <2>5. WholeInv'
    BY <1>1, <1>2, <1>3, <2>1, <2>2, <2>3, <2>4 DEF WholeInv, Finished, Projected, RunningImport
  <2>6. ReplayedInv'
    BY <2>1, <2>3 DEF ReplayedInv
  <2> QED
    BY <1>3, <2>1, <2>5, <2>6 DEF ProcessInv, NoProcess
<1>5. CASE imported # <<>>
  <2> DEFINE new == [through |-> Len(imported), after |-> 0, projected |-> {},
                     quarantined |-> 0, status |-> "planned"]
  <2>1. Len(imported) \in Nat /\ 1 <= Len(imported)
    BY <1>5 DEF LogInv
  <2>2. new \in Replays /\ new # Unmade
    BY <2>1, BackfillAssumption DEF Replays
  <2>3. replay' = IF replay = Unmade THEN new ELSE replay
    BY <1>5 DEF CreateJob
  <2>4. report' # "completed"
    BY <1>5 DEF CreateJob, FirstReport
  <2>5. ReplayedInv' /\ replay' # Unmade
    <3> HIDE DEF new
    <3>1. CASE replay = Unmade
      <4>1. Traversed(new)
        BY <2>1 DEF Traversed, new
      <4>2. replay' = new
        BY <3>1, <2>3
      <4>3. Traversed(replay)'
        BY <4>1, <4>2, <1>1, <1>3 DEF Traversed
      <4> QED
        BY <4>2, <4>3, <2>2 DEF ReplayedInv
    <3>2. CASE replay # Unmade
      BY <3>2, <1>1, <1>3, <2>3 DEF ReplayedInv, Traversed
    <3> QED
      BY <3>1, <3>2
  <2>6. WholeInv'
    BY <2>4 DEF WholeInv, Finished
  <2>7. CASE ~SameRange
    BY <1>3, <1>5, <2>5, <2>6, <2>7 DEF CreateJob, ProcessInv, NoProcess
  <2>8. CASE SameRange
    <3>1. process' = [process EXCEPT !.at = "job"]
      BY <1>5, <2>8 DEF CreateJob
    <3>2. process' = [at |-> "job", todo |-> process.todo, invalid |-> process.invalid, mapping |-> process.mapping]
      BY <3>1, <1>2 DEF RunningImport
    <3>3. replay'.through = Len(imported)
      BY <2>3, <2>8 DEF SameRange
    <3>4. RunningImport'
      BY <1>1, <1>2, <1>3, <2>5, <3>2, <3>3 DEF RunningImport
    <3> QED
      BY <1>3, <2>5, <2>6, <3>4 DEF ProcessInv
  <2> QED
    BY <2>7, <2>8
<1> QED
  BY <1>4, <1>5

\* The job moves on. One that a report "completed" is about, is completed.
MovesOn(other) ==
    /\ other \in Replays /\ replay \in Replays /\ Traversed(other)
    /\ other.status = "cancelled" \/ replay.status # "completed"
    /\ other.status # "cancelled" => replay.status # "cancelled"

LEMMA ReplayMoves ==
  ASSUME BackfillInvariant, NEW other, MovesOn(other), replay' = other,
         UNCHANGED <<bound, imported, unselected, report>>
  PROVE  ReplayedInv' /\ WholeInv' /\ LogInv' /\ Logged' = Logged
<1> USE DEF BackfillInvariant
<1>1. LogInv' /\ Logged' = Logged
  BY DEF LogInv, Logged
<1>2. other # Unmade /\ replay # Unmade
  BY BackfillAssumption DEF MovesOn
<1>3. ReplayedInv'
  BY <1>1, <1>2 DEF MovesOn, ReplayedInv, Traversed
<1>4. other.status # "cancelled" => ~Finished
  BY <1>2 DEF WholeInv, MovesOn, Finished
<1>5. ~Finished'
  BY <1>2, <1>4 DEF Finished, MovesOn
<1>6. WholeInv'
  BY <1>5 DEF WholeInv
<1> QED
  BY <1>1, <1>3, <1>6

LEMMA AdministerStep ==
  ASSUME BackfillInvariant, NEW status \in {"paused", "cancelled"}, Administer(status)
  PROVE  BackfillInvariant'
<1> USE DEF BackfillInvariant
<1>1. /\ process = NoProcess /\ process' = process /\ replay # Unmade
      /\ replay' = [replay EXCEPT !.status = status]
      /\ UNCHANGED <<table, sealed, file, manifest, mapping, bound, imported, unselected, report>>
      /\ replay.status \in {"planned", "running", "paused", "failed"}
      /\ status = "paused" => replay.status = "running"
  BY DEF Administer, source
<1>2. replay \in Replays /\ Traversed(replay)
  BY <1>1 DEF ReplayedInv
<1>3. MovesOn([replay EXCEPT !.status = status])
  BY <1>1, <1>2 DEF MovesOn, Traversed, Replays
<1>4. ReplayedInv' /\ WholeInv' /\ LogInv'
  BY <1>1, <1>3, ReplayMoves
<1> QED
  BY <1>1, <1>4 DEF SourceInv, ProcessInv

\* An entry that is replayed is accounted for, whatever becomes of it.
LEMMA EntryIsTraversed ==
  ASSUME LogInv, replay \in Replays, Traversed(replay), replay.status = "running", ReplayEntry
  PROVE  \E other : /\ replay' = other /\ other \in Replays /\ other.through = replay.through
                    /\ other.status \in {"running", "completed", "failed"}
                    /\ Traversed(other)
<1> DEFINE n == replay.after + 1
           row == imported[n]
<1>1. PICK status : status = IF n = replay.through THEN "completed" ELSE "running"
  OBVIOUS
<1>2. PICK projected, quarantined :
        /\ replay' = [through |-> replay.through, after |-> n, projected |-> projected,
                      quarantined |-> quarantined, status |-> status]
        /\ \/ row \in unselected /\ projected = replay.projected /\ quarantined = replay.quarantined
           \/ /\ row \notin unselected /\ projected = replay.projected \cup {row}
              /\ quarantined = replay.quarantined
           \/ /\ row \notin unselected /\ projected = replay.projected
              /\ quarantined = replay.quarantined + 1
  BY <1>1 DEF ReplayEntry, Replays
<1>3. /\ replay.after \in Nat /\ replay.through \in Nat /\ Len(imported) \in Nat
      /\ n \in 1..replay.through /\ replay.through <= Len(imported)
  BY DEF Replays, Traversed, LogInv
<1>4. row \in Logged /\ row \in DOMAIN Rows
  BY <1>3 DEF Logged, LogInv
<1> DEFINE other == [through |-> replay.through, after |-> n, projected |-> projected,
                     quarantined |-> quarantined, status |-> status]
<1>5. other \in Replays
  BY <1>1, <1>2, <1>3, <1>4 DEF Replays
<1>6. Traversed(other)
  <2>1. projected \subseteq Logged \ unselected
    BY <1>2, <1>4 DEF Traversed
  <2>2. ASSUME quarantined = 0, NEW k \in 1..n PROVE imported[k] \in projected \cup unselected
    <3>1. replay.quarantined = 0 /\ replay.projected \subseteq projected
      BY <1>2, <2>2 DEF Replays
    <3>2. CASE k = n
      BY <1>2, <2>2, <3>2 DEF Replays
    <3>3. CASE k \in 1..replay.after
      BY <3>1, <3>3 DEF Traversed
    <3> QED
      BY <1>3, <3>2, <3>3
  <2>3. IF status = "completed" THEN n = replay.through ELSE n < replay.through
    BY <1>1, <1>3
  <2> QED
    BY <1>3, <2>1, <2>2, <2>3 DEF Traversed
<1> QED
  BY <1>1, <1>2, <1>5, <1>6

LEMMA ReplaySteps ==
  ASSUME BackfillInvariant, StartReplay \/ ReplayEntry \/ ReplayFails
  PROVE  BackfillInvariant'
<1> USE DEF BackfillInvariant
<1>1. SourceInv'
  BY DEF StartReplay, ReplayEntry, ReplayFails, source, SourceInv
<1>2. RunningImport /\ process.at \in {"job", "replay"}
  BY DEF StartReplay, ReplayEntry, ReplayFails, Replaying, ProcessInv, NoProcess, Exporting
<1>3. replay \in Replays /\ replay # Unmade /\ Traversed(replay)
  BY <1>2 DEF RunningImport, ReplayedInv
<1>4. UNCHANGED <<bound, imported, unselected, report>>
  BY DEF StartReplay, ReplayEntry, ReplayFails
<1>5. CASE StartReplay
  <2>1. process' = [process EXCEPT !.at = "replay"]
    BY <1>5 DEF StartReplay
  <2>2. process' = [at |-> "replay", todo |-> process.todo, invalid |-> process.invalid, mapping |-> process.mapping]
    BY <2>1, <1>2 DEF RunningImport
  <2>3. /\ ReplayedInv' /\ WholeInv' /\ LogInv' /\ Logged' = Logged /\ replay' # Unmade
        /\ replay'.through = replay.through /\ replay'.status \notin {"planned", "paused"}
    <3>1. CASE replay.status \in {"planned", "paused", "failed"}
      <4> DEFINE other == [replay EXCEPT !.status = "running"]
      <4>1. replay' = other
        BY <1>5, <3>1 DEF StartReplay
      <4>2. MovesOn(other) /\ other.through = replay.through /\ other.status = "running"
        BY <1>3, <3>1 DEF MovesOn, Traversed, Replays
      <4>3. other # Unmade
        BY <4>2, BackfillAssumption DEF MovesOn
      <4> HIDE DEF other
      <4> QED
        BY <1>4, <4>1, <4>2, <4>3, ReplayMoves
    <3>2. CASE replay.status \notin {"planned", "paused", "failed"}
      <4>1. replay' = replay
        BY <1>5, <3>2 DEF StartReplay
      <4> QED
        BY <4>1, <3>2, <1>3, <1>4
           DEF ReplayedInv, Traversed, WholeInv, Finished, Projected, LogInv, Logged
    <3> QED
      BY <3>1, <3>2
  <2>4. RunningImport'
    BY <1>2, <1>4, <2>2, <2>3 DEF RunningImport
  <2> QED
    BY <1>1, <2>3, <2>4 DEF ProcessInv
<1>6. ASSUME ReplayEntry \/ ReplayFails PROVE BackfillInvariant'
  <2>1. process' = process /\ replay.status = "running" /\ process.at = "replay"
    BY <1>6 DEF ReplayEntry, ReplayFails, Replaying
  <2>2. PICK other : /\ replay' = other /\ other \in Replays /\ other.through = replay.through
                     /\ other.status \in {"running", "completed", "failed"}
                     /\ Traversed(other)
    <3>1. CASE ReplayFails
      BY <3>1, <1>3, <2>1 DEF ReplayFails, Traversed, Replays
    <3>2. CASE ReplayEntry
      BY <3>2, <1>3, <2>1, EntryIsTraversed
    <3> QED
      BY <1>6, <3>1, <3>2
  <2>3. MovesOn(other)
    BY <1>3, <2>1, <2>2 DEF MovesOn
  <2>4. ReplayedInv' /\ WholeInv' /\ LogInv' /\ Logged' = Logged
    BY <1>4, <2>2, <2>3, ReplayMoves
  <2>5. replay' # Unmade
    BY <2>2, BackfillAssumption
  <2>6. RunningImport'
    BY <1>2, <1>4, <2>1, <2>2, <2>4, <2>5 DEF RunningImport
  <2> QED
    BY <1>1, <2>4, <2>6 DEF ProcessInv
<1> QED
  BY <1>5, <1>6

\* The last report: the job has ended, and every row is in the WAL.
LEMMA EndStep ==
  ASSUME BackfillInvariant, EndRun
  PROVE  BackfillInvariant'
<1> USE DEF BackfillInvariant
<1>1. /\ process.at = "replay" /\ replay.status # "running" /\ process' = NoProcess
      /\ report' = LastReport(process.invalid, replay)
      /\ UNCHANGED <<table, sealed, file, manifest, mapping, bound, imported, unselected,
                      evidence, replay>>
  BY DEF EndRun, source
<1>2. RunningImport
  BY <1>1 DEF ProcessInv, NoProcess, Exporting
<1>3. SourceInv' /\ LogInv' /\ ReplayedInv' /\ Logged' = Logged
  BY <1>1 DEF SourceInv, LogInv, ReplayedInv, Traversed, Logged
<1>4. replay \in Replays /\ replay # Unmade /\ bound # Unmade
  BY <1>1, <1>2 DEF RunningImport, ReplayedInv
<1>5. ASSUME report' = "completed" PROVE process.invalid = {} /\ ~(replay.quarantined > 0) /\ replay.status # "failed"
  BY <1>1, <1>5 DEF LastReport
<1>6. ASSUME Finished'
      PROVE  /\ Logged = bound.rows /\ Projected = Logged \ unselected
             /\ replay.status = "completed" /\ replay.through = Len(imported)
  <2>1. process.invalid = {} /\ ~(replay.quarantined > 0) /\ replay.status # "failed" /\ replay.status # "cancelled"
    BY <1>1, <1>4, <1>5, <1>6 DEF Finished
  <2>2. Logged = bound.rows
    BY <1>1, <1>2, <2>1 DEF LogInv, RunningImport
  <2>3. replay.status = "completed" /\ replay.quarantined = 0
    BY <1>1, <1>2, <1>4, <2>1 DEF RunningImport, Replays
  <2>4. Projected = Logged \ unselected
    <3>1. replay.after = Len(imported)
      BY <1>1, <1>2, <1>4, <2>3 DEF ReplayedInv, Traversed, RunningImport
    <3>2. Logged \ unselected \subseteq replay.projected
      BY <1>4, <2>3, <3>1 DEF ReplayedInv, Traversed, Logged
    <3> QED
      BY <1>4, <3>2 DEF ReplayedInv, Traversed, Projected
  <2> QED
    BY <1>1, <1>2, <2>2, <2>3, <2>4 DEF RunningImport
<1>7. WholeInv'
  BY <1>1, <1>3, <1>4, <1>6 DEF WholeInv, Projected
<1> QED
  BY <1>1, <1>3, <1>7 DEF ProcessInv, NoProcess

LEMMA BackfillStep ==
  ASSUME BackfillInvariant, [BackfillNext]_backfillVars
  PROVE  BackfillInvariant'
<1>1. CASE UNCHANGED backfillVars
  <2>1. LogInv' /\ ReplayedInv' /\ WholeInv'
    BY <1>1, WalUnchanged DEF backfillVars, walState, BackfillInvariant
  <2>2. ProcessInv'
    BY <1>1, ProcessUnchanged DEF backfillVars, BackfillInvariant
  <2> QED
    BY <1>1, <2>1, <2>2 DEF backfillVars, BackfillInvariant, SourceInv
<1> QED
  BY <1>1, SourceSteps, AdministerStep, ExportSteps, StartSteps, ImportStep, JobStep,
     ReplaySteps, EndStep DEF BackfillNext

\* A backfill is reported "completed" only when every row that the table had is
\* in the WAL, once, and the job has been through all of it and projected just
\* the rows that the scope of the replay and the routes of the targets select;
\* a job that an operator cancelled is excepted (replay/backfill.ts, runBackfill;
\* replay/replay.ts, runBatch).
THEOREM BackfillCompletes == BackfillSpec => []BackfillIsWhole
<1>1. BackfillInit => BackfillInvariant
  BY BackfillInitInvariant
<1>2. BackfillInvariant /\ [BackfillNext]_backfillVars => BackfillInvariant'
  BY BackfillStep
<1>3. BackfillInvariant => BackfillIsWhole
  BY WholeFromInvariant
<1> QED
  BY <1>1, <1>2, <1>3, PTL DEF BackfillSpec
=============================================================================
