-------------------------- MODULE DeadLetterOutbox --------------------------
(***************************************************************************)
(* Dead letters and their mirror (packages/exporters/target-manager.ts,    *)
(* packages/replay/replay.ts): a worker quarantines a record in one        *)
(* transaction with the authoritative issue and an outbox entry, every     *)
(* worker copies the outbox to its own store, and an administrator         *)
(* resolves an issue while that copying runs.                              *)
(*                                                                         *)
(* Abstractions.  An issue is its id with its status; the two mirror       *)
(* tables of a store are one set of rows.  The pin of an unresolved issue  *)
(* is one of the pins of WalRetention.  There are never more issues than   *)
(* the 100 that a scan returns, and their order in it is arbitrary.  The   *)
(* evidence that resolveDeadLetter demands of a completed replay is there  *)
(* or not, as it chooses; without it the call changes nothing.             *)
(***************************************************************************)
EXTENDS Naturals, FiniteSets

CONSTANTS
  Issues,      \* dead-letter ids
  Live,        \* workers of the live targets
  Replaying,   \* workers of replay executors, each with an isolated store
  Mirroring,   \* workers whose target is not sdar_shared_warehouse
  None         \* "undefined"

Workers       == Live \cup Replaying
IssueStatuses == {"unresolved", "resolved"}

VARIABLES
  owner,    \* issue -> the worker that quarantined it
  dlq,      \* issue -> its status in the local, authoritative table
  outbox,   \* issue -> the status its outbox entry carries
  mirror,   \* worker -> rows <<issue, status>> in its store
  scanned,  \* worker -> None, or what its running flush has still to copy
  copied    \* worker -> the issue inserted but not yet deleted

vars == <<owner, dlq, outbox, mirror, scanned, copied>>

Init ==
  /\ owner = [i \in Issues |-> None]
  /\ dlq = [i \in Issues |-> None]
  /\ outbox = [i \in Issues |-> None]
  /\ mirror = [w \in Workers |-> {}]
  /\ scanned = [w \in Workers |-> None]
  /\ copied = [w \in Workers |-> None]

\* A worker projects entries and flushes dead letters one after the other.
Quarantine(w, i) ==
  /\ scanned[w] = None
  /\ dlq[i] = None
  /\ owner' = [owner EXCEPT ![i] = w]
  /\ dlq' = [dlq EXCEPT ![i] = "unresolved"]
  /\ outbox' = [outbox EXCEPT ![i] = "unresolved"]
  /\ UNCHANGED <<mirror, scanned, copied>>

\* The issue is checked to be the one that was read; only dead letters of a
\* live target have a replacement.
Resolve(i) ==
  /\ dlq[i] = "unresolved" /\ owner[i] \in Live
  /\ dlq' = [dlq EXCEPT ![i] = "resolved"]
  /\ outbox' = [outbox EXCEPT ![i] = "resolved"]
  /\ UNCHANGED <<owner, mirror, scanned, copied>>

-----------------------------------------------------------------------------
(* flushDeadLetters() *)

\* Mutant: a worker copies its own dead letters only.
ScannedOwn(w) == [i \in {n \in Issues : outbox[n] # None /\ owner[n] = w} |-> outbox[i]]
Scanned(w) == [i \in {n \in Issues : outbox[n] # None} |-> outbox[i]]

Scan(w) ==
  /\ w \in Mirroring /\ scanned[w] = None
  /\ DOMAIN Scanned(w) # {}
  /\ scanned' = [scanned EXCEPT ![w] = Scanned(w)]
  /\ UNCHANGED <<owner, dlq, outbox, mirror, copied>>

Row(w, i) == <<i, scanned[w][i]>>

Insert(w, i) ==
  /\ scanned[w] # None /\ copied[w] = None
  /\ i \in DOMAIN scanned[w]
  /\ mirror' = [mirror EXCEPT ![w] = @ \cup {Row(w, i)}]
  /\ copied' = [copied EXCEPT ![w] = i]
  /\ UNCHANGED <<owner, dlq, outbox, scanned>>

\* The store refuses, or its confirmation is lost: the flush breaks off.
InsertFails(w, i) ==
  /\ scanned[w] # None /\ copied[w] = None
  /\ i \in DOMAIN scanned[w]
  /\ mirror' \in {mirror, [mirror EXCEPT ![w] = @ \cup {Row(w, i)}]}
  /\ scanned' = [scanned EXCEPT ![w] = None]
  /\ UNCHANGED <<owner, dlq, outbox, copied>>

Remaining(w) == [outbox EXCEPT ![copied[w]] = None]

Delete(w) ==
  /\ copied[w] # None
  /\ outbox' = Remaining(w)
  /\ scanned' = [scanned EXCEPT ![w] =
                   IF DOMAIN @ = {copied[w]} THEN None
                   ELSE [i \in DOMAIN @ \ {copied[w]} |-> @[i]]]
  /\ copied' = [copied EXCEPT ![w] = None]
  /\ UNCHANGED <<owner, dlq, mirror>>

Crash ==
  /\ scanned' = [w \in Workers |-> None]
  /\ copied' = [w \in Workers |-> None]
  /\ UNCHANGED <<owner, dlq, outbox, mirror>>

-----------------------------------------------------------------------------
Flush(w) == Scan(w) \/ (\E i \in Issues : Insert(w, i)) \/ Delete(w)
Fails    == \E w \in Workers, i \in Issues : InsertFails(w, i)

Next ==
  \/ \E w \in Workers, i \in Issues : Quarantine(w, i)
  \/ \E i \in Issues : Resolve(i)
  \/ \E w \in Workers : Flush(w)
  \/ Fails
  \/ Crash

Spec == Init /\ [][Next]_vars

\* The timer of TargetManager flushes every live target; a replay worker
\* runs only while somebody drives its job.
FairSpec == Spec /\ \A w \in Live : WF_vars(Flush(w))

-----------------------------------------------------------------------------
(* Properties *)

TypeOK ==
  /\ owner \in [Issues -> Workers \cup {None}]
  /\ dlq \in [Issues -> IssueStatuses \cup {None}]
  /\ outbox \in [Issues -> IssueStatuses \cup {None}]
  /\ mirror \in [Workers -> SUBSET (Issues \X IssueStatuses)]
  /\ \A w \in Workers :
       /\ scanned[w] = None \/ scanned[w] \in UNION {[D -> IssueStatuses] : D \in SUBSET Issues}
       /\ copied[w] # None => scanned[w] # None /\ copied[w] \in DOMAIN scanned[w]

\* No dead letter is forgotten by the mirror: until some store has a row of
\* it, it stays in the outbox, whatever fails or is flushed twice.
IssuesReachAStore ==
  \A i \in Issues : dlq[i] # None /\ outbox[i] = None =>
    \E w \in Workers, s \in IssueStatuses : <<i, s>> \in mirror[w]

\* If stores and process eventually stay up, every dead letter leaves the
\* outbox, also those of workers that copy nothing themselves.
OutboxDrains ==
  (<>[][~Fails /\ ~Crash]_vars) => \A i \in Issues : (outbox[i] # None ~> outbox[i] = None)

\* Nothing leaves the outbox without a row in some store, and everything
\* leaves it in the end.
DeadLettersReachAStore == [](TypeOK /\ IssuesReachAStore) /\ OutboxDrains

\* What replay/executor.ts says of the isolated instance: the dead letters of
\* a replay are mirrored nowhere else.
IsolatedMirror ==
  \A w \in Workers, i \in Issues, s \in IssueStatuses :
    <<i, s>> \in mirror[w] /\ owner[i] \in Replaying => w = owner[i]

\* What the mirror's views assume: the resolution of a dead letter reaches a
\* store, or is still on its way.
ResolutionMirrored ==
  \A i \in Issues : dlq[i] = "resolved" /\ outbox[i] = None =>
    \E w \in Workers : <<i, "resolved">> \in mirror[w]
=============================================================================
