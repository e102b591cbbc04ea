------------------------------ MODULE WalStore ------------------------------
(***************************************************************************)
(* The write path of the write-ahead log (packages/wal/wal.ts): the write  *)
(* queue, classification against the identity index, segment rotation,     *)
(* frame write + fsync, the SQLite index transaction, the poisoned writer, *)
(* orderly close, process death, and the recovery scan of initialize().    *)
(*                                                                         *)
(* Abstractions.  A frame has length 1, so offsets are frame counts.  The  *)
(* segment files, read in order, are one sequence "disk" whose frames      *)
(* carry their segment number; the wal_frames table is the sequence        *)
(* "index".  The provider-event checks of assessProviderEvent are a free   *)
(* choice between "new" and "semantic conflict".  Deleting segments is the *)
(* subject of WalRetention.                                                *)
(***************************************************************************)
EXTENDS Naturals, Sequences, FiniteSets

CONSTANTS
  Callers,           \* concurrent HTTP requests
  Ids,               \* source record identities
  Hashes,            \* record hashes
  None,              \* "undefined"
  SegmentMax,        \* segmentMaxBytes, in frames
  MaxTotal,          \* maxTotalBytes, in frames
  MaxPendingWrites   \* walMaxPendingWrites

ASSUME ConstantsAssumption ==
  /\ SegmentMax \in Nat \ {0}
  /\ MaxTotal \in Nat
  /\ MaxPendingWrites \in Nat \ {0}
  /\ None \notin Hashes
  /\ None \notin Ids

Envelopes == [id : Ids, hash : Hashes]
Rejection == [id |-> None, hash |-> None]
Requests  == Envelopes \cup {Rejection}

ASSUME NoneAssumption == None \notin Requests

Kinds     == {"accepted", "conflict", "rejected"}
Frames    == [seq : Nat, segment : Nat, kind : Kinds,
              id : Ids \cup {None}, hash : Hashes \cup {None}]
Answers   == {"accepted", "duplicate", "conflict", "semantic_conflict", "rejected"}

VARIABLES
  disk,        \* frames in the segment files, in file order
  tornAt,      \* 0, or the frame position at which a partial write lies
  files,       \* number of the newest segment file
  closed,      \* segments whose wal_segments row says closed
  index,       \* the wal_frames table
  accepted,    \* the "accepted" namespace: identity -> record hash
  mode,        \* "down", "recovering", "open" or "refused" (startup failed)
  closing,
  writeError,
  current,     \* currentSegment
  size,        \* currentSize
  total,       \* totalBytes
  queue,       \* the FIFO of writeTail, the running write at its head
  phase,       \* how far the running write is
  work,        \* the frame the running write appends
  request,     \* what each caller waits for
  answered     \* history: every definite answer given

durable  == <<disk, tornAt, files, closed, index, accepted>>
memory   == <<mode, closing, writeError, current, size, total, queue, phase, work, request>>
vars     == <<disk, tornAt, files, closed, index, accepted, mode, closing, writeError,
              current, size, total, queue, phase, work, request, answered>>

FramesIn(s) == {n \in DOMAIN disk : disk[n].segment = s}

Init ==
  /\ disk = <<>> /\ tornAt = 0 /\ files = 0 /\ closed = {}
  /\ index = <<>> /\ accepted = [i \in Ids |-> None]
  /\ mode = "down" /\ closing = FALSE /\ writeError = FALSE
  /\ current = 1 /\ size = 0 /\ total = 0
  /\ queue = <<>> /\ phase = "idle" /\ work = None
  /\ request = [c \in Callers |-> None]
  /\ answered = {}

-----------------------------------------------------------------------------
(* serializeWrite: admission to the queue, and the end of a queued write. *)

Submit(c, r) ==
  /\ mode = "open" /\ ~closing
  /\ request[c] = None
  /\ Len(queue) < MaxPendingWrites
  /\ queue' = Append(queue, c)
  /\ request' = [request EXCEPT ![c] = r]
  /\ UNCHANGED <<durable, mode, closing, writeError, current, size, total, phase, work, answered>>

Leave ==
  /\ queue' = Tail(queue)
  /\ request' = [request EXCEPT ![Head(queue)] = None]
  /\ phase' = "idle"
  /\ work' = None

\* Mutant: a poisoned writer stops taking writes instead of refusing them.
StartingHealthy == mode = "open" /\ phase = "idle" /\ queue # <<>> /\ ~writeError

Starting == mode = "open" /\ phase = "idle" /\ queue # <<>>
Pending  == request[Head(queue)]
Answer(a) == [id |-> Pending.id, hash |-> Pending.hash, answer |-> a]

RefusePoisoned ==
  /\ Starting /\ writeError
  /\ Leave
  /\ UNCHANGED <<durable, mode, closing, writeError, current, size, total, answered>>

Duplicate(r) == r \in Envelopes /\ accepted[r.id] = r.hash

AnswerDuplicate ==
  /\ Starting /\ ~writeError
  /\ Duplicate(Pending)
  /\ answered' = answered \cup {Answer("duplicate")}
  /\ Leave
  /\ UNCHANGED <<durable, mode, closing, writeError, current, size, total>>

\* WAL_HIGH_WATER, or WAL_DISK_RESERVE_REQUIRED from the free-space probe:
\* nothing was written, so the writer is not poisoned.
RefuseSpace ==
  /\ Starting /\ ~writeError
  /\ ~Duplicate(Pending)
  /\ Leave
  /\ UNCHANGED <<durable, mode, closing, writeError, current, size, total, answered>>

\* Mutants: the record kind is the classification; an identity that is
\* already stored is not looked up.
KindsAreClassifications(r) ==
  IF r = Rejection THEN {"rejected"}
  ELSE IF accepted[r.id] = None THEN {"accepted", "semantic_conflict"}
  ELSE {"conflict"}
KindsWithoutLookup(r) ==
  IF r = Rejection THEN {"rejected"} ELSE {"accepted", "conflict"}

KindsOf(r) ==
  IF r = Rejection THEN {"rejected"}
  ELSE IF accepted[r.id] = None THEN {"accepted", "conflict"}
  ELSE {"conflict"}

RotationDue == size > 0 /\ size + 1 > SegmentMax

Admit ==
  /\ Starting /\ ~writeError
  /\ ~Duplicate(Pending)
  /\ total + 1 <= MaxTotal
  /\ \E k \in KindsOf(Pending) :
       work' = [seq |-> Len(index) + 1, segment |-> IF RotationDue THEN current + 1 ELSE current,
                kind |-> k, id |-> Pending.id, hash |-> Pending.hash]
  /\ phase' = IF RotationDue THEN "rotate" ELSE "write"
  /\ UNCHANGED <<durable, mode, closing, writeError, current, size, total, queue, request, answered>>

-----------------------------------------------------------------------------
(* createSegment and appendUnlocked, one durable effect per action. *)

CloseSegment ==
  /\ phase = "rotate"
  /\ closed' = closed \cup {current}
  /\ phase' = "create"
  /\ UNCHANGED <<disk, tornAt, files, index, accepted, mode, closing, writeError, current, size,
                 total, queue, work, request, answered>>

CreateSegment ==
  /\ phase = "create"
  /\ files = current
  /\ files' = current + 1
  /\ current' = current + 1
  /\ size' = 0
  /\ phase' = "write"
  /\ UNCHANGED <<disk, tornAt, closed, index, accepted, mode, closing, writeError, total, queue,
                 work, request, answered>>

WriteFrame ==
  /\ phase = "write"
  /\ disk' = Append(disk, work)
  /\ size' = size + 1
  /\ total' = total + 1
  /\ phase' = "index"
  /\ UNCHANGED <<tornAt, files, closed, index, accepted, mode, closing, writeError, current, queue,
                 work, request, answered>>

\* Mutant: a conflicting record takes the identity over.
RememberAnyKind(f) ==
  IF f.kind # "rejected" THEN [accepted EXCEPT ![f.id] = f.hash] ELSE accepted

Remember(f) ==
  IF f.kind = "accepted" THEN [accepted EXCEPT ![f.id] = f.hash] ELSE accepted

IndexFrame ==
  /\ phase = "index"
  /\ index' = Append(index, work)
  /\ accepted' = Remember(work)
  /\ phase' = "answer"
  /\ UNCHANGED <<disk, tornAt, files, closed, mode, closing, writeError, current, size, total, queue,
                 work, request, answered>>

\* Mutant: a semantic conflict is reported as an identity conflict.
AnswerOfKind(f) == f.kind

AnswerOf(f) ==
  IF f.kind # "conflict" THEN f.kind
  ELSE IF accepted[f.id] = None THEN "semantic_conflict" ELSE "conflict"

AnswerWritten ==
  /\ phase = "answer"
  /\ answered' = answered \cup {Answer(AnswerOf(work))}
  /\ Leave
  /\ UNCHANGED <<durable, mode, closing, writeError, current, size, total>>

\* Mutant: a failed write leaves the writer usable.
PoisonForgotten ==
  /\ phase \in {"rotate", "create", "write", "index"}
  /\ writeError' = writeError
  /\ Leave
  /\ UNCHANGED <<mode, closing, current, size, total, answered>>

\* The catch of appendUnlocked.  What reached the disk before the error is
\* open: a failed write may leave nothing, part of the frame, or all of it
\* (fsync failed); a failed transaction may have committed (reply lost).
Poison ==
  /\ phase \in {"rotate", "create", "write", "index"}
  /\ writeError' = TRUE
  /\ Leave
  /\ UNCHANGED <<mode, closing, current, size, total, answered>>

FailRotate ==
  /\ phase = "rotate" /\ Poison
  /\ closed' \in {closed, closed \cup {current}}
  /\ UNCHANGED <<disk, tornAt, files, index, accepted>>

FailCreate ==
  /\ phase = "create" /\ Poison
  /\ files' \in {files, current + 1}
  /\ UNCHANGED <<disk, tornAt, closed, index, accepted>>

FailWrite ==
  /\ phase = "write" /\ Poison
  /\ \/ disk' = disk /\ tornAt' = tornAt
     \/ disk' = disk /\ tornAt' = Len(disk) + 1
     \/ disk' = Append(disk, work) /\ tornAt' = tornAt
  /\ UNCHANGED <<files, closed, index, accepted>>

FailIndex ==
  /\ phase = "index" /\ Poison
  /\ \/ index' = index /\ accepted' = accepted
     \/ index' = Append(index, work) /\ accepted' = Remember(work)
  /\ UNCHANGED <<disk, tornAt, files, closed>>

-----------------------------------------------------------------------------
(* close(), process death and initialize(). *)

Lost ==
  /\ closing' = FALSE /\ writeError' = FALSE
  /\ current' = 1 /\ size' = 0 /\ total' = 0
  /\ queue' = <<>> /\ phase' = "idle" /\ work' = None
  /\ request' = [c \in Callers |-> None]

Close ==
  /\ mode = "open" /\ ~closing
  /\ closing' = TRUE
  /\ UNCHANGED <<durable, mode, writeError, current, size, total, queue, phase, work, request,
                 answered>>

Closed ==
  /\ mode = "open" /\ closing /\ queue = <<>>
  /\ mode' = "down" /\ Lost
  /\ UNCHANGED <<durable, answered>>

Crash ==
  /\ mode # "down"
  /\ mode' = "down" /\ Lost
  /\ \/ tornAt' = tornAt
     \/ phase = "write" /\ tornAt' = Len(disk) + 1
  /\ UNCHANGED <<disk, files, closed, index, accepted, answered>>

Start ==
  /\ mode = "down"
  /\ mode' = "recovering"
  /\ UNCHANGED <<durable, closing, writeError, current, size, total, queue, phase, work, request,
                 answered>>

\* The scan stops at bytes that are not a frame, at a frame whose stored
\* sequence is not the next one, and at a second hash for one identity.
Indexable(f) ==
  /\ tornAt # Len(index) + 1
  /\ f.seq = Len(index) + 1
  /\ f.kind = "accepted" => accepted[f.id] \in {None, f.hash}

RecoverFrame ==
  /\ mode = "recovering" /\ Len(index) < Len(disk)
  /\ LET f == disk[Len(index) + 1]
     IN IF Indexable(f)
        THEN mode' = mode /\ index' = Append(index, f) /\ accepted' = Remember(f)
        ELSE mode' = "refused" /\ index' = index /\ accepted' = accepted
  /\ UNCHANGED <<disk, tornAt, files, closed, closing, writeError, current, size, total, queue,
                 phase, work, request, answered>>

Scanned == mode = "recovering" /\ Len(index) = Len(disk)

\* Only the tail of the newest file, while its row is open, may be cut off.
RecoverTail ==
  /\ Scanned /\ tornAt # 0
  /\ IF files \notin closed
     THEN mode' = mode /\ tornAt' = 0
     ELSE mode' = "refused" /\ tornAt' = tornAt
  /\ UNCHANGED <<disk, files, closed, index, accepted, closing, writeError, current, size, total,
                 queue, phase, work, request, answered>>

RecoverSegment ==
  /\ Scanned /\ tornAt = 0
  /\ files = 0 \/ files \in closed
  /\ files' = files + 1
  /\ closed' = closed \cup 1..files
  /\ UNCHANGED <<disk, tornAt, index, accepted, memory, answered>>

\* Mutant: totalBytes starts from the newest file only.
RecoveredNewest ==
  /\ current' = files
  /\ size' = Cardinality(FramesIn(files))
  /\ total' = Cardinality(FramesIn(files))

\* totalBytes sums the rows of every segment, currentSize is the newest file's.
RecoveredSizes ==
  /\ current' = files
  /\ size' = Cardinality(FramesIn(files))
  /\ total' = Len(disk)

Opened ==
  /\ Scanned /\ tornAt = 0
  /\ files # 0 /\ files \notin closed
  /\ closed' = closed \cup 1..(files - 1)
  /\ mode' = "open"
  /\ RecoveredSizes
  /\ UNCHANGED <<disk, tornAt, files, index, accepted, closing, writeError, queue, phase, work,
                 request, answered>>

-----------------------------------------------------------------------------
Writer ==
  \/ RefusePoisoned \/ AnswerDuplicate \/ RefuseSpace \/ Admit
  \/ CloseSegment \/ CreateSegment \/ WriteFrame \/ IndexFrame \/ AnswerWritten
  \/ FailRotate \/ FailCreate \/ FailWrite \/ FailIndex

Recovery == RecoverFrame \/ RecoverTail \/ RecoverSegment \/ Opened

Next ==
  \/ \E c \in Callers, r \in Requests : Submit(c, r)
  \/ Writer
  \/ Recovery
  \/ Close \/ Closed \/ Crash \/ Start

Spec == Init /\ [][Next]_vars

\* The event loop keeps running the promise chain and the startup code; no
\* fairness is assumed of callers, of failures or of process death.
FairSpec == Spec /\ WF_vars(Writer) /\ WF_vars(Recovery) /\ WF_vars(Closed)

-----------------------------------------------------------------------------
(* Properties *)

TypeOK ==
  /\ disk \in Seq(Frames) /\ index \in Seq(Frames)
  /\ tornAt \in Nat /\ files \in Nat /\ closed \subseteq Nat
  /\ accepted \in [Ids -> Hashes \cup {None}]
  /\ mode \in {"down", "recovering", "open", "refused"}
  /\ closing \in BOOLEAN /\ writeError \in BOOLEAN
  /\ current \in Nat /\ size \in Nat /\ total \in Nat
  /\ queue \in Seq(Callers)
  /\ phase \in {"idle", "rotate", "create", "write", "index", "answer"}
  /\ work \in Frames \cup {None}
  /\ request \in [Callers -> Requests \cup {None}]
  /\ answered \subseteq [id : Ids \cup {None}, hash : Hashes \cup {None}, answer : Answers]

\* The SQLite index is the log without at most its newest frame, whatever
\* failed or crashed (recovery replays exactly the unindexed suffix).
IndexFollowsDisk ==
  /\ Len(index) <= Len(disk) /\ Len(disk) <= Len(index) + 1
  /\ \A n \in 1..Len(index) : index[n] = disk[n]

\* initialize() never stops on a half-written frame, a sequence gap or an
\* identity with two hashes: no crash or failed write leaves files that the
\* recovery scan rejects.
StartupNeverRefuses == mode # "refused"

\* A record the Collector was told is stored is in the fsynced log and in the
\* index, through every crash, poisoned write and restart.
AnswersAreDurable ==
  \A a \in answered :
    a.answer \in {"accepted", "duplicate"} =>
      \E n \in 1..Len(index) :
        disk[n].kind = "accepted" /\ disk[n].id = a.id /\ disk[n].hash = a.hash

\* However often an identity is retried, raced or re-sent after a crash, the
\* log accepts it once.
AcceptedOnce ==
  \A m, n \in 1..Len(disk) :
    /\ disk[m].kind = "accepted" /\ disk[n].kind = "accepted"
    /\ disk[m].id = disk[n].id
    => m = n

\* The writer's in-memory sizes, which rotation and the high-water check use,
\* are those of the files: after recovery, and between any two writes.
SizesMatchFiles ==
  mode = "open" /\ ~writeError /\ phase = "idle" =>
    /\ current = files
    /\ size = Cardinality(FramesIn(files))
    /\ total = Len(disk)

\* No segment outgrows segmentMaxBytes and the log never passes its high
\* water, across failed writes and restarts.
WithinLimits ==
  /\ Len(disk) <= MaxTotal
  /\ \A s \in 1..files : Cardinality(FramesIn(s)) <= SegmentMax

\* What rotation, admission and the next sequence number are computed from is
\* what the files hold, although none of them asks the file system.
DiskIsAccounted == IndexFollowsDisk /\ SizesMatchFiles /\ WithinLimits

\* The log keeps the promise of IngestLedger, with the accepted namespace as
\* the ledger's store.
Ledger == INSTANCE IngestLedger WITH stored <- accepted
ImplementsLedger == Ledger!Spec

\* Every queued write is answered or lost with the process: neither a
\* poisoned writer nor a close leaves one waiting.
WritesLeaveQueue == \A c \in Callers : request[c] # None ~> request[c] = None

\* close() drains the queue and ends, and a started recovery ends.
CloseEnds    == closing ~> ~closing
RecoveryEnds == mode = "recovering" ~> mode # "recovering"

\* Whatever waits for the log is answered, closed or recovered in the end.
EverythingEnds == WritesLeaveQueue /\ CloseEnds /\ RecoveryEnds
=============================================================================
