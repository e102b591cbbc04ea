---------------------------- MODULE WalRetention ----------------------------
(***************************************************************************)
(* How the write-ahead log gives disk space back (packages/wal/wal.ts and  *)
(* archive.ts): rotation closes a segment, maintenance copies it to the    *)
(* archive, and compaction deletes the file once every registered target   *)
(* is past it and no pin covers it.  All of it runs between the awaits of  *)
(* ingestion, target commits, registrations and pins, and can be cut off   *)
(* by process death at any of them.                                        *)
(*                                                                         *)
(* Abstractions.  A frame has length 1 and is written and indexed in one   *)
(* step (WalStore has the steps between).  A file is the set of sequence   *)
(* numbers whose frames it holds.  A checkpoint (segment, offset) is the   *)
(* sequence number that wal_frames has for it.  The protectionRevision     *)
(* counter is only ever compared for equality by the two operations that   *)
(* remember it, so "fresh" keeps which of them would still find it equal.  *)
(* Archive copies are not corrupted, and pins carry no expiry (no caller   *)
(* sets one).                                                              *)
(***************************************************************************)
EXTENDS Naturals, Sequences, FiniteSets

CONSTANTS
  Targets,          \* projection targets
  Pins,             \* pin ids
  None,             \* "undefined"
  SegmentMax,       \* segmentMaxBytes, in frames
  MaxFrames,        \* bound: frames ever appended
  CanFailCreate     \* whether opening a new segment file may fail

ASSUME ConstantsAssumption ==
  /\ SegmentMax \in Nat \ {0}
  /\ MaxFrames \in Nat
  /\ CanFailCreate \in BOOLEAN
  /\ None \notin Nat

ASSUME NoneAssumption ==
  /\ None \notin Targets /\ None \notin Pins
  /\ None \notin [target : Targets, sequence : Nat]
  /\ None \notin [from : Nat, through : Nat]
  /\ None \notin [id : Pins, from : Nat, through : Nat, checked : BOOLEAN]

VARIABLES
  frame,        \* wal_frames: sequence -> [segment, end]
  row,          \* wal_segments: segment -> its row
  file,         \* segment files: segment -> sequences it holds
  archive,      \* archived copies: segment -> sequences it holds
  target,       \* registrations: target -> None or [status, start]
  observed,     \* targets seen reading before they were registered
  checkpoint,   \* target -> committed sequence (0 for none)
  pin,          \* pin -> None or [from, through]
  mode,         \* "down", "recovering", "open" or "refused"
  writer,       \* the running write: "idle", "create" or "append"
  poisoned,     \* writeError
  current,      \* currentSegment
  total,        \* totalBytes
  known,        \* this.checkpoints
  commit,       \* commit() between its transaction and its in-memory update
  pinning,      \* pin() between its reads and its transaction
  job,          \* where maintenance is
  todo,         \* segments the running job has still to handle
  fresh         \* of {"gc", "pin"}: whose protectionRevision is current

durable  == <<frame, row, file, archive, target, observed, checkpoint, pin>>
writing  == <<writer, poisoned, current>>
upkeep   == <<job, todo>>
vars     == <<frame, row, file, archive, target, observed, checkpoint, pin, mode, writer,
              poisoned, current, total, known, commit, pinning, job, todo, fresh>>

FreshRow ==
  [bytes |-> 0, first |-> 0, last |-> 0, closed |-> FALSE, archived |-> FALSE, gc |-> "hot"]
Segments == 1..Len(row)

\* saveSegment: INSERT ... ON CONFLICT DO UPDATE.
Saved(rows, s, r) == IF s <= Len(rows) THEN [rows EXCEPT ![s] = r] ELSE Append(rows, r)

\* The sum of a sequence of numbers.
SumOf(e) ==
  LET sum[n \in 0..Len(e)] == IF n = 0 THEN 0 ELSE sum[n - 1] + e[n] IN sum[Len(e)]

With(f, s, held)  == [n \in DOMAIN f \cup {s} |-> IF n = s THEN held ELSE f[n]]
Without(f, s)     == [n \in DOMAIN f \ {s} |-> f[n]]
Newest            == CHOOSE s \in DOMAIN file : \A n \in DOMAIN file : n <= s

Init ==
  /\ frame = <<>> /\ row = <<>> /\ file = [s \in {} |-> {}] /\ archive = [s \in {} |-> {}]
  /\ target = [t \in Targets |-> None] /\ observed = {}
  /\ checkpoint = [t \in Targets |-> 0]
  /\ pin = [p \in Pins |-> None]
  /\ mode = "down" /\ writer = "idle" /\ poisoned = FALSE /\ current = 1 /\ total = 0
  /\ known = [t \in Targets |-> 0] /\ commit = None /\ pinning = None
  /\ job = "idle" /\ todo = {} /\ fresh = {}

-----------------------------------------------------------------------------
(* Ingestion: appendUnlocked and createSegment. *)

RotationDue == row[current].bytes > 0 /\ row[current].bytes + 1 > SegmentMax

Write ==
  /\ mode = "open" /\ writer = "idle" /\ ~poisoned
  /\ Len(frame) < MaxFrames
  /\ row' = IF RotationDue THEN [row EXCEPT ![current].closed = TRUE] ELSE row
  /\ writer' = IF RotationDue THEN "create" ELSE "append"
  /\ UNCHANGED <<frame, file, archive, target, observed, checkpoint, pin, mode, poisoned, current,
                 total, known, commit, pinning, upkeep, fresh>>

CreateSegment ==
  /\ writer = "create"
  /\ file' = With(file, current + 1, {})
  /\ row' = Saved(row, current + 1, FreshRow)
  /\ current' = current + 1
  /\ writer' = "append"
  /\ UNCHANGED <<frame, archive, target, observed, checkpoint, pin, mode, poisoned, total, known,
                 commit, pinning, upkeep, fresh>>

\* open() or the row's transaction fails: the writer is poisoned, everything
\* else goes on.
CreateFails ==
  /\ writer = "create" /\ CanFailCreate
  /\ file' \in {file, With(file, current + 1, {})}
  /\ poisoned' = TRUE /\ writer' = "idle"
  /\ UNCHANGED <<frame, row, archive, target, observed, checkpoint, pin, mode, current, total,
                 known, commit, pinning, upkeep, fresh>>

AppendFrame ==
  /\ writer = "append"
  /\ LET q == Len(frame) + 1
         r == row[current]
     IN /\ frame' = Append(frame, [segment |-> current, end |-> r.bytes + 1])
        /\ file' = With(file, current, file[current] \cup {q})
        /\ row' = [row EXCEPT ![current].bytes = r.bytes + 1,
                              ![current].first = IF r.first = 0 THEN q ELSE r.first,
                              ![current].last  = q]
  /\ total' = total + 1
  /\ writer' = "idle"
  /\ UNCHANGED <<archive, target, observed, checkpoint, pin, mode, poisoned, current, known, commit,
                 pinning, upkeep, fresh>>

-----------------------------------------------------------------------------
(* Targets and pins.  Every change of what protects a segment increments   *)
(* protectionRevision: nobody's remembered revision is current any more.   *)

Revised == fresh' = {}

RegisterTarget(t) ==
  /\ mode = "open" /\ target[t] = None
  /\ \E start \in {0, Len(frame)} :
       target' = [target EXCEPT ![t] = [status |-> "active", start |-> start]]
  /\ Revised
  /\ UNCHANGED <<frame, row, file, archive, observed, checkpoint, pin, mode, writing, total, known,
                 commit, pinning, upkeep>>

RetireTarget(t) ==
  /\ mode = "open" /\ target[t] # None /\ target[t].status = "active"
  /\ target' = [target EXCEPT ![t].status = "retired"]
  /\ Revised
  /\ UNCHANGED <<frame, row, file, archive, observed, checkpoint, pin, mode, writing, total, known,
                 commit, pinning, upkeep>>

\* pending(id) of a target nobody registered.
Observe(t) ==
  /\ mode = "open" /\ target[t] = None /\ t \notin observed
  /\ observed' = observed \cup {t}
  /\ Revised
  /\ UNCHANGED <<frame, row, file, archive, target, checkpoint, pin, mode, writing, total, known,
                 commit, pinning, upkeep>>

Later(t, q) == q > known[t]

CommitTransaction(t, q) ==
  /\ mode = "open" /\ commit = None
  /\ Later(t, q)
  /\ checkpoint' = [checkpoint EXCEPT ![t] = q]
  /\ commit' = [target |-> t, sequence |-> q]
  /\ target' = IF target[t] = None
               THEN [target EXCEPT ![t] = [status |-> "active", start |-> 0]] ELSE target
  /\ fresh' = IF target[t] = None THEN {} ELSE fresh
  /\ UNCHANGED <<frame, row, file, archive, observed, pin, mode, writing, total, known, pinning,
                 upkeep>>

CommitRemembered ==
  /\ commit # None
  /\ known' = [known EXCEPT ![commit.target] = commit.sequence]
  /\ commit' = None
  /\ UNCHANGED <<durable, mode, writing, total, pinning, upkeep, fresh>>

PinRead(p, from, through) ==
  /\ mode = "open" /\ pinning = None /\ pin[p] = None
  /\ from <= through
  /\ pinning' = [id |-> p, from |-> from, through |-> through, checked |-> FALSE]
  /\ fresh' = fresh \cup {"pin"}
  /\ UNCHANGED <<durable, mode, writing, total, known, commit, upkeep>>

Overlaps(s, range) == range.from <= row[s].last /\ range.through >= row[s].first

\* Mutant: a pin does not look for running deletions.
PinUnchecked ==
  /\ pinning # None /\ ~pinning.checked
  /\ pinning' = [pinning EXCEPT !.checked = TRUE]
  /\ UNCHANGED <<durable, mode, writing, total, known, commit, upkeep, fresh>>

\* WAL_GC_IN_PROGRESS when a segment of the range is being deleted.
PinCheck ==
  /\ pinning # None /\ ~pinning.checked
  /\ pinning' = IF \E s \in Segments : row[s].gc = "planned" /\ Overlaps(s, pinning)
                THEN None ELSE [pinning EXCEPT !.checked = TRUE]
  /\ UNCHANGED <<durable, mode, writing, total, known, commit, upkeep, fresh>>

PinUnchanged == "pin" \in fresh

PinTransaction ==
  /\ pinning # None /\ pinning.checked
  /\ IF PinUnchanged
     THEN /\ pin' = [pin EXCEPT ![pinning.id] = [from |-> pinning.from, through |-> pinning.through]]
          /\ fresh' = {}
     ELSE pin' = pin /\ fresh' = fresh
  /\ pinning' = None
  /\ UNCHANGED <<frame, row, file, archive, target, observed, checkpoint, mode, writing, total,
                 known, commit, upkeep>>

ReleasePin(p) ==
  /\ mode = "open" /\ pin[p] # None
  /\ pin' = [pin EXCEPT ![p] = None]
  /\ Revised
  /\ UNCHANGED <<frame, row, file, archive, target, observed, checkpoint, mode, writing, total,
                 known, commit, pinning, upkeep>>

-----------------------------------------------------------------------------
(* archiveClosedSegments: one durable effect per action.  A job first      *)
(* awaits the write tail, so it starts between two writes.                 *)

Lowest == CHOOSE s \in todo : \A n \in todo : s <= n
\* Mutant: the segment being written is archived too.
UnarchivedOpen == {s \in Segments : row[s].gc = "hot" /\ ~row[s].archived}
Unarchived == {s \in Segments : row[s].closed /\ row[s].gc = "hot" /\ ~row[s].archived}

ArchiveStart ==
  /\ mode = "open" /\ job = "idle" /\ writer = "idle"
  /\ Unarchived # {}
  /\ job' = "copy" /\ todo' = Unarchived
  /\ UNCHANGED <<durable, mode, writing, total, known, commit, pinning, fresh>>

\* A copy that an interrupted job left is taken over if it is the same;
\* otherwise the job ends with WAL_ARCHIVE_CONFLICT.
Conflicting(s) == s \in DOMAIN archive /\ archive[s] # file[s]

ArchiveCopy ==
  /\ job = "copy"
  /\ IF Conflicting(Lowest)
     THEN job' = "idle" /\ todo' = {} /\ archive' = archive
     ELSE job' = "record" /\ todo' = todo /\ archive' = With(archive, Lowest, file[Lowest])
  /\ UNCHANGED <<frame, row, file, target, observed, checkpoint, pin, mode, writing, total, known,
                 commit, pinning, fresh>>

ArchiveRecord ==
  /\ job = "record"
  /\ row' = [row EXCEPT ![Lowest].archived = TRUE]
  /\ todo' = todo \ {Lowest}
  /\ job' = IF todo' = {} THEN "idle" ELSE "copy"
  /\ UNCHANGED <<frame, file, archive, target, observed, checkpoint, pin, mode, writing, total,
                 known, commit, pinning, fresh>>

-----------------------------------------------------------------------------
(* compact: await the write tail, then the checkpoint tail; remember the   *)
(* revision, evaluate, plan in one transaction that requires the same      *)
(* revision, then delete.                                                  *)

CompactStart ==
  /\ mode = "open" /\ job = "idle" /\ writer = "idle"
  /\ job' = "settle"
  /\ UNCHANGED <<durable, mode, writing, total, known, commit, pinning, todo, fresh>>

CompactRead ==
  /\ job = "settle" /\ commit = None
  /\ job' = "evaluate"
  /\ fresh' = fresh \cup {"gc"}
  /\ UNCHANGED <<durable, mode, writing, total, known, commit, pinning, todo>>

Registered == {t \in Targets : target[t] # None}
RegistryComplete == Registered # {} /\ observed \subseteq Registered

Bigger(a, b) == IF a > b THEN a ELSE b
Passed(t) == Bigger(target[t].start, known[t])

Protected(s) ==
  \/ \E t \in Registered : target[t].status # "retired" /\ Passed(t) < row[s].last
  \/ \E p \in Pins : pin[p] # None /\ Overlaps(s, pin[p])

Eligible ==
  {s \in Segments : row[s].gc = "hot" /\ row[s].closed /\ row[s].archived /\ ~Protected(s)}

CompactEvaluate ==
  /\ job = "evaluate"
  /\ job' = IF RegistryComplete THEN "plan" ELSE "idle"
  /\ todo' = IF RegistryComplete THEN Eligible ELSE {}
  /\ UNCHANGED <<durable, mode, writing, total, known, commit, pinning, fresh>>

\* Mutant: the plan does not compare the revision.
PlanRegardless == TRUE
PlanUnchanged == "gc" \in fresh

\* WAL_GC_SEGMENT_UNSAFE, WAL_GC_TARGET_REGISTRY_INCOMPLETE and the revision.
CompactPlan ==
  /\ job = "plan"
  /\ IF /\ PlanUnchanged
        /\ observed \subseteq Registered
        /\ \A s \in todo : row[s].closed /\ row[s].archived
     THEN /\ row' = [s \in Segments |-> IF s \in todo THEN [row[s] EXCEPT !.gc = "planned"] ELSE row[s]]
          /\ fresh' = {} /\ job' = "delete"
     ELSE row' = row /\ fresh' = fresh /\ job' = "idle"
  /\ todo' = {}
  /\ UNCHANGED <<frame, file, archive, target, observed, checkpoint, pin, mode, writing, total,
                 known, commit, pinning>>

\* recoverCompaction, at run time and first thing in initialize().
Planned == {s \in Segments : row[s].gc = "planned"}
\* Mutant: an interrupted deletion is not resumed at startup.
DeletingByJob == job = "delete"
Deleting == job = "delete" \/ mode = "recovering"
FirstPlanned == CHOOSE s \in Planned : \A n \in Planned : s <= n

Unlink ==
  /\ Deleting /\ Planned # {}
  /\ FirstPlanned \in DOMAIN file
  /\ file' = Without(file, FirstPlanned)
  /\ UNCHANGED <<frame, row, archive, target, observed, checkpoint, pin, mode, writing, total, known,
                 commit, pinning, upkeep, fresh>>

\* Mutant: the row is completed before the file is gone.
CompleteEarly ==
  /\ Deleting /\ Planned # {}
  /\ row' = [row EXCEPT ![FirstPlanned].gc = "complete"]
  /\ total' = IF mode = "open" THEN total - row[FirstPlanned].bytes ELSE total
  /\ UNCHANGED <<frame, file, archive, target, observed, checkpoint, pin, mode, writing, known,
                 commit, pinning, upkeep, fresh>>
Complete ==
  /\ Deleting /\ Planned # {}
  /\ FirstPlanned \notin DOMAIN file
  /\ row' = [row EXCEPT ![FirstPlanned].gc = "complete"]
  /\ total' = IF mode = "open" THEN total - row[FirstPlanned].bytes ELSE total
  /\ UNCHANGED <<frame, file, archive, target, observed, checkpoint, pin, mode, writing, known,
                 commit, pinning, upkeep, fresh>>

CompactEnd ==
  /\ job = "delete" /\ Planned = {}
  /\ job' = "idle"
  /\ UNCHANGED <<durable, mode, writing, total, known, commit, pinning, todo, fresh>>

-----------------------------------------------------------------------------
(* Process death and initialize(). *)

Crash ==
  /\ mode \in {"open", "recovering"}
  /\ mode' = "down" /\ writer' = "idle" /\ poisoned' = FALSE /\ current' = 1 /\ total' = 0
  /\ known' = [t \in Targets |-> 0] /\ commit' = None /\ pinning' = None
  /\ job' = "idle" /\ todo' = {} /\ fresh' = {}
  /\ \/ file' = file
     \/ writer = "create" /\ file' = With(file, current + 1, {})
  /\ UNCHANGED <<frame, row, archive, target, observed, checkpoint, pin>>

Start ==
  /\ mode = "down"
  /\ mode' = "recovering"
  /\ UNCHANGED <<durable, writing, total, known, commit, pinning, upkeep, fresh>>

\* WAL_SEGMENT_MISSING, WAL_COMPACTED_SEGMENT_REAPPEARED, and the frame at
\* the row's indexed boundary must be in the file.
Intact ==
  /\ \A s \in Segments : row[s].gc = "hot" => s \in DOMAIN file
  /\ \A s \in DOMAIN file \cap Segments :
       /\ row[s].gc # "complete"
       /\ row[s].bytes > 0 =>
            \E q \in file[s] : frame[q] = [segment |-> s, end |-> row[s].bytes]

Bytes(rows) == SumOf([n \in DOMAIN rows |-> IF rows[n].gc = "complete" THEN 0 ELSE rows[n].bytes])

\* The rows after the scan: only the newest file stays open, and a file that
\* a failed createSegment left without a row gets one.
ScannedRows ==
  LET old == [s \in Segments |->
                IF s \in DOMAIN file /\ s # Newest THEN [row[s] EXCEPT !.closed = TRUE] ELSE row[s]]
  IN IF DOMAIN file # {} /\ Newest > Len(row) THEN Append(old, FreshRow) ELSE old

\* The segment to write to: a new one when there is no file or the newest is
\* closed.  Its number follows the newest FILE when there is one.
Reopened ==
  IF DOMAIN file = {} THEN Len(row) + 1
  ELSE IF ScannedRows[Newest].closed THEN Newest + 1 ELSE Newest

Open ==
  /\ mode = "recovering" /\ Planned = {}
  /\ IF Intact
     THEN /\ mode' = "open"
          /\ current' = Reopened
          /\ IF Reopened \in DOMAIN file
             THEN file' = file /\ row' = ScannedRows
             ELSE /\ file' = With(file, Reopened, {})
                  /\ row' = Saved(ScannedRows, Reopened, FreshRow)
          /\ total' = Bytes(row')
          /\ known' = checkpoint
     ELSE mode' = "refused" /\ UNCHANGED <<current, file, row, total, known>>
  /\ UNCHANGED <<frame, archive, target, observed, checkpoint, pin, writer, poisoned, commit, pinning,
                 upkeep, fresh>>

-----------------------------------------------------------------------------
Ingest == Write \/ CreateSegment \/ CreateFails \/ AppendFrame

Maintenance ==
  \/ ArchiveStart \/ ArchiveCopy \/ ArchiveRecord
  \/ CompactStart \/ CompactRead \/ CompactEvaluate \/ CompactPlan \/ CompactEnd

Deletion == Unlink \/ Complete

Clients ==
  \/ \E t \in Targets : RegisterTarget(t) \/ RetireTarget(t) \/ Observe(t)
  \/ \E t \in Targets, q \in 1..Len(frame) : CommitTransaction(t, q)
  \/ CommitRemembered
  \/ \E p \in Pins, from, through \in 1..Len(frame) : PinRead(p, from, through)
  \/ PinCheck \/ PinTransaction
  \/ \E p \in Pins : ReleasePin(p)

Next == Ingest \/ Maintenance \/ Deletion \/ Clients \/ Crash \/ Start \/ Open

Spec == Init /\ [][Next]_vars

\* A supervisor restarts the process; recovery and a started job run on.
FairSpec == Spec /\ WF_vars(Start) /\ WF_vars(Open) /\ WF_vars(Deletion)

-----------------------------------------------------------------------------
(* Properties *)

Statuses == {"active", "retired"}

TypeOK ==
  /\ frame \in Seq([segment : Nat, end : Nat])
  /\ row \in Seq([bytes : Nat, first : Nat, last : Nat, closed : BOOLEAN, archived : BOOLEAN,
                  gc : {"hot", "planned", "complete"}])
  /\ DOMAIN file \subseteq Nat /\ \A s \in DOMAIN file : file[s] \subseteq Nat
  /\ DOMAIN archive \subseteq Nat /\ \A s \in DOMAIN archive : archive[s] \subseteq Nat
  /\ target \in [Targets -> [status : Statuses, start : Nat] \cup {None}]
  /\ observed \subseteq Targets
  /\ checkpoint \in [Targets -> Nat] /\ known \in [Targets -> Nat]
  /\ pin \in [Pins -> [from : Nat, through : Nat] \cup {None}]
  /\ mode \in {"down", "recovering", "open", "refused"}
  /\ writer \in {"idle", "create", "append"} /\ poisoned \in BOOLEAN
  /\ current \in Nat /\ total \in Nat
  /\ commit \in [target : Targets, sequence : Nat] \cup {None}
  /\ pinning \in [id : Pins, from : Nat, through : Nat, checked : BOOLEAN] \cup {None}
  /\ job \in {"idle", "copy", "record", "settle", "evaluate", "plan", "delete"}
  /\ todo \subseteq Nat /\ fresh \subseteq {"gc", "pin"}

\* entry(): the row says whether the file or the archived copy is read.
Readable(q) ==
  LET s == frame[q].segment
  IN IF row[s].gc = "complete"
     THEN row[s].archived /\ s \in DOMAIN archive /\ q \in archive[s]
     ELSE s \in DOMAIN file /\ q \in file[s]

\* Every indexed frame can be read for ever: from its file, from the archive
\* its row names, or (while its file is being deleted) from the archive the
\* row will name next.
FramesSurvive ==
  \A q \in DOMAIN frame :
    LET s == frame[q].segment
    IN \/ Readable(q)
       \/ row[s].gc = "planned" /\ row[s].archived /\ s \in DOMAIN archive /\ q \in archive[s]

\* A pinned range is readable at every moment, also while compaction runs:
\* a pin and a deletion that race never both succeed.
PinnedReadable ==
  \A p \in Pins : pin[p] # None =>
    \A q \in pin[p].from..pin[p].through : Readable(q)

\* A segment is only given up when, at that very step, every target that is
\* not retired has durably committed past it, no pin covers it and no
\* unregistered reader has been seen, whatever changed since the evaluation.
SafeToDelete(s) ==
  /\ observed \subseteq Registered
  /\ \A t \in Registered :
       target[t].status # "retired" => Bigger(target[t].start, checkpoint[t]) >= row[s].last
  /\ \A p \in Pins : pin[p] # None => ~Overlaps(s, pin[p])

DeletesRespectProtection ==
  [][\A s \in Segments : row[s].gc = "hot" /\ row'[s].gc = "planned" => SafeToDelete(s)]_vars

\* A committed checkpoint never moves back, through races and restarts.
CheckpointsAdvance ==
  [][\A t \in Targets : checkpoint'[t] >= checkpoint[t]]_vars

\* totalBytes, which admission compares with the high water, is the size of
\* the segment files; while a file is being deleted it is never too small.
Held(s) == IF s \in DOMAIN file THEN Cardinality(file[s]) ELSE 0
FileBytes == SumOf([n \in Segments |-> Held(n)])

TotalMatchesFiles ==
  mode = "open" =>
    /\ total >= FileBytes
    /\ job # "delete" => total = FileBytes

\* No interrupted rotation, archive job or compaction leaves a directory
\* that initialize() rejects.
StartupNeverRefuses == mode # "refused"

\* Neither maintenance nor a crash leaves a state that the next startup, or the
\* admission that trusts the running total, could not go on from.
RestartFindsWhatWasLeft == TypeOK /\ StartupNeverRefuses /\ TotalMatchesFiles

\* What decides about deletion is true at the step that decides, and the
\* progress it rests on is never taken back.
ProtectionHolds == DeletesRespectProtection /\ CheckpointsAdvance

\* If the process eventually stays up, a planned deletion is carried out.
DeletionsFinish ==
  (<>[][~Crash]_vars) =>
    \A n \in 1..MaxFrames :
      (n \in Planned) ~> (n \in Segments /\ row[n].gc = "complete")

\* A deletion that was planned is carried out, was right to plan, and loses
\* nothing, also beside a log that cannot create its next segment.
DeletionsComplete == []FramesSurvive /\ DeletesRespectProtection /\ DeletionsFinish
=============================================================================
