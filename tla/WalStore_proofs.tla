--------------------------- MODULE WalStore_proofs ---------------------------
(***************************************************************************)
(* Proofs about WalStore for every set of callers, identities and hashes   *)
(* and every limit.                                                        *)
(***************************************************************************)
EXTENDS WalStore, FiniteSetTheorems, TLAPS

\* The frames are numbered in file order and name what they accept.
NumberedInv ==
  \A n \in 1..Len(disk) :
    /\ disk[n].seq = n
    /\ disk[n].kind = "accepted" => disk[n].id \in Ids /\ disk[n].hash \in Hashes

\* The identity index holds exactly the indexed accepted frames, and the one
\* frame that may be unindexed does not contradict it.
IdentityInv ==
  /\ \A n \in 1..Len(index) :
       disk[n].kind = "accepted" => accepted[disk[n].id] = disk[n].hash
  /\ \A i \in Ids :
       accepted[i] # None =>
         \E n \in 1..Len(index) :
           disk[n].kind = "accepted" /\ disk[n].id = i /\ disk[n].hash = accepted[i]
  /\ Len(disk) = Len(index) + 1 /\ disk[Len(disk)].kind = "accepted"
       => accepted[disk[Len(disk)].id] = None

\* A partial write is the last thing in the newest, still open file, and no
\* write follows it in this process.
TornInv ==
  /\ closed \subseteq 0..files
  /\ tornAt # 0 =>
       /\ tornAt = Len(disk) + 1
       /\ Len(disk) = Len(index)
       /\ files \notin closed
       /\ mode = "open" => writeError

\* While the writer is healthy, log and index differ only between the write
\* and the index transaction of the running append.
WriterInv ==
  /\ mode # "open" => phase = "idle"
  /\ phase # "idle" => ~writeError /\ queue # <<>> /\ work \in Frames
  /\ mode = "open" /\ ~writeError =>
       /\ current = files
       /\ phase # "index" => Len(disk) = Len(index)
       /\ phase # "create" => files \notin closed
  /\ phase \in {"rotate", "create", "write"} =>
       /\ work.seq = Len(index) + 1
       /\ work.kind = "accepted" =>
            work.id \in Ids /\ work.hash \in Hashes /\ accepted[work.id] = None
  /\ phase # "idle" /\ work.kind = "conflict" =>
       work.id \in Ids /\ work.hash \in Hashes /\ accepted[work.id] # work.hash
  /\ phase = "index" => Len(disk) = Len(index) + 1 /\ disk[Len(disk)] = work
  /\ phase = "answer" => Len(index) > 0 /\ disk[Len(index)] = work

\* Every queued caller waits with a request of its own, and the running append
\* writes the record of the caller at the head.
QueueInv ==
  /\ \A k \in 1..Len(queue) : request[queue[k]] \in Requests
  /\ \A j, k \in 1..Len(queue) : queue[j] = queue[k] => j = k
  /\ phase # "idle" => work.id = Pending.id /\ work.hash = Pending.hash
  /\ phase # "idle" => (work.kind = "rejected" <=> Pending = Rejection)

\* The writer's sizes are those of the files whenever it is in order, and the
\* frame of the running append fits into the file it is written to and the log.
SizeInv ==
  /\ \A n \in 1..Len(disk) : disk[n].segment \in 1..files
  /\ WithinLimits
  /\ mode = "open" => files > 0
  /\ mode = "open" /\ ~writeError => total = Len(disk) /\ size = Cardinality(FramesIn(files))
  /\ phase \in {"rotate", "create"} => work.segment = current + 1
  /\ phase = "write" => work.segment = current /\ size + 1 <= SegmentMax
  /\ phase \in {"rotate", "create", "write"} => total + 1 <= MaxTotal

IInv ==
  /\ TypeOK
  /\ IndexFollowsDisk
  /\ NumberedInv
  /\ AcceptedOnce
  /\ IdentityInv
  /\ TornInv
  /\ WriterInv
  /\ QueueInv
  /\ AnswersAreDurable
  /\ StartupNeverRefuses
  /\ SizeInv

-----------------------------------------------------------------------------
(* Lemmas about the operators the actions are built from. *)

\* Recording a frame in the accepted namespace keeps it a partial map from
\* identities to hashes.
LEMMA RememberType ==
  ASSUME accepted \in [Ids -> Hashes \cup {None}], NEW f \in Frames
  PROVE  Remember(f) \in [Ids -> Hashes \cup {None}]
BY DEF Remember, Frames

\* What a frame says is one of the answers a caller can get.
LEMMA AnswerType ==
  ASSUME NEW f \in Frames
  PROVE  AnswerOf(f) \in Answers
BY DEF AnswerOf, Frames, Kinds, Answers

\* The frames of one segment are finitely many.
LEMMA SegmentSizeType ==
  ASSUME disk \in Seq(Frames), NEW s
  PROVE  Cardinality(FramesIn(s)) \in Nat
<1>1. IsFiniteSet(1..Len(disk))
  BY FS_Interval
<1>2. FramesIn(s) \subseteq 1..Len(disk)
  BY DEF FramesIn
<1> QED
  BY <1>1, <1>2, FS_Subset, FS_CardinalityType

\* The frames of a segment before and after a frame is written.
LEMMA SegmentAppended ==
  ASSUME disk \in Seq(Frames), NEW f \in Frames, disk' = Append(disk, f), NEW s
  PROVE  Cardinality(FramesIn(s)') = Cardinality(FramesIn(s)) + (IF f.segment = s THEN 1 ELSE 0)
<1> DEFINE n == Len(disk) + 1
<1>1. Len(disk) \in Nat /\ DOMAIN disk = 1..Len(disk) /\ DOMAIN disk' = 1..n
  OBVIOUS
<1>2. disk'[n] = f /\ \A m \in 1..Len(disk) : disk'[m] = disk[m]
  OBVIOUS
<1>3. IsFiniteSet(FramesIn(s)) /\ n \notin FramesIn(s)
  <2>1. FramesIn(s) \subseteq 1..Len(disk) /\ n \notin 1..Len(disk)
    BY <1>1 DEF FramesIn
  <2>2. IsFiniteSet(1..Len(disk))
    BY <1>1, FS_Interval
  <2> HIDE DEF n
  <2> QED
    BY <2>1, <2>2, FS_Subset
<1>4. FramesIn(s)' = IF f.segment = s THEN FramesIn(s) \cup {n} ELSE FramesIn(s)
  <2>1. 1..n = (1..Len(disk)) \cup {n}
    BY <1>1
  <2> HIDE DEF n
  <2> QED
    BY <1>1, <1>2, <2>1 DEF FramesIn
<1>5. Cardinality(FramesIn(s)) \in Nat
  BY <1>3, FS_CardinalityType
<1>6. Cardinality(FramesIn(s) \cup {n}) = Cardinality(FramesIn(s)) + 1
  <2> HIDE DEF n
  <2> QED
    BY <1>3, FS_AddElement
<1> HIDE DEF n
<1> QED
  BY <1>4, <1>5, <1>6

\* What a process loses when it ends is initialised again.
LEMMA LostType ==
  ASSUME Lost
  PROVE  /\ closing' \in BOOLEAN /\ writeError' \in BOOLEAN
         /\ current' \in Nat /\ size' \in Nat /\ total' \in Nat
         /\ queue' \in Seq(Callers)
         /\ phase' = "idle"
         /\ work' \in Frames \cup {None}
         /\ request' \in [Callers -> Requests \cup {None}]
<1>1. request' \in [Callers -> Requests \cup {None}]
  BY DEF Lost
<1>2. queue' \in Seq(Callers)
  BY DEF Lost
<1> QED
  BY <1>1, <1>2 DEF Lost

\* A log that a step leaves alone or appends a frame to stays a log.
LEMMA AppendType ==
  ASSUME NEW s \in Seq(Frames), NEW f \in Frames, NEW t, t = s \/ t = Append(s, f)
  PROVE  t \in Seq(Frames)
OBVIOUS

-----------------------------------------------------------------------------
(* Type correctness is preserved where the writer is in order. *)

LEMMA TypeStep == IInv /\ [Next]_vars => TypeOK'
<1> SUFFICES ASSUME IInv, [Next]_vars PROVE TypeOK'
  OBVIOUS
<1> USE ConstantsAssumption DEF TypeOK
<1>1. TypeOK /\ WriterInv /\ QueueInv
  BY DEF IInv
<1> USE <1>1
<1>2. ASSUME NEW c \in Callers, NEW r \in Requests, Submit(c, r) PROVE TypeOK'
  BY <1>2 DEF Submit, durable
<1>3. CASE RefusePoisoned
  BY <1>3 DEF RefusePoisoned, Starting, Leave, durable
<1>4. CASE AnswerDuplicate
  BY <1>4 DEF AnswerDuplicate, Starting, Leave, Answer, Answers, Duplicate, Envelopes, durable
<1>5. CASE RefuseSpace
  BY <1>5 DEF RefuseSpace, Starting, Leave, durable
<1>6. CASE Admit
  <2>1. Pending \in Requests
    BY <1>6 DEF Admit, Starting, QueueInv, Pending
  <2>2. KindsOf(Pending) \subseteq Kinds
    BY DEF KindsOf, Kinds
  <2>3. PICK k \in KindsOf(Pending) :
          work' = [seq |-> Len(index) + 1,
                   segment |-> IF RotationDue THEN current + 1 ELSE current,
                   kind |-> k, id |-> Pending.id, hash |-> Pending.hash]
    BY <1>6 DEF Admit
  <2>4. work' \in Frames
    BY <2>1, <2>2, <2>3 DEF Frames, Requests, Envelopes, Rejection
  <2> QED
    BY <1>6, <2>4 DEF Admit, durable
<1>7. CASE CloseSegment
  BY <1>7 DEF CloseSegment
<1>8. CASE CreateSegment
  BY <1>8 DEF CreateSegment
<1>9. CASE WriteFrame
  BY <1>9 DEF WriteFrame, WriterInv
<1>10. CASE IndexFrame
  <2>1. work \in Frames
    BY <1>10 DEF IndexFrame, WriterInv
  <2> QED
    BY <1>10, <2>1, RememberType DEF IndexFrame
<1>11. CASE AnswerWritten
  <2>1. work \in Frames /\ queue # <<>>
    BY <1>11 DEF AnswerWritten, WriterInv
  <2>2. Answer(AnswerOf(work)) \in
          [id : Ids \cup {None}, hash : Hashes \cup {None}, answer : Answers]
    BY <1>11, <2>1, AnswerType DEF AnswerWritten, QueueInv, Answer, Frames
  <2> QED
    BY <1>11, <2>1, <2>2 DEF AnswerWritten, Leave, durable
<1>12. CASE FailRotate
  BY <1>12 DEF FailRotate, Poison, Leave, WriterInv
<1>13. CASE FailCreate
  BY <1>13 DEF FailCreate, Poison, Leave, WriterInv
<1>14. CASE FailWrite
  <2>1. work \in Frames /\ queue # <<>>
    BY <1>14 DEF FailWrite, WriterInv
  <2>2. tornAt' \in Nat
    BY <1>14 DEF FailWrite
  <2>3. disk' \in Seq(Frames)
    <3>1. disk' = disk \/ disk' = Append(disk, work)
      BY <1>14 DEF FailWrite
    <3> QED
      BY <2>1, <3>1, AppendType
  <2> QED
    BY <1>14, <2>1, <2>2, <2>3 DEF FailWrite, Poison, Leave
<1>15. CASE FailIndex
  <2>1. work \in Frames /\ queue # <<>>
    BY <1>15 DEF FailIndex, WriterInv
  <2>2. index' \in Seq(Frames)
    <3>1. index' = index \/ index' = Append(index, work)
      BY <1>15 DEF FailIndex
    <3> QED
      BY <2>1, <3>1, AppendType
  <2>3. accepted' \in [Ids -> Hashes \cup {None}]
    BY <1>15, <2>1, RememberType DEF FailIndex
  <2> QED
    BY <1>15, <2>1, <2>2, <2>3 DEF FailIndex, Poison, Leave
<1>16. CASE RecoverFrame
  <2>1. disk[Len(index) + 1] \in Frames
    BY <1>16 DEF RecoverFrame
  <2>2. index' \in Seq(Frames)
    <3>1. index' = index \/ index' = Append(index, disk[Len(index) + 1])
      BY <1>16 DEF RecoverFrame
    <3> QED
      BY <2>1, <3>1, AppendType
  <2>3. accepted' \in [Ids -> Hashes \cup {None}]
    BY <1>16, <2>1, RememberType DEF RecoverFrame
  <2>4. mode' \in {"recovering", "refused"}
    BY <1>16 DEF RecoverFrame
  <2> QED
    BY <1>16, <2>2, <2>3, <2>4 DEF RecoverFrame
<1>17. CASE RecoverTail
  BY <1>17 DEF RecoverTail, Scanned
<1>18. CASE RecoverSegment
  BY <1>18 DEF RecoverSegment, Scanned, memory
<1>19. CASE Opened
  BY <1>19, SegmentSizeType DEF Opened, RecoveredSizes
<1>20. CASE Close
  BY <1>20 DEF Close, durable
<1>21. CASE Closed
  BY <1>21 DEF Closed, Lost, durable
<1>22. CASE Crash
  <2>1. tornAt' \in Nat
    BY <1>22 DEF Crash
  <2> QED
    BY <1>22, <2>1, LostType DEF Crash
<1>23. CASE Start
  BY <1>23 DEF Start, durable
<1>24. CASE UNCHANGED vars
  BY <1>24 DEF vars
<1> QED
  BY <1>2, <1>3, <1>4, <1>5, <1>6, <1>7, <1>8, <1>9, <1>10, <1>11, <1>12, <1>13, <1>14, <1>15, <1>16, <1>17, <1>18, <1>19, <1>20, <1>21, <1>22, <1>23, <1>24 DEF Next, Writer, Recovery

-----------------------------------------------------------------------------
(* What a step can do to the log, its index and the identity index. *)

\* The recovery scan accepts the unindexed frame, if there is one.
LEMMA UnindexedIsIndexable ==
  ASSUME IInv, Len(index) < Len(disk)
  PROVE  Len(disk) = Len(index) + 1 /\ Indexable(disk[Len(disk)])
<1> USE DEF IInv
<1>1. Len(disk) \in Nat /\ Len(index) \in Nat
  BY DEF TypeOK
<1>2. Len(disk) = Len(index) + 1
  BY <1>1 DEF IndexFollowsDisk
<1>3. tornAt # Len(index) + 1
  BY <1>1, <1>2 DEF TornInv
<1>4. disk[Len(disk)].seq = Len(index) + 1
  BY <1>1, <1>2 DEF NumberedInv
<1>5. disk[Len(disk)].kind = "accepted" => accepted[disk[Len(disk)].id] = None
  BY <1>2 DEF IdentityInv
<1> QED
  BY <1>2, <1>3, <1>4, <1>5 DEF Indexable

Untouched == disk' = disk /\ index' = index /\ accepted' = accepted
Written   == /\ phase = "write"
             /\ disk' = Append(disk, work) /\ index' = index /\ accepted' = accepted
Indexed   == /\ Len(disk) = Len(index) + 1
             /\ disk' = disk
             /\ index' = Append(index, disk[Len(disk)])
             /\ accepted' = Remember(disk[Len(disk)])

LEMMA LogEffect ==
  ASSUME IInv, [Next]_vars
  PROVE  Untouched \/ Written \/ Indexed
<1> USE DEF Untouched, Written, Indexed
<1>1. ASSUME NEW c \in Callers, NEW r \in Requests, Submit(c, r) PROVE Untouched
  BY <1>1 DEF Submit, durable
<1>2. CASE RefusePoisoned \/ AnswerDuplicate \/ RefuseSpace \/ Admit \/ AnswerWritten
  BY <1>2 DEF RefusePoisoned, AnswerDuplicate, RefuseSpace, Admit, AnswerWritten, durable
<1>3. CASE CloseSegment \/ CreateSegment \/ FailRotate \/ FailCreate
  BY <1>3 DEF CloseSegment, CreateSegment, FailRotate, FailCreate
<1>4. CASE WriteFrame \/ FailWrite
  BY <1>4 DEF WriteFrame, FailWrite
<1>5. CASE IndexFrame \/ FailIndex
  BY <1>5 DEF IndexFrame, FailIndex, IInv, WriterInv
<1>6. CASE RecoverFrame
  <2>1. Len(disk) = Len(index) + 1
    BY <1>6, UnindexedIsIndexable DEF RecoverFrame
  <2> QED
    BY <1>6, <2>1 DEF RecoverFrame
<1>7. CASE RecoverTail \/ RecoverSegment \/ Opened
  BY <1>7 DEF RecoverTail, RecoverSegment, Opened
<1>8. CASE Close \/ Closed \/ Crash \/ Start
  BY <1>8 DEF Close, Closed, Crash, Start, durable
<1>9. CASE UNCHANGED vars
  BY <1>9 DEF vars
<1> QED
  BY <1>1, <1>2, <1>3, <1>4, <1>5, <1>6, <1>7, <1>8, <1>9 DEF Next, Writer, Recovery

\* The index stays a prefix of the log, at most one frame behind.
LEMMA LogStep ==
  ASSUME IInv, [Next]_vars
  PROVE  IndexFollowsDisk' /\ NumberedInv'
<1>1. /\ disk \in Seq(Frames) /\ index \in Seq(Frames)
      /\ IndexFollowsDisk /\ NumberedInv
  BY DEF IInv, TypeOK
<1>2. CASE Untouched
  BY <1>1, <1>2 DEF Untouched, IndexFollowsDisk, NumberedInv
<1>3. CASE Written
  <2>1. /\ Len(disk) = Len(index) /\ work \in Frames /\ work.seq = Len(disk) + 1
        /\ work.kind = "accepted" => work.id \in Ids /\ work.hash \in Hashes
    BY <1>3 DEF Written, IInv, WriterInv, TypeOK
  <2>2. Len(disk') = Len(disk) + 1 /\ disk'[Len(disk) + 1] = work
    BY <1>1, <1>3, <2>1 DEF Written
  <2>3. \A n \in 1..Len(disk) : disk'[n] = disk[n]
    BY <1>1, <1>3, <2>1 DEF Written
  <2> QED
    BY <1>1, <1>3, <2>1, <2>2, <2>3 DEF Written, IndexFollowsDisk, NumberedInv
<1>4. CASE Indexed
  <2>1. disk[Len(disk)] \in Frames
    BY <1>1, <1>4 DEF Indexed
  <2>2. Len(index') = Len(disk) /\ index'[Len(disk)] = disk[Len(disk)]
    BY <1>1, <1>4, <2>1 DEF Indexed
  <2>3. \A n \in 1..Len(index) : index'[n] = index[n]
    BY <1>1, <1>4, <2>1 DEF Indexed
  <2> QED
    BY <1>1, <1>4, <2>2, <2>3 DEF Indexed, IndexFollowsDisk, NumberedInv
<1> QED
  BY <1>2, <1>3, <1>4, LogEffect

\* The identity index stays exact and an identity is accepted once.
LEMMA IdentityStep ==
  ASSUME IInv, [Next]_vars
  PROVE  AcceptedOnce' /\ IdentityInv'
<1> USE ConstantsAssumption
<1>1. /\ disk \in Seq(Frames) /\ index \in Seq(Frames)
      /\ accepted \in [Ids -> Hashes \cup {None}]
      /\ IndexFollowsDisk /\ NumberedInv /\ AcceptedOnce /\ IdentityInv
  BY DEF IInv, TypeOK
<1>2. CASE Untouched
  BY <1>1, <1>2 DEF Untouched, AcceptedOnce, IdentityInv
<1>3. CASE Written
  <2>1. /\ Len(disk) = Len(index) /\ work \in Frames
        /\ work.kind = "accepted" =>
             work.id \in Ids /\ work.hash \in Hashes /\ accepted[work.id] = None
    BY <1>3 DEF Written, IInv, WriterInv, TypeOK
  <2>2. Len(disk') = Len(disk) + 1 /\ disk'[Len(disk) + 1] = work
    BY <1>1, <1>3, <2>1 DEF Written
  <2>3. \A n \in 1..Len(disk) : disk'[n] = disk[n]
    BY <1>1, <1>3, <2>1 DEF Written
  <2>4. \A n \in 1..Len(disk) :
          disk[n].kind = "accepted" /\ work.kind = "accepted" => disk[n].id # work.id
    BY <1>1, <2>1 DEF IdentityInv, NumberedInv
  <2>5. AcceptedOnce'
    BY <1>1, <2>2, <2>3, <2>4 DEF AcceptedOnce
  <2>6. IdentityInv'
    BY <1>1, <1>3, <2>1, <2>2, <2>3 DEF Written, IdentityInv
  <2> QED
    BY <2>5, <2>6
<1>4. CASE Indexed
  <2> DEFINE f == disk[Len(disk)]
  <2>1. Len(disk) \in Nat /\ Len(index) \in Nat /\ Len(disk) = Len(index) + 1 /\ f \in Frames
    BY <1>1, <1>4 DEF Indexed
  <2>2. Len(index') = Len(disk) /\ disk' = disk
    BY <1>1, <1>4, <2>1 DEF Indexed
  <2>3. AcceptedOnce'
    BY <1>1, <2>2 DEF AcceptedOnce
  <2>4. CASE f.kind # "accepted"
    <3>1. accepted' = accepted
      BY <1>4, <2>4 DEF Indexed, Remember
    <3> QED
      BY <1>1, <2>1, <2>2, <2>3, <2>4, <3>1 DEF IdentityInv
  <2>5. CASE f.kind = "accepted"
    <3>1. accepted' = [accepted EXCEPT ![f.id] = f.hash] /\ f.id \in Ids /\ f.hash \in Hashes
      BY <1>1, <1>4, <2>1, <2>5 DEF Indexed, Remember, NumberedInv
    <3>2. \A n \in 1..Len(index) : disk[n].kind = "accepted" => disk[n].id # f.id
      BY <1>1, <2>1, <2>5 DEF AcceptedOnce
    <3>3. \A n \in 1..Len(index') : disk[n].kind = "accepted" => accepted'[disk[n].id] = disk[n].hash
      BY <1>1, <2>1, <2>2, <3>1, <3>2 DEF IdentityInv, NumberedInv
    <3>4. ASSUME NEW i \in Ids, accepted'[i] # None
          PROVE  \E n \in 1..Len(index') :
                   disk[n].kind = "accepted" /\ disk[n].id = i /\ disk[n].hash = accepted'[i]
      BY <1>1, <2>1, <2>2, <2>5, <3>1, <3>4 DEF IdentityInv
    <3> QED
      BY <2>1, <2>2, <2>3, <3>3, <3>4 DEF IdentityInv
  <2> QED
    BY <2>4, <2>5
<1> QED
  BY <1>2, <1>3, <1>4, LogEffect

-----------------------------------------------------------------------------
(* The files and the writer. *)

LEMMA TornStep ==
  ASSUME IInv, [Next]_vars
  PROVE  TornInv'
<1>1. TypeOK /\ IndexFollowsDisk /\ TornInv /\ WriterInv
  BY DEF IInv
<1> USE <1>1 DEF TypeOK, TornInv
<1>2. ASSUME NEW c \in Callers, NEW r \in Requests, Submit(c, r) PROVE TornInv'
  BY <1>2 DEF Submit, durable
<1>3. CASE RefusePoisoned \/ AnswerDuplicate \/ RefuseSpace \/ Admit \/ AnswerWritten
  BY <1>3 DEF RefusePoisoned, AnswerDuplicate, RefuseSpace, Admit, AnswerWritten, durable
<1>4. CASE CloseSegment
  BY <1>4 DEF CloseSegment, WriterInv
<1>5. CASE CreateSegment
  BY <1>5 DEF CreateSegment, WriterInv
<1>6. CASE WriteFrame
  BY <1>6 DEF WriteFrame, WriterInv
<1>7. CASE IndexFrame
  BY <1>7 DEF IndexFrame, WriterInv
<1>8. CASE FailRotate \/ FailCreate
  BY <1>8 DEF FailRotate, FailCreate, Poison, WriterInv
<1>9. CASE FailWrite
  BY <1>9 DEF FailWrite, Poison, WriterInv
<1>10. CASE FailIndex
  BY <1>10 DEF FailIndex, Poison, WriterInv
<1>11. CASE RecoverFrame
  BY <1>11 DEF RecoverFrame, IndexFollowsDisk
<1>12. CASE RecoverTail
  BY <1>12 DEF RecoverTail, Scanned
<1>13. CASE RecoverSegment
  BY <1>13 DEF RecoverSegment, Scanned, memory
<1>14. CASE Opened
  BY <1>14 DEF Opened, Scanned
<1>15. CASE Close \/ Closed \/ Start
  BY <1>15 DEF Close, Closed, Start, durable
<1>16. CASE Crash
  BY <1>16 DEF Crash, WriterInv
<1>17. CASE UNCHANGED vars
  BY <1>17 DEF vars
<1> QED
  BY <1>2, <1>3, <1>4, <1>5, <1>6, <1>7, <1>8, <1>9, <1>10, <1>11, <1>12, <1>13, <1>14, <1>15,
     <1>16, <1>17 DEF Next, Writer, Recovery

\* Startup completes: every check of the recovery scan holds.
LEMMA StartStep ==
  ASSUME IInv, [Next]_vars
  PROVE  StartupNeverRefuses'
<1>1. TypeOK /\ TornInv /\ StartupNeverRefuses
  BY DEF IInv
<1> USE DEF StartupNeverRefuses
<1>2. CASE RecoverFrame
  <2>1. Len(disk) = Len(index) + 1 /\ Indexable(disk[Len(disk)])
    BY <1>2, UnindexedIsIndexable DEF RecoverFrame
  <2> QED
    BY <1>2, <2>1 DEF RecoverFrame
<1>3. CASE RecoverTail
  BY <1>1, <1>3 DEF RecoverTail, Scanned, TornInv
<1>4. CASE Opened \/ Closed \/ Crash \/ Start
  BY <1>4 DEF Opened, Closed, Crash, Start
<1>5. ASSUME NEW c \in Callers, NEW r \in Requests, Submit(c, r) PROVE StartupNeverRefuses'
  BY <1>1, <1>5 DEF Submit
<1>6. CASE \/ RefusePoisoned \/ AnswerDuplicate \/ RefuseSpace \/ Admit \/ CloseSegment
           \/ CreateSegment \/ WriteFrame \/ IndexFrame \/ AnswerWritten
  BY <1>1, <1>6 DEF RefusePoisoned, AnswerDuplicate, RefuseSpace, Admit, CloseSegment,
       CreateSegment, WriteFrame, IndexFrame, AnswerWritten
<1>7. CASE FailRotate \/ FailCreate \/ FailWrite \/ FailIndex
  BY <1>1, <1>7 DEF FailRotate, FailCreate, FailWrite, FailIndex, Poison
<1>8. CASE RecoverSegment \/ Close \/ UNCHANGED vars
  BY <1>1, <1>8 DEF RecoverSegment, Close, memory, vars
<1> QED
  BY <1>2, <1>3, <1>4, <1>5, <1>6, <1>7, <1>8 DEF Next, Writer, Recovery

LEMMA WriterStep ==
  ASSUME IInv, [Next]_vars
  PROVE  WriterInv'
<1>1. TypeOK /\ TypeOK' /\ IndexFollowsDisk /\ TornInv /\ WriterInv /\ QueueInv
  BY TypeStep DEF IInv
<1>2. Len(disk) \in Nat /\ Len(index) \in Nat
  BY <1>1 DEF TypeOK
<1>3. ASSUME NEW c \in Callers, NEW r \in Requests, Submit(c, r) PROVE WriterInv'
  <2>1. queue' # <<>>
    <3>1. queue \in Seq(Callers) /\ queue' = Append(queue, c)
      BY <1>1, <1>3 DEF Submit, TypeOK
    <3>2. Len(queue') = Len(queue) + 1 /\ Len(queue) \in Nat
      BY <3>1
    <3> QED
      BY <3>2
  <2> QED
    BY <1>1, <1>3, <2>1 DEF Submit, durable, WriterInv
<1>4. CASE RefusePoisoned \/ AnswerDuplicate \/ RefuseSpace
  BY <1>1, <1>4 DEF RefusePoisoned, AnswerDuplicate, RefuseSpace, Starting, Leave, durable, WriterInv
<1>5. CASE Admit
  <2>1. Starting /\ ~writeError /\ phase' \in {"rotate", "write"}
    BY <1>5 DEF Admit
  <2>2. Pending \in Requests
    BY <1>1, <2>1 DEF Starting, QueueInv, Pending, TypeOK
  <2>3. PICK k \in KindsOf(Pending) :
          work' = [seq |-> Len(index) + 1,
                   segment |-> IF RotationDue THEN current + 1 ELSE current,
                   kind |-> k, id |-> Pending.id, hash |-> Pending.hash]
    BY <1>5 DEF Admit
  <2>4. work'.seq = Len(index) + 1 /\ work'.kind = k /\ work'.id = Pending.id
        /\ work'.hash = Pending.hash
    BY <2>3
  <2>5. k = "accepted" =>
          Pending.id \in Ids /\ Pending.hash \in Hashes /\ accepted[Pending.id] = None
    BY <2>2 DEF KindsOf, Requests, Envelopes
  <2>6. k = "conflict" =>
          Pending.id \in Ids /\ Pending.hash \in Hashes /\ accepted[Pending.id] # Pending.hash
    BY <1>5, <2>2 DEF Admit, Duplicate, KindsOf, Requests, Envelopes
  <2>7. k \in Kinds
    BY DEF KindsOf, Kinds
  <2>8. work' \in Frames
    BY <1>1, <2>2, <2>3, <2>7 DEF TypeOK, Frames, Requests, Envelopes, Rejection
  <2> QED
    BY <1>1, <1>5, <2>1, <2>4, <2>5, <2>6, <2>8 DEF Admit, Starting, durable, WriterInv
<1>6. CASE CloseSegment
  BY <1>1, <1>6 DEF CloseSegment, WriterInv
<1>7. CASE CreateSegment
  BY <1>1, <1>7 DEF CreateSegment, WriterInv, TornInv, TypeOK
<1>8. CASE WriteFrame
  <2>1. Len(disk') = Len(disk) + 1 /\ disk'[Len(disk) + 1] = work
    BY <1>1, <1>8 DEF WriteFrame, WriterInv, TypeOK
  <2> QED
    BY <1>1, <1>2, <1>8, <2>1 DEF WriteFrame, WriterInv
<1>9. CASE IndexFrame
  <2>1. Len(index') = Len(index) + 1 /\ index' # <<>>
    BY <1>1, <1>9 DEF IndexFrame, WriterInv, TypeOK
  <2>2. work.kind = "conflict" => accepted' = accepted
    BY <1>9 DEF IndexFrame, Remember
  <2> QED
    BY <1>1, <1>2, <1>9, <2>1, <2>2 DEF IndexFrame, WriterInv
<1>10. CASE AnswerWritten
  BY <1>1, <1>10 DEF AnswerWritten, Leave, durable, WriterInv
<1>11. CASE FailRotate \/ FailCreate \/ FailWrite \/ FailIndex
  BY <1>1, <1>11 DEF FailRotate, FailCreate, FailWrite, FailIndex, Poison, Leave, WriterInv
<1>12. CASE RecoverFrame \/ RecoverTail \/ RecoverSegment
  BY <1>1, <1>12 DEF RecoverFrame, RecoverTail, RecoverSegment, Scanned, memory, WriterInv
<1>13. CASE Opened
  BY <1>1, <1>13 DEF Opened, RecoveredSizes, Scanned, WriterInv, TypeOK
<1>14. CASE Closed \/ Crash
  BY <1>14 DEF Closed, Crash, Lost, WriterInv
<1>15. CASE Close \/ Start
  BY <1>1, <1>15 DEF Close, Start, durable, WriterInv
<1>16. CASE UNCHANGED vars
  BY <1>1, <1>16 DEF vars, WriterInv
<1> QED
  BY <1>3, <1>4, <1>5, <1>6, <1>7, <1>8, <1>9, <1>10, <1>11, <1>12, <1>13, <1>14, <1>15, <1>16
     DEF Next, Writer, Recovery

\* When a write leaves the queue the other callers keep their places.
LEMMA LeaveQueue ==
  ASSUME TypeOK, QueueInv, queue # <<>>, Leave
  PROVE  QueueInv'
<1>1. queue \in Seq(Callers) /\ Len(queue) \in Nat /\ Len(queue) > 0
  BY DEF TypeOK
<1>2. /\ Len(queue') = Len(queue) - 1
      /\ \A k \in 1..Len(queue') : queue'[k] = queue[k + 1]
      /\ Head(queue) = queue[1]
  BY <1>1 DEF Leave
<1>3. \A k \in 1..Len(queue') : k + 1 \in 1..Len(queue) /\ queue[k + 1] # queue[1]
  BY <1>1, <1>2 DEF QueueInv
<1>4. \A k \in 1..Len(queue') : request'[queue'[k]] \in Requests
  <2> TAKE k \in 1..Len(queue')
  <2>1. request'[queue'[k]] = request[queue[k + 1]]
    BY <1>1, <1>2, <1>3 DEF Leave, TypeOK
  <2> QED
    BY <1>3, <2>1 DEF QueueInv
<1>5. \A j, k \in 1..Len(queue') : queue'[j] = queue'[k] => j = k
  <2> TAKE j, k \in 1..Len(queue')
  <2>1. queue[j + 1] = queue[k + 1] => j + 1 = k + 1
    BY <1>3 DEF QueueInv
  <2> QED
    BY <1>1, <1>2, <2>1
<1> QED
  BY <1>4, <1>5 DEF QueueInv, Leave

\* A caller that waits for nothing is not queued.
LEMMA SubmitQueue ==
  ASSUME TypeOK, WriterInv, QueueInv, NEW c \in Callers, NEW r \in Requests, Submit(c, r)
  PROVE  QueueInv'
<1>1. /\ queue \in Seq(Callers) /\ Len(queue) \in Nat
      /\ queue' = Append(queue, c)
      /\ request' = [request EXCEPT ![c] = r]
      /\ request[c] = None
      /\ work' = work /\ phase' = phase
  BY DEF Submit, TypeOK
<1>2. Len(queue') = Len(queue) + 1 /\ queue'[Len(queue) + 1] = c
  BY <1>1
<1>3. \A k \in 1..Len(queue) : queue'[k] = queue[k] /\ queue[k] # c /\ queue[k] \in Callers
  BY <1>1, NoneAssumption DEF QueueInv
<1>4. \A k \in 1..Len(queue) : request'[queue'[k]] = request[queue[k]]
  BY <1>1, <1>3 DEF TypeOK
<1>5. \A k \in 1..Len(queue') : request'[queue'[k]] \in Requests
  BY <1>1, <1>2, <1>4 DEF QueueInv, TypeOK
<1>6. \A j, k \in 1..Len(queue') : queue'[j] = queue'[k] => j = k
  BY <1>1, <1>2, <1>3 DEF QueueInv
<1>7. phase # "idle" => request'[Head(queue')] = request[Head(queue)]
  <2> HAVE phase # "idle"
  <2>1. Len(queue) > 0
    BY <1>1 DEF WriterInv
  <2>2. Head(queue') = queue'[1] /\ Head(queue) = queue[1]
    BY <1>1, <1>2, <2>1
  <2> QED
    BY <1>1, <1>4, <2>1, <2>2
<1> QED
  BY <1>1, <1>5, <1>6, <1>7 DEF QueueInv, Pending

LEMMA QueueStep ==
  ASSUME IInv, [Next]_vars
  PROVE  QueueInv'
<1>1. TypeOK /\ WriterInv /\ QueueInv
  BY DEF IInv
<1>2. ASSUME NEW c \in Callers, NEW r \in Requests, Submit(c, r) PROVE QueueInv'
  BY <1>1, <1>2, SubmitQueue
<1>3. CASE RefusePoisoned \/ AnswerDuplicate \/ RefuseSpace
  BY <1>1, <1>3, LeaveQueue DEF RefusePoisoned, AnswerDuplicate, RefuseSpace, Starting
<1>4. CASE AnswerWritten \/ FailRotate \/ FailCreate \/ FailWrite \/ FailIndex
  BY <1>1, <1>4, LeaveQueue
     DEF AnswerWritten, FailRotate, FailCreate, FailWrite, FailIndex, Poison, WriterInv
<1>5. CASE Admit
  <2>1. queue' = queue /\ request' = request /\ phase = "idle" /\ queue # <<>>
    BY <1>5 DEF Admit, Starting
  <2>2. PICK k \in KindsOf(Pending) :
          work' = [seq |-> Len(index) + 1,
                   segment |-> IF RotationDue THEN current + 1 ELSE current,
                   kind |-> k, id |-> Pending.id, hash |-> Pending.hash]
    BY <1>5 DEF Admit
  <2>3. work'.id = Pending.id /\ work'.hash = Pending.hash /\ work'.kind = k
    BY <2>2
  <2>4. k = "rejected" <=> Pending = Rejection
    BY <2>2 DEF KindsOf
  <2>5. Pending' = Pending
    BY <2>1 DEF Pending
  <2> QED
    BY <1>1, <2>1, <2>3, <2>4, <2>5 DEF QueueInv
<1>6. CASE CloseSegment \/ CreateSegment \/ WriteFrame \/ IndexFrame
  BY <1>1, <1>6 DEF CloseSegment, CreateSegment, WriteFrame, IndexFrame, QueueInv, Pending
<1>7. CASE RecoverFrame \/ RecoverTail \/ Opened
  BY <1>1, <1>7 DEF RecoverFrame, RecoverTail, Opened, QueueInv, Pending
<1>8. CASE RecoverSegment \/ Close \/ Start \/ UNCHANGED vars
  BY <1>1, <1>8 DEF RecoverSegment, Close, Start, memory, vars, QueueInv, Pending
<1>9. CASE Closed \/ Crash
  BY <1>9 DEF Closed, Crash, Lost, QueueInv
<1> QED
  BY <1>2, <1>3, <1>4, <1>5, <1>6, <1>7, <1>8, <1>9 DEF Next, Writer, Recovery

-----------------------------------------------------------------------------
(* Answers. *)

\* A step gives at most one new answer, and the log vouches for it.
Justified(a) ==
  /\ a.answer \in {"accepted", "duplicate"} =>
       a.id \in Ids /\ a.hash \in Hashes /\ accepted[a.id] = a.hash
  /\ a.answer = "conflict" =>
       a.id \in Ids /\ a.hash \in Hashes /\ accepted[a.id] \notin {None, a.hash}
  /\ a.answer = "semantic_conflict" =>
       a.id \in Ids /\ a.hash \in Hashes /\ accepted[a.id] = None
  /\ a.answer = "rejected" => a.id = None /\ a.hash = None

AnswerEntries == [id : Ids \cup {None}, hash : Hashes \cup {None}, answer : Answers]

LEMMA NewAnswer ==
  ASSUME IInv, [Next]_vars
  PROVE  \/ answered' = answered
         \/ /\ Untouched
            /\ \E a \in AnswerEntries : answered' = answered \cup {a} /\ Justified(a)
<1> USE DEF AnswerEntries
<1>1. TypeOK /\ WriterInv /\ QueueInv
  BY DEF IInv
<1>2. CASE AnswerDuplicate
  <2>1. Pending \in Envelopes /\ accepted[Pending.id] = Pending.hash
    BY <1>2 DEF AnswerDuplicate, Duplicate
  <2>2. Answer("duplicate") \in AnswerEntries /\ Justified(Answer("duplicate"))
    BY <2>1 DEF Answer, Answers, Justified, Envelopes
  <2> QED
    BY <1>2, <2>2 DEF AnswerDuplicate, Untouched, durable
<1>3. CASE AnswerWritten
  <2> DEFINE a == Answer(AnswerOf(work))
  <2>1. work \in Frames /\ work = disk[Len(index)] /\ Len(index) > 0 /\ Len(index) \in Nat
    BY <1>1, <1>3 DEF AnswerWritten, WriterInv, TypeOK
  <2>2. a = [id |-> work.id, hash |-> work.hash, answer |-> AnswerOf(work)]
    BY <1>1, <1>3 DEF AnswerWritten, QueueInv, Answer
  <2>3. a.id = work.id /\ a.hash = work.hash /\ a.answer = AnswerOf(work)
    BY <2>2
  <2>4. a \in AnswerEntries
    BY <2>1, <2>2, AnswerType DEF Frames
  <2> HIDE DEF a
  <2>5. ASSUME work.kind = "accepted" PROVE Justified(a)
    <3>1. work.id \in Ids /\ work.hash \in Hashes /\ accepted[work.id] = work.hash
      BY <2>1, <2>5 DEF IInv, IdentityInv, NumberedInv, IndexFollowsDisk, TypeOK
    <3> QED
      BY <2>3, <2>5, <3>1 DEF Justified, AnswerOf
  <2>6. ASSUME work.kind = "conflict" PROVE Justified(a)
    <3>1. work.id \in Ids /\ work.hash \in Hashes /\ accepted[work.id] # work.hash
      BY <1>1, <1>3, <2>6 DEF AnswerWritten, WriterInv
    <3> QED
      BY <2>3, <2>6, <3>1 DEF Justified, AnswerOf
  <2>7. ASSUME work.kind = "rejected" PROVE Justified(a)
    <3>1. work.id = None /\ work.hash = None
      BY <1>1, <1>3, <2>7 DEF AnswerWritten, QueueInv, Rejection
    <3> QED
      BY <2>3, <2>7, <3>1 DEF Justified, AnswerOf
  <2>8. Justified(a)
    BY <2>1, <2>5, <2>6, <2>7 DEF Frames, Kinds
  <2> QED
    BY <1>3, <2>4, <2>8 DEF AnswerWritten, Untouched, durable, a
<1>4. ASSUME NEW c \in Callers, NEW r \in Requests, Submit(c, r) PROVE answered' = answered
  BY <1>4 DEF Submit
<1>5. CASE \/ RefusePoisoned \/ RefuseSpace \/ Admit \/ CloseSegment \/ CreateSegment
           \/ WriteFrame \/ IndexFrame
  BY <1>5 DEF RefusePoisoned, RefuseSpace, Admit, CloseSegment, CreateSegment, WriteFrame, IndexFrame
<1>6. CASE FailRotate \/ FailCreate \/ FailWrite \/ FailIndex
  BY <1>6 DEF FailRotate, FailCreate, FailWrite, FailIndex, Poison
<1>7. CASE RecoverFrame \/ RecoverTail \/ RecoverSegment \/ Opened
  BY <1>7 DEF RecoverFrame, RecoverTail, RecoverSegment, Opened
<1>8. CASE Close \/ Closed \/ Crash \/ Start \/ UNCHANGED vars
  BY <1>8 DEF Close, Closed, Crash, Start, vars
<1> QED
  BY <1>2, <1>3, <1>4, <1>5, <1>6, <1>7, <1>8 DEF Next, Writer, Recovery

LEMMA AnswerStep ==
  ASSUME IInv, [Next]_vars
  PROVE  AnswersAreDurable'
<1> USE ConstantsAssumption
<1>1. /\ disk \in Seq(Frames) /\ index \in Seq(Frames) /\ work \in Frames \cup {None}
      /\ IndexFollowsDisk /\ IdentityInv /\ AnswersAreDurable
  BY DEF IInv, TypeOK
<1>2. Len(index') >= Len(index) /\ Len(index) \in Nat /\ Len(index') \in Nat
      /\ \A n \in 1..Len(index) : disk'[n] = disk[n]
  <2>1. CASE Untouched
    BY <1>1, <2>1 DEF Untouched
  <2>2. CASE Written
    <3>1. work \in Frames
      BY <2>2 DEF Written, IInv, WriterInv
    <3> QED
      BY <1>1, <2>2, <3>1 DEF Written, IndexFollowsDisk
  <2>3. CASE Indexed
    <3>1. disk[Len(disk)] \in Frames
      BY <1>1, <2>3 DEF Indexed
    <3> QED
      BY <1>1, <2>3, <3>1 DEF Indexed
  <2> QED
    BY <2>1, <2>2, <2>3, LogEffect
<1>3. SUFFICES ASSUME NEW a \in answered', a.answer \in {"accepted", "duplicate"}
               PROVE  \E n \in 1..Len(index') :
                        disk'[n].kind = "accepted" /\ disk'[n].id = a.id /\ disk'[n].hash = a.hash
  BY DEF AnswersAreDurable
<1>4. \E n \in 1..Len(index) :
        disk[n].kind = "accepted" /\ disk[n].id = a.id /\ disk[n].hash = a.hash
  <2>1. CASE a \in answered
    BY <1>1, <1>3, <2>1 DEF AnswersAreDurable
  <2>2. CASE a \notin answered
    <3>1. Justified(a)
      BY <2>2, NewAnswer
    <3>2. a.id \in Ids /\ accepted[a.id] = a.hash /\ a.hash # None
      BY <1>3, <3>1 DEF Justified
    <3> QED
      BY <1>1, <3>2 DEF IdentityInv
  <2> QED
    BY <2>1, <2>2
<1> QED
  BY <1>2, <1>4

-----------------------------------------------------------------------------
(* The sizes the writer computes with are those of the files. *)

\* Neither the log nor the files change: the limits hold as they did.
LEMMA SameFiles ==
  ASSUME IInv, disk' = disk, files' \in {files, files + 1}
  PROVE  /\ \A n \in 1..Len(disk') : disk'[n].segment \in 1..files'
         /\ WithinLimits'
<1>1. /\ files \in Nat /\ disk \in Seq(Frames) /\ WithinLimits
      /\ \A n \in 1..Len(disk) : disk[n].segment \in 1..files
  BY DEF IInv, TypeOK, SizeInv
<1>2. \A n \in 1..Len(disk') : disk'[n].segment \in 1..files'
  BY <1>1
<1>3. \A s : FramesIn(s)' = FramesIn(s)
  BY DEF FramesIn
<1>4. ASSUME NEW s \in 1..files' PROVE Cardinality(FramesIn(s)') <= SegmentMax
  <2>1. CASE s \in 1..files
    BY <1>1, <1>3, <2>1 DEF WithinLimits
  <2>2. CASE s \notin 1..files
    <3>1. FramesIn(s) = {}
      BY <1>1, <2>2 DEF FramesIn
    <3> QED
      BY <1>3, <3>1, FS_EmptySet, ConstantsAssumption
  <2> QED
    BY <2>1, <2>2
<1> QED
  BY <1>1, <1>2, <1>4 DEF WithinLimits

\* A frame is written to the newest file.
LEMMA FrameWritten ==
  ASSUME IInv, NEW f \in Frames, disk' = Append(disk, f), files' = files, files > 0,
         f.segment = files, Len(disk) + 1 <= MaxTotal,
         Cardinality(FramesIn(files)) + 1 <= SegmentMax
  PROVE  /\ \A n \in 1..Len(disk') : disk'[n].segment \in 1..files'
         /\ WithinLimits'
         /\ Len(disk') = Len(disk) + 1
         /\ Cardinality(FramesIn(files)') = Cardinality(FramesIn(files)) + 1
<1>1. /\ files \in Nat /\ disk \in Seq(Frames) /\ WithinLimits
      /\ \A n \in 1..Len(disk) : disk[n].segment \in 1..files
  BY DEF IInv, TypeOK, SizeInv
<1>2. Len(disk) \in Nat /\ Len(disk') = Len(disk) + 1
  BY <1>1
<1>3. \A n \in 1..Len(disk') : disk'[n].segment \in 1..files'
  BY <1>1, <1>2
<1>4. ASSUME NEW s \in 1..files PROVE Cardinality(FramesIn(s)') <= SegmentMax
  <2>1. Cardinality(FramesIn(s)') = Cardinality(FramesIn(s)) + (IF f.segment = s THEN 1 ELSE 0)
    BY <1>1, SegmentAppended
  <2>2. Cardinality(FramesIn(s)) \in Nat /\ Cardinality(FramesIn(s)) <= SegmentMax
    BY <1>1, SegmentSizeType DEF WithinLimits
  <2> QED
    BY <2>1, <2>2
<1>5. Cardinality(FramesIn(files)') = Cardinality(FramesIn(files)) + 1
  BY <1>1, SegmentAppended
<1> QED
  BY <1>2, <1>3, <1>4, <1>5 DEF WithinLimits

LEMMA SizeStep ==
  ASSUME IInv, [Next]_vars
  PROVE  SizeInv'
<1>1. TypeOK /\ TypeOK' /\ WriterInv /\ WriterInv' /\ SizeInv /\ StartupNeverRefuses
  BY TypeStep, WriterStep DEF IInv
<1>2. /\ files \in Nat /\ disk \in Seq(Frames) /\ Len(disk) \in Nat
      /\ size \in Nat /\ total \in Nat /\ current \in Nat /\ SegmentMax \in Nat \ {0}
      /\ MaxTotal \in Nat
  BY <1>1, ConstantsAssumption DEF TypeOK
\* The writer's part of the invariant, when the files stay as they are.
<1>3. ASSUME UNCHANGED <<disk, files>>, \/ UNCHANGED <<total, size>>
                                        \/ mode' # "open" \/ writeError',
             mode' = "open" => mode = "open" /\ (~writeError' => ~writeError),
             \/ UNCHANGED <<current, work, size, total, phase>>
             \/ phase' \notin {"rotate", "create", "write"}
             \/ phase = "rotate" /\ phase' = "create" /\ UNCHANGED <<current, work, total>>
      PROVE  SizeInv'
  <2>1. WithinLimits' /\ \A n \in 1..Len(disk') : disk'[n].segment \in 1..files'
    BY <1>3, SameFiles
  <2>2. FramesIn(files)' = FramesIn(files)
    BY <1>3 DEF FramesIn
  <2> QED
    BY <1>1, <1>3, <2>1, <2>2 DEF SizeInv
<1>4. ASSUME NEW c \in Callers, NEW r \in Requests, Submit(c, r) PROVE SizeInv'
  BY <1>3, <1>4 DEF Submit, durable
<1>5. CASE RefusePoisoned \/ AnswerDuplicate \/ RefuseSpace \/ AnswerWritten
  BY <1>3, <1>5 DEF RefusePoisoned, AnswerDuplicate, RefuseSpace, AnswerWritten, Leave, durable
<1>6. CASE Admit
  <2>1. /\ mode = "open" /\ ~writeError /\ total + 1 <= MaxTotal
        /\ UNCHANGED <<disk, files, mode, writeError, current, size, total>>
        /\ work'.segment = (IF RotationDue THEN current + 1 ELSE current)
        /\ phase' = IF RotationDue THEN "rotate" ELSE "write"
    BY <1>6 DEF Admit, Starting, durable
  <2>2. WithinLimits' /\ \A n \in 1..Len(disk') : disk'[n].segment \in 1..files'
    BY <2>1, SameFiles
  <2>3. FramesIn(files)' = FramesIn(files)
    BY <2>1 DEF FramesIn
  <2>4. ~RotationDue => size + 1 <= SegmentMax
    BY <1>2 DEF RotationDue
  <2> QED
    BY <1>1, <2>1, <2>2, <2>3, <2>4 DEF SizeInv
<1>7. CASE CloseSegment
  BY <1>3, <1>7 DEF CloseSegment
<1>8. CASE CreateSegment
  <2>1. /\ phase = "create" /\ phase' = "write" /\ disk' = disk /\ files = current /\ files' = files + 1
        /\ current' = current + 1 /\ size' = 0
        /\ UNCHANGED <<mode, writeError, work, total>>
    BY <1>8 DEF CreateSegment
  <2>2. WithinLimits' /\ \A n \in 1..Len(disk') : disk'[n].segment \in 1..files'
    BY <2>1, SameFiles
  <2>3. Cardinality(FramesIn(files)') = 0
    <3>1. FramesIn(files)' = {}
      BY <1>1, <1>2, <2>1 DEF FramesIn, SizeInv
    <3> QED
      BY <3>1, FS_EmptySet
  <2>4. mode = "open" /\ ~writeError
    BY <1>1, <2>1 DEF WriterInv, TypeOK
  <2> QED
    BY <1>1, <1>2, <2>1, <2>2, <2>3, <2>4 DEF SizeInv
<1>9. ASSUME phase = "write"
      PROVE  /\ mode = "open" /\ ~writeError /\ work \in Frames /\ work.segment = files /\ files > 0
             /\ Len(disk) + 1 <= MaxTotal /\ Cardinality(FramesIn(files)) + 1 <= SegmentMax
             /\ total = Len(disk) /\ size = Cardinality(FramesIn(files))
  BY <1>1, <1>9 DEF WriterInv, SizeInv, TypeOK
<1>10. CASE WriteFrame
  <2>1. /\ phase = "write" /\ phase' = "index" /\ disk' = Append(disk, work) /\ files' = files
        /\ size' = size + 1 /\ total' = total + 1 /\ UNCHANGED <<mode, writeError>>
    BY <1>10 DEF WriteFrame
  <2>2. /\ \A n \in 1..Len(disk') : disk'[n].segment \in 1..files'
        /\ WithinLimits' /\ Len(disk') = Len(disk) + 1
        /\ Cardinality(FramesIn(files)') = Cardinality(FramesIn(files)) + 1
    BY <1>9, <2>1, FrameWritten
  <2> QED
    BY <1>1, <1>9, <2>1, <2>2 DEF SizeInv
<1>11. CASE IndexFrame
  BY <1>3, <1>11 DEF IndexFrame
<1>12. CASE FailRotate \/ FailIndex
  BY <1>3, <1>12 DEF FailRotate, FailIndex, Poison, Leave
<1>13. CASE FailCreate
  <2>1. /\ phase = "create" /\ phase' = "idle" /\ disk' = disk /\ files' \in {files, current + 1}
        /\ mode' = mode /\ writeError' = TRUE
    BY <1>13 DEF FailCreate, Poison, Leave
  <2>2. mode = "open" /\ current = files
    BY <1>1, <2>1 DEF WriterInv, TypeOK
  <2>3. WithinLimits' /\ \A n \in 1..Len(disk') : disk'[n].segment \in 1..files'
    BY <2>1, <2>2, SameFiles
  <2> QED
    BY <1>1, <1>2, <2>1, <2>2, <2>3 DEF SizeInv
<1>14. CASE FailWrite
  <2>1. /\ phase = "write" /\ phase' = "idle" /\ files' = files /\ mode' = mode /\ writeError' = TRUE
        /\ disk' = disk \/ disk' = Append(disk, work)
    BY <1>14 DEF FailWrite, Poison, Leave
  <2>2. WithinLimits' /\ \A n \in 1..Len(disk') : disk'[n].segment \in 1..files'
    BY <1>9, <2>1, SameFiles, FrameWritten
  <2> QED
    BY <1>1, <1>9, <2>1, <2>2 DEF SizeInv
<1>15. CASE RecoverFrame \/ RecoverTail
  BY <1>1, <1>3, <1>15 DEF RecoverFrame, RecoverTail, Scanned, WriterInv
<1>16. CASE RecoverSegment
  <2>1. mode' = "recovering" /\ phase' = "idle" /\ disk' = disk /\ files' = files + 1
    BY <1>1, <1>16 DEF RecoverSegment, Scanned, memory, WriterInv
  <2>2. WithinLimits' /\ \A n \in 1..Len(disk') : disk'[n].segment \in 1..files'
    BY <2>1, SameFiles
  <2> QED
    BY <2>1, <2>2 DEF SizeInv
<1>17. CASE Opened
  <2>1. /\ phase' = "idle" /\ disk' = disk /\ files' = files /\ files # 0
        /\ total' = Len(disk) /\ size' = Cardinality(FramesIn(files))
    BY <1>1, <1>17 DEF Opened, RecoveredSizes, Scanned, WriterInv
  <2>2. WithinLimits' /\ \A n \in 1..Len(disk') : disk'[n].segment \in 1..files'
    BY <2>1, SameFiles
  <2>3. FramesIn(files)' = FramesIn(files)
    BY <2>1 DEF FramesIn
  <2> QED
    BY <1>2, <2>1, <2>2, <2>3 DEF SizeInv
<1>18. CASE Closed \/ Crash
  BY <1>3, <1>18 DEF Closed, Crash, Lost, durable
<1>19. CASE Close \/ Start
  BY <1>1, <1>3, <1>19 DEF Close, Start, durable
<1>20. CASE UNCHANGED vars
  BY <1>1, <1>3, <1>20 DEF vars
<1> QED
  BY <1>4, <1>5, <1>6, <1>7, <1>8, <1>10, <1>11, <1>12, <1>13, <1>14, <1>15, <1>16, <1>17, <1>18,
     <1>19, <1>20 DEF Next, Writer, Recovery

-----------------------------------------------------------------------------
(* The theorems. *)

LEMMA InitIInv == Init => IInv
<1> SUFFICES ASSUME Init PROVE IInv
  OBVIOUS
<1> USE DEF Init
<1>1. TypeOK
  <2>1. disk \in Seq(Frames) /\ index \in Seq(Frames) /\ queue \in Seq(Callers)
    OBVIOUS
  <2>2. accepted \in [Ids -> Hashes \cup {None}] /\ request \in [Callers -> Requests \cup {None}]
    OBVIOUS
  <2> QED
    BY <2>1, <2>2 DEF TypeOK
<1>2. IndexFollowsDisk /\ NumberedInv /\ AcceptedOnce /\ IdentityInv
  BY DEF IndexFollowsDisk, NumberedInv, AcceptedOnce, IdentityInv
<1>3. TornInv /\ WriterInv
  BY DEF TornInv, WriterInv
<1>4. QueueInv /\ AnswersAreDurable /\ StartupNeverRefuses
  BY DEF QueueInv, AnswersAreDurable, StartupNeverRefuses
<1>5. SizeInv
  <2>1. WithinLimits
    BY ConstantsAssumption DEF WithinLimits
  <2> QED
    BY <2>1 DEF SizeInv
<1> QED
  BY <1>1, <1>2, <1>3, <1>4, <1>5 DEF IInv

\* The inductive invariant: what the log, its SQLite index, the writer and the
\* queue agree on at every step, including every crash and failed write.
THEOREM Inductive == Spec => []IInv
<1>1. IInv /\ [Next]_vars => IInv'
  BY TypeStep, LogStep, IdentityStep, TornStep, WriterStep, QueueStep, AnswerStep, StartStep,
     SizeStep DEF IInv
<1> QED
  BY <1>1, InitIInv, PTL DEF Spec

\* Every reachable state of the write path is well typed.
THEOREM TypeCorrect == Spec => []TypeOK
<1>1. IInv => TypeOK
  BY DEF IInv
<1> QED
  BY <1>1, Inductive, PTL

\* A record reported as accepted or duplicate is in the log and its index in
\* every later state, whatever crashed or failed in between.
THEOREM Durability == Spec => []AnswersAreDurable
<1>1. IInv => AnswersAreDurable
  BY DEF IInv
<1> QED
  BY <1>1, Inductive, PTL

\* No identity is accepted twice.
THEOREM ExactlyOnce == Spec => []AcceptedOnce
<1>1. IInv => AcceptedOnce
  BY DEF IInv
<1> QED
  BY <1>1, Inductive, PTL

\* Recovery never meets files it must reject, and the index lags the log by at
\* most the frame whose transaction did not commit.
THEOREM Recoverable == Spec => [](StartupNeverRefuses /\ IndexFollowsDisk)
<1>1. IInv => StartupNeverRefuses /\ IndexFollowsDisk
  BY DEF IInv
<1> QED
  BY <1>1, Inductive, PTL

\* The sizes, counts and positions the writer decides by are those of the files, and
\* neither a segment nor the log outgrows its limit, through failed writes, crashes
\* and recoveries.
THEOREM Accounted == Spec => []DiskIsAccounted
<1>1. IInv => DiskIsAccounted
  BY DEF IInv, SizeInv, WriterInv, DiskIsAccounted, SizesMatchFiles
<1> QED
  BY <1>1, Inductive, PTL

\* WalStore implements IngestLedger: committing an index row is the ledger's
\* Store, giving an answer is its Reply, every other step is invisible.
THEOREM Refinement == Spec => ImplementsLedger
<1> USE DEF Ledger!Next, Ledger!Store, Ledger!Reply, Ledger!ReplyRejected, Ledger!Agrees
<1>1. Init => Ledger!Init
  BY DEF Init, Ledger!Init
<1>2. ASSUME IInv, [Next]_vars
      PROVE  [Ledger!Next]_<<accepted, answered>>
  <2>1. CASE answered' = answered
    <3>1. CASE accepted' = accepted
      BY <2>1, <3>1
    <3>2. CASE accepted' # accepted
      <4> DEFINE f == disk[Len(disk)]
      <4>1. Indexed /\ f.kind = "accepted"
        BY <1>2, <3>2, LogEffect DEF Untouched, Written, Indexed, Remember
      <4>2. f.id \in Ids /\ f.hash \in Hashes /\ accepted[f.id] = None
        BY <1>2, <4>1 DEF Indexed, IInv, IdentityInv, NumberedInv, TypeOK
      <4>3. accepted' = [accepted EXCEPT ![f.id] = f.hash]
        BY <4>1 DEF Indexed, Remember
      <4> QED
        BY <2>1, <4>2, <4>3
    <3> QED
      BY <3>1, <3>2
  <2>2. CASE answered' # answered
    <3>1. accepted' = accepted
      BY <1>2, <2>2, NewAnswer DEF Untouched
    <3>2. PICK a \in AnswerEntries : answered' = answered \cup {a} /\ Justified(a)
      BY <1>2, <2>2, NewAnswer
    <3>3. a = [id |-> a.id, hash |-> a.hash, answer |-> a.answer] /\ a.answer \in Answers
      BY <3>2 DEF AnswerEntries
    <3>4. CASE a.answer = "rejected"
      BY <3>1, <3>2, <3>3, <3>4 DEF Justified
    <3>5. CASE a.answer # "rejected"
      <4>1. /\ a.id \in Ids /\ a.hash \in Hashes
            /\ a.answer \in {"accepted", "duplicate", "conflict", "semantic_conflict"}
            /\ Ledger!Agrees(a.id, a.hash, a.answer)
        BY <3>2, <3>3, <3>5 DEF Justified, Answers
      <4>2. Ledger!Reply(a.id, a.hash, a.answer)
        BY <3>1, <3>2, <3>3, <4>1
      <4> QED
        BY <4>1, <4>2
    <3> QED
      BY <3>4, <3>5
  <2> QED
    BY <2>1, <2>2
<1> QED
  BY <1>1, <1>2, Inductive, PTL DEF Spec, ImplementsLedger, Ledger!Spec
=============================================================================
