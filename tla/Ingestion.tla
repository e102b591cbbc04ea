----------------------------- MODULE Ingestion -----------------------------
(* The internal OTLP endpoint (apps/server.ts:98, apps/processor.ts) and    *)
(* what the log remembers of a provider's history (wal.ts:37-45, 143-197):  *)
(* a batch of the Collector is collected record by record, several requests *)
(* at a time, each record is classified and assessed against the index and  *)
(* appended in one serialised operation, and the worst result answers the   *)
(* batch. The Collector keeps a batch until it is answered with something   *)
(* that is not to be retried, and may give up waiting and send it again.    *)
(*                                                                          *)
(* A record says what the index keys are taken from; an identity that the   *)
(* record does not have, or a missing revision, terminal or sequence, is    *)
(* None. The free space, queue and size limits that refuse an append for    *)
(* now are one choice.                                                      *)
EXTENDS Integers, Sequences

CONSTANTS
    Records,    \* name -> [ingress, valid, id, hash, identity, revision, terminal, sequence]
    Batches,    \* name -> a sequence of names of records
    Requests,   \* requests the server may be handling at a time
    None,
    MaxFaults   \* refusals, failed writes, crashes and impatient resends

\* A valid record's hash covers its recordId (canonical.ts:15), and the source is
\* always smpp (processor.ts:81): records of one hash have one id.
ASSUME ConstantsAssumption ==
    /\ \A b \in DOMAIN Batches : Batches[b] \in Seq(DOMAIN Records)
    /\ \A r \in DOMAIN Records : Records[r].sequence \in Int \cup {None}
    /\ None \notin Int /\ None \notin DOMAIN Batches
    /\ Requests \cap {"queued", "200", "400", "409"} = {}
    /\ \A r, s \in DOMAIN Records :
         Records[r].valid /\ Records[s].valid /\ Records[r].hash = Records[s].hash =>
           Records[r].id = Records[s].id

VARIABLES
    log,        \* the frames: kind, record and what was assessed
    index,      \* the namespaces of the SQLite state
    indexed,    \* how many frames the index has
    writing,    \* requests that are in the serialised operation
    alive,      \* "up", "broken" (WAL_WRITE_FAILED_RESTART_REQUIRED) or "down"
    request,    \* request -> the batch, the results so far
    collector,  \* batch -> "queued", the request it waits for or the status answered
    faults

vars == <<log, index, indexed, writing, alive, request, collector, faults>>

Free == [batch |-> None, results |-> <<>>]

Init ==
    /\ log = <<>> /\ indexed = 0
    /\ index = [accepted |-> <<>>, revision |-> <<>>, terminal |-> <<>>,
                sequence |-> <<>>, maximum |-> <<>>]
    /\ writing = {}
    /\ alive = "up"
    /\ request = [q \in Requests |-> Free]
    /\ collector = [b \in DOMAIN Batches |-> "queued"]
    /\ faults = 0

Fault == faults < MaxFaults /\ faults' = faults + 1

----------------------------------------------------------------------------
(* wal.ts                                                                   *)
\* key is in a namespace of the index with another value.
Differs(namespace, key, value) == key \in DOMAIN namespace /\ namespace[key] # value

\* Put key under value, unless there is nothing to put.
Put(namespace, present, key, value) ==
    IF ~present THEN namespace
    ELSE [n \in DOMAIN namespace \cup {key} |-> IF n = key THEN value ELSE namespace[n]]

Largest(a, b) == IF a < b THEN b ELSE a

\* indexOperations: what an accepted frame leaves in the index.
Indexed(ix, frame) ==
    LET r == Records[frame.record]
        known == r.identity # None
        sequenced == known /\ r.sequence # None
    IN
    IF frame.kind # "accepted" THEN ix
    ELSE [accepted |-> Put(ix.accepted, TRUE, r.id, r.hash),
          revision |-> Put(ix.revision, known /\ r.revision # None,
                           <<r.identity, r.revision>>, r.hash),
          terminal |-> Put(ix.terminal, known /\ r.terminal # None, r.identity, r.terminal),
          sequence |-> Put(ix.sequence, sequenced, <<r.identity, r.sequence>>, r.hash),
          maximum  |-> Put(ix.maximum, sequenced, r.identity,
                           IF r.identity \in DOMAIN ix.maximum
                           THEN Largest(r.sequence, ix.maximum[r.identity]) ELSE r.sequence)]

Classification(r) ==
    IF r.id \notin DOMAIN index.accepted THEN "new"
    ELSE IF index.accepted[r.id] = r.hash THEN "duplicate" ELSE "conflict"

RevisionConflict(r) ==
    r.revision # None /\ Differs(index.revision, <<r.identity, r.revision>>, r.hash)
TerminalConflict(r) ==
    r.terminal # None /\ Differs(index.terminal, r.identity, r.terminal)
SequenceConflict(r) ==
    r.sequence # None /\ Differs(index.sequence, <<r.identity, r.sequence>>, r.hash)

Blocked(r) ==
    r.identity # None /\ (RevisionConflict(r) \/ TerminalConflict(r) \/ SequenceConflict(r))

\* What is said of the order of an event, in the frame that accepts it.
Quality(r) ==
    IF r.identity = None \/ r.sequence = None \/ r.identity \notin DOMAIN index.maximum
    THEN "accepted"
    ELSE CASE r.sequence < index.maximum[r.identity]     -> "out-of-order"
           [] r.sequence > index.maximum[r.identity] + 1 -> "gap"
           [] OTHER -> "accepted"

\* The frame that appendClassified writes for a record that is no duplicate.
Classified(name) ==
    LET r == Records[name] IN
    IF Classification(r) = "new" /\ ~Blocked(r)
    THEN [kind |-> "accepted", record |-> name, quality |-> Quality(r)]
    ELSE [kind |-> "conflict", record |-> name, quality |-> "accepted"]

----------------------------------------------------------------------------
(* processor.ts                                                             *)
Busy(q) == request[q].batch # None

\* The record a request collects next.
Ahead(q) == Batches[request[q].batch][Len(request[q].results) + 1]

More(q) == Busy(q) /\ Len(request[q].results) < Len(Batches[request[q].batch])

Result(q, status) == request' = [request EXCEPT ![q].results = Append(@, status)]

\* What is appended for a record: a rejection, or what it is classified as.
Frame(name) ==
    IF Records[name].valid THEN Classified(name)
    ELSE [kind |-> "rejected", record |-> name, quality |-> "accepted"]

Collecting(q) == alive # "down" /\ More(q) /\ writing = {}

\* Neither is written to the log.
Untrusted(q) ==
    /\ Collecting(q)
    /\ Records[Ahead(q)].ingress = "untrusted"
    /\ Result(q, "rejected_permanent")
    /\ UNCHANGED <<log, index, indexed, writing, alive, collector, faults>>

\* The record is to be appended, or is a duplicate.
Appends(q) == Collecting(q) /\ alive = "up" /\ Records[Ahead(q)].ingress = "trusted"

Known(name) == Records[name].valid /\ Classification(Records[name]) = "duplicate"

Duplicate(q) ==
    /\ Appends(q) /\ Known(Ahead(q))
    /\ Result(q, "duplicate")
    /\ UNCHANGED <<log, index, indexed, writing, alive, collector, faults>>

\* The frame is written and synced, and not yet in the index.
WriteFrame(q) ==
    /\ Appends(q) /\ ~Known(Ahead(q))
    /\ log' = Append(log, Frame(Ahead(q)))
    /\ writing' = {q}
    /\ UNCHANGED <<index, indexed, alive, request, collector, faults>>

\* WAL_WRITE_QUEUE_FULL, whatever the record is, or, of one that is not a
\* duplicate, WAL_HIGH_WATER or WAL_DISK_RESERVE_REQUIRED.
Refuse(q) ==
    /\ Appends(q)
    /\ Fault
    /\ Result(q, "rejected_retryable")
    /\ UNCHANGED <<log, index, indexed, writing, alive, collector>>

\* The file or the index fails: nothing is appended until a restart.
WriteFails(q) ==
    /\ Appends(q) /\ ~Known(Ahead(q))
    /\ Fault
    /\ log' \in {log, Append(log, Frame(Ahead(q)))}
    /\ alive' = "broken"
    /\ Result(q, "rejected_retryable")
    /\ UNCHANGED <<index, indexed, writing, collector>>

RefuseBroken(q) ==
    /\ Collecting(q) /\ alive = "broken" /\ Records[Ahead(q)].ingress = "trusted"
    /\ Result(q, "rejected_retryable")
    /\ UNCHANGED <<log, index, indexed, writing, alive, collector, faults>>

ResultOf(kind) ==
    CASE kind = "accepted" -> "accepted"
      [] kind = "conflict" -> "conflict"
      [] kind = "rejected" -> "rejected_permanent"

\* indexFrame: the row of the frame and its index operations in a transaction.
IndexFrame(q) ==
    /\ alive = "up" /\ writing = {q}
    /\ index' = Indexed(index, log[Len(log)])
    /\ indexed' = indexed + 1
    /\ writing' = {}
    /\ Result(q, ResultOf(log[Len(log)].kind))
    /\ UNCHANGED <<log, alive, collector, faults>>

----------------------------------------------------------------------------
(* server.ts                                                                *)
\* Mutant: what must not be retried is told first.
StatusPermanentFirst(results) ==
    LET some(status) == \E k \in DOMAIN results : results[k] = status
    IN IF some("conflict") THEN "409"
       ELSE IF some("rejected_permanent") THEN "400"
       ELSE IF some("rejected_retryable") THEN "503" ELSE "200"
Status(results) ==
    LET some(status) == \E k \in DOMAIN results : results[k] = status
    IN IF some("rejected_retryable") THEN "503"
       ELSE IF some("conflict") THEN "409"
       ELSE IF some("rejected_permanent") THEN "400" ELSE "200"

Send(q, b) ==
    /\ alive # "down" /\ ~Busy(q) /\ collector[b] = "queued"
    /\ request' = [request EXCEPT ![q] = [batch |-> b, results |-> <<>>]]
    /\ collector' = [collector EXCEPT ![b] = q]
    /\ UNCHANGED <<log, index, indexed, writing, alive, faults>>

\* The Collector retries what is answered with 503. The answer of a request
\* that was given up is not heard.
Answer(q) ==
    /\ alive # "down" /\ Busy(q) /\ ~More(q)
    /\ LET b == request[q].batch
           status == Status(request[q].results)
       IN collector' = IF collector[b] # q THEN collector
                       ELSE [collector EXCEPT ![b] = IF status = "503" THEN "queued" ELSE status]
    /\ request' = [request EXCEPT ![q] = Free]
    /\ UNCHANGED <<log, index, indexed, writing, alive, faults>>

\* The Collector gives up waiting and sends the batch again later.
GiveUp(b) ==
    /\ collector[b] \in Requests
    /\ Fault
    /\ collector' = [collector EXCEPT ![b] = "queued"]
    /\ UNCHANGED <<log, index, indexed, writing, alive, request>>

Crash ==
    /\ alive # "down"
    /\ Fault
    /\ alive' = "down"
    /\ writing' = {}
    /\ request' = [q \in Requests |-> Free]
    /\ collector' = [b \in DOMAIN Batches |->
                        IF collector[b] \in Requests THEN "queued" ELSE collector[b]]
    /\ UNCHANGED <<log, index, indexed>>

\* An operator, or the orchestrator, restarts a Processor that cannot write.
Restart ==
    /\ alive = "broken" /\ \A q \in Requests : ~Busy(q)
    /\ alive' = "down"
    /\ UNCHANGED <<log, index, indexed, writing, request, collector, faults>>

\* Mutant: frames found on disk get their row and nothing else.
RecoveredRowsOnly(ix, frame) == ix
Recovered(ix, frame) == Indexed(ix, frame)

\* initialize: every frame that has no row in the index is indexed.
Start ==
    /\ alive = "down"
    /\ alive' = "up"
    /\ index' = IF indexed < Len(log) THEN Recovered(index, log[indexed + 1]) ELSE index
    /\ indexed' = Len(log)
    /\ UNCHANGED <<log, writing, request, collector, faults>>

Next ==
    \/ \E q \in Requests :
        \/ \E b \in DOMAIN Batches : Send(q, b)
        \/ Untrusted(q) \/ Duplicate(q) \/ WriteFrame(q) \/ Refuse(q) \/ WriteFails(q)
        \/ RefuseBroken(q) \/ IndexFrame(q) \/ Answer(q)
    \/ \E b \in DOMAIN Batches : GiveUp(b)
    \/ Crash \/ Restart \/ Start

Spec == Init /\ [][Next]_vars
----------------------------------------------------------------------------
AcceptedBefore(n) == {k \in 1..n - 1 : log[k].kind = "accepted"}

\* The record of frame k, and two frames of one identity.
RecordAt(k) == Records[log[k].record]

SameSubject(i, k) == RecordAt(i).identity = RecordAt(k).identity /\ RecordAt(i).identity # None

(* The log never contradicts itself: a record is accepted once, one         *)
(* identity has one content for a revision and for a sequence number and    *)
(* one end, and what a frame says of the order is true of the frames before *)
(* it, through concurrent batches, failed writes and restarts.              *)
HistoryIsConsistent ==
    \A k \in 1..Len(log) : log[k].kind = "accepted" =>
        /\ \A i \in AcceptedBefore(k) :
            /\ RecordAt(i).id # RecordAt(k).id
            /\ SameSubject(i, k) =>
                /\ RecordAt(k).revision = None \/ RecordAt(i).revision # RecordAt(k).revision
                /\ RecordAt(k).sequence = None \/ RecordAt(i).sequence # RecordAt(k).sequence
                /\ RecordAt(k).terminal \in {None, RecordAt(i).terminal} \/ RecordAt(i).terminal = None
        /\ log[k].quality = "gap" =>
            \A i \in AcceptedBefore(k) : SameSubject(i, k) /\ RecordAt(i).sequence # None =>
                RecordAt(i).sequence + 1 < RecordAt(k).sequence
        /\ log[k].quality = "out-of-order" =>
            \E i \in AcceptedBefore(k) : SameSubject(i, k) /\ RecordAt(i).sequence # None /\
                RecordAt(i).sequence > RecordAt(k).sequence

(* A batch that the Collector may forget is in the log: every record of it  *)
(* that came from a trusted ingress is there, accepted, as a conflict or as *)
(* a rejection, and each was accepted when the answer was 200.              *)
AnsweredIsLogged ==
    \A b \in DOMAIN Batches : collector[b] \in {"200", "400", "409"} =>
        \A k \in DOMAIN Batches[b] :
            \/ Records[Batches[b][k]].ingress = "untrusted" /\ collector[b] # "200"
            \/ \E i \in 1..Len(log) :
                /\ log[i].record = Batches[b][k] \/ RecordAt(i).hash = Records[Batches[b][k]].hash
                /\ collector[b] = "200" => log[i].kind = "accepted"
============================================================================
