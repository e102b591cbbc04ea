-------------------------- MODULE Ingestion_proofs ---------------------------
(***************************************************************************)
(* Proofs about the way of a record into the log and to the targets:       *)
(* Ingestion for every set of records, of batches and of concurrent        *)
(* requests, and any number of faults; FreeSpace for every capacity and    *)
(* reserve, every set of frame sizes and any number of failures and of     *)
(* changes by others; ProviderOps for all targets and any number of        *)
(* changed fields.                                                         *)
(***************************************************************************)
EXTENDS Ingestion, FreeSpace, ProviderOps, TLAPS

-----------------------------------------------------------------------------
(***************************************************************************)
(* Ingestion                                                               *)
(***************************************************************************)
(* The inductive invariant. *)

Frames == [kind : {"accepted", "conflict", "rejected"}, record : DOMAIN Records,
           quality : {"accepted", "gap", "out-of-order"}]
Statuses == {"accepted", "duplicate", "conflict", "rejected_permanent", "rejected_retryable"}

\* The first n frames of a log that were accepted, and the record of a frame.
Accepted(l, n) == {k \in 1..n : l[k].kind = "accepted"}
Of(l, k) == Records[l[k].record]

\* One append at a time runs between its frame and its index row; unless it was
\* cut off, the index has every frame.
WritingInv ==
    /\ log \in Seq(Frames) /\ indexed \in Nat /\ indexed <= Len(log) /\ Len(log) <= indexed + 1
    /\ \A k \in 1..Len(log) : log[k].kind = "accepted" => Records[log[k].record].valid
    /\ writing # {} =>
        /\ alive = "up" /\ Len(log) = indexed + 1
        /\ \E q \in Requests : writing = {q} /\ More(q) /\ log[Len(log)].record = Ahead(q)
    /\ alive = "up" /\ writing = {} => Len(log) = indexed

\* A frame that has no row is what its record would be classified as now.
UnindexedInv ==
    Len(log) = indexed + 1 =>
        \E name \in DOMAIN Records : log[Len(log)] = Frame(name)

\* The index remembers a record that was accepted.
Remembers(ix, r) ==
    /\ r.id \in DOMAIN ix.accepted /\ ix.accepted[r.id] = r.hash
    /\ r.identity # None =>
        /\ r.revision # None =>
            /\ <<r.identity, r.revision>> \in DOMAIN ix.revision
            /\ ix.revision[<<r.identity, r.revision>>] = r.hash
        /\ r.terminal # None =>
            r.identity \in DOMAIN ix.terminal /\ ix.terminal[r.identity] = r.terminal
        /\ r.sequence # None =>
            /\ <<r.identity, r.sequence>> \in DOMAIN ix.sequence
            /\ ix.sequence[<<r.identity, r.sequence>>] = r.hash
            /\ r.identity \in DOMAIN ix.maximum
            /\ r.sequence <= ix.maximum[r.identity]

\* The index is what the first n frames of the log say, and says nothing more.
Follows(ix, l, n) ==
    /\ \A k \in Accepted(l, n) : Remembers(ix, Of(l, k))
    /\ \A e \in DOMAIN ix.maximum :
        /\ e # None /\ ix.maximum[e] \in Int
        /\ \E k \in Accepted(l, n) :
             Of(l, k).identity = e /\ Of(l, k).sequence = ix.maximum[e]
    /\ \A i \in DOMAIN ix.accepted :
         \E k \in Accepted(l, n) : Of(l, k).hash = ix.accepted[i]

IndexInv == Follows(index, log, indexed)

\* What a result says of the record it is about.
IsLogged(l, name) == \E i \in 1..Len(l) : l[i].record = name
IsAccepted(l, name) ==
    \E i \in Accepted(l, Len(l)) : l[i].record = name \/ Of(l, i).hash = Records[name].hash

Means(l, status, name) ==
    /\ status \in Statuses
    /\ status \in {"accepted", "duplicate"} => IsAccepted(l, name)
    /\ status = "conflict" => IsLogged(l, name)
    /\ status = "rejected_permanent" => IsLogged(l, name) \/ Records[name].ingress = "untrusted"

\* The results of a request mean what they say, as far as they go.
Sound(l, x) ==
    x.batch # None =>
        /\ x.batch \in DOMAIN Batches /\ x.results \in Seq(Statuses)
        /\ Len(x.results) <= Len(Batches[x.batch])
        /\ \A k \in 1..Len(x.results) : Means(l, x.results[k], Batches[x.batch][k])

ResultsInv == \A q \in Requests : Sound(log, request[q])

\* Requests and batches are functions of their domains, and a batch waits, is
\* queued or has been answered with something that is not to be retried.
TablesInv ==
    /\ request = [q \in Requests |-> [batch |-> request[q].batch, results |-> request[q].results]]
    /\ collector \in [DOMAIN Batches -> {"queued", "200", "400", "409"} \cup Requests]

IngestInv == /\ WritingInv /\ UnindexedInv /\ IndexInv /\ ResultsInv /\ TablesInv
             /\ HistoryIsConsistent /\ AnsweredIsLogged

-----------------------------------------------------------------------------
(* Lemmas about the operators the actions are built from. *)

LEMMA LargestIs ==
  ASSUME NEW a \in Int, NEW b \in Int
  PROVE  /\ Largest(a, b) \in Int /\ Largest(a, b) >= a /\ Largest(a, b) >= b
         /\ Largest(a, b) = a \/ Largest(a, b) = b
BY DEF Largest

\* What is said of an event that is accepted, and that it is said truly.
LEMMA QualityIs ==
  ASSUME NEW r
  PROVE  /\ Quality(r) \in {"accepted", "gap", "out-of-order"}
         /\ Quality(r) # "accepted" =>
              r.identity # None /\ r.sequence # None /\ r.identity \in DOMAIN index.maximum
         /\ Quality(r) = "gap" => r.sequence > index.maximum[r.identity] + 1
         /\ Quality(r) = "out-of-order" => r.sequence < index.maximum[r.identity]
<1>1. CASE r.identity = None \/ r.sequence = None \/ r.identity \notin DOMAIN index.maximum
  BY <1>1 DEF Quality
<1>2. CASE ~(r.identity = None \/ r.sequence = None \/ r.identity \notin DOMAIN index.maximum)
  <2>1. CASE r.sequence < index.maximum[r.identity]
    BY <1>2, <2>1 DEF Quality
  <2>2. CASE r.sequence > index.maximum[r.identity] + 1 /\ ~(r.sequence < index.maximum[r.identity])
    BY <1>2, <2>2 DEF Quality
  <2>3. CASE ~(r.sequence > index.maximum[r.identity] + 1) /\ ~(r.sequence < index.maximum[r.identity])
    BY <1>2, <2>3 DEF Quality
  <2> QED
    BY <2>1, <2>2, <2>3
<1> QED
  BY <1>1, <1>2

\* The frame of a record is about it, and accepts it only if it is valid, new and
\* contradicts nothing that the index knows.
LEMMA FrameIs ==
  ASSUME NEW name \in DOMAIN Records
  PROVE  /\ Frame(name) \in Frames /\ Frame(name).record = name
         /\ Frame(name).kind = "accepted" =>
              /\ Records[name].valid
              /\ Records[name].id \notin DOMAIN index.accepted
              /\ ~Blocked(Records[name])
              /\ Frame(name).quality = Quality(Records[name])
         /\ Frame(name).kind # "accepted" => Frame(name).quality = "accepted"
<1> DEFINE r == Records[name]
<1>1. CASE ~r.valid
  BY <1>1 DEF Frame, Frames
<1>2. CASE r.valid /\ Classification(r) = "new" /\ ~Blocked(r)
  <2>1. Frame(name) = [kind |-> "accepted", record |-> name, quality |-> Quality(r)]
    BY <1>2 DEF Frame, Classified
  <2>2. Quality(r) \in {"accepted", "gap", "out-of-order"}
    BY QualityIs
  <2>3. r.id \notin DOMAIN index.accepted
    BY <1>2 DEF Classification
  <2> QED
    BY <1>2, <2>1, <2>2, <2>3 DEF Frames
<1>3. CASE r.valid /\ ~(Classification(r) = "new" /\ ~Blocked(r))
  BY <1>3 DEF Frame, Classified, Frames
<1> QED
  BY <1>1, <1>2, <1>3

\* What an append does to the log.
LEMMA LogAppended ==
  ASSUME NEW l \in Seq(Frames), NEW f \in Frames
  PROVE  /\ Append(l, f) \in Seq(Frames) /\ Len(Append(l, f)) = Len(l) + 1 /\ Len(l) \in Nat
         /\ Append(l, f)[Len(l) + 1] = f
         /\ \A k \in 1..Len(l) : Append(l, f)[k] = l[k]
OBVIOUS

\* The record that a request collects next is a record.
LEMMA AheadIs ==
  ASSUME ResultsInv, NEW q \in Requests, More(q)
  PROVE  /\ Busy(q) /\ request[q].batch \in DOMAIN Batches
         /\ Ahead(q) \in DOMAIN Records
         /\ Len(request[q].results) \in Nat /\ request[q].results \in Seq(Statuses)
         /\ Len(request[q].results) + 1 <= Len(Batches[request[q].batch])
<1>1. /\ Busy(q) /\ request[q].batch \in DOMAIN Batches /\ request[q].results \in Seq(Statuses)
      /\ Len(request[q].results) < Len(Batches[request[q].batch])
  BY DEF More, Busy, ResultsInv, Sound
<1>2. Batches[request[q].batch] \in Seq(DOMAIN Records)
  BY <1>1, ConstantsAssumption
<1>3. /\ Len(request[q].results) \in Nat /\ Len(Batches[request[q].batch]) \in Nat
  BY <1>1, <1>2
<1> QED
  BY <1>1, <1>2, <1>3 DEF Ahead

\* The status of a batch is its worst result.
LEMMA StatusIs ==
  ASSUME NEW results \in Seq(Statuses)
  PROVE  /\ Status(results) \in {"200", "400", "409", "503"}
         /\ Status(results) # "503" => \A k \in 1..Len(results) : results[k] # "rejected_retryable"
         /\ Status(results) = "200" => \A k \in 1..Len(results) : results[k] \in {"accepted", "duplicate"}
<1> DEFINE Some(status) == \E k \in DOMAIN results : results[k] = status
<1>1. DOMAIN results = 1..Len(results) /\ \A k \in 1..Len(results) : results[k] \in Statuses
  OBVIOUS
<1>2. CASE Some("rejected_retryable")
  <2>1. PICK k \in DOMAIN results : results[k] = "rejected_retryable"
    BY <1>2
  <2>2. Status(results) = "503"
    BY <2>1 DEF Status
  <2> QED
    BY <2>2
<1>3. CASE ~Some("rejected_retryable") /\ Some("conflict")
  BY <1>1, <1>3 DEF Status
<1>4. CASE ~Some("rejected_retryable") /\ ~Some("conflict") /\ Some("rejected_permanent")
  BY <1>1, <1>4 DEF Status
<1>5. CASE ~Some("rejected_retryable") /\ ~Some("conflict") /\ ~Some("rejected_permanent")
  <2>1. Status(results) = "200"
    BY <1>5 DEF Status
  <2> QED
    BY <1>1, <1>5, <2>1 DEF Statuses
<1> QED
  BY <1>2, <1>3, <1>4, <1>5

-----------------------------------------------------------------------------
(* The index and the frames it has. *)

\* A namespace with a value under a key, and what a frame puts there.
Under(namespace, key, value) ==
    [n \in DOMAIN namespace \cup {key} |-> IF n = key THEN value ELSE namespace[n]]

LEMMA IndexedIs ==
  ASSUME NEW f, f.kind = "accepted"
  PROVE  LET r == Records[f.record]
             ix == Indexed(index, f)
         IN /\ ix.accepted = Under(index.accepted, r.id, r.hash)
            /\ ix.revision = IF r.identity # None /\ r.revision # None
                             THEN Under(index.revision, <<r.identity, r.revision>>, r.hash)
                             ELSE index.revision
            /\ ix.terminal = IF r.identity # None /\ r.terminal # None
                             THEN Under(index.terminal, r.identity, r.terminal)
                             ELSE index.terminal
            /\ ix.sequence = IF r.identity # None /\ r.sequence # None
                             THEN Under(index.sequence, <<r.identity, r.sequence>>, r.hash)
                             ELSE index.sequence
            /\ ix.maximum = IF r.identity # None /\ r.sequence # None
                            THEN Under(index.maximum, r.identity,
                                       IF r.identity \in DOMAIN index.maximum
                                       THEN Largest(r.sequence, index.maximum[r.identity])
                                       ELSE r.sequence)
                            ELSE index.maximum
BY DEF Indexed, Put, Under

\* The index after an accepted frame remembers that frame ...
LEMMA IndexedRemembers ==
  ASSUME IndexInv, NEW f \in Frames, f.kind = "accepted"
  PROVE  Remembers(Indexed(index, f), Records[f.record])
<1> DEFINE r == Records[f.record]
           ix == Indexed(index, f)
           known == r.identity # None
           largest == IF r.identity \in DOMAIN index.maximum
                      THEN Largest(r.sequence, index.maximum[r.identity]) ELSE r.sequence
<1>1. /\ ix.accepted = Under(index.accepted, r.id, r.hash)
      /\ known /\ r.revision # None =>
           ix.revision = Under(index.revision, <<r.identity, r.revision>>, r.hash)
      /\ known /\ r.terminal # None => ix.terminal = Under(index.terminal, r.identity, r.terminal)
      /\ known /\ r.sequence # None =>
           /\ ix.sequence = Under(index.sequence, <<r.identity, r.sequence>>, r.hash)
           /\ ix.maximum = Under(index.maximum, r.identity, largest)
  BY IndexedIs
<1>2. r.sequence \in Int \cup {None}
  BY ConstantsAssumption DEF Frames
<1>3. known /\ r.sequence # None => r.sequence <= largest
  <2>1. \A e \in DOMAIN index.maximum : index.maximum[e] \in Int
    BY DEF IndexInv, Follows
  <2> DEFINE m == index.maximum[r.identity]
  <2>2. r.identity \in DOMAIN index.maximum => m \in Int
    BY <2>1
  <2> HIDE DEF m
  <2>3. r.sequence \in Int /\ m \in Int => r.sequence <= Largest(r.sequence, m)
    BY LargestIs
  <2> QED
    BY <1>2, <2>2, <2>3 DEF m
<1> HIDE DEF r, ix, known, largest
<1>4. /\ r.id \in DOMAIN ix.accepted /\ ix.accepted[r.id] = r.hash
      /\ known /\ r.revision # None =>
           /\ <<r.identity, r.revision>> \in DOMAIN ix.revision
           /\ ix.revision[<<r.identity, r.revision>>] = r.hash
      /\ known /\ r.terminal # None =>
           r.identity \in DOMAIN ix.terminal /\ ix.terminal[r.identity] = r.terminal
      /\ known /\ r.sequence # None =>
           /\ <<r.identity, r.sequence>> \in DOMAIN ix.sequence
           /\ ix.sequence[<<r.identity, r.sequence>>] = r.hash
           /\ r.identity \in DOMAIN ix.maximum /\ ix.maximum[r.identity] = largest
  BY <1>1 DEF Under
<1>5. Remembers(ix, r)
  BY <1>3, <1>4 DEF Remembers, known
<1> QED
  BY <1>5 DEF ix, r

\* ... and what it remembered before, if the frame contradicts none of it.
LEMMA IndexedKeeps ==
  ASSUME IndexInv, NEW f \in Frames, f.kind = "accepted",
         Records[f.record].id \notin DOMAIN index.accepted, ~Blocked(Records[f.record]),
         NEW s, s.sequence \in Int \cup {None}, Remembers(index, s)
  PROVE  Remembers(Indexed(index, f), s)
<1> DEFINE r == Records[f.record]
           ix == Indexed(index, f)
           known == r.identity # None
           largest == IF r.identity \in DOMAIN index.maximum
                      THEN Largest(r.sequence, index.maximum[r.identity]) ELSE r.sequence
<1>1. /\ ix.accepted = Under(index.accepted, r.id, r.hash)
      /\ \/ ix.revision = index.revision
         \/ /\ known /\ r.revision # None
            /\ ix.revision = Under(index.revision, <<r.identity, r.revision>>, r.hash)
      /\ \/ ix.terminal = index.terminal
         \/ /\ known /\ r.terminal # None
            /\ ix.terminal = Under(index.terminal, r.identity, r.terminal)
      /\ \/ ix.sequence = index.sequence /\ ix.maximum = index.maximum
         \/ /\ known /\ r.sequence # None
            /\ ix.sequence = Under(index.sequence, <<r.identity, r.sequence>>, r.hash)
            /\ ix.maximum = Under(index.maximum, r.identity, largest)
  BY IndexedIs
<1>2. /\ known /\ r.revision # None => ~Differs(index.revision, <<r.identity, r.revision>>, r.hash)
      /\ known /\ r.terminal # None => ~Differs(index.terminal, r.identity, r.terminal)
      /\ known /\ r.sequence # None => ~Differs(index.sequence, <<r.identity, r.sequence>>, r.hash)
  BY DEF Blocked, RevisionConflict, TerminalConflict, SequenceConflict
<1>3. \A e \in DOMAIN index.maximum : index.maximum[e] \in Int
  BY DEF IndexInv, Follows
<1>4. r.sequence \in Int \cup {None} /\ None \notin Int
  BY ConstantsAssumption DEF Frames
<1>5. r.sequence # None /\ r.identity \in DOMAIN index.maximum =>
        largest \in Int /\ largest >= index.maximum[r.identity]
  BY <1>3, <1>4, LargestIs
<1>6. r.id \notin DOMAIN index.accepted
  OBVIOUS
<1> HIDE DEF r, ix, known, largest
<1>7. s.id \in DOMAIN ix.accepted /\ ix.accepted[s.id] = s.hash
  BY <1>1, <1>6 DEF Under, Remembers
<1>8. ASSUME s.identity # None, s.revision # None
      PROVE  /\ <<s.identity, s.revision>> \in DOMAIN ix.revision
             /\ ix.revision[<<s.identity, s.revision>>] = s.hash
  BY <1>1, <1>2, <1>8 DEF Under, Remembers, Differs
<1>9. ASSUME s.identity # None, s.terminal # None
      PROVE  s.identity \in DOMAIN ix.terminal /\ ix.terminal[s.identity] = s.terminal
  BY <1>1, <1>2, <1>9 DEF Under, Remembers, Differs
<1>10. ASSUME s.identity # None, s.sequence # None
       PROVE  /\ <<s.identity, s.sequence>> \in DOMAIN ix.sequence
              /\ ix.sequence[<<s.identity, s.sequence>>] = s.hash
              /\ s.identity \in DOMAIN ix.maximum
              /\ s.sequence <= ix.maximum[s.identity]
  <2>1. /\ <<s.identity, s.sequence>> \in DOMAIN ix.sequence
        /\ ix.sequence[<<s.identity, s.sequence>>] = s.hash
    BY <1>1, <1>2, <1>10 DEF Under, Remembers, Differs
  <2>2. /\ s.identity \in DOMAIN index.maximum /\ s.sequence <= index.maximum[s.identity]
        /\ index.maximum[s.identity] \in Int /\ s.sequence \in Int
    BY <1>3, <1>4, <1>10 DEF Remembers
  <2>3. CASE ix.maximum = index.maximum
    BY <2>1, <2>2, <2>3
  <2>4. CASE r.sequence # None /\ ix.maximum = Under(index.maximum, r.identity, largest)
    <3>1. /\ s.identity \in DOMAIN ix.maximum
          /\ ix.maximum[s.identity] = IF s.identity = r.identity THEN largest
                                      ELSE index.maximum[s.identity]
      BY <2>2, <2>4 DEF Under
    <3>2. s.identity = r.identity => largest \in Int /\ largest >= index.maximum[s.identity]
      BY <1>5, <2>2, <2>4
    <3> QED
      BY <2>1, <2>2, <3>1, <3>2
  <2> QED
    BY <1>1, <2>3, <2>4
<1>11. Remembers(ix, s)
  BY <1>7, <1>8, <1>9, <1>10 DEF Remembers
<1> QED
  BY <1>11 DEF ix

\* The frames of the log are frames of records.
LEMMA LogIs ==
  ASSUME WritingInv
  PROVE  /\ Len(log) \in Nat /\ indexed \in Nat
         /\ \A k \in 1..Len(log) :
              /\ log[k] \in Frames /\ log[k].record \in DOMAIN Records
              /\ Of(log, k).sequence \in Int \cup {None}
<1>1. log \in Seq(Frames) /\ indexed \in Nat
  BY DEF WritingInv
<1>2. Len(log) \in Nat /\ \A k \in 1..Len(log) : log[k] \in Frames
  BY <1>1
<1> QED
  BY <1>1, <1>2, ConstantsAssumption DEF Frames, Of

\* With its newest frame the index follows the log one frame further.
LEMMA IndexedFollows ==
  ASSUME WritingInv, UnindexedInv, IndexInv, Len(log) = indexed + 1
  PROVE  Follows(Indexed(index, log[Len(log)]), log, indexed + 1)
<1> DEFINE f == log[Len(log)]
           r == Records[f.record]
           ix == Indexed(index, f)
           n == indexed + 1
<1>1. /\ n \in Nat /\ indexed \in Nat /\ n = Len(log) /\ n \in 1..n
      /\ \A k \in 1..n : log[k] \in Frames /\ log[k].record \in DOMAIN Records
                         /\ Of(log, k).sequence \in Int \cup {None}
  BY LogIs
<1>2. /\ f \in Frames /\ f.record \in DOMAIN Records /\ f = Frame(f.record) /\ Of(log, n) = r
      /\ r.sequence \in Int \cup {None}
  BY <1>1, FrameIs DEF UnindexedInv, Of
<1>3. CASE f.kind # "accepted"
  <2>1. ix = index
    BY <1>3 DEF Indexed
  <2>2. Accepted(log, n) = Accepted(log, indexed)
    BY <1>1, <1>3 DEF Accepted
  <2> QED
    BY <2>1, <2>2 DEF IndexInv, Follows
<1>4. CASE f.kind = "accepted"
  <2>1. r.id \notin DOMAIN index.accepted /\ ~Blocked(r)
    BY <1>2, <1>4, FrameIs
  <2>2. /\ n \in Accepted(log, n)
        /\ \A k \in Accepted(log, n) : k = n \/ k \in Accepted(log, indexed)
        /\ \A k \in Accepted(log, indexed) : k \in Accepted(log, n)
        /\ \A k \in Accepted(log, n) : Of(log, k).sequence \in Int \cup {None}
    BY <1>1, <1>4 DEF Accepted
  <2>3. Remembers(ix, r)
    BY <1>2, <1>4, IndexedRemembers
  <2>4. ASSUME NEW k \in Accepted(log, indexed) PROVE Remembers(ix, Of(log, k))
    <3>1. Remembers(index, Of(log, k)) /\ Of(log, k).sequence \in Int \cup {None}
      BY <2>2 DEF IndexInv, Follows
    <3> QED
      BY <1>2, <1>4, <2>1, <3>1, IndexedKeeps
  <2>5. ASSUME NEW e \in DOMAIN ix.maximum
        PROVE  /\ e # None /\ ix.maximum[e] \in Int
               /\ \E k \in Accepted(log, n) :
                    Of(log, k).identity = e /\ Of(log, k).sequence = ix.maximum[e]
    <3> DEFINE largest == IF r.identity \in DOMAIN index.maximum
                          THEN Largest(r.sequence, index.maximum[r.identity]) ELSE r.sequence
    <3>1. \/ ix.maximum = index.maximum
          \/ /\ r.identity # None /\ r.sequence # None
             /\ ix.maximum = Under(index.maximum, r.identity, largest)
      BY <1>4, IndexedIs
    <3>2. \A i \in DOMAIN index.maximum :
            /\ i # None /\ index.maximum[i] \in Int
            /\ \E k \in Accepted(log, n) :
                 Of(log, k).identity = i /\ Of(log, k).sequence = index.maximum[i]
      BY <2>2 DEF IndexInv, Follows
    <3>3. CASE ix.maximum = index.maximum
      BY <3>2, <3>3
    <3>4. CASE /\ r.identity # None /\ r.sequence # None
               /\ ix.maximum = Under(index.maximum, r.identity, largest)
      <4>1. r.sequence \in Int
        BY <1>2, <3>4
      <4>2. largest \in Int
            /\ \/ largest = r.sequence
               \/ r.identity \in DOMAIN index.maximum /\ largest = index.maximum[r.identity]
        BY <3>2, <4>1, LargestIs
      <4> HIDE DEF largest, ix
      <4>3. /\ e \in DOMAIN index.maximum \cup {r.identity}
            /\ ix.maximum[e] = IF e = r.identity THEN largest ELSE index.maximum[e]
        BY <3>4 DEF Under
      <4>4. CASE e # r.identity
        BY <3>2, <4>3, <4>4
      <4>5. CASE e = r.identity
        BY <1>2, <2>2, <3>2, <3>4, <4>2, <4>3, <4>5
      <4> QED
        BY <4>4, <4>5
    <3> QED
      BY <3>1, <3>3, <3>4
  <2>6. ASSUME NEW i \in DOMAIN ix.accepted
        PROVE  \E k \in Accepted(log, n) : Of(log, k).hash = ix.accepted[i]
    <3>1. ix.accepted = Under(index.accepted, r.id, r.hash)
      BY <1>4, IndexedIs
    <3> HIDE DEF ix
    <3>2. /\ i \in DOMAIN index.accepted \cup {r.id}
          /\ ix.accepted[i] = IF i = r.id THEN r.hash ELSE index.accepted[i]
      BY <3>1 DEF Under
    <3>3. CASE i = r.id
      BY <1>2, <2>2, <3>2, <3>3
    <3>4. CASE i # r.id
      BY <2>2, <3>2, <3>4 DEF IndexInv, Follows
    <3> QED
      BY <3>3, <3>4
  <2>7. \A k \in Accepted(log, n) : Remembers(ix, Of(log, k))
    BY <1>2, <2>2, <2>3, <2>4
  <2>8. Follows(ix, log, n)
    <3> HIDE DEF ix
    <3> QED
      BY <2>5, <2>6, <2>7 DEF Follows
  <2> QED
    BY <2>8
<1> QED
  BY <1>3, <1>4

-----------------------------------------------------------------------------
(* The log and its history. *)

\* Nothing that is in the log leaves it.
Extended ==
    /\ log' \in Seq(Frames) /\ Len(log) <= Len(log')
    /\ \A k \in 1..Len(log) : log'[k] = log[k]

\* While the log grows, what the index says stays so.
LEMMA FollowsLonger ==
  ASSUME NEW ix, NEW l, NEW m, NEW n \in Nat, \A k \in 1..n : m[k] = l[k], Follows(ix, l, n)
  PROVE  Follows(ix, m, n)
<1>1. Accepted(m, n) = Accepted(l, n) /\ \A k \in Accepted(l, n) : Of(m, k) = Of(l, k)
  BY DEF Accepted, Of
<1> QED
  BY <1>1 DEF Follows

\* The log and its newest frame agree as HistoryIsConsistent says.
Before(l, k) == {i \in 1..k - 1 : l[i].kind = "accepted"}
Same(r, s) == r.identity = s.identity /\ r.identity # None

Agree(r, s) ==
    /\ r.id # s.id
    /\ Same(r, s) =>
        /\ s.revision = None \/ r.revision # s.revision
        /\ s.sequence = None \/ r.sequence # s.sequence
        /\ s.terminal \in {None, r.terminal} \/ r.terminal = None

Consistent(l, k) ==
    l[k].kind = "accepted" =>
        /\ \A i \in Before(l, k) : Agree(Of(l, i), Of(l, k))
        /\ l[k].quality = "gap" =>
            \A i \in Before(l, k) : Same(Of(l, i), Of(l, k)) /\ Of(l, i).sequence # None =>
                Of(l, i).sequence + 1 < Of(l, k).sequence
        /\ l[k].quality = "out-of-order" =>
            \E i \in Before(l, k) : Same(Of(l, i), Of(l, k)) /\ Of(l, i).sequence # None /\
                Of(l, i).sequence > Of(l, k).sequence

LEMMA HistoryIs ==
  HistoryIsConsistent <=> \A k \in 1..Len(log) : Consistent(log, k)
BY DEF HistoryIsConsistent, Consistent, AcceptedBefore, Before, Agree, SameSubject, Same,
   RecordAt, Of

LEMMA ConsistentLonger ==
  ASSUME NEW l, NEW m, NEW k \in Nat, \A i \in 1..k : m[i] = l[i], k # 0, Consistent(l, k)
  PROVE  Consistent(m, k)
<1>1. m[k] = l[k] /\ \A i \in 1..k - 1 : m[i] = l[i]
  OBVIOUS
<1>2. Before(m, k) = Before(l, k) /\ \A i \in Before(l, k) : Of(m, i) = Of(l, i)
  BY <1>1 DEF Before, Of
<1>3. Of(m, k) = Of(l, k)
  BY <1>1 DEF Of
<1> QED
  BY <1>1, <1>2, <1>3 DEF Consistent

\* A frame that the index has nothing against agrees with the whole log.
LEMMA FrameAgrees ==
  ASSUME WritingInv, IndexInv, Len(log) = indexed,
         NEW name \in DOMAIN Records, NEW m, m = Append(log, Frame(name))
  PROVE  Consistent(m, Len(log) + 1)
<1> DEFINE n == Len(log) + 1
           f == Frame(name)
           s == Records[name]
<1>1. /\ Len(log) \in Nat /\ n \in Nat /\ m[n] = f /\ f.record = name
      /\ \A k \in 1..Len(log) : m[k] = log[k]
  BY LogIs, FrameIs, LogAppended DEF WritingInv
<1> SUFFICES ASSUME f.kind = "accepted"
             PROVE  /\ \A i \in Before(m, n) : Agree(Of(m, i), s)
                    /\ f.quality = "gap" =>
                        \A i \in Before(m, n) : Same(Of(m, i), s) /\ Of(m, i).sequence # None =>
                            Of(m, i).sequence + 1 < s.sequence
                    /\ f.quality = "out-of-order" =>
                        \E i \in Before(m, n) : Same(Of(m, i), s) /\ Of(m, i).sequence # None /\
                            Of(m, i).sequence > s.sequence
  BY <1>1 DEF Consistent, Of
<1>2. /\ s.valid /\ s.id \notin DOMAIN index.accepted /\ ~Blocked(s)
      /\ f.quality = Quality(s) /\ s.sequence \in Int \cup {None} /\ None \notin Int
  BY FrameIs, ConstantsAssumption
<1>3. Before(m, n) = Accepted(log, indexed)
  BY <1>1 DEF Before, Accepted
<1>4. ASSUME NEW i \in Before(m, n)
      PROVE  /\ Remembers(index, Of(m, i)) /\ Of(m, i).sequence \in Int \cup {None}
             /\ Of(m, i).hash # s.hash
  <2>1. i \in 1..Len(log) /\ i \in Accepted(log, indexed) /\ Of(m, i) = Of(log, i)
    BY <1>1, <1>3 DEF Accepted, Of
  <2>2. Remembers(index, Of(log, i)) /\ Of(log, i).sequence \in Int \cup {None}
    BY <2>1, LogIs DEF IndexInv, Follows
  <2>3. Of(log, i).valid /\ log[i].record \in DOMAIN Records
    BY <2>1, LogIs DEF WritingInv, Accepted, Of
  <2>4. Of(log, i).id # s.id
    BY <1>2, <2>2 DEF Remembers
  <2>5. Of(log, i).hash # s.hash
    BY <1>2, <2>3, <2>4, ConstantsAssumption DEF Of
  <2> QED
    BY <2>1, <2>2, <2>5
<1>5. /\ s.identity # None /\ s.revision # None =>
           ~Differs(index.revision, <<s.identity, s.revision>>, s.hash)
      /\ s.identity # None /\ s.terminal # None => ~Differs(index.terminal, s.identity, s.terminal)
      /\ s.identity # None /\ s.sequence # None =>
           ~Differs(index.sequence, <<s.identity, s.sequence>>, s.hash)
  BY <1>2 DEF Blocked, RevisionConflict, TerminalConflict, SequenceConflict
<1>6. ASSUME NEW i \in Before(m, n) PROVE Agree(Of(m, i), s)
  <2> DEFINE r == Of(m, i)
  <2>1. Remembers(index, r) /\ r.hash # s.hash
    BY <1>4
  <2> HIDE DEF r, s
  <2>2. r.id # s.id
    BY <1>2, <2>1 DEF Remembers
  <2>3. ASSUME Same(r, s)
        PROVE  /\ s.revision = None \/ r.revision # s.revision
               /\ s.sequence = None \/ r.sequence # s.sequence
               /\ s.terminal \in {None, r.terminal} \/ r.terminal = None
    BY <1>5, <2>1, <2>3 DEF Remembers, Differs, Same
  <2>4. Agree(r, s)
    BY <2>2, <2>3 DEF Agree
  <2> QED
    BY <2>4 DEF r
<1>7. /\ Quality(s) # "accepted" =>
           /\ s.identity # None /\ s.sequence \in Int
           /\ s.identity \in DOMAIN index.maximum /\ index.maximum[s.identity] \in Int
      /\ Quality(s) = "gap" => s.sequence > index.maximum[s.identity] + 1
      /\ Quality(s) = "out-of-order" => s.sequence < index.maximum[s.identity]
  BY <1>2, QualityIs DEF IndexInv, Follows
<1>8. ASSUME f.quality = "gap", NEW i \in Before(m, n), Same(Of(m, i), s), Of(m, i).sequence # None
      PROVE  Of(m, i).sequence + 1 < s.sequence
  <2>1. Of(m, i).sequence \in Int /\ Of(m, i).sequence <= index.maximum[s.identity]
    BY <1>4, <1>8 DEF Remembers, Same
  <2>2. /\ s.sequence > index.maximum[s.identity] + 1 /\ s.sequence \in Int
        /\ index.maximum[s.identity] \in Int
    BY <1>2, <1>7, <1>8
  <2> QED
    BY <2>1, <2>2
<1>9. ASSUME f.quality = "out-of-order"
      PROVE  \E i \in Before(m, n) : Same(Of(m, i), s) /\ Of(m, i).sequence # None /\
                 Of(m, i).sequence > s.sequence
  <2>1. /\ s.identity # None /\ s.identity \in DOMAIN index.maximum /\ s.sequence \in Int
        /\ index.maximum[s.identity] \in Int /\ s.sequence < index.maximum[s.identity]
    BY <1>2, <1>7, <1>9
  <2>2. PICK i \in Accepted(log, indexed) :
          Of(log, i).identity = s.identity /\ Of(log, i).sequence = index.maximum[s.identity]
    BY <2>1 DEF IndexInv, Follows
  <2>3. Of(m, i) = Of(log, i)
    BY <1>1, <2>2 DEF Accepted, Of
  <2>4. Same(Of(m, i), s) /\ Of(m, i).sequence # None /\ Of(m, i).sequence > s.sequence
    BY <1>2, <2>1, <2>2, <2>3 DEF Same
  <2> QED
    BY <1>3, <2>2, <2>4
<1> QED
  BY <1>6, <1>8, <1>9

-----------------------------------------------------------------------------
(* The log, the index and the append under way: one step. *)

LogInv == WritingInv /\ UnindexedInv /\ IndexInv /\ HistoryIsConsistent

\* What is said of a record depends on the index only.
LEMMA SameFrame ==
  ASSUME UNCHANGED index, NEW name
  PROVE  Frame(name)' = Frame(name)
BY DEF Frame, Classified, Classification, Blocked, RevisionConflict, TerminalConflict,
   SequenceConflict, Differs, Quality

\* A step that leaves the log and the append under way alone.
LEMMA Quiet ==
  ASSUME LogInv, UNCHANGED <<log, index, indexed, writing, alive>>,
         \A q \in Requests : writing = {q} /\ More(q) => More(q)' /\ Ahead(q)' = Ahead(q)
  PROVE  LogInv' /\ Extended
<1>1. WritingInv /\ UnindexedInv /\ IndexInv /\ HistoryIsConsistent
  BY DEF LogInv
<1>2. WritingInv'
  BY <1>1 DEF WritingInv
<1>3. UnindexedInv'
  BY <1>1, SameFrame DEF UnindexedInv
<1>4. IndexInv'
  BY <1>1 DEF IndexInv
<1>5. HistoryIsConsistent'
  BY <1>1, HistoryIs DEF HistoryIsConsistent, AcceptedBefore, SameSubject, RecordAt
<1>6. Extended
  <2>1. log \in Seq(Frames) /\ Len(log) \in Nat
    BY <1>1, LogIs DEF WritingInv
  <2> QED
    BY <2>1 DEF Extended
<1> QED
  BY <1>2, <1>3, <1>4, <1>5, <1>6 DEF LogInv

\* A frame is added to a log that the index has all of.
LEMMA Appending ==
  ASSUME LogInv, Len(log) = indexed, UNCHANGED <<index, indexed>>,
         NEW name \in DOMAIN Records, log' = Append(log, Frame(name))
  PROVE  /\ Extended /\ UnindexedInv' /\ IndexInv' /\ HistoryIsConsistent'
         /\ Len(log') = indexed' + 1 /\ log'[Len(log')].record = name
         /\ \A k \in 1..Len(log') : log'[k].kind = "accepted" => Records[log'[k].record].valid
<1>1. WritingInv /\ UnindexedInv /\ IndexInv /\ HistoryIsConsistent
  BY DEF LogInv
<1>2. /\ Len(log) \in Nat /\ log \in Seq(Frames) /\ indexed \in Nat
  BY <1>1, LogIs DEF WritingInv
<1>3. /\ log' \in Seq(Frames) /\ Len(log') = Len(log) + 1 /\ log'[Len(log) + 1] = Frame(name)
      /\ \A k \in 1..Len(log) : log'[k] = log[k]
  BY <1>2, FrameIs, LogAppended
<1>4. Extended
  BY <1>2, <1>3 DEF Extended
<1>5. UnindexedInv'
  BY <1>3, SameFrame DEF UnindexedInv
<1>6. IndexInv'
  <2>1. Follows(index, log, indexed)
    BY <1>1 DEF IndexInv
  <2>2. \A ix : Follows(ix, log, indexed) => Follows(ix, log', indexed)
    BY <1>2, <1>3, FollowsLonger
  <2> QED
    BY <2>1, <2>2 DEF IndexInv
<1>7. HistoryIsConsistent'
  <2>1. \A k \in 1..Len(log) : Consistent(log, k)
    BY <1>1, HistoryIs
  <2>2. ASSUME NEW k \in 1..Len(log) PROVE Consistent(log', k)
    <3>1. k \in Nat /\ k # 0 /\ \A i \in 1..k : log'[i] = log[i]
      BY <1>2, <1>3
    <3>2. Consistent(log, k)
      BY <2>1
    <3> QED
      BY <3>1, <3>2, ConsistentLonger
  <2>3. Consistent(log', Len(log) + 1)
    BY <1>1, FrameAgrees
  <2>4. \A k \in 1..Len(log') : Consistent(log', k)
    BY <1>2, <1>3, <2>2, <2>3
  <2> QED
    BY <2>4 DEF HistoryIsConsistent, Consistent, AcceptedBefore, Before, Agree, SameSubject, Same,
       RecordAt, Of
<1>8. log'[Len(log')].record = name
  BY <1>3, FrameIs
<1>9. ASSUME NEW k \in 1..Len(log'), log'[k].kind = "accepted"
      PROVE  Records[log'[k].record].valid
  <2>1. CASE k \in 1..Len(log)
    BY <1>1, <1>3, <1>9, <2>1 DEF WritingInv
  <2>2. CASE k = Len(log) + 1
    BY <1>3, <1>9, <2>2, FrameIs
  <2> QED
    BY <1>2, <1>3, <2>1, <2>2
<1> QED
  BY <1>2, <1>3, <1>4, <1>5, <1>6, <1>7, <1>8, <1>9

\* Nothing but the place of the index changes.
LEMMA SameLog ==
  ASSUME LogInv, UNCHANGED log
  PROVE  /\ Extended /\ HistoryIsConsistent'
         /\ \A k \in 1..Len(log') : log'[k].kind = "accepted" => Records[log'[k].record].valid
<1>1. WritingInv /\ HistoryIsConsistent /\ log \in Seq(Frames) /\ Len(log) \in Nat
  BY LogIs DEF LogInv, WritingInv
<1>2. Extended
  BY <1>1 DEF Extended
<1>3. HistoryIsConsistent'
  BY <1>1 DEF HistoryIsConsistent, AcceptedBefore, SameSubject, RecordAt
<1>4. \A k \in 1..Len(log') : log'[k].kind = "accepted" => Records[log'[k].record].valid
  BY <1>1 DEF WritingInv
<1> QED
  BY <1>2, <1>3, <1>4

LEMMA LogStep ==
  ASSUME LogInv, ResultsInv, TablesInv, [Next]_vars
  PROVE  LogInv' /\ Extended
<1>1. /\ WritingInv /\ UnindexedInv /\ IndexInv /\ HistoryIsConsistent
      /\ Len(log) \in Nat /\ indexed \in Nat /\ log \in Seq(Frames)
      /\ indexed <= Len(log) /\ Len(log) <= indexed + 1
  BY LogIs DEF LogInv, WritingInv
<1>2. CASE UNCHANGED vars
  <2>1. \A q \in Requests : More(q) => More(q)' /\ Ahead(q)' = Ahead(q)
    BY <1>2 DEF vars, More, Busy, Ahead
  <2> QED
    BY <1>2, <2>1, Quiet DEF vars
<1>3. ASSUME NEW q \in Requests,
             Untrusted(q) \/ Duplicate(q) \/ Refuse(q) \/ RefuseBroken(q)
      PROVE  LogInv' /\ Extended
  <2>1. writing = {} /\ UNCHANGED <<log, index, indexed, writing, alive>>
    BY <1>3 DEF Untrusted, Duplicate, Refuse, RefuseBroken, Appends, Collecting
  <2> QED
    BY <2>1, Quiet
<1>4. ASSUME NEW q \in Requests, NEW b \in DOMAIN Batches, Send(q, b)
      PROVE  LogInv' /\ Extended
  <2>1. UNCHANGED <<log, index, indexed, writing, alive>> /\ ~Busy(q)
    BY <1>4 DEF Send
  <2>2. ASSUME NEW p \in Requests, More(p) PROVE More(p)' /\ Ahead(p)' = Ahead(p)
    <3>1. p # q
      BY <2>1, <2>2 DEF More
    <3>2. request'[p] = request[p]
      BY <1>4, <3>1 DEF Send, TablesInv
    <3> QED
      BY <2>2, <3>2 DEF More, Busy, Ahead
  <2> QED
    BY <2>1, <2>2, Quiet
<1>5. ASSUME NEW q \in Requests, Answer(q)
      PROVE  LogInv' /\ Extended
  <2>1. UNCHANGED <<log, index, indexed, writing, alive>> /\ ~More(q)
    BY <1>5 DEF Answer
  <2>2. ASSUME NEW p \in Requests, More(p) PROVE More(p)' /\ Ahead(p)' = Ahead(p)
    <3>1. p # q
      BY <2>1, <2>2
    <3>2. request'[p] = request[p]
      BY <1>5, <3>1 DEF Answer, TablesInv
    <3> QED
      BY <2>2, <3>2 DEF More, Busy, Ahead
  <2> QED
    BY <2>1, <2>2, Quiet
<1>6. ASSUME NEW b \in DOMAIN Batches, GiveUp(b)
      PROVE  LogInv' /\ Extended
  <2>1. UNCHANGED <<log, index, indexed, writing, alive, request>>
    BY <1>6 DEF GiveUp
  <2>2. \A q \in Requests : More(q) => More(q)' /\ Ahead(q)' = Ahead(q)
    BY <2>1 DEF More, Busy, Ahead
  <2> QED
    BY <2>1, <2>2, Quiet
<1>7. ASSUME NEW q \in Requests, WriteFrame(q)
      PROVE  LogInv' /\ Extended
  <2>1. /\ alive = "up" /\ writing = {} /\ More(q) /\ log' = Append(log, Frame(Ahead(q)))
        /\ writing' = {q} /\ UNCHANGED <<index, indexed, alive, request>>
    BY <1>7 DEF WriteFrame, Appends, Collecting
  <2>2. Len(log) = indexed /\ Ahead(q) \in DOMAIN Records
    BY <1>1, <2>1, AheadIs DEF WritingInv
  <2>3. /\ Extended /\ UnindexedInv' /\ IndexInv' /\ HistoryIsConsistent'
        /\ Len(log') = indexed' + 1 /\ log'[Len(log')].record = Ahead(q)
        /\ \A k \in 1..Len(log') : log'[k].kind = "accepted" => Records[log'[k].record].valid
    BY <2>1, <2>2, Appending
  <2>4. More(q)' /\ Ahead(q)' = Ahead(q)
    BY <2>1 DEF More, Busy, Ahead
  <2>5. WritingInv'
    BY <1>1, <2>1, <2>2, <2>3, <2>4 DEF WritingInv, Extended
  <2> QED
    BY <2>3, <2>5 DEF LogInv
<1>8. ASSUME NEW q \in Requests, WriteFails(q)
      PROVE  LogInv' /\ Extended
  <2>1. /\ alive = "up" /\ writing = {} /\ More(q) /\ log' \in {log, Append(log, Frame(Ahead(q)))}
        /\ alive' = "broken" /\ UNCHANGED <<index, indexed, writing>>
    BY <1>8 DEF WriteFails, Appends, Collecting
  <2>2. Len(log) = indexed /\ Ahead(q) \in DOMAIN Records
    BY <1>1, <2>1, AheadIs DEF WritingInv
  <2>3. CASE log' = log
    <3>1. /\ Extended /\ HistoryIsConsistent'
          /\ \A k \in 1..Len(log') : log'[k].kind = "accepted" => Records[log'[k].record].valid
      BY <2>3, SameLog
    <3>2. IndexInv' /\ UnindexedInv'
      BY <1>1, <2>1, <2>2, <2>3 DEF IndexInv, UnindexedInv
    <3>3. WritingInv'
      BY <1>1, <2>1, <2>2, <2>3, <3>1 DEF WritingInv
    <3> QED
      BY <3>1, <3>2, <3>3 DEF LogInv
  <2>4. CASE log' = Append(log, Frame(Ahead(q)))
    <3>1. /\ Extended /\ UnindexedInv' /\ IndexInv' /\ HistoryIsConsistent'
          /\ Len(log') = indexed' + 1
          /\ \A k \in 1..Len(log') : log'[k].kind = "accepted" => Records[log'[k].record].valid
      BY <2>1, <2>2, <2>4, Appending
    <3>2. WritingInv'
      BY <1>1, <2>1, <2>2, <3>1 DEF WritingInv, Extended
    <3> QED
      BY <3>1, <3>2 DEF LogInv
  <2> QED
    BY <2>1, <2>3, <2>4
<1>9. ASSUME NEW q \in Requests, IndexFrame(q)
      PROVE  LogInv' /\ Extended
  <2>1. /\ alive = "up" /\ writing = {q} /\ index' = Indexed(index, log[Len(log)])
        /\ indexed' = indexed + 1 /\ writing' = {} /\ UNCHANGED <<log, alive>>
    BY <1>9 DEF IndexFrame
  <2>2. Len(log) = indexed + 1
    BY <1>1, <2>1 DEF WritingInv
  <2>3. Follows(index', log, indexed')
    BY <1>1, <2>1, <2>2, IndexedFollows
  <2>4. /\ Extended /\ HistoryIsConsistent'
        /\ \A k \in 1..Len(log') : log'[k].kind = "accepted" => Records[log'[k].record].valid
    BY <2>1, SameLog
  <2>5. IndexInv' /\ UnindexedInv'
    BY <1>1, <2>1, <2>2, <2>3 DEF IndexInv, UnindexedInv
  <2>6. WritingInv'
    BY <1>1, <2>1, <2>2, <2>4 DEF WritingInv
  <2> QED
    BY <2>4, <2>5, <2>6 DEF LogInv
<1>10. CASE Start
  <2>1. /\ alive = "down" /\ alive' = "up" /\ indexed' = Len(log) /\ UNCHANGED <<log, writing>>
        /\ index' = IF indexed < Len(log) THEN Indexed(index, log[indexed + 1]) ELSE index
    BY <1>10 DEF Start, Recovered
  <2>2. writing = {}
    BY <1>1, <2>1 DEF WritingInv
  <2>3. Follows(index', log, indexed')
    <3>1. CASE indexed < Len(log)
      <4>1. Len(log) = indexed + 1 /\ index' = Indexed(index, log[Len(log)])
        BY <1>1, <2>1, <3>1
      <4> QED
        BY <1>1, <2>1, <4>1, IndexedFollows
    <3>2. CASE ~(indexed < Len(log))
      <4>1. Len(log) = indexed /\ index' = index
        BY <1>1, <2>1, <3>2
      <4> QED
        BY <1>1, <2>1, <4>1 DEF IndexInv
    <3> QED
      BY <3>1, <3>2
  <2>4. /\ Extended /\ HistoryIsConsistent'
        /\ \A k \in 1..Len(log') : log'[k].kind = "accepted" => Records[log'[k].record].valid
    BY <2>1, SameLog
  <2>5. IndexInv' /\ UnindexedInv'
    BY <1>1, <2>1, <2>3 DEF IndexInv, UnindexedInv
  <2>6. WritingInv'
    BY <1>1, <2>1, <2>2, <2>4 DEF WritingInv
  <2> QED
    BY <2>4, <2>5, <2>6 DEF LogInv
<1>11. CASE Crash \/ Restart
  <2>1. /\ alive' = "down" /\ UNCHANGED <<log, index, indexed>> /\ writing' = {}
    <3>1. Restart => writing = {}
      BY <1>1 DEF Restart, WritingInv
    <3> QED
      BY <1>11, <3>1 DEF Crash, Restart
  <2>2. /\ Extended /\ HistoryIsConsistent'
        /\ \A k \in 1..Len(log') : log'[k].kind = "accepted" => Records[log'[k].record].valid
    BY <2>1, SameLog
  <2>3. UnindexedInv'
    BY <1>1, <2>1, SameFrame DEF UnindexedInv
  <2>4. IndexInv'
    BY <1>1, <2>1 DEF IndexInv
  <2>5. WritingInv'
    BY <1>1, <2>1, <2>2 DEF WritingInv
  <2> QED
    BY <2>2, <2>3, <2>4, <2>5 DEF LogInv
<1> QED
  BY <1>2, <1>3, <1>4, <1>5, <1>6, <1>7, <1>8, <1>9, <1>10, <1>11 DEF Next

-----------------------------------------------------------------------------
(* The results of the requests and what the Collector is answered. *)

\* What is logged stays logged.
LEMMA StillMeans ==
  ASSUME WritingInv, Extended, NEW name
  PROVE  /\ IsLogged(log, name) => IsLogged(log', name)
         /\ IsAccepted(log, name) => IsAccepted(log', name)
         /\ \A status : Means(log, status, name) => Means(log', status, name)
<1>1. /\ Len(log) \in Nat /\ Len(log') \in Nat /\ Len(log) <= Len(log')
      /\ \A k \in 1..Len(log) : k \in 1..Len(log') /\ log'[k] = log[k]
  BY LogIs DEF Extended
<1>2. IsLogged(log, name) => IsLogged(log', name)
  BY <1>1 DEF IsLogged
<1>3. IsAccepted(log, name) => IsAccepted(log', name)
  BY <1>1 DEF IsAccepted, Accepted, Of
<1> QED
  BY <1>2, <1>3 DEF Means

\* A request with one result more.
LEMMA ResultIs ==
  ASSUME TablesInv, NEW q \in Requests, NEW status, Result(q, status)
  PROVE  /\ request'[q] = [batch |-> request[q].batch,
                           results |-> Append(request[q].results, status)]
         /\ \A p \in Requests : p # q => request'[p] = request[p]
         /\ request' = [p \in Requests |-> [batch |-> request'[p].batch,
                                            results |-> request'[p].results]]
<1> DEFINE x == [request[q] EXCEPT !.results = Append(request[q].results, status)]
<1>1. request = [p \in Requests |-> [batch |-> request[p].batch, results |-> request[p].results]]
  BY DEF TablesInv
<1>2. request[q] = [batch |-> request[q].batch, results |-> request[q].results]
  BY <1>1
<1>3. x = [batch |-> request[q].batch, results |-> Append(request[q].results, status)]
  BY <1>2
<1>4. request' = [request EXCEPT ![q] = x]
  BY DEF Result
<1> HIDE DEF x
<1>5. request'[q] = x /\ \A p \in Requests : p # q => request'[p] = request[p]
  BY <1>1, <1>4
<1>6. request' = [p \in Requests |-> request'[p]]
  BY <1>1, <1>4
<1>7. ASSUME NEW p \in Requests
      PROVE  request'[p] = [batch |-> request'[p].batch, results |-> request'[p].results]
  <2>1. CASE p = q
    BY <1>3, <1>5, <2>1
  <2>2. CASE p # q
    BY <1>1, <1>5, <2>2
  <2> QED
    BY <2>1, <2>2
<1> QED
  BY <1>3, <1>5, <1>6, <1>7

\* A request stays sound while the log grows.
LEMMA StillSound ==
  ASSUME WritingInv, Extended, NEW q \in Requests, Sound(log, request[q])
  PROVE  Sound(log', request[q])
BY StillMeans DEF Sound

\* A result that means what it says keeps a request sound.
LEMMA ResultSound ==
  ASSUME WritingInv, Extended, ResultsInv, TablesInv, NEW q \in Requests, More(q),
         NEW status \in Statuses, Result(q, status), Means(log', status, Ahead(q))
  PROVE  ResultsInv'
<1> DEFINE b == request[q].batch
           old == request[q].results
           new == Append(old, status)
<1>1. /\ b \in DOMAIN Batches /\ old \in Seq(Statuses) /\ Len(old) \in Nat
      /\ Len(old) + 1 <= Len(Batches[b]) /\ Ahead(q) = Batches[b][Len(old) + 1] /\ b # None
  BY AheadIs DEF Ahead, Busy
<1>2. /\ request'[q] = [batch |-> b, results |-> new]
      /\ \A p \in Requests : p # q => request'[p] = request[p]
  BY ResultIs
<1>3. /\ new \in Seq(Statuses) /\ Len(new) = Len(old) + 1 /\ new[Len(old) + 1] = status
      /\ \A k \in 1..Len(old) : new[k] = old[k]
  BY <1>1
<1>4. Sound(log', request[q]) /\ \A p \in Requests : Sound(log', request[p])
  BY StillSound DEF ResultsInv
<1>5. \A k \in 1..Len(old) : Means(log', old[k], Batches[b][k])
  BY <1>1, <1>4 DEF Sound
<1>6. ASSUME NEW k \in 1..Len(new) PROVE Means(log', new[k], Batches[b][k])
  <2> HIDE DEF new, old, b
  <2>1. CASE k \in 1..Len(old)
    BY <1>3, <1>5, <2>1
  <2>2. CASE k = Len(old) + 1
    BY <1>1, <1>3, <2>2
  <2> QED
    BY <1>1, <1>3, <2>1, <2>2
<1>7. Sound(log', request'[q])
  <2> HIDE DEF new, old, b
  <2> QED
    BY <1>1, <1>2, <1>3, <1>6 DEF Sound
<1> QED
  BY <1>2, <1>4, <1>7 DEF ResultsInv

\* A request that begins or ends is sound, and so are the others.
LEMMA OtherSound ==
  ASSUME WritingInv, Extended, ResultsInv,
         \A q \in Requests : request'[q] = request[q] \/ Sound(log', request'[q])
  PROVE  ResultsInv'
BY StillSound DEF ResultsInv

\* Whatever a record is answered, it means it.
LEMMA Answers ==
  ASSUME LogInv, ResultsInv, TablesInv, Extended, NEW q \in Requests
  PROVE  /\ Untrusted(q) => Means(log', "rejected_permanent", Ahead(q))
         /\ Duplicate(q) => Means(log', "duplicate", Ahead(q))
         /\ IndexFrame(q) => /\ ResultOf(log[Len(log)].kind) \in Statuses
                             /\ Means(log', ResultOf(log[Len(log)].kind), Ahead(q))
         /\ Means(log', "rejected_retryable", Ahead(q))
<1>1. WritingInv /\ IndexInv /\ Len(log) \in Nat
  BY LogIs DEF LogInv
<1>2. Untrusted(q) => Means(log', "rejected_permanent", Ahead(q))
  BY DEF Untrusted, Means, Statuses
<1>3. ASSUME Duplicate(q) PROVE Means(log', "duplicate", Ahead(q))
  <2> DEFINE r == Records[Ahead(q)]
  <2>1. Classification(r) = "duplicate"
    BY <1>3 DEF Duplicate, Known
  <2>2. r.id \in DOMAIN index.accepted /\ index.accepted[r.id] = r.hash
    BY <2>1 DEF Classification
  <2>3. PICK k \in Accepted(log, indexed) : Of(log, k).hash = r.hash
    BY <1>1, <2>2 DEF IndexInv, Follows
  <2>4. k \in Accepted(log, Len(log))
    BY <1>1, <2>3 DEF WritingInv, Accepted
  <2>5. IsAccepted(log, Ahead(q))
    BY <2>3, <2>4 DEF IsAccepted
  <2>6. IsAccepted(log', Ahead(q))
    BY <1>1, <2>5, StillMeans
  <2> QED
    BY <2>6 DEF Means, Statuses
<1>4. ASSUME IndexFrame(q)
      PROVE  /\ ResultOf(log[Len(log)].kind) \in Statuses
             /\ Means(log', ResultOf(log[Len(log)].kind), Ahead(q))
  <2> DEFINE f == log[Len(log)]
  <2>1. writing = {q} /\ log' = log
    BY <1>4 DEF IndexFrame
  <2>2. Len(log) \in 1..Len(log) /\ f.record = Ahead(q) /\ f \in Frames
    BY <1>1, <2>1, LogIs DEF WritingInv
  <2>3. IsLogged(log', Ahead(q))
    BY <2>1, <2>2 DEF IsLogged
  <2>4. f.kind = "accepted" => IsAccepted(log', Ahead(q))
    BY <2>1, <2>2 DEF IsAccepted, Accepted
  <2>5. /\ f.kind \in {"accepted", "conflict", "rejected"}
        /\ f.kind = "accepted" => ResultOf(f.kind) = "accepted"
        /\ f.kind = "conflict" => ResultOf(f.kind) = "conflict"
        /\ f.kind = "rejected" => ResultOf(f.kind) = "rejected_permanent"
    BY <2>2 DEF Frames, ResultOf
  <2> HIDE DEF f
  <2>6. /\ ResultOf(f.kind) \in Statuses /\ Means(log', ResultOf(f.kind), Ahead(q))
    BY <2>3, <2>4, <2>5 DEF Means, Statuses
  <2> QED
    BY <2>6 DEF f
<1>5. Means(log', "rejected_retryable", Ahead(q))
  BY DEF Means, Statuses
<1> QED
  BY <1>2, <1>3, <1>4, <1>5

\* One request is replaced by another with a batch and results.
LEMMA Replaced ==
  ASSUME TablesInv, NEW q \in Requests, NEW b, NEW results,
         request' = [request EXCEPT ![q] = [batch |-> b, results |-> results]]
  PROVE  /\ request'[q] = [batch |-> b, results |-> results]
         /\ \A p \in Requests : p # q => request'[p] = request[p]
         /\ request' = [p \in Requests |-> [batch |-> request'[p].batch,
                                            results |-> request'[p].results]]
<1>1. request = [p \in Requests |-> [batch |-> request[p].batch, results |-> request[p].results]]
  BY DEF TablesInv
<1> QED
  BY <1>1

LEMMA ResultsStep ==
  ASSUME IngestInv, [Next]_vars
  PROVE  ResultsInv' /\ (request' = [q \in Requests |-> [batch |-> request'[q].batch,
                                                         results |-> request'[q].results]])
<1> DEFINE IsTable == request' = [q \in Requests |-> [batch |-> request'[q].batch,
                                                      results |-> request'[q].results]]
<1>1. /\ LogInv /\ WritingInv /\ ResultsInv /\ TablesInv /\ Extended
  BY LogStep DEF IngestInv, LogInv
<1>2. CASE UNCHANGED request
  <2>1. ResultsInv'
    BY <1>1, <1>2, OtherSound
  <2> QED
    BY <1>1, <1>2, <2>1 DEF TablesInv
<1>3. ASSUME NEW q \in Requests, More(q), NEW status \in Statuses, Result(q, status),
             Means(log', status, Ahead(q))
      PROVE  ResultsInv' /\ IsTable
  BY <1>1, <1>3, ResultSound, ResultIs
<1>4. ASSUME NEW q \in Requests, Untrusted(q) PROVE ResultsInv' /\ IsTable
  <2>1. More(q) /\ Result(q, "rejected_permanent")
    BY <1>4 DEF Untrusted, Collecting
  <2> QED
    BY <1>1, <1>3, <1>4, <2>1, Answers DEF Statuses
<1>5. ASSUME NEW q \in Requests, Duplicate(q) PROVE ResultsInv' /\ IsTable
  <2>1. More(q) /\ Result(q, "duplicate")
    BY <1>5 DEF Duplicate, Appends, Collecting
  <2> QED
    BY <1>1, <1>3, <1>5, <2>1, Answers DEF Statuses
<1>6. ASSUME NEW q \in Requests, Refuse(q) \/ WriteFails(q) \/ RefuseBroken(q)
      PROVE  ResultsInv' /\ IsTable
  <2>1. More(q) /\ Result(q, "rejected_retryable")
    BY <1>6 DEF Refuse, WriteFails, RefuseBroken, Appends, Collecting
  <2> QED
    BY <1>1, <1>3, <2>1, Answers DEF Statuses
<1>7. ASSUME NEW q \in Requests, IndexFrame(q) PROVE ResultsInv' /\ IsTable
  <2> DEFINE status == ResultOf(log[Len(log)].kind)
  <2>1. Result(q, status) /\ writing = {q}
    BY <1>7 DEF IndexFrame
  <2>2. More(q)
    BY <1>1, <2>1 DEF WritingInv
  <2>3. status \in Statuses /\ Means(log', status, Ahead(q))
    BY <1>1, <1>7, Answers
  <2> HIDE DEF status
  <2> QED
    BY <1>3, <2>1, <2>2, <2>3
<1>8. ASSUME NEW q \in Requests, NEW b \in DOMAIN Batches, Send(q, b)
      PROVE  ResultsInv' /\ IsTable
  <2>1. /\ request'[q] = [batch |-> b, results |-> <<>>] /\ IsTable
        /\ \A p \in Requests : p # q => request'[p] = request[p]
    BY <1>1, <1>8, Replaced DEF Send
  <2>2. Batches[b] \in Seq(DOMAIN Records) /\ Len(Batches[b]) \in Nat
    BY ConstantsAssumption
  <2>3. Sound(log', [batch |-> b, results |-> <<>>])
    BY <2>2 DEF Sound
  <2>4. ResultsInv'
    BY <1>1, <2>1, <2>3, OtherSound
  <2> QED
    BY <2>1, <2>4
<1>9. ASSUME NEW q \in Requests, Answer(q) PROVE ResultsInv' /\ IsTable
  <2>1. /\ request'[q] = [batch |-> None, results |-> <<>>] /\ IsTable
        /\ \A p \in Requests : p # q => request'[p] = request[p]
    BY <1>1, <1>9, Replaced DEF Answer, Free
  <2>2. Sound(log', [batch |-> None, results |-> <<>>])
    BY DEF Sound
  <2>3. ResultsInv'
    BY <1>1, <2>1, <2>2, OtherSound
  <2> QED
    BY <2>1, <2>3
<1>10. CASE Crash
  <2>1. request' = [q \in Requests |-> [batch |-> None, results |-> <<>>]]
    BY <1>10 DEF Crash, Free
  <2>2. Sound(log', [batch |-> None, results |-> <<>>])
    BY DEF Sound
  <2>3. ResultsInv'
    BY <1>1, <2>1, <2>2, OtherSound
  <2> QED
    BY <2>1, <2>3
<1>11. ASSUME NEW q \in Requests, WriteFrame(q) PROVE UNCHANGED request
  BY <1>11 DEF WriteFrame
<1>12. ASSUME NEW b \in DOMAIN Batches, GiveUp(b) PROVE UNCHANGED request
  BY <1>12 DEF GiveUp
<1>13. Restart \/ Start \/ UNCHANGED vars => UNCHANGED request
  BY DEF Restart, Start, vars
<1> QED
  BY <1>2, <1>4, <1>5, <1>6, <1>7, <1>8, <1>9, <1>10, <1>11, <1>12, <1>13 DEF Next

\* What a batch that is not to be retried says of the log.
Told(l, b, status) ==
    status \in {"200", "400", "409"} =>
        \A k \in DOMAIN Batches[b] :
            \/ Records[Batches[b][k]].ingress = "untrusted" /\ status # "200"
            \/ \E i \in 1..Len(l) :
                /\ l[i].record = Batches[b][k] \/ Of(l, i).hash = Records[Batches[b][k]].hash
                /\ status = "200" => l[i].kind = "accepted"

LEMMA ToldIs == AnsweredIsLogged <=> \A b \in DOMAIN Batches : Told(log, b, collector[b])
BY DEF AnsweredIsLogged, Told, RecordAt, Of

LEMMA StillTold ==
  ASSUME WritingInv, Extended, NEW b, NEW status, Told(log, b, status)
  PROVE  Told(log', b, status)
<1>1. /\ Len(log) \in Nat /\ Len(log') \in Nat /\ Len(log) <= Len(log')
      /\ \A k \in 1..Len(log) : k \in 1..Len(log') /\ log'[k] = log[k]
  BY LogIs DEF Extended
<1> QED
  BY <1>1 DEF Told, Of

\* The status of a request that has all its results says no more than they mean.
LEMMA StatusTells ==
  ASSUME ResultsInv, NEW q \in Requests, Busy(q), ~More(q)
  PROVE  /\ Status(request[q].results) \in {"200", "400", "409", "503"}
         /\ Told(log, request[q].batch, Status(request[q].results))
<1> DEFINE b == request[q].batch
           results == request[q].results
           status == Status(results)
<1>1. /\ b \in DOMAIN Batches /\ results \in Seq(Statuses) /\ Len(results) <= Len(Batches[b])
      /\ \A k \in 1..Len(results) : Means(log, results[k], Batches[b][k])
  BY DEF ResultsInv, Sound, Busy
<1>2. /\ Batches[b] \in Seq(DOMAIN Records) /\ Len(Batches[b]) \in Nat /\ Len(results) \in Nat
      /\ DOMAIN Batches[b] = 1..Len(Batches[b])
  BY <1>1, ConstantsAssumption
<1>3. Len(results) = Len(Batches[b])
  BY <1>1, <1>2 DEF More
<1>4. /\ status \in {"200", "400", "409", "503"}
      /\ status # "503" => \A k \in 1..Len(results) : results[k] # "rejected_retryable"
      /\ status = "200" => \A k \in 1..Len(results) : results[k] \in {"accepted", "duplicate"}
  BY <1>1, StatusIs
<1> HIDE DEF b, results, status
<1>5. ASSUME status \in {"200", "400", "409"}, NEW k \in DOMAIN Batches[b]
      PROVE  \/ Records[Batches[b][k]].ingress = "untrusted" /\ status # "200"
             \/ \E i \in 1..Len(log) :
                 /\ log[i].record = Batches[b][k] \/ Of(log, i).hash = Records[Batches[b][k]].hash
                 /\ status = "200" => log[i].kind = "accepted"
  <2>1. k \in 1..Len(results)
    BY <1>2, <1>3
  <2>2. Means(log, results[k], Batches[b][k]) /\ results[k] # "rejected_retryable"
    BY <1>1, <1>4, <1>5, <2>1
  <2>3. CASE results[k] \in {"accepted", "duplicate"}
    <3>1. IsAccepted(log, Batches[b][k])
      BY <2>2, <2>3 DEF Means
    <3> QED
      BY <3>1 DEF IsAccepted, Accepted
  <2>4. CASE results[k] \in {"conflict", "rejected_permanent"}
    <3>1. status # "200"
      BY <1>4, <2>1, <2>4
    <3>2. IsLogged(log, Batches[b][k]) \/ Records[Batches[b][k]].ingress = "untrusted"
      BY <2>2, <2>4 DEF Means
    <3> QED
      BY <3>1, <3>2 DEF IsLogged
  <2> QED
    BY <2>2, <2>3, <2>4 DEF Means, Statuses
<1>6. Told(log, b, status)
  BY <1>5 DEF Told
<1> QED
  BY <1>4, <1>6 DEF b, results, status

LEMMA AnsweredStep ==
  ASSUME IngestInv, [Next]_vars
  PROVE  /\ AnsweredIsLogged'
         /\ collector' \in [DOMAIN Batches -> {"queued", "200", "400", "409"} \cup Requests]
<1> DEFINE Answered == {"queued", "200", "400", "409"} \cup Requests
<1>1. /\ WritingInv /\ ResultsInv /\ TablesInv /\ Extended
      /\ \A b \in DOMAIN Batches : Told(log', b, collector[b])
      /\ collector \in [DOMAIN Batches -> Answered]
  BY LogStep, ToldIs, StillTold DEF IngestInv, LogInv, TablesInv
<1>2. \A b : Told(log', b, "queued") /\ \A q \in Requests : Told(log', b, q)
  BY ConstantsAssumption DEF Told
<1>3. ASSUME collector' \in [DOMAIN Batches -> Answered],
             \A b \in DOMAIN Batches : Told(log', b, collector'[b])
      PROVE  AnsweredIsLogged'
  BY <1>3 DEF AnsweredIsLogged, Told, RecordAt, Of
<1>4. CASE UNCHANGED collector
  BY <1>1, <1>3, <1>4
<1>5. ASSUME NEW b \in DOMAIN Batches, NEW status \in Answered,
             collector' = [collector EXCEPT ![b] = status], Told(log', b, status)
      PROVE  AnsweredIsLogged' /\ collector' \in [DOMAIN Batches -> Answered]
  <2>1. /\ collector' \in [DOMAIN Batches -> Answered]
        /\ \A c \in DOMAIN Batches : collector'[c] = IF c = b THEN status ELSE collector[c]
    BY <1>1, <1>5
  <2>2. \A c \in DOMAIN Batches : Told(log', c, collector'[c])
    BY <1>1, <1>5, <2>1
  <2> QED
    BY <1>3, <2>1, <2>2
<1>6. ASSUME NEW q \in Requests, NEW b \in DOMAIN Batches, Send(q, b)
      PROVE  AnsweredIsLogged' /\ collector' \in [DOMAIN Batches -> Answered]
  BY <1>2, <1>5, <1>6 DEF Send
<1>7. ASSUME NEW b \in DOMAIN Batches, GiveUp(b)
      PROVE  AnsweredIsLogged' /\ collector' \in [DOMAIN Batches -> Answered]
  BY <1>2, <1>5, <1>7 DEF GiveUp
<1>8. ASSUME NEW q \in Requests, Answer(q)
      PROVE  AnsweredIsLogged' /\ collector' \in [DOMAIN Batches -> Answered]
  <2> DEFINE b == request[q].batch
             s == Status(request[q].results)
             status == IF s = "503" THEN "queued" ELSE s
  <2>1. Busy(q) /\ ~More(q) /\ log' = log
    BY <1>8 DEF Answer
  <2>2. b \in DOMAIN Batches
    BY <1>1, <2>1 DEF ResultsInv, Sound, Busy
  <2>3. s \in {"200", "400", "409", "503"} /\ Told(log', b, s)
    BY <1>1, <2>1, StatusTells
  <2>4. collector' = collector \/ collector' = [collector EXCEPT ![b] = status]
    BY <1>8 DEF Answer
  <2> HIDE DEF b, s
  <2>5. status \in Answered /\ Told(log', b, status)
    BY <1>2, <2>3
  <2> HIDE DEF status
  <2> QED
    BY <1>4, <1>5, <2>2, <2>4, <2>5
<1>9. CASE Crash
  <2>1. /\ collector' \in [DOMAIN Batches -> Answered]
        /\ \A b \in DOMAIN Batches : collector'[b] = "queued" \/ collector'[b] = collector[b]
    BY <1>1, <1>9 DEF Crash
  <2>2. \A b \in DOMAIN Batches : Told(log', b, collector'[b])
    BY <1>1, <1>2, <2>1
  <2> QED
    BY <1>3, <2>1, <2>2
<1>10. ASSUME NEW q \in Requests,
              \/ Untrusted(q) \/ Duplicate(q) \/ WriteFrame(q) \/ Refuse(q) \/ WriteFails(q)
              \/ RefuseBroken(q) \/ IndexFrame(q)
       PROVE  UNCHANGED collector
  BY <1>10 DEF Untrusted, Duplicate, WriteFrame, Refuse, WriteFails, RefuseBroken, IndexFrame
<1>11. Restart \/ Start \/ UNCHANGED vars => UNCHANGED collector
  BY DEF Restart, Start, vars
<1> QED
  BY <1>4, <1>6, <1>7, <1>8, <1>9, <1>10, <1>11 DEF Next

-----------------------------------------------------------------------------
(* The theorems. *)

LEMMA Starts ==
  ASSUME Init
  PROVE  IngestInv
<1>1. /\ log = <<>> /\ Len(log) = 0 /\ indexed = 0 /\ writing = {} /\ log \in Seq(Frames)
  BY DEF Init
<1>2. WritingInv /\ UnindexedInv /\ HistoryIsConsistent
  BY <1>1 DEF WritingInv, UnindexedInv, HistoryIsConsistent
<1>3. IndexInv
  <2>1. DOMAIN index.maximum = {} /\ DOMAIN index.accepted = {}
    BY DEF Init
  <2> QED
    BY <1>1, <2>1 DEF IndexInv, Follows, Accepted
<1>4. ResultsInv
  BY DEF Init, ResultsInv, Sound, Free
<1>5. TablesInv
  BY DEF Init, TablesInv, Free
<1>6. AnsweredIsLogged
  BY DEF Init, AnsweredIsLogged
<1> QED
  BY <1>2, <1>3, <1>4, <1>5, <1>6 DEF IngestInv

LEMMA IngestStep == IngestInv /\ [Next]_vars => IngestInv'
<1> SUFFICES ASSUME IngestInv, [Next]_vars PROVE IngestInv'
  OBVIOUS
<1>1. LogInv'
  BY LogStep DEF IngestInv, LogInv
<1>2. TablesInv' /\ ResultsInv' /\ AnsweredIsLogged'
  BY ResultsStep, AnsweredStep DEF TablesInv
<1> QED
  BY <1>1, <1>2 DEF IngestInv, LogInv

LEMMA Invariance == Spec => []IngestInv
<1>1. Init => IngestInv
  BY Starts
<1>2. IngestInv /\ [Next]_vars => IngestInv'
  BY IngestStep
<1> QED
  BY <1>1, <1>2, PTL DEF Spec

\* Whatever batches race each other, and wherever a failed write or a crash cuts
\* an append off, no record is accepted twice, one identity has one content per
\* revision and sequence and one end, and a frame that says "gap" or "out of
\* order" is right about every frame before it.
THEOREM History == Spec => []HistoryIsConsistent
<1>1. IngestInv => HistoryIsConsistent
  BY DEF IngestInv
<1> QED
  BY <1>1, Invariance, PTL

\* The endpoint answers a batch with a status that the Collector does not retry
\* only if each of its trusted records is in the log, and with 200 only if each
\* was accepted, now or before.
THEOREM Answered == Spec => []AnsweredIsLogged
<1>1. IngestInv => AnsweredIsLogged
  BY DEF IngestInv
<1> QED
  BY <1>1, Invariance, PTL

-----------------------------------------------------------------------------
(***************************************************************************)
(* FreeSpace                                                               *)
(***************************************************************************)
(* The inductive invariant. *)

WriteSteps == {"idle", "sampling", "sampled", "forcing", "forced", "admitted", "written", "refused"}

SpaceTypeOK ==
    /\ free \in Nat /\ archiveFree \in BOOLEAN
    /\ releases \in Nat /\ failures \in Nat
    /\ walBytes \in Nat \cup {NoSample} /\ archiveReady \in BOOLEAN
    /\ debitedBytes \in Nat /\ sampledAt \in {"recent", "old"}
    /\ inFlight \in Samples \cup {NoSample}
    /\ write \in [at : WriteSteps, bytes : Nat, short : BOOLEAN]

\* Bytes that are gone from the disk and not yet debited.
Undebited == IF write.at = "written" THEN write.bytes ELSE 0

\* The gate never believes that there is more than there is: neither the cached
\* sample nor the one in flight, once it is corrected.
EstimateInv ==
    /\ walBytes # NoSample => walBytes <= free + Undebited
    /\ inFlight # NoSample =>
        /\ inFlight.debitedAtStart <= debitedBytes
        /\ inFlight.seen # NoSample => inFlight.seen.wal - Meanwhile <= free + Undebited

\* What an admitted frame takes is there.
AdmittedInv ==
    /\ free >= MinFreeBytes
    /\ write.at = "admitted" => free >= MinFreeBytes + write.bytes

Waits == write.at \in {"sampling", "sampled", "forcing", "forced"}

\* An append that was never short of space still has it, and so has every sample
\* that was begun after it and none before it is waited for.
EnoughInv ==
    Waits /\ ~write.short =>
        /\ free >= MinFreeBytes + write.bytes /\ archiveFree
        /\ write.at # "sampling" /\ inFlight # NoSample =>
            /\ inFlight.debitedAtStart = debitedBytes
            /\ inFlight.seen # NoSample =>
                inFlight.seen.wal >= MinFreeBytes + write.bytes /\ inFlight.seen.archive

\* A probe that is waited for is under way, and no probe has an answer but by
\* sampling or by failing.
WaitInv ==
    /\ write.at \in {"sampling", "forcing"} => inFlight # NoSample
    /\ failures = 0 => walBytes # NoSample

\* After a forced sample the gate refuses only for a reason.
ForcedInv ==
    write.at = "forced" /\ ~write.short /\ failures = 0 =>
        walBytes >= MinFreeBytes + write.bytes /\ archiveReady

RefusedInv == write.at = "refused" => write.short \/ failures > 0

SpaceInv ==
    /\ SpaceTypeOK /\ EstimateInv /\ AdmittedInv /\ EnoughInv /\ WaitInv /\ ForcedInv /\ RefusedInv
-----------------------------------------------------------------------------
(* Lemmas about the operators the actions are built from. *)

\* Estimates are cut off at zero.
LEMMA CutOff ==
  ASSUME NEW n \in Int
  PROVE  Max({0, n}) \in Nat /\ Max({0, n}) >= n /\ (Max({0, n}) = 0 \/ Max({0, n}) = n)
<1>1. \E x \in {0, n} : \A y \in {0, n} : x >= y
  OBVIOUS
<1>2. Max({0, n}) \in {0, n} /\ \A y \in {0, n} : Max({0, n}) >= y
  BY <1>1 DEF Max
<1> QED
  BY <1>2

\* What a sample in flight is made of.
LEMMA SampleIs ==
  ASSUME SpaceTypeOK, inFlight # NoSample
  PROVE  /\ inFlight \in Samples /\ inFlight.debitedAtStart \in Nat
         /\ inFlight.seen \in Seen \cup {NoSample}
         /\ inFlight.seen # NoSample => inFlight.seen.wal \in Nat /\ inFlight.seen.archive \in BOOLEAN
         /\ Meanwhile \in Int
BY DEF SpaceTypeOK, Samples, Seen, Meanwhile

LEMMA SamplingIs ==
  ASSUME SpaceTypeOK
  PROVE  /\ Sampling \in Samples /\ Sampling # NoSample
         /\ Sampling.debitedAtStart = debitedBytes /\ Sampling.seen = NoSample
BY SpaceAssumption DEF SpaceTypeOK, Samples, Sampling

\* Whoever waits for the sample goes on, and nothing else changes of the append.
LEMMA ResumedIs ==
  ASSUME SpaceTypeOK, Resumed
  PROVE  /\ write' \in [at : WriteSteps, bytes : Nat, short : BOOLEAN]
         /\ write'.bytes = write.bytes /\ write'.short = write.short
         /\ write'.at = IF write.at = "sampling" THEN "sampled"
                        ELSE IF write.at = "forcing" THEN "forced" ELSE write.at
<1>1. CASE write.at = "sampling"
  BY <1>1 DEF SpaceTypeOK, Resumed, WriteSteps
<1>2. CASE write.at = "forcing"
  BY <1>2 DEF SpaceTypeOK, Resumed, WriteSteps
<1>3. CASE write.at \notin {"sampling", "forcing"}
  BY <1>3 DEF SpaceTypeOK, Resumed, WriteSteps
<1> QED
  BY <1>1, <1>2, <1>3

\* What a step of an append does to its record.
LEMMA WriteIs ==
  ASSUME SpaceTypeOK, NEW at \in WriteSteps
  PROVE  LET w == [write EXCEPT !.at = at]
         IN /\ w \in [at : WriteSteps, bytes : Nat, short : BOOLEAN]
            /\ w.at = at /\ w.bytes = write.bytes /\ w.short = write.short
BY DEF SpaceTypeOK

\* Whether an append is admitted, in numbers.
LEMMA InsufficientIs ==
  ASSUME SpaceTypeOK
  PROVE  /\ Insufficient(write.bytes) \in BOOLEAN
         /\ ~Insufficient(write.bytes) =>
              walBytes \in Nat /\ archiveReady /\ walBytes >= MinFreeBytes + write.bytes
         /\ walBytes # NoSample /\ archiveReady /\ walBytes >= MinFreeBytes + write.bytes =>
              ~Insufficient(write.bytes)
<1>1. MinFreeBytes \in Nat /\ write.bytes \in Nat /\ walBytes \in Nat \cup {NoSample}
  BY SpaceAssumption DEF SpaceTypeOK
<1> QED
  BY <1>1 DEF Insufficient

-----------------------------------------------------------------------------
(* Every step keeps the invariant. *)

LEMMA SpaceTypeStep == SpaceInv /\ [SpaceNext]_spaceVars => SpaceTypeOK'
<1> SUFFICES ASSUME SpaceInv, [SpaceNext]_spaceVars PROVE SpaceTypeOK'
  OBVIOUS
<1>1. SpaceTypeOK /\ AdmittedInv
  BY DEF SpaceInv
<1>2. /\ free \in Nat /\ failures \in Nat /\ releases \in Nat /\ debitedBytes \in Nat
      /\ MinFreeBytes \in Nat /\ write.bytes \in Nat /\ write.short \in BOOLEAN
      /\ write \in [at : WriteSteps, bytes : Nat, short : BOOLEAN]
  BY <1>1, SpaceAssumption DEF SpaceTypeOK
<1>3. ASSUME NEW bytes \in FrameBytes, Release(bytes) PROVE SpaceTypeOK'
  BY <1>1, <1>2, <1>3, SpaceAssumption DEF SpaceTypeOK, Release, cache
<1>4. ASSUME NEW bytes \in FrameBytes, BeginWrite(bytes) PROVE SpaceTypeOK'
  <2>1. write' \in [at : WriteSteps, bytes : Nat, short : BOOLEAN]
    <3>1. Short(bytes) \in BOOLEAN
      BY DEF Short
    <3>2. bytes \in Nat
      BY SpaceAssumption
    <3> DEFINE at == IF inFlight # NoSample \/ Due THEN "sampling" ELSE "sampled"
    <3>3. at \in WriteSteps
      BY DEF WriteSteps
    <3>4. write' = [at |-> at, bytes |-> bytes, short |-> Short(bytes)]
      BY <1>4 DEF BeginWrite
    <3> HIDE DEF at
    <3> QED
      BY <3>1, <3>2, <3>3, <3>4
  <2> QED
    BY <1>1, <1>4, <2>1, SamplingIs DEF SpaceTypeOK, BeginWrite, disk, cache
<1>5. CASE ArchiveChanges
  <2>1. write' = [write EXCEPT !.short = @ \/ archiveFree]
    BY <1>5 DEF ArchiveChanges
  <2>2. write.short \/ archiveFree \in BOOLEAN
    BY <1>1 DEF SpaceTypeOK
  <2>3. write' \in [at : WriteSteps, bytes : Nat, short : BOOLEAN]
    BY <1>2, <2>1
  <2> QED
    BY <1>1, <1>2, <1>5, <2>3 DEF SpaceTypeOK, ArchiveChanges, cache
<1>6. CASE SampleAges
  BY <1>1, <1>6 DEF SpaceTypeOK, SampleAges, disk
<1>7. CASE TimerSample
  BY <1>1, <1>7, SamplingIs DEF SpaceTypeOK, TimerSample, disk, cache
<1>8. CASE Probe
  <2>1. inFlight' \in Samples
    BY <1>1, <1>8, SampleIs DEF Probe, SpaceTypeOK, Samples, Seen
  <2> QED
    BY <1>1, <1>8, <2>1 DEF SpaceTypeOK, Probe, disk, cache
<1>9. CASE SampleEnds
  <2>1. inFlight.seen.wal - Meanwhile \in Int /\ inFlight.seen.archive \in BOOLEAN
    BY <1>1, <1>9, SampleIs DEF SampleEnds
  <2>2. walBytes' \in Nat
    BY <1>9, <2>1, CutOff DEF SampleEnds
  <2>3. write' \in [at : WriteSteps, bytes : Nat, short : BOOLEAN]
    BY <1>1, <1>9, ResumedIs DEF SampleEnds
  <2> QED
    BY <1>1, <1>9, <2>1, <2>2, <2>3 DEF SpaceTypeOK, SampleEnds, disk
<1>10. CASE SampleFails
  <2>1. write' \in [at : WriteSteps, bytes : Nat, short : BOOLEAN]
    BY <1>1, <1>10, ResumedIs DEF SampleFails
  <2>2. /\ walBytes' = NoSample /\ sampledAt' = "recent" /\ inFlight' = NoSample /\ failures' = failures + 1
        /\ UNCHANGED <<free, archiveFree, releases, debitedBytes>>
    BY <1>10 DEF SampleFails
  <2>3. archiveReady' \in BOOLEAN
    BY <1>10 DEF SampleFails
  <2> QED
    BY <1>1, <1>2, <2>1, <2>2, <2>3 DEF SpaceTypeOK
<1>11. ASSUME NEW at \in WriteSteps, write' = [write EXCEPT !.at = at],
              inFlight' = inFlight \/ inFlight' = Sampling, UNCHANGED <<disk, cache>>
       PROVE  SpaceTypeOK'
  BY <1>1, <1>11, SamplingIs, WriteIs DEF SpaceTypeOK, disk, cache
<1>12. CASE Decide
  BY <1>11, <1>12 DEF Decide, WriteSteps
<1>13. CASE DecideForced
  BY <1>11, <1>13 DEF DecideForced, WriteSteps
<1>14. CASE WriteAdmitted
  <2>1. free' \in Nat
    BY <1>1, <1>2, <1>14 DEF WriteAdmitted, AdmittedInv
  <2>2. write' \in [at : WriteSteps, bytes : Nat, short : BOOLEAN]
    BY <1>1, <1>14, WriteIs DEF WriteAdmitted, WriteSteps
  <2> QED
    BY <1>1, <1>14, <2>1, <2>2 DEF SpaceTypeOK, WriteAdmitted, cache
<1>15. CASE Consume
  <2>1. walBytes # NoSample => Max({0, walBytes - write.bytes}) \in Nat
    BY <1>1, <1>2, CutOff DEF SpaceTypeOK
  <2>2. NoWrite \in [at : WriteSteps, bytes : Nat, short : BOOLEAN]
    BY DEF NoWrite, WriteSteps
  <2>3. write' = NoWrite /\ walBytes' \in Nat \cup {NoSample} /\ debitedBytes' \in Nat
    BY <1>2, <1>15, <2>1 DEF Consume
  <2> QED
    BY <1>1, <1>15, <2>2, <2>3 DEF SpaceTypeOK, Consume, disk
<1>16. CASE RefuseWrite
  <2>1. NoWrite \in [at : WriteSteps, bytes : Nat, short : BOOLEAN]
    BY DEF NoWrite, WriteSteps
  <2> QED
    BY <1>1, <1>16, <2>1 DEF SpaceTypeOK, RefuseWrite, disk, cache
<1>17. CASE UNCHANGED spaceVars
  BY <1>1, <1>17 DEF SpaceTypeOK, spaceVars
<1> QED
  BY <1>3, <1>4, <1>5, <1>6, <1>7, <1>8, <1>9, <1>10, <1>12, <1>13, <1>14, <1>15, <1>16, <1>17 DEF SpaceNext

\* What the gate believes stays below what there is.
LEMMA EstimateStep == SpaceInv /\ [SpaceNext]_spaceVars => EstimateInv'
<1> SUFFICES ASSUME SpaceInv, [SpaceNext]_spaceVars PROVE EstimateInv'
  OBVIOUS
<1>1. SpaceTypeOK /\ EstimateInv /\ AdmittedInv /\ SpaceTypeOK'
  BY SpaceTypeStep DEF SpaceInv
<1>2. /\ free \in Nat /\ debitedBytes \in Nat /\ MinFreeBytes \in Nat /\ write.bytes \in Nat
      /\ walBytes \in Nat \cup {NoSample} /\ free' \in Nat
  BY <1>1, SpaceAssumption DEF SpaceTypeOK
<1>3. Undebited \in Nat /\ Undebited' \in Nat
  BY <1>1 DEF Undebited, SpaceTypeOK
\* NoSample of it changes but upwards what there is.
<1>4. ASSUME walBytes' = walBytes, debitedBytes' = debitedBytes, free' + Undebited' >= free + Undebited,
             \/ inFlight' = inFlight
             \/ inFlight' = Sampling
             \/ inFlight' = NoSample
      PROVE  EstimateInv'
  <2>1. walBytes' # NoSample => walBytes' <= free' + Undebited'
    <3> SUFFICES ASSUME walBytes # NoSample PROVE walBytes <= free' + Undebited'
      BY <1>4
    <3>1. walBytes \in Nat /\ walBytes <= free + Undebited
      BY <1>1, <1>2 DEF EstimateInv
    <3>2. free' + Undebited' >= free + Undebited
      BY <1>4
    <3> DEFINE before == free + Undebited
               after  == free' + Undebited'
    <3>3. before \in Int /\ after \in Int
      BY <1>2, <1>3
    <3>4. walBytes <= before /\ after >= before
      BY <3>1, <3>2
    <3> HIDE DEF before, after
    <3>5. walBytes <= after
      BY <3>1, <3>3, <3>4
    <3> QED
      BY <3>5 DEF after
  <2>2. CASE inFlight' = Sampling
    BY <1>1, <1>2, <2>1, <2>2, <1>4, SamplingIs DEF EstimateInv
  <2>3. CASE inFlight' = inFlight /\ inFlight # NoSample
    <3>1. inFlight'.debitedAtStart <= debitedBytes'
      BY <1>1, <1>4, <2>3 DEF EstimateInv
    <3>2. Meanwhile' = Meanwhile
      BY <1>4, <2>3 DEF Meanwhile
    <3>3. inFlight'.seen # NoSample => inFlight'.seen.wal - Meanwhile' <= free' + Undebited'
      <4> SUFFICES ASSUME inFlight.seen # NoSample
                   PROVE  inFlight.seen.wal - Meanwhile <= free' + Undebited'
        BY <2>3, <3>2
      <4>1. inFlight.seen.wal - Meanwhile <= free + Undebited /\ inFlight.seen.wal - Meanwhile \in Int
        BY <1>1, <2>3, SampleIs DEF EstimateInv
      <4> HIDE DEF Meanwhile
      <4> QED
        BY <1>2, <1>3, <1>4, <4>1
    <3> QED
      BY <2>1, <2>3, <3>1, <3>3 DEF EstimateInv
  <2> QED
    BY <1>4, <2>1, <2>2, <2>3 DEF EstimateInv
<1>5. ASSUME NEW bytes \in FrameBytes, Release(bytes) PROVE EstimateInv'
  BY <1>2, <1>3, <1>4, <1>5, SpaceAssumption DEF Release, cache, Undebited
<1>6. ASSUME NEW bytes \in FrameBytes, BeginWrite(bytes) PROVE EstimateInv'
  <2>1. Undebited = 0 /\ Undebited' = 0
    BY <1>6 DEF BeginWrite, Undebited
  <2> QED
    BY <1>2, <1>4, <1>6, <2>1 DEF BeginWrite, disk, cache
<1>7. CASE ArchiveChanges
  <2>1. write'.at = write.at /\ write'.bytes = write.bytes
    BY <1>1, <1>7 DEF ArchiveChanges, SpaceTypeOK
  <2> QED
    BY <1>2, <1>3, <1>4, <1>7, <2>1 DEF ArchiveChanges, cache, Undebited
<1>8. CASE SampleAges \/ TimerSample
  BY <1>2, <1>3, <1>4, <1>8 DEF SampleAges, TimerSample, disk, cache, Undebited
<1>9. CASE Probe
  <2> DEFINE seen == [wal |-> free, archive |-> archiveFree]
  <2>1. inFlight'.debitedAtStart = inFlight.debitedAtStart /\ inFlight'.seen = seen /\ inFlight # NoSample
    BY <1>1, <1>9, SampleIs DEF Probe, Samples
  <2>2. /\ debitedBytes' = debitedBytes /\ free' = free /\ walBytes' = walBytes
        /\ Undebited' = Undebited
    BY <1>9 DEF Probe, disk, cache, Undebited
  <2>3. /\ inFlight.debitedAtStart \in Nat /\ inFlight.debitedAtStart <= debitedBytes
    BY <1>1, <2>1, SampleIs DEF EstimateInv
  <2>4. inFlight'.seen.wal = free /\ Meanwhile' = debitedBytes - inFlight.debitedAtStart
    BY <2>1, <2>2 DEF Meanwhile
  <2>5. inFlight'.seen.wal - Meanwhile' <= free' + Undebited'
    BY <1>2, <1>3, <2>2, <2>3, <2>4
  <2> QED
    BY <1>1, <2>1, <2>2, <2>3, <2>5 DEF EstimateInv
<1>10. ASSUME Resumed PROVE Undebited' = Undebited
  BY <1>1, <1>10, ResumedIs DEF Undebited
<1>11. CASE SampleEnds
  <2> DEFINE left == inFlight.seen.wal - Meanwhile
  <2>1. left \in Int /\ left <= free + Undebited
    BY <1>1, <1>11, SampleIs DEF SampleEnds, EstimateInv
  <2>2. walBytes' = Max({0, left}) /\ inFlight' = NoSample /\ free' = free /\ Undebited' = Undebited
    BY <1>10, <1>11 DEF SampleEnds, disk
  <2> HIDE DEF left
  <2>3. walBytes' <= free + Undebited
    BY <1>2, <1>3, <2>1, <2>2, CutOff
  <2> QED
    BY <2>2, <2>3 DEF EstimateInv
<1>12. CASE SampleFails
  BY <1>12 DEF SampleFails, EstimateInv
<1>13. CASE Decide
  <2>1. Undebited = 0 /\ Undebited' = 0
    BY <1>1, <1>13 DEF Decide, Undebited, SpaceTypeOK
  <2> QED
    BY <1>2, <1>4, <1>13, <2>1 DEF Decide, disk, cache
<1>14. CASE DecideForced
  <2>1. Undebited = 0 /\ Undebited' = 0
    BY <1>1, <1>14 DEF DecideForced, Undebited, SpaceTypeOK
  <2> QED
    BY <1>2, <1>4, <1>14, <2>1 DEF DecideForced, disk, cache
<1>15. CASE WriteAdmitted
  <2>1. Undebited = 0 /\ Undebited' = write.bytes /\ free' = free - write.bytes
    BY <1>1, <1>15, WriteIs DEF WriteAdmitted, Undebited, WriteSteps
  <2> QED
    BY <1>2, <1>4, <1>15, <2>1 DEF WriteAdmitted, cache
<1>16. CASE Consume
  <2>1. /\ Undebited = write.bytes /\ Undebited' = 0 /\ debitedBytes' = debitedBytes + write.bytes
        /\ inFlight' = inFlight /\ free' = free
    BY <1>16 DEF Consume, Undebited, NoWrite, disk
  <2>2. walBytes' # NoSample => walBytes' <= free'
    <3> SUFFICES ASSUME walBytes' # NoSample PROVE walBytes' <= free'
      OBVIOUS
    <3>1. walBytes \in Nat /\ walBytes' = Max({0, walBytes - write.bytes})
      BY <1>2, <1>16 DEF Consume
    <3>2. walBytes <= free + write.bytes
      BY <1>1, <2>1, <3>1, SpaceAssumption DEF EstimateInv
    <3> QED
      BY <1>2, <2>1, <3>1, <3>2, CutOff
  <2>3. ASSUME inFlight # NoSample
        PROVE  /\ inFlight'.debitedAtStart <= debitedBytes'
               /\ inFlight'.seen # NoSample => inFlight'.seen.wal - Meanwhile' <= free' + Undebited'
    <3>1. inFlight.debitedAtStart \in Nat /\ inFlight.debitedAtStart <= debitedBytes
      BY <1>1, <2>3, SampleIs DEF EstimateInv
    <3>2. Meanwhile' = Meanwhile + write.bytes
      BY <1>2, <2>1, <3>1 DEF Meanwhile
    <3>3. inFlight.seen # NoSample =>
            inFlight.seen.wal \in Nat /\ inFlight.seen.wal - Meanwhile <= free + write.bytes
      BY <1>1, <2>1, <2>3, SampleIs DEF EstimateInv
    <3>4. Meanwhile \in Int
      BY <1>1, <2>3, SampleIs
    <3> QED
      BY <1>2, <2>1, <3>1, <3>2, <3>3, <3>4
  <2> QED
    BY <2>1, <2>2, <2>3, <1>2 DEF EstimateInv
<1>17. CASE RefuseWrite
  <2>1. Undebited = 0 /\ Undebited' = 0
    BY <1>17 DEF RefuseWrite, Undebited, NoWrite
  <2> QED
    BY <1>2, <1>4, <1>17, <2>1 DEF RefuseWrite, disk, cache
<1>18. CASE UNCHANGED spaceVars
  BY <1>2, <1>3, <1>4, <1>18 DEF spaceVars, Undebited
<1> QED
  BY <1>5, <1>6, <1>7, <1>8, <1>9, <1>11, <1>12, <1>13, <1>14, <1>15, <1>16, <1>17, <1>18 DEF SpaceNext

\* What an admitted append takes is there, whatever happens until it is written.
LEMMA AdmittedStep == SpaceInv /\ [SpaceNext]_spaceVars => AdmittedInv'
<1> SUFFICES ASSUME SpaceInv, [SpaceNext]_spaceVars PROVE AdmittedInv'
  OBVIOUS
<1>1. SpaceTypeOK /\ EstimateInv /\ AdmittedInv
  BY DEF SpaceInv
<1>2. /\ free \in Nat /\ MinFreeBytes \in Nat /\ write.bytes \in Nat
  BY <1>1, SpaceAssumption DEF SpaceTypeOK
\* A decision to admit.
<1>3. ASSUME write' = [write EXCEPT !.at = IF Insufficient(write.bytes) THEN "refused" ELSE "admitted"],
             write.at \notin {"written", "admitted"}, free' = free
      PROVE  AdmittedInv'
  <2>1. CASE Insufficient(write.bytes)
    <3>1. write'.at = "refused"
      BY <1>1, <1>3, <2>1, WriteIs DEF WriteSteps
    <3> QED
      BY <1>1, <1>3, <3>1 DEF AdmittedInv
  <2>2. CASE ~Insufficient(write.bytes)
    <3>1. walBytes \in Nat /\ walBytes >= MinFreeBytes + write.bytes
      BY <1>1, <2>2, InsufficientIs
    <3>2. walBytes # NoSample
      BY <3>1, SpaceAssumption
    <3>3. walBytes <= free
      BY <1>1, <1>2, <1>3, <3>2 DEF EstimateInv, Undebited
    <3>4. write'.bytes = write.bytes
      BY <1>1, <1>3, <2>2, WriteIs DEF WriteSteps
    <3> QED
      BY <1>1, <1>2, <1>3, <3>1, <3>3, <3>4 DEF AdmittedInv
  <2> QED
    BY <2>1, <2>2
<1>4. ASSUME NEW bytes \in FrameBytes, Release(bytes) PROVE AdmittedInv'
  BY <1>1, <1>2, <1>4, SpaceAssumption DEF Release, AdmittedInv
<1>5. ASSUME NEW bytes \in FrameBytes, BeginWrite(bytes) PROVE AdmittedInv'
  BY <1>1, <1>5 DEF BeginWrite, AdmittedInv, disk
<1>6. CASE ArchiveChanges
  <2>1. write'.at = write.at /\ write'.bytes = write.bytes
    BY <1>1, <1>6 DEF ArchiveChanges, SpaceTypeOK
  <2> QED
    BY <1>1, <1>6, <2>1 DEF ArchiveChanges, AdmittedInv
<1>7. CASE SampleAges \/ TimerSample \/ Probe
  BY <1>1, <1>7 DEF SampleAges, TimerSample, Probe, AdmittedInv, disk
<1>8. CASE SampleEnds \/ SampleFails
  <2>1. free' = free /\ Resumed
    BY <1>8 DEF SampleEnds, SampleFails, disk
  <2>2. write'.bytes = write.bytes /\ (write'.at = "admitted" => write.at = "admitted")
    BY <1>1, <2>1, ResumedIs
  <2> QED
    BY <1>1, <2>1, <2>2 DEF AdmittedInv
<1>9. CASE Decide
  <2>1. CASE Forces
    <3>1. write'.at = "forcing" /\ free' = free
      BY <1>1, <1>9, <2>1, WriteIs DEF Decide, WriteSteps, disk
    <3> QED
      BY <1>1, <3>1 DEF AdmittedInv
  <2>2. CASE ~Forces
    BY <1>3, <1>9, <2>2 DEF Decide, disk
  <2> QED
    BY <2>1, <2>2
<1>10. CASE DecideForced
  BY <1>3, <1>10 DEF DecideForced, disk
<1>11. CASE WriteAdmitted
  <2>1. write'.at = "written" /\ free' = free - write.bytes
    BY <1>1, <1>11, WriteIs DEF WriteAdmitted, WriteSteps
  <2> QED
    BY <1>1, <1>2, <1>11, <2>1 DEF WriteAdmitted, AdmittedInv
<1>12. CASE Consume \/ RefuseWrite
  BY <1>1, <1>12 DEF Consume, RefuseWrite, AdmittedInv, NoWrite, disk
<1>13. CASE UNCHANGED spaceVars
  BY <1>1, <1>13 DEF spaceVars, AdmittedInv
<1> QED
  BY <1>4, <1>5, <1>6, <1>7, <1>8, <1>9, <1>10, <1>11, <1>12, <1>13 DEF SpaceNext

\* An append that was never short still has its space, and so does every sample
\* it may have to wait for.
HasEnough == free >= MinFreeBytes + write.bytes /\ archiveFree
SampleHasEnough ==
    write.at # "sampling" /\ inFlight # NoSample =>
        /\ inFlight.debitedAtStart = debitedBytes
        /\ inFlight.seen # NoSample =>
            inFlight.seen.wal >= MinFreeBytes + write.bytes /\ inFlight.seen.archive

LEMMA EnoughStep == SpaceInv /\ [SpaceNext]_spaceVars => EnoughInv'
<1> SUFFICES ASSUME SpaceInv, [SpaceNext]_spaceVars PROVE EnoughInv'
  OBVIOUS
<1>1. SpaceTypeOK /\ EnoughInv /\ SpaceTypeOK'
  BY SpaceTypeStep DEF SpaceInv
<1>2. /\ free \in Nat /\ MinFreeBytes \in Nat /\ write.bytes \in Nat
  BY <1>1, SpaceAssumption DEF SpaceTypeOK
<1>3. EnoughInv <=> (Waits /\ ~write.short => HasEnough /\ SampleHasEnough)
  BY DEF EnoughInv, HasEnough, SampleHasEnough
<1>4. EnoughInv' <=> (Waits' /\ ~write'.short => HasEnough' /\ SampleHasEnough')
  BY DEF EnoughInv, HasEnough, SampleHasEnough
\* No sample, or one that begins.
<1>5. ASSUME inFlight' = NoSample \/ (inFlight' = Sampling /\ debitedBytes' = debitedBytes)
      PROVE  SampleHasEnough'
  BY <1>1, <1>5, SamplingIs DEF SampleHasEnough
<1>6. ASSUME NEW bytes \in FrameBytes, Release(bytes) PROVE EnoughInv'
  <2>1. /\ free' >= free /\ free' \in Nat
    BY <1>1, <1>2, <1>6, SpaceAssumption DEF Release
  <2>2. UNCHANGED <<write, inFlight, archiveFree, debitedBytes>>
    BY <1>6 DEF Release, cache
  <2> QED
    BY <1>1, <1>2, <2>1, <2>2 DEF EnoughInv, Waits
<1>7. ASSUME NEW bytes \in FrameBytes, BeginWrite(bytes) PROVE EnoughInv'
  <2>1. /\ write'.bytes = bytes /\ write'.short = Short(bytes) /\ free' = free /\ archiveFree' = archiveFree
        /\ debitedBytes' = debitedBytes
        /\ write'.at # "sampling" => inFlight' = NoSample
    BY <1>7 DEF BeginWrite, disk, cache
  <2>2. ~write'.short => HasEnough'
    <3>1. ~write'.short => ~Short(bytes)
      BY <2>1
    <3>2. ~Short(bytes) => free >= MinFreeBytes + bytes /\ archiveFree
      BY <1>2, SpaceAssumption DEF Short
    <3>3. free' >= MinFreeBytes + write'.bytes <=> free >= MinFreeBytes + bytes
      BY <2>1
    <3> QED
      BY <2>1, <3>1, <3>2, <3>3 DEF HasEnough
  <2>3. SampleHasEnough'
    BY <2>1 DEF SampleHasEnough
  <2> QED
    BY <1>4, <2>2, <2>3
<1>8. CASE ArchiveChanges
  <2>1. /\ write'.at = write.at /\ write'.bytes = write.bytes
        /\ ~write'.short => ~write.short /\ ~archiveFree
    BY <1>1, <1>8 DEF ArchiveChanges, SpaceTypeOK
  <2>2. CASE archiveFree
    BY <1>4, <2>1, <2>2
  <2>3. CASE ~archiveFree
    BY <1>1, <1>3, <1>4, <2>1, <2>3 DEF HasEnough, Waits
  <2> QED
    BY <2>2, <2>3
<1>9. CASE SampleAges
  BY <1>1, <1>9 DEF SampleAges, EnoughInv, Waits, disk
<1>10. CASE TimerSample
  <2>1. UNCHANGED <<disk, cache, write>> /\ inFlight' = Sampling
    BY <1>10 DEF TimerSample
  <2>2. SampleHasEnough'
    BY <1>5, <2>1 DEF cache
  <2> QED
    BY <1>1, <1>3, <1>4, <2>1, <2>2 DEF Waits, HasEnough, disk
<1>11. CASE Probe
  <2> DEFINE seen == [wal |-> free, archive |-> archiveFree]
  <2>1. inFlight'.debitedAtStart = inFlight.debitedAtStart /\ inFlight'.seen = seen /\ inFlight # NoSample
    BY <1>1, <1>11, SampleIs DEF Probe, Samples
  <2>2. UNCHANGED <<free, archiveFree, debitedBytes, write>>
    BY <1>11 DEF Probe, disk, cache
  <2>3. inFlight'.seen.wal = free /\ inFlight'.seen.archive = archiveFree
    BY <2>1
  <2>4. HasEnough /\ SampleHasEnough => SampleHasEnough'
    BY <1>2, <2>1, <2>2, <2>3 DEF HasEnough, SampleHasEnough
  <2> QED
    BY <1>1, <1>3, <1>4, <2>2, <2>4 DEF HasEnough, Waits
<1>12. CASE SampleEnds \/ SampleFails
  <2>1. UNCHANGED <<free, archiveFree>> \/ UNCHANGED <<free, archiveFree, releases, debitedBytes>>
    BY <1>12 DEF SampleEnds, SampleFails, disk
  <2>2. Resumed /\ inFlight' = NoSample
    BY <1>12 DEF SampleEnds, SampleFails
  <2>3. write'.bytes = write.bytes /\ write'.short = write.short /\ (Waits' => Waits)
    BY <1>1, <2>2, ResumedIs DEF Waits
  <2>4. SampleHasEnough'
    BY <1>5, <2>2
  <2> QED
    BY <1>1, <1>3, <1>4, <2>1, <2>3, <2>4 DEF HasEnough
<1>13. CASE Decide
  <2>1. CASE Forces
    <3>1. /\ write'.at = "forcing" /\ write'.bytes = write.bytes /\ write'.short = write.short
          /\ write.at = "sampled" /\ UNCHANGED <<free, archiveFree, debitedBytes>>
          /\ inFlight' = inFlight \/ inFlight' = Sampling
      BY <1>1, <1>13, <2>1, WriteIs DEF Decide, WriteSteps, disk, cache
    <3>2. CASE inFlight' = Sampling
      BY <1>1, <1>3, <1>4, <1>5, <3>1, <3>2 DEF HasEnough, Waits
    <3>3. CASE inFlight' = inFlight
      BY <1>1, <1>3, <1>4, <3>1, <3>3 DEF HasEnough, SampleHasEnough, Waits
    <3> QED
      BY <3>1, <3>2, <3>3
  <2>2. CASE ~Forces
    <3>1. ~Waits'
      BY <1>1, <1>13, <2>2, WriteIs DEF Decide, WriteSteps, Waits
    <3> QED
      BY <1>4, <3>1
  <2> QED
    BY <2>1, <2>2
<1>14. CASE DecideForced \/ WriteAdmitted
  <2>1. ~Waits'
    BY <1>1, <1>14, WriteIs DEF DecideForced, WriteAdmitted, WriteSteps, Waits
  <2> QED
    BY <1>4, <2>1
<1>15. CASE Consume \/ RefuseWrite
  <2>1. ~Waits'
    BY <1>15 DEF Consume, RefuseWrite, NoWrite, Waits
  <2> QED
    BY <1>4, <2>1
<1>16. CASE UNCHANGED spaceVars
  BY <1>1, <1>16 DEF spaceVars, EnoughInv, Waits
<1> QED
  BY <1>6, <1>7, <1>8, <1>9, <1>10, <1>11, <1>12, <1>13, <1>14, <1>15, <1>16 DEF SpaceNext

\* Who waits for a sample has one, and only a failure leaves the gate without.
LEMMA WaitStep == SpaceInv /\ [SpaceNext]_spaceVars => WaitInv'
<1> SUFFICES ASSUME SpaceInv, [SpaceNext]_spaceVars PROVE WaitInv'
  OBVIOUS
<1>1. SpaceTypeOK /\ WaitInv
  BY DEF SpaceInv
<1>2. failures \in Nat /\ walBytes \in Nat \cup {NoSample} /\ NoSample \notin Nat /\ write.bytes \in Nat
  BY <1>1, SpaceAssumption DEF SpaceTypeOK
<1>3. Sampling # NoSample
  BY <1>1, SamplingIs
<1>4. ASSUME NEW bytes \in FrameBytes, Release(bytes) \/ BeginWrite(bytes) PROVE WaitInv'
  BY <1>1, <1>3, <1>4 DEF Release, BeginWrite, WaitInv, disk, cache
<1>5. CASE ArchiveChanges
  <2>1. write'.at = write.at
    BY <1>1, <1>5 DEF ArchiveChanges, SpaceTypeOK
  <2> QED
    BY <1>1, <1>5, <2>1 DEF ArchiveChanges, WaitInv, cache
<1>6. CASE SampleAges \/ TimerSample
  BY <1>1, <1>3, <1>6 DEF SampleAges, TimerSample, WaitInv, disk, cache
<1>7. CASE Probe
  <2>1. inFlight' \in Samples
    BY <1>1, <1>7, SampleIs DEF Probe, SpaceTypeOK, Samples, Seen
  <2>2. inFlight' # NoSample
    BY <2>1, SpaceAssumption
  <2> QED
    BY <1>1, <1>7, <2>2 DEF Probe, WaitInv, disk, cache
<1>8. CASE SampleEnds
  <2>1. write'.at \notin {"sampling", "forcing"}
    BY <1>1, <1>8, ResumedIs DEF SampleEnds
  <2>2. inFlight.seen.wal - Meanwhile \in Int
    BY <1>1, <1>8, SampleIs DEF SampleEnds
  <2>3. walBytes' \in Nat
    BY <1>8, <2>2, CutOff DEF SampleEnds
  <2> QED
    BY <1>2, <2>1, <2>3 DEF WaitInv
<1>9. CASE SampleFails
  <2>1. write'.at \notin {"sampling", "forcing"}
    BY <1>1, <1>9, ResumedIs DEF SampleFails
  <2>2. failures' # 0
    BY <1>2, <1>9 DEF SampleFails
  <2> QED
    BY <2>1, <2>2 DEF WaitInv
<1>10. CASE Decide
  <2>1. UNCHANGED <<failures, walBytes>>
    BY <1>10 DEF Decide, disk, cache
  <2>2. CASE Forces
    BY <1>1, <1>3, <1>10, <2>1, <2>2 DEF Decide, WaitInv
  <2>3. CASE ~Forces
    <3>1. write'.at \notin {"sampling", "forcing"}
      BY <1>1, <1>10, <2>3, WriteIs DEF Decide, WriteSteps
    <3> QED
      BY <1>1, <2>1, <3>1 DEF WaitInv
  <2> QED
    BY <2>2, <2>3
<1>11. CASE DecideForced \/ WriteAdmitted
  <2>1. write'.at \notin {"sampling", "forcing"}
    BY <1>1, <1>11, WriteIs DEF DecideForced, WriteAdmitted, WriteSteps
  <2> QED
    BY <1>1, <1>11, <2>1 DEF DecideForced, WriteAdmitted, WaitInv, disk, cache
<1>12. CASE Consume
  <2>1. failures' = failures /\ write'.at = "idle"
    BY <1>12 DEF Consume, NoWrite, disk
  <2>2. walBytes # NoSample => walBytes' \in Nat
    <3> SUFFICES ASSUME walBytes # NoSample PROVE walBytes' \in Nat
      OBVIOUS
    <3>1. walBytes - write.bytes \in Int /\ walBytes' = Max({0, walBytes - write.bytes})
      BY <1>2, <1>12 DEF Consume
    <3> QED
      BY <3>1, CutOff
  <2> QED
    BY <1>1, <1>2, <2>1, <2>2 DEF WaitInv
<1>13. CASE RefuseWrite \/ UNCHANGED spaceVars
  BY <1>1, <1>13 DEF RefuseWrite, WaitInv, NoWrite, spaceVars, disk, cache
<1> QED
  BY <1>4, <1>5, <1>6, <1>7, <1>8, <1>9, <1>10, <1>11, <1>12, <1>13 DEF SpaceNext

\* What a forced sample says of an append that was never short.
LEMMA ForcedStep == SpaceInv /\ [SpaceNext]_spaceVars => ForcedInv'
<1> SUFFICES ASSUME SpaceInv, [SpaceNext]_spaceVars PROVE ForcedInv'
  OBVIOUS
<1>1. SpaceTypeOK /\ EnoughInv /\ WaitInv /\ ForcedInv
  BY DEF SpaceInv
<1>2. failures \in Nat /\ MinFreeBytes \in Nat /\ write.bytes \in Nat
  BY <1>1, SpaceAssumption DEF SpaceTypeOK
<1>3. ASSUME NEW bytes \in FrameBytes, Release(bytes) PROVE ForcedInv'
  BY <1>1, <1>3 DEF Release, ForcedInv, cache
<1>4. ASSUME NEW bytes \in FrameBytes, BeginWrite(bytes) PROVE ForcedInv'
  BY <1>4 DEF BeginWrite, ForcedInv
<1>5. CASE ArchiveChanges
  <2>1. write'.at = write.at /\ write'.bytes = write.bytes /\ (~write'.short => ~write.short)
    BY <1>1, <1>5 DEF ArchiveChanges, SpaceTypeOK
  <2> QED
    BY <1>1, <1>5, <2>1 DEF ArchiveChanges, ForcedInv, cache
<1>6. CASE SampleAges \/ TimerSample \/ Probe
  BY <1>1, <1>6 DEF SampleAges, TimerSample, Probe, ForcedInv, disk, cache
<1>7. CASE SampleEnds
  <2> SUFFICES ASSUME write'.at = "forced", ~write'.short, failures' = 0
               PROVE  walBytes' >= MinFreeBytes + write'.bytes /\ archiveReady'
    BY DEF ForcedInv
  <2>1. /\ inFlight # NoSample /\ inFlight.seen # NoSample
        /\ walBytes' = Max({0, inFlight.seen.wal - Meanwhile}) /\ archiveReady' = inFlight.seen.archive
    BY <1>7 DEF SampleEnds
  <2>2. /\ write.at \in {"forcing", "forced"} /\ ~write.short /\ write'.bytes = write.bytes
    BY <1>1, <1>7, ResumedIs DEF SampleEnds
  <2>3. /\ inFlight.debitedAtStart = debitedBytes
        /\ inFlight.seen.wal >= MinFreeBytes + write.bytes /\ inFlight.seen.archive
    BY <1>1, <2>1, <2>2 DEF EnoughInv, Waits
  <2>4. inFlight.seen.wal \in Nat /\ debitedBytes \in Nat
    BY <1>1, <2>1, SampleIs DEF SpaceTypeOK
  <2>5. Meanwhile = 0
    BY <2>3, <2>4 DEF Meanwhile
  <2>6. walBytes' \in Nat /\ walBytes' >= inFlight.seen.wal
    BY <2>1, <2>4, <2>5, CutOff
  <2> QED
    BY <1>2, <2>1, <2>2, <2>3, <2>4, <2>6
<1>8. CASE SampleFails
  BY <1>2, <1>8 DEF SampleFails, ForcedInv
<1>9. CASE Decide
  <2>1. write'.at # "forced"
    BY <1>1, <1>9, WriteIs DEF Decide, WriteSteps
  <2> QED
    BY <2>1 DEF ForcedInv
<1>10. CASE DecideForced \/ WriteAdmitted
  <2>1. write'.at # "forced"
    BY <1>1, <1>10, WriteIs DEF DecideForced, WriteAdmitted, WriteSteps
  <2> QED
    BY <2>1 DEF ForcedInv
<1>11. CASE Consume \/ RefuseWrite
  BY <1>11 DEF Consume, RefuseWrite, NoWrite, ForcedInv
<1>12. CASE UNCHANGED spaceVars
  BY <1>1, <1>12 DEF spaceVars, ForcedInv
<1> QED
  BY <1>3, <1>4, <1>5, <1>6, <1>7, <1>8, <1>9, <1>10, <1>11, <1>12 DEF SpaceNext

\* A refusal has its reason.
LEMMA RefusedStep == SpaceInv /\ [SpaceNext]_spaceVars => RefusedInv'
<1> SUFFICES ASSUME SpaceInv, [SpaceNext]_spaceVars PROVE RefusedInv'
  OBVIOUS
<1>1. SpaceTypeOK /\ WaitInv /\ ForcedInv /\ RefusedInv
  BY DEF SpaceInv
<1>2. failures \in Nat
  BY <1>1 DEF SpaceTypeOK
<1>3. ASSUME NEW bytes \in FrameBytes, Release(bytes) \/ BeginWrite(bytes) PROVE RefusedInv'
  BY <1>1, <1>3 DEF Release, BeginWrite, RefusedInv
<1>4. CASE ArchiveChanges
  <2>1. write'.at = write.at /\ (write.short => write'.short)
    BY <1>1, <1>4 DEF ArchiveChanges, SpaceTypeOK
  <2> QED
    BY <1>1, <1>4, <2>1 DEF ArchiveChanges, RefusedInv
<1>5. CASE SampleAges \/ TimerSample \/ Probe
  BY <1>1, <1>5 DEF SampleAges, TimerSample, Probe, RefusedInv, disk
<1>6. CASE SampleEnds \/ SampleFails
  <2>1. Resumed /\ failures' >= failures
    BY <1>2, <1>6 DEF SampleEnds, SampleFails, disk
  <2>2. write'.short = write.short /\ (write'.at = "refused" => write.at = "refused")
    BY <1>1, <2>1, ResumedIs
  <2>3. failures > 0 => failures' > 0
    BY <1>2, <1>6 DEF SampleEnds, SampleFails, disk
  <2> QED
    BY <1>1, <2>2, <2>3 DEF RefusedInv
<1>7. CASE Decide
  <2>1. write'.at # "refused"
    BY <1>1, <1>7, WriteIs DEF Decide, Forces, WriteSteps
  <2> QED
    BY <2>1 DEF RefusedInv
<1>8. CASE DecideForced
  <2> SUFFICES ASSUME write'.at = "refused" PROVE write'.short \/ failures' > 0
    BY DEF RefusedInv
  <2>1. Insufficient(write.bytes) /\ write'.short = write.short /\ failures' = failures
    BY <1>1, <1>8, WriteIs DEF DecideForced, WriteSteps, disk
  <2>2. CASE ~write.short /\ failures = 0
    BY <1>1, <1>8, <2>1, <2>2, InsufficientIs DEF DecideForced, ForcedInv, WaitInv
  <2> QED
    BY <1>2, <2>1, <2>2
<1>9. CASE WriteAdmitted
  <2>1. write'.at = "written"
    BY <1>1, <1>9, WriteIs DEF WriteAdmitted, WriteSteps
  <2> QED
    BY <2>1 DEF RefusedInv
<1>10. CASE Consume \/ RefuseWrite
  BY <1>10 DEF Consume, RefuseWrite, NoWrite, RefusedInv
<1>11. CASE UNCHANGED spaceVars
  BY <1>1, <1>11 DEF spaceVars, RefusedInv
<1> QED
  BY <1>3, <1>4, <1>5, <1>6, <1>7, <1>8, <1>9, <1>10, <1>11 DEF SpaceNext

-----------------------------------------------------------------------------
(* The theorems. *)

LEMMA SpaceStarts == SpaceInit => SpaceInv
<1> SUFFICES ASSUME SpaceInit PROVE SpaceInv
  OBVIOUS
<1>1. /\ free \in Nat /\ free >= MinFreeBytes /\ walBytes = free /\ NoSample \notin Nat
      /\ MinFreeBytes \in Nat
  BY SpaceAssumption DEF SpaceInit
<1>2. write = NoWrite /\ write.at = "idle" /\ write \in [at : WriteSteps, bytes : Nat, short : BOOLEAN]
  BY DEF SpaceInit, NoWrite, WriteSteps
<1>3. SpaceTypeOK
  BY <1>1, <1>2 DEF SpaceInit, SpaceTypeOK
<1>4. EstimateInv /\ AdmittedInv
  BY <1>1, <1>2 DEF SpaceInit, EstimateInv, AdmittedInv, Undebited
<1>5. EnoughInv /\ WaitInv /\ ForcedInv /\ RefusedInv
  BY <1>1, <1>2 DEF SpaceInit, EnoughInv, WaitInv, ForcedInv, RefusedInv, Waits
<1> QED
  BY <1>3, <1>4, <1>5 DEF SpaceInv

\* Together the parts are inductive.
THEOREM SpaceInductive == SpaceSpec => []SpaceInv
<1>1. SpaceInv /\ [SpaceNext]_spaceVars => SpaceInv'
  BY SpaceTypeStep, EstimateStep, AdmittedStep, EnoughStep, WaitStep, ForcedStep, RefusedStep DEF SpaceInv
<1> QED
  BY <1>1, SpaceStarts, PTL DEF SpaceSpec

\* Frames never eat what is kept for the control state, and no append is turned
\* away without a reason, for every size of the disk, of the reserve and of the
\* frames, and wherever samples fall between the steps of the writes.
THEOREM Reserve == SpaceSpec => []ReserveIsKept
<1>1. SpaceInv => ReserveIsKept
  BY DEF SpaceInv, AdmittedInv, RefusedInv, ReserveIsKept
<1> QED
  BY <1>1, SpaceInductive, PTL

-----------------------------------------------------------------------------
(***************************************************************************)
(* ProviderOps                                                             *)
(***************************************************************************)
OverFields(e) == e = [f \in Fields |-> e[f]]

\* A record in the log is the one that was collected; the rows of a target are
\* those of an accepted record that could be prepared for it.
LogEntryInv ==
    /\ recordStage \in {"composing", "sent"} => logEntry = NothingLogged
    /\ logEntry = NothingLogged \/ logEntry.kind \in {"accepted", "rejected"}
    /\ logEntry.kind = "accepted" => ValidEnvelope(logEntry.envelope)

WrittenInv ==
    /\ DOMAIN written = DOMAIN Targets
    /\ \A t \in DOMAIN Targets : written[t] # {} =>
          /\ logEntry.kind = "accepted"
          /\ PrepareError(logEntry.envelope, t) = "none"
          /\ written[t] \subseteq Relations(logEntry.envelope)

\* What was refused was not acceptable, restored as it is.
RefusalInv ==
    recordStage = "rejected_permanent" =>
        \/ ~TrustedIngress(wire)
        \/ ~(ValidEnvelope(Restored(wire)) /\ wire.mapping = "mapped")

RecordInvariant ==
    OverFields(signed) /\ OverFields(wire) /\ LogEntryInv /\ WrittenInv /\ RefusalInv

-----------------------------------------------------------------------------
(* What the invariant implies. *)

LEMMA PreparedIsEncodable ==
  ASSUME NEW e, NEW t, PrepareError(e, t) = "none"
  PROVE  /\ InspectAccepts(e)
         /\ \A f \in {"taskId", "executionId"} : Text(e[f]) => Encodable(e[f])
<1>1. InspectAccepts(e) /\ \A v \in EntityIds(e) : Encodable(v)
  BY DEF PrepareError
<1>2. /\ Text(e.taskId) => e.taskId \in EntityIds(e)
      /\ Text(e.executionId) => e.executionId \in EntityIds(e)
  BY DEF EntityIds
<1> QED
  BY <1>1, <1>2

\* What a relation of a record that was prepared tells.
LEMMA RelationIsKnown ==
  ASSUME NEW e, NEW t, PrepareError(e, t) = "none", NEW r \in Relations(e)
  PROVE  /\ r.type = "task_execution_binding" =>
              /\ e.source = "committed_postgres" /\ e.instance = "authority"
              /\ Encodable(e.taskId) /\ Encodable(e.executionId)
              /\ "uncertainty" \notin {e.semantic, e.schema}
              /\ "reconciliation" \in {e.semantic, e.schema} =>
                     e.status = "found" /\ e.validated = "true"
         /\ r.type = "execution_mission_binding" =>
              e.mission = "exact" /\ e.refs = "some" /\ e.missionId = e.payloadMissionId
<1>1. CASE r.type = "task_execution_binding"
  <2>1. Text(e.taskId) /\ Text(e.executionId) /\ BindingSource(e) # "none"
    BY <1>1 DEF Relations, OriginRelations
  <2>2. InspectAccepts(e) /\ Encodable(e.taskId) /\ Encodable(e.executionId)
    BY <2>1, PreparedIsEncodable
  <2>3. CASE IsReconciliation(e) /\ e.status = "found"
    <3>1. Reconciliation(e)
      BY <2>2, <2>3 DEF InspectAccepts
    <3> QED
      BY <1>1, <2>2, <2>3, <3>1 DEF Reconciliation, CommittedRuntime
  <2>4. CASE ~(IsReconciliation(e) /\ e.status = "found")
    <3>1. ClosesIdentity(e)
      BY <2>1, <2>4 DEF BindingSource
    <3> QED
      BY <1>1, <2>2, <2>4, <3>1 DEF ClosesIdentity, CommittedRuntime, IsUncertainty, IsReconciliation
  <2> QED
    BY <2>3, <2>4
<1>2. CASE r.type = "execution_mission_binding"
  <2>1. e.fact = "mission_relation" /\ e.mission = "exact"
    BY <1>2 DEF Relations, OriginRelations
  <2>2. MissionRelation(e)
    BY <2>1, PreparedIsEncodable DEF InspectAccepts, Missing
  <2>3. IsGiven(e.missionId)
    BY <2>1, <2>2 DEF MissionRelation
  <2> QED
    BY <1>2, <2>1, <2>2, <2>3 DEF MissionRelation
<1> QED
  BY <1>1, <1>2

LEMMA NothingInventedFromInvariant ==
  ASSUME RecordInvariant
  PROVE  NothingIsInvented
<1>1. BindingsAreKnown
  BY RelationIsKnown DEF RecordInvariant, WrittenInv, BindingsAreKnown
<1>2. AcceptedAsSigned
  BY DEF RecordInvariant, LogEntryInv, ValidEnvelope, MatchesHash, AcceptedAsSigned
<1> QED
  BY <1>1, <1>2 DEF NothingIsInvented

\* The fields that a family may leave null, in a record of the frozen shape.
FrozenNullable(e) ==
    (IF e.type = "task" THEN {"reasonCode", "currentSubstate"} ELSE {})
    \cup (IF e.semantic = "reconciliation" /\ e.status # "found"
          THEN {"payloadExecutionId"} ELSE {})
    \cup (IF e.fact # Missing /\ e.mission # "exact" THEN {"payloadMissionId"} ELSE {})

LEMMA NullableIsFrozen ==
  ASSUME NEW e, ValidEnvelope(e)
  PROVE  NullableFields(e) = FrozenNullable(e)
<1>1. InspectAccepts(e)
  BY DEF ValidEnvelope
<1>2. e.semantic = "reconciliation" => e.schema = "reconciliation"
  BY <1>1 DEF InspectAccepts, IsReconciliation, Reconciliation
<1>3. e.fact # Missing => e.fact = "mission_relation"
  BY <1>1 DEF InspectAccepts, MissionRelation
<1>4. e.fact = "mission_relation" => e.fact # Missing
  BY DEF Missing
<1> QED
  BY <1>2, <1>3, <1>4 DEF NullableFields, NullableOfTaskOnly, FrozenNullable

\* What decides is never null, and the nulls are covered by the hash.
Deciding == {"type", "semantic", "schema", "status", "fact", "mission", "ingress", "mapping"}
Nullable == {"reasonCode", "currentSubstate", "payloadExecutionId", "payloadMissionId"}

LEMMA FieldsKnown ==
  /\ Deciding \subseteq Fields /\ Nullable \subseteq Hashed
  /\ Deciding \cap Nullable = {} /\ Hashed \subseteq Fields
<1>1. Deciding \subseteq Fields
  BY DEF Deciding, Fields, FieldValues
<1>2. Nullable \subseteq Fields
  BY DEF Nullable, Fields, FieldValues
<1> QED
  BY <1>1, <1>2 DEF Deciding, Nullable, Hashed

LEMMA FrozenInNullable ==
  ASSUME NEW e
  PROVE  FrozenNullable(e) \subseteq Nullable
BY DEF FrozenNullable, Nullable

\* A record that has lost nothing but its nulls is restored to what was signed.
LEMMA LossIsRestored ==
  ASSUME OverFields(signed), OverFields(wire), FrozenShape(signed), ValidEnvelope(signed),
         \A f \in Fields : wire[f] = signed[f] \/ (signed[f] = Null /\ Lost(wire[f]))
  PROVE  Restored(wire) = signed
<1> DEFINE candidate == [f \in Fields |-> IF f \in NullableFields(wire) /\ Lost(wire[f])
                                          THEN Null ELSE wire[f]]
<1>1. \A f \in Fields : IF f \in FrozenNullable(signed) THEN ~Lost(signed[f]) ELSE signed[f] # Null
  BY DEF FrozenShape, FrozenNullable
<1>2. \A f \in Deciding : wire[f] = signed[f]
  BY <1>1, FieldsKnown, FrozenInNullable
<1>3. NullableFields(wire) = NullableFields(signed)
  <2>1. /\ wire.type = signed.type /\ wire.semantic = signed.semantic /\ wire.schema = signed.schema
        /\ wire.status = signed.status /\ wire.fact = signed.fact /\ wire.mission = signed.mission
    BY <1>2 DEF Deciding
  <2> QED
    BY <2>1 DEF NullableFields, NullableOfTaskOnly
<1>4. NullableFields(wire) = FrozenNullable(signed)
  BY <1>3, NullableIsFrozen
<1>5. \A f \in Fields : candidate[f] = signed[f]
  BY <1>1, <1>4
<1>6. candidate = signed
  BY <1>5 DEF OverFields
<1>7. MatchesHash(candidate)
  BY <1>6 DEF MatchesHash
<1>8. MatchesHash(wire) => wire = signed
  <2> SUFFICES ASSUME MatchesHash(wire) PROVE wire = signed
    OBVIOUS
  <2>1. \A f \in Fields : wire[f] = signed[f]
    BY <1>1, FieldsKnown, FrozenInNullable DEF MatchesHash
  <2> QED
    BY <2>1 DEF OverFields
<1>9. Restored(wire) = IF ~MatchesHash(wire) /\ MatchesHash(candidate) THEN candidate ELSE wire
  BY DEF Restored
<1> HIDE DEF candidate
<1> QED
  BY <1>6, <1>7, <1>8, <1>9

LEMMA LossUndoneFromInvariant ==
  ASSUME RecordInvariant
  PROVE  TransportLossIsUndone
<1> SUFFICES ASSUME recordStage = "rejected_permanent",
                    FrozenShape(signed), ValidEnvelope(signed),
                    TrustedIngress(signed), signed.mapping = "mapped",
                    \A f \in Fields : wire[f] = signed[f] \/ (signed[f] = Null /\ Lost(wire[f]))
             PROVE  FALSE
  BY DEF TransportLossIsUndone
<1>1. Restored(wire) = signed
  BY LossIsRestored DEF RecordInvariant
<1>2. \A f \in {"ingress", "mapping"} : wire[f] = signed[f]
  <2>1. \A f \in {"ingress", "mapping"} : f \in Fields /\ f \notin Nullable
    BY FieldsKnown DEF Deciding
  <2>2. \A f \in {"ingress", "mapping"} : signed[f] # Null
    BY <2>1, FrozenInNullable DEF FrozenShape, FrozenNullable
  <2> QED
    BY <2>1, <2>2
<1> QED
  BY <1>1, <1>2 DEF RecordInvariant, RefusalInv, TrustedIngress

-----------------------------------------------------------------------------
LEMMA RecordInitInvariant ==
  ASSUME RecordInit
  PROVE  RecordInvariant
<1>1. \A e \in SampleRecords : OverFields(e)
  BY DEF SampleRecords, OverFields, Envelope
<1>2. OverFields(signed) /\ OverFields(wire)
  BY <1>1 DEF RecordInit
<1>3. LogEntryInv
  BY DEF RecordInit, LogEntryInv, NothingLogged
<1>4. WrittenInv /\ RefusalInv
  BY DEF RecordInit, WrittenInv, RefusalInv
<1> QED
  BY <1>2, <1>3, <1>4 DEF RecordInvariant

\* Nothing is written of a record before it is in the log.
LEMMA ComposingSteps ==
  ASSUME RecordInvariant,
         \/ \E f \in Fields : \E v \in FieldValues[f] : Sign(f, v) \/ Damage(f, v)
         \/ \E null \in {Null, Missing, Empty} : SendRecord(null)
  PROVE  RecordInvariant'
<1> USE DEF RecordInvariant
<1>1. /\ recordStage \in {"composing", "sent"} /\ recordStage' \in {"composing", "sent"}
      /\ logEntry' = logEntry /\ written' = written
  BY DEF Sign, Damage, SendRecord
<1>2. logEntry = NothingLogged
  BY <1>1 DEF LogEntryInv
<1>3. OverFields(signed)' /\ OverFields(wire)'
  <2>1. ASSUME NEW f \in Fields, NEW v, Sign(f, v) PROVE OverFields(signed)' /\ OverFields(wire)'
    BY <2>1 DEF Sign, OverFields
  <2>2. ASSUME NEW f \in Fields, NEW v, Damage(f, v) PROVE OverFields(signed)' /\ OverFields(wire)'
    BY <2>2 DEF Damage, OverFields
  <2>3. ASSUME NEW null, SendRecord(null) PROVE OverFields(signed)' /\ OverFields(wire)'
    BY <2>3 DEF SendRecord, OverFields
  <2> QED
    BY <2>1, <2>2, <2>3
<1>4. logEntry.kind = "none"
  BY <1>2 DEF NothingLogged
<1>5. LogEntryInv'
  BY <1>1, <1>2, <1>4 DEF LogEntryInv
<1>6. WrittenInv'
  BY <1>1, <1>4 DEF WrittenInv
<1>7. RefusalInv'
  BY <1>1 DEF RefusalInv
<1> QED
  BY <1>3, <1>5, <1>6, <1>7

LEMMA NothingWrittenYet ==
  ASSUME WrittenInv, logEntry = NothingLogged
  PROVE  \A t \in DOMAIN Targets : written[t] = {}
BY DEF WrittenInv, NothingLogged

LEMMA JudgedUnchanged ==
  ASSUME signed' = signed, wire' = wire
  PROVE  /\ Restored(wire)' = Restored(wire)
         /\ \A e : ValidEnvelope(e)' = ValidEnvelope(e)
<1>1. \A e : MatchesHash(e)' = MatchesHash(e)
  BY DEF MatchesHash
<1>2. Restored(wire)' = Restored(wire)
  BY <1>1 DEF Restored
<1>3. \A e : ValidEnvelope(e)' = ValidEnvelope(e)
  BY <1>1 DEF ValidEnvelope
<1> QED
  BY <1>2, <1>3

LEMMA CollectSteps ==
  ASSUME RecordInvariant, RejectIngress \/ Store
  PROVE  RecordInvariant'
<1> USE DEF RecordInvariant
<1>1. recordStage = "sent" /\ UNCHANGED <<signed, wire, written>>
  BY DEF RejectIngress, Store, Collected
<1>2. logEntry = NothingLogged
  BY <1>1 DEF LogEntryInv
<1>3. OverFields(signed)' /\ OverFields(wire)'
  BY <1>1 DEF OverFields
<1>4. WrittenInv'
  BY <1>1, <1>2, NothingWrittenYet DEF WrittenInv
<1>5. CASE RejectIngress
  <2>1. recordStage' = "rejected_permanent" /\ logEntry' = logEntry /\ ~TrustedIngress(wire)
    BY <1>5 DEF RejectIngress, Collected
  <2>2. LogEntryInv'
    BY <2>1, <1>2 DEF LogEntryInv, NothingLogged
  <2>3. RefusalInv'
    BY <1>1, <2>1 DEF RefusalInv, TrustedIngress
  <2> QED
    BY <1>3, <1>4, <2>2, <2>3
<1>6. CASE Store
  <2> DEFINE e == Restored(wire)
             accepted == ValidEnvelope(e) /\ wire.mapping = "mapped"
  <2>1. /\ logEntry' = [kind |-> IF accepted THEN "accepted" ELSE "rejected", envelope |-> e]
        /\ recordStage' = IF accepted THEN "accepted" ELSE "rejected_permanent"
    BY <1>6 DEF Store, Collected
  <2>2. e' = e /\ ValidEnvelope(e)' = ValidEnvelope(e)
    BY <1>1, JudgedUnchanged
  <2> HIDE DEF e
  <2>3. LogEntryInv'
    <3>1. logEntry'.kind = "accepted" => logEntry'.envelope = e /\ ValidEnvelope(e)
      BY <2>1
    <3>2. ValidEnvelope(logEntry.envelope)' <=> ValidEnvelope(logEntry'.envelope)
      BY <1>1, JudgedUnchanged DEF ValidEnvelope, MatchesHash
    <3>3. logEntry'.kind \in {"accepted", "rejected"} /\ recordStage' \notin {"composing", "sent"}
      BY <2>1
    <3> QED
      BY <3>1, <3>2, <3>3 DEF LogEntryInv
  <2>4. RefusalInv'
    BY <1>1, <2>1, <2>2 DEF RefusalInv, e
  <2> QED
    BY <1>3, <1>4, <2>3, <2>4
<1> QED
  BY <1>5, <1>6

LEMMA RestSteps ==
  ASSUME RecordInvariant, UNCHANGED <<signed, wire, recordStage, logEntry>>, WrittenInv'
  PROVE  RecordInvariant'
<1> USE DEF RecordInvariant
<1>1. OverFields(signed)' /\ OverFields(wire)'
  BY DEF OverFields
<1>2. LogEntryInv'
  <2>1. ValidEnvelope(logEntry.envelope)' <=> ValidEnvelope(logEntry.envelope)
    BY DEF ValidEnvelope, MatchesHash
  <2> QED
    BY <2>1 DEF LogEntryInv
<1>3. RefusalInv'
  BY JudgedUnchanged DEF RefusalInv, TrustedIngress
<1> QED
  BY <1>1, <1>2, <1>3

LEMMA ProjectStep ==
  ASSUME RecordInvariant, NEW t \in DOMAIN Targets, ProjectEntry(t)
  PROVE  RecordInvariant'
<1> USE DEF RecordInvariant
<1> DEFINE e == logEntry.envelope
<1>1. PICK rs : /\ written' = [written EXCEPT ![t] = rs]
                /\ UNCHANGED <<signed, wire, recordStage, logEntry>>
                /\ rs # {} => /\ logEntry.kind = "accepted" /\ PrepareError(e, t) = "none"
                              /\ rs = Relations(e)
  <2>1. logEntry # NothingLogged
    BY DEF ProjectEntry
  <2>2. CASE logEntry.kind = "rejected"
    BY <2>2 DEF ProjectEntry, DisposeEntry
  <2>3. CASE logEntry.kind = "accepted"
    <3>1. PrepareError(e, t) \in {"none", "record", "unknown"}
      BY DEF PrepareError
    <3> HIDE DEF e
    <3> QED
      BY <2>3, <3>1 DEF ProjectEntry, DisposeEntry, e
  <2> QED
    BY <2>1, <2>2, <2>3 DEF LogEntryInv
<1>2. WrittenInv'
  <2>1. DOMAIN written' = DOMAIN Targets
    BY <1>1 DEF WrittenInv
  <2>2. \A u \in DOMAIN Targets : written'[u] = IF u = t THEN rs ELSE written[u]
    BY <1>1 DEF WrittenInv
  <2> QED
    BY <1>1, <2>1, <2>2 DEF WrittenInv
<1> QED
  BY <1>1, <1>2, RestSteps

LEMMA RecordStep ==
  ASSUME RecordInvariant, [RecordNext]_recordVars
  PROVE  RecordInvariant'
<1>1. CASE UNCHANGED recordVars
  <2>1. WrittenInv'
    BY <1>1 DEF recordVars, RecordInvariant, WrittenInv
  <2> QED
    BY <1>1, <2>1, RestSteps DEF recordVars
<1> QED
  BY <1>1, ComposingSteps, CollectSteps, ProjectStep DEF RecordNext

\* Nothing is stored that the producer did not sign, and nothing is bound that
\* he does not report as known (apps/processor.ts, smpp-runtime-semantics.ts,
\* smpp-provider-ops-v1.ts), however many fields are changed and whatever the
\* targets.
THEOREM OnlyTheKnownIsBound == RecordSpec => []NothingIsInvented
<1>1. RecordInit => RecordInvariant
  BY RecordInitInvariant
<1>2. RecordInvariant /\ [RecordNext]_recordVars => RecordInvariant'
  BY RecordStep
<1>3. RecordInvariant => NothingIsInvented
  BY NothingInventedFromInvariant
<1> QED
  BY <1>1, <1>2, <1>3, PTL DEF RecordSpec

\* Losing its nulls on the transport never costs a valid record its acceptance
\* (canonical.ts).
THEOREM NullsAreRestored == RecordSpec => []TransportLossIsUndone
<1>1. RecordInit => RecordInvariant
  BY RecordInitInvariant
<1>2. RecordInvariant /\ [RecordNext]_recordVars => RecordInvariant'
  BY RecordStep
<1>3. RecordInvariant => TransportLossIsUndone
  BY LossUndoneFromInvariant
<1> QED
  BY <1>1, <1>2, <1>3, PTL DEF RecordSpec
=============================================================================
