------------------------- MODULE Publication_proofs -------------------------
(***************************************************************************)
(* Proofs about Publication for every bound, batch and page size.          *)
(***************************************************************************)
EXTENDS Publication, FiniteSetTheorems, TLAPS

-----------------------------------------------------------------------------
(* The inductive invariant. The operators below take the parts of the state *)
(* they speak of as parameters, to be used of the next state, too.          *)

\* What DispositionOf says, and the outputs of the first n entries.
DispositionIn(w, e) ==
  IF w[e] = "defective" THEN "quarantined"
  ELSE IF w[e] = "filtered" THEN "not-routed" ELSE "projected"
Shown(w, n) == {key \in Keys : key[1] <= n /\ key[2] <= Outputs[w[key[1]]]}

\* The last number of entry n (of entry 0 before the first), and what the
\* publisher and a snapshot say when the entries up to n are published.
ThroughAt(r, n) == IF n = 0 THEN 0 ELSE r[n].through
ProgressAt(r, n) ==
  [ordinal |-> n, ingest |-> n, through |-> ThroughAt(r, n), count |-> ThroughAt(r, n)]
BoundaryAt(r, n) == [ingest |-> n, through |-> ThroughAt(r, n), count |-> ThroughAt(r, n)]
IsBoundary(r, m, b) == \E n \in 0..m : b = BoundaryAt(r, n)

\* The publication of output k of entry e.
Pub(r, e, k) == [key |-> <<e, k>>, number |-> r[e].from + k - 1]

Published == IF progress = None THEN 0 ELSE progress.ordinal

\* Exactly the entries up to the checkpoint are disposed of, each as its class
\* says and with its plan complete; a plan counts rows that are there.
DeliveryInv ==
  /\ wal \in Seq(Classes) /\ Len(wal) <= MaxEntries
  /\ checkpoint \in 0..Len(wal)
  /\ plan \in [Entries -> (0..2) \cup {None}]
  /\ disposition \in [Entries -> Dispositions \cup {None}]
  /\ \A e \in Entries : disposition[e] = IF e <= checkpoint THEN DispositionIn(wal, e) ELSE None
  /\ \A e \in 1..checkpoint : Complete(e)
  /\ \A e \in Entries : plan[e] # None =>
       /\ e <= Len(wal) /\ e <= checkpoint + 1 /\ plan[e] <= Outputs[wal[e]]
       /\ \A k \in 1..plan[e] : <<e, k>> \in store.rows
  /\ store.rows \subseteq Keys

\* Numbers are reserved in the order of the entries, without gap or overlap,
\* for those up to the checkpoint and at most the one after it.
ReservationInv ==
  /\ last = [ordinal |-> last.ordinal, sequence |-> last.sequence]
  /\ last.ordinal \in {checkpoint, checkpoint + 1} /\ last.ordinal <= Len(wal)
  /\ reserved \in [Entries -> Reservations \cup {None}]
  /\ \A e \in Entries : reserved[e] # None <=> e <= last.ordinal
  /\ \A e \in 1..last.ordinal :
       /\ reserved[e].ordinal = e
       /\ reserved[e].from = ThroughAt(reserved, e - 1) + 1
       /\ reserved[e].through = ThroughAt(reserved, e - 1) + Outputs[wal[e]]
       /\ reserved[e].through <= 2 * e /\ reserved[e].through <= last.sequence
  /\ \A e, f \in 1..last.ordinal : e < f => reserved[e].through < reserved[f].from
  /\ last.sequence = ThroughAt(reserved, last.ordinal)
  /\ \A n \in 1..last.sequence : \E e \in 1..last.ordinal :
       reserved[e].from <= n /\ n <= reserved[e].through

\* The entries up to the checkpoint are published in order; those that are have
\* all their revisions and publications.
PublicationInv ==
  /\ progress = None \/ progress = ProgressAt(reserved, progress.ordinal)
  /\ Published \in 0..checkpoint
  /\ done = 1..Published /\ outbox = (Published + 1)..checkpoint
  /\ store.revisions \subseteq Keys
  /\ \A p \in store.publications :
       \E e \in 1..checkpoint : \E k \in 1..Outputs[wal[e]] : p = Pub(reserved, e, k)
  /\ \A e \in 1..Published : \A k \in 1..Outputs[wal[e]] :
       <<e, k>> \in store.revisions /\ Pub(reserved, e, k) \in store.publications

TotalRow(row) ==
  /\ row = [received |-> row.received, processed |-> checkpoint, visible |-> Published,
            accepted |-> row.accepted, disposed |-> counts, pending |-> row.pending,
            coverage |-> "exact"]
  /\ row.received \in 0..Len(wal)

\* What flush() has in hand at its awaits.
WorkerInv ==
  /\ worker = [pc |-> worker.pc, upto |-> worker.upto, sent |-> worker.sent,
               catching |-> worker.catching, row |-> worker.row]
  /\ worker.pc \in {"down", "idle", "index", "batch", "project", "inserted", "publish", "refresh",
                    "snapshot", "boundaries", "accepted", "pending", "total", "scope"}
  /\ worker.upto \in 0..Len(wal) /\ worker.sent \in 0..4
  /\ worker.pc # "down" => progress # None
  /\ worker.pc = "inserted" =>
       /\ Current <= worker.upto /\ plan[Current] # None
       /\ plan[Current] < Outputs[wal[Current]] /\ <<Current, plan[Current] + 1>> \in store.rows
  /\ worker.sent # 0 =>
       /\ worker.pc = "publish" /\ Published < checkpoint
       /\ worker.sent <= 2 * Outputs[wal[Published + 1]]
       /\ \A k \in 1..Outputs[wal[Published + 1]] :
            /\ 2 * k <= worker.sent + 1 => <<Published + 1, k>> \in store.revisions
            /\ 2 * k <= worker.sent => Pub(reserved, Published + 1, k) \in store.publications
  /\ worker.pc \in {"snapshot", "boundaries"} => worker.row = BoundaryAt(reserved, Published)
  /\ worker.pc \in {"accepted", "pending", "total"} => TotalRow(worker.row)

SnapshotInv ==
  /\ store = [rows |-> store.rows, revisions |-> store.revisions,
              publications |-> store.publications, snapshot |-> store.snapshot,
              progress |-> store.progress]
  /\ store.snapshot # None => IsBoundary(reserved, Published, store.snapshot)

\* A sequence of keys is the newest part of what a boundary shows, in order.
LeftOut(c, all) == all \ {c[i] : i \in DOMAIN c}
Newest(c, all) ==
  /\ c \in Seq(Keys)
  /\ \A i, j \in 1..Len(c) : i < j => Before(c[i], c[j])
  /\ \A i \in 1..Len(c) : c[i] \in all /\ \A k \in LeftOut(c, all) : Before(c[i], k)

\* What a client has is the newest part of the snapshot of its cursor.
ReaderInv ==
  LET c == reader.collected
      all == Shown(wal, reader.frozen.ingest)
  IN  /\ reader = [pc |-> reader.pc, frozen |-> reader.frozen, after |-> reader.after,
                   collected |-> reader.collected]
      /\ reader.pc \in {"meta", "counts", "rows", "finished"}
      /\ reader.frozen = None => reader.pc = "meta" /\ reader.after = None /\ c = <<>>
      /\ reader.frozen # None =>
           /\ IsBoundary(reserved, Published, reader.frozen)
           /\ Newest(c, all)
           /\ reader.after = IF c = <<>> THEN None ELSE c[Len(c)]
      /\ reader.pc = "finished" => reader.frozen # None /\ {c[i] : i \in 1..Len(c)} = all

\* The accepted entries up to n, and those of them with a disposition.
AcceptedOf(w, n) == {e \in 1..n : w[e] # "rejected"}
DisposedOf(w, n, d) == {e \in AcceptedOf(w, n) : DispositionIn(w, e) = d}

\* Entries that are both indexed and disposed of are those up to this one.
Both(i, c) == IF i <= c THEN i ELSE c

LedgerInv ==
  LET i == ledger.indexed
      both == Both(i, checkpoint)
  IN  /\ ledger = [indexed |-> ledger.indexed, accepted |-> ledger.accepted,
                   disposed |-> ledger.disposed, pending |-> ledger.pending,
                   received |-> ledger.received, processed |-> ledger.processed,
                   legacy |-> FALSE]
      /\ i \in 0..Len(wal) /\ ledger.received \in Nat /\ ledger.processed \in Nat
      /\ ledger.accepted = Cardinality(AcceptedOf(wal, i))
      /\ waiting = {e \in AcceptedOf(wal, i) : e > checkpoint}
      /\ ledger.pending = Cardinality(waiting)
      /\ \A e \in AcceptedOf(wal, both) : e <= ledger.processed
      /\ ledger.disposed \in [Dispositions -> Nat] /\ counts \in [Dispositions -> Nat]
      /\ \A d \in Dispositions :
           /\ ledger.disposed[d] = Cardinality(DisposedOf(wal, both, d))
           /\ counts[d] = Cardinality(DisposedOf(wal, checkpoint, d))

PublishInv ==
  /\ DeliveryInv /\ ReservationInv /\ PublicationInv /\ WorkerInv
  /\ SnapshotInv /\ ReaderInv /\ LedgerInv

-----------------------------------------------------------------------------
(* Numbers. *)

\* What the constants are.
LEMMA Numbers ==
  /\ MaxEntries \in Nat /\ MaxEntries >= 1 /\ PageLimit \in Nat /\ PageLimit >= 1
  /\ BatchSize \in Nat /\ IndexLimit \in Nat
  /\ None \notin Nat /\ None \notin Dispositions /\ None \notin Keys
  /\ \A o, f, t \in Nat : None # [ordinal |-> o, from |-> f, through |-> t]
  /\ \A r, n \in Nat : None # [ordinal |-> n, ingest |-> n, through |-> r, count |-> r]
  /\ \A r, n \in Nat : None # [ingest |-> n, through |-> r, count |-> r]
<1>1. /\ {MaxEntries, BatchSize, IndexLimit, PageLimit} \subseteq Nat \ {0}
      /\ None \notin Nat \cup {"projected", "quarantined", "not-routed"}
      /\ None \notin Nat \X Nat
  BY ConstantsAssumption
<1>2. \A o, f, t \in Nat : None # [ordinal |-> o, from |-> f, through |-> t]
  BY ConstantsAssumption
<1>3. \A r, n \in Nat : None # [ordinal |-> n, ingest |-> n, through |-> r, count |-> r]
  BY ConstantsAssumption
<1>4. \A r, n \in Nat : None # [ingest |-> n, through |-> r, count |-> r]
  BY ConstantsAssumption
<1>5. Keys \subseteq Nat \X Nat
  BY <1>1 DEF Keys, Entries
<1> QED
  BY <1>1, <1>2, <1>3, <1>4, <1>5 DEF Dispositions

\* The classes and their outputs.
LEMMA OutputsAre ==
  /\ Classes = {"routed", "filtered", "defective", "rejected"}
  /\ \A c \in Classes : Outputs[c] \in 0..2
  /\ Outputs["filtered"] = 0 /\ Outputs["defective"] = 0
BY DEF Classes, Outputs

\* The smaller of two numbers, and the largest of a bounded set.
LEMMA MinIs ==
  ASSUME NEW a \in Int, NEW b \in Int
  PROVE  /\ Min({a, b}) \in {a, b} /\ Min({a, b}) <= a /\ Min({a, b}) <= b
         /\ Min({a, b}) \in Int
<1>1. \E x \in {a, b} : \A y \in {a, b} : x <= y
  BY SMT
<1>2. Min({a, b}) \in {a, b} /\ \A y \in {a, b} : Min({a, b}) <= y
  BY <1>1 DEF Min
<1> QED
  BY <1>2

\* A nonempty family of subsets of a finite set has a smallest member.
LEMMA SmallestSubset ==
  ASSUME NEW S, IsFiniteSet(S), NEW F \in SUBSET (SUBSET S), F # {}
  PROVE  \E m \in F : \A n \in F : n \subseteq m => n = m
<1>1. IsWellFoundedOn(StrictSubsetOrdering(S), SUBSET S)
  BY FS_StrictSubsetOrderingWellFounded, FS_FiniteSubsetsOfFinite
<1>2. PICK m \in F : \A n \in F : <<n, m>> \notin StrictSubsetOrdering(S)
  BY <1>1, WFMin
<1> QED
  BY <1>2 DEF StrictSubsetOrdering

\* A nonempty bounded set of numbers has a largest element.
LEMMA Largest ==
  ASSUME NEW N \in Nat, NEW T \in SUBSET (0..N), T # {}
  PROVE  \E x \in T : \A y \in T : y <= x
<1> DEFINE S == 0..N
           F == {k..N : k \in T}
<1>1. IsFiniteSet(S)
  BY FS_Interval
<1>2. F # {} /\ F \in SUBSET (SUBSET S)
  <2>1. \A k \in T : k..N \in SUBSET S
    OBVIOUS
  <2> QED
    BY <2>1
<1>3. PICK m \in F : \A k \in F : k \subseteq m => k = m
  <2> HIDE DEF F, S
  <2> QED BY <1>1, <1>2, SmallestSubset
<1>4. PICK x \in T : m = x..N
  BY <1>3
<1>5. ASSUME NEW y \in T, ~(y <= x) PROVE FALSE
  <2>1. y..N \in F /\ y..N \subseteq m
    BY <1>4, <1>5
  <2>2. y..N = x..N
    BY <1>3, <1>4, <2>1
  <2>3. x \in x..N /\ x \notin y..N
    BY <1>5
  <2> QED
    BY <2>2, <2>3
<1> QED
  BY <1>5

LEMMA MaxIs ==
  ASSUME NEW N \in Nat, NEW T \in SUBSET (0..N), T # {}
  PROVE  Max(T) \in T /\ \A y \in T : y <= Max(T)
<1>1. \E x \in T : \A y \in T : x >= y
  BY Largest
<1> QED
  BY <1>1 DEF Max

LEMMA MaxOfTwo ==
  ASSUME NEW a \in Nat, NEW b \in Nat, a <= b
  PROVE  Max({a, b}) = b
<1>1. {a, b} \in SUBSET (0..b)
  OBVIOUS
<1> QED
  BY <1>1, MaxIs

\* What holds of 0 and of the successor of what it holds of, holds up to N.
LEMMA Induction ==
  ASSUME NEW Good, 0 \in Good, NEW N \in Nat,
         \A n \in 1..N : n - 1 \in Good => n \in Good
  PROVE  \A n \in 0..N : n \in Good
<1> DEFINE Bad == {n \in 0..N : \E m \in 0..n : m \notin Good}
           Fine == (0..N) \ Bad
<1>1. 0 \in Fine
  OBVIOUS
<1>2. Fine \in SUBSET (0..N) /\ Fine # {}
  BY <1>1
<1>3. PICK x \in Fine : \A y \in Fine : y <= x
  <2> HIDE DEF Fine
  <2> QED BY <1>2, Largest
<1>4. \A m \in 0..x : m \in Good
  BY <1>3
<1>5. ASSUME x # N PROVE FALSE
  <2>1. x + 1 \in 1..N /\ (x + 1) - 1 = x
    BY <1>3, <1>5
  <2>2. x + 1 \in Good
    BY <1>4, <2>1
  <2>3. \A m \in 0..x + 1 : m \in Good
    BY <1>3, <1>4, <2>2
  <2> QED
    BY <2>1, <2>3, <1>3
<1> QED
  BY <1>4, <1>5

-----------------------------------------------------------------------------
(* What a step changes. *)

\* The log and what is worked off change in one of these steps.
LEMMA Moves ==
  ASSUME [Next]_vars
  PROVE  \/ \E class \in Classes : Accept(class)
         \/ Prepare \/ CompleteOutput \/ Reserve \/ Commit
         \/ MarkPublished \/ Initialize \/ IndexInputs
         \/ UNCHANGED <<wal, plan, disposition, checkpoint, counts, reserved, last, outbox, done,
                        progress, ledger, waiting>>
<1> USE DEF delivery, publication
<1>1. CASE Flush
  BY <1>1 DEF Flush, Begin, TakeBatch, InsertOutput, StartPublishing, InsertPublication,
     StartRefresh, TakeVersion, InsertSnapshot, ReadBoundaries, ReadAccepted, ReadPending,
     InsertTotal, InsertScope
<1>2. CASE ~Flush
  BY <1>2 DEF Next, vars, InsertFails, Crash, ReadMetadata, CheckCounts, ReadPage, NewQuery
<1> QED
  BY <1>1, <1>2

\* The tables change in inserts alone, and with them nothing but the worker.
StoreMoves ==
  \/ Outstanding /\ store' = [store EXCEPT !.rows = @ \cup {<<Current, plan[Current] + 1>>}]
  \/ Sending /\ store' = WithSent(store)
  \/ worker.pc = "snapshot" /\ store' = [store EXCEPT !.snapshot = worker.row]
  \/ worker.pc = "total" /\ store' = [store EXCEPT !.progress = worker.row]
  \/ worker.pc = "scope" /\ store' = [store EXCEPT !.progress = ScopeRow]
LEMMA StoreIs ==
  ASSUME [Next]_vars
  PROVE  \/ store' = store
         \/ /\ StoreMoves
            /\ UNCHANGED <<wal, plan, disposition, checkpoint, counts, reserved, last, outbox, done,
                           progress, version, ledger, waiting, reader>>
<1> USE DEF delivery, publication
<1>1. CASE Flush
  BY <1>1 DEF Flush, Initialize, Begin, IndexInputs, TakeBatch, Prepare, InsertOutput,
     CompleteOutput, Reserve, Commit, StartPublishing, InsertPublication, MarkPublished,
     StartRefresh, TakeVersion, InsertSnapshot, ReadBoundaries, ReadAccepted, ReadPending,
     InsertTotal, InsertScope, StoreMoves
<1>2. CASE InsertFails
  <2>1. \/ store' = store
        \/ store' = Written /\ (\/ Outstanding \/ Sending
                                \/ worker.pc \in {"snapshot", "total", "scope"})
    BY <1>2 DEF InsertFails
  <2>2. ASSUME Outstanding
        PROVE  Written = [store EXCEPT !.rows = @ \cup {<<Current, plan[Current] + 1>>}]
    BY <2>2 DEF Written, Outstanding, Projecting, Sending, Publishing
  <2>3. ASSUME Sending PROVE Written = WithSent(store)
    BY <2>3 DEF Written, Outstanding, Projecting, Sending, Publishing
  <2>4. ASSUME worker.pc = "snapshot" PROVE Written = [store EXCEPT !.snapshot = worker.row]
    BY <2>4 DEF Written, Outstanding, Projecting, Sending, Publishing
  <2>5. ASSUME worker.pc = "total" PROVE Written = [store EXCEPT !.progress = worker.row]
    BY <2>5 DEF Written, Outstanding, Projecting, Sending, Publishing
  <2>6. ASSUME worker.pc = "scope" PROVE Written = [store EXCEPT !.progress = ScopeRow]
    BY <2>6 DEF Written, Outstanding, Projecting, Sending, Publishing
  <2> QED
    BY <1>2, <2>1, <2>2, <2>3, <2>4, <2>5, <2>6 DEF InsertFails, StoreMoves
<1>3. CASE ~Flush /\ ~InsertFails
  BY <1>3 DEF Next, vars, Accept, Crash, ReadMetadata, CheckCounts, ReadPage, NewQuery
<1> QED
  BY <1>1, <1>2, <1>3

-----------------------------------------------------------------------------
(* What the target did with the log. *)

LEMMA LogIs ==
  ASSUME DeliveryInv
  PROVE  /\ Len(wal) \in Nat /\ checkpoint \in Nat /\ checkpoint <= Len(wal)
         /\ 1..Len(wal) \subseteq Entries
         /\ \A e \in 1..Len(wal) : wal[e] \in Classes /\ Outputs[wal[e]] \in 0..2
BY Numbers, OutputsAre DEF DeliveryInv, Entries

\* An append leaves the entries before it alone.
LEMMA Appended ==
  ASSUME DeliveryInv, NEW class \in Classes, Accept(class)
  PROVE  /\ wal' \in Seq(Classes) /\ Len(wal') = Len(wal) + 1 /\ Len(wal') <= MaxEntries
         /\ \A e \in 1..Len(wal) : wal'[e] = wal[e]
         /\ UNCHANGED <<plan, disposition, checkpoint, counts, reserved, last, outbox, done,
                        progress, ledger, waiting, store, worker, reader>>
<1>1. wal' = Append(wal, class)
  BY DEF Accept, DeliveryInv
<1> QED
  BY <1>1, LogIs, Numbers DEF Accept, DeliveryInv, delivery, publication

\* Rows are only added.
LEMMA RowsKept ==
  ASSUME PublishInv, [Next]_vars
  PROVE  store.rows \subseteq store'.rows /\ store'.rows \subseteq Keys
<1>1. /\ DeliveryInv /\ store.rows \subseteq Keys
      /\ store = [rows |-> store.rows, revisions |-> store.revisions,
                  publications |-> store.publications, snapshot |-> store.snapshot,
                  progress |-> store.progress]
  BY DEF PublishInv, DeliveryInv, SnapshotInv
<1>2. ASSUME Outstanding PROVE <<Current, plan[Current] + 1>> \in Keys
  <2>1. Current \in Entries /\ plan[Current] \in 0..2 /\ Outputs[wal[Current]] \in 0..2
    BY <1>1, <1>2, LogIs, Numbers
       DEF PublishInv, WorkerInv, DeliveryInv, Outstanding, Projecting, Current, Entries
  <2>2. plan[Current] + 1 \in 1..2
    BY <1>2, <2>1 DEF Outstanding
  <2> QED
    BY <2>1, <2>2 DEF Keys
<1>3. CASE StoreMoves
  BY <1>1, <1>2, <1>3 DEF StoreMoves, WithSent
<1> QED
  BY <1>1, <1>3, StoreIs

LEMMA DeliveryStep ==
  ASSUME PublishInv, [Next]_vars
  PROVE  DeliveryInv'
<1>1. DeliveryInv /\ WorkerInv
  BY DEF PublishInv
<1>2. store.rows \subseteq store'.rows /\ store'.rows \subseteq Keys
  BY RowsKept
<1>3. ASSUME NEW class \in Classes, Accept(class) PROVE DeliveryInv'
  <2>1. \A e \in Entries : e <= checkpoint => DispositionIn(wal', e) = DispositionIn(wal, e)
    BY <1>1, <1>3, Appended, LogIs DEF DispositionIn, Entries
  <2>2. \A e \in 1..checkpoint' : Complete(e)'
    BY <1>1, <1>3, Appended, LogIs DEF DeliveryInv, Complete, IsDefective
  <2>3. \A e \in Entries : plan[e] # None => e <= Len(wal) /\ wal'[e] = wal[e]
    BY <1>1, <1>3, Appended, LogIs DEF DeliveryInv, Entries
  <2>4. checkpoint' \in 0..Len(wal') /\ Len(wal) <= Len(wal') /\ Len(wal') <= MaxEntries
        /\ wal' \in Seq(Classes) /\ UNCHANGED <<plan, disposition, checkpoint>>
    BY <1>1, <1>3, Appended, LogIs
  <2>5. \A e \in Entries :
          disposition'[e] = IF e <= checkpoint' THEN DispositionIn(wal', e) ELSE None
    BY <1>1, <2>1, <2>4 DEF DeliveryInv
  <2>6. \A e \in Entries : plan'[e] # None =>
          /\ e <= Len(wal') /\ e <= checkpoint' + 1 /\ plan'[e] <= Outputs[wal'[e]]
          /\ \A k \in 1..plan'[e] : <<e, k>> \in store'.rows
    BY <1>1, <1>2, <2>3, <2>4, LogIs, Numbers DEF DeliveryInv, Entries
  <2> QED
    BY <1>1, <1>2, <2>2, <2>4, <2>5, <2>6 DEF DeliveryInv
<1>4. CASE Prepare
  <2>1. /\ Current \in Entries /\ Current <= Len(wal) /\ Current = checkpoint + 1
        /\ plan' = [plan EXCEPT ![Current] = 0] /\ Outputs[wal[Current]] >= 0
        /\ UNCHANGED <<wal, disposition, checkpoint>>
    BY <1>1, <1>4, LogIs, Numbers
       DEF Prepare, WorkerInv, Projecting, Current, Entries, delivery, publication
  <2>2. \A e \in Entries : plan'[e] = IF e = Current THEN 0 ELSE plan[e]
    BY <1>1, <2>1 DEF DeliveryInv
  <2>3. \A e \in 1..checkpoint' : Complete(e)'
    BY <1>1, <2>1, <2>2, LogIs DEF DeliveryInv, Complete, IsDefective, Entries
  <2> QED
    BY <1>1, <1>2, <2>1, <2>2, <2>3, LogIs DEF DeliveryInv, DispositionIn
<1>5. CASE CompleteOutput
  <2>1. /\ Current \in Entries /\ Current <= Len(wal) /\ Current = checkpoint + 1
        /\ plan' = [plan EXCEPT ![Current] = @ + 1] /\ Outputs[wal[Current]] \in 0..2
        /\ plan[Current] # None /\ plan[Current] < Outputs[wal[Current]]
        /\ plan[Current] \in 0..2 /\ <<Current, plan[Current] + 1>> \in store.rows
        /\ UNCHANGED <<wal, disposition, checkpoint>>
    BY <1>1, <1>5, LogIs, Numbers
       DEF CompleteOutput, WorkerInv, DeliveryInv, Current, Entries, delivery, publication
  <2>2. \A e \in Entries : plan'[e] = IF e = Current THEN plan[e] + 1 ELSE plan[e]
    BY <1>1, <2>1 DEF DeliveryInv
  <2>3. \A e \in 1..checkpoint' : Complete(e)'
    BY <1>1, <2>1, <2>2, LogIs DEF DeliveryInv, Complete, IsDefective, Entries
  <2>4. plan' \in [Entries -> (0..2) \cup {None}]
    BY <1>1, <2>1 DEF DeliveryInv
  <2>5. ASSUME NEW e \in Entries, plan'[e] # None
        PROVE  /\ e <= Len(wal) /\ e <= checkpoint + 1 /\ plan'[e] <= Outputs[wal[e]]
               /\ \A k \in 1..plan'[e] : <<e, k>> \in store.rows
    <3>1. CASE e = Current
      <4>1. plan'[e] = plan[e] + 1 /\ plan[e] # None /\ \A k \in 1..plan[e] : <<e, k>> \in store.rows
        BY <1>1, <2>1, <2>2, <3>1 DEF DeliveryInv
      <4> QED
        BY <2>1, <3>1, <4>1
    <3>2. CASE e # Current
      BY <1>1, <2>2, <2>5, <3>2 DEF DeliveryInv
    <3> QED
      BY <3>1, <3>2
  <2> QED
    BY <1>1, <1>2, <2>1, <2>3, <2>4, <2>5 DEF DeliveryInv, DispositionIn
<1>6. CASE Commit
  <2>1. /\ Current \in Entries /\ Current <= Len(wal) /\ Current = checkpoint + 1
        /\ checkpoint' = Current /\ Complete(Current) /\ UNCHANGED <<wal, plan>>
        /\ disposition' = [disposition EXCEPT ![Current] = DispositionIn(wal, Current)]
    BY <1>1, <1>6, LogIs, Numbers
       DEF Commit, WorkerInv, Projecting, Current, Entries, DispositionOf, DispositionIn, IsDefective
  <2>2. \A e \in Entries : disposition'[e] = IF e = Current THEN DispositionIn(wal, Current)
                                              ELSE disposition[e]
    BY <1>1, <2>1 DEF DeliveryInv
  <2>3. \A e \in 1..checkpoint' : Complete(e)'
    BY <1>1, <2>1, LogIs DEF DeliveryInv, Complete, IsDefective
  <2>4. DispositionIn(wal, Current) \in Dispositions
    BY DEF DispositionIn, Dispositions
  <2>5. disposition' \in [Entries -> Dispositions \cup {None}]
    BY <1>1, <2>1, <2>4 DEF DeliveryInv
  <2>6. \A e \in Entries :
          disposition'[e] = IF e <= checkpoint' THEN DispositionIn(wal', e) ELSE None
    BY <1>1, <2>1, <2>2, LogIs DEF DeliveryInv, DispositionIn, Entries
  <2>7. checkpoint' \in 0..Len(wal') /\ \A e \in Entries : e <= checkpoint + 1 => e <= checkpoint' + 1
    BY <2>1, <1>1, LogIs DEF Entries
  <2> QED
    BY <1>1, <1>2, <2>1, <2>3, <2>5, <2>6, <2>7 DEF DeliveryInv
<1>7. CASE UNCHANGED <<wal, plan, disposition, checkpoint>>
  BY <1>1, <1>2, <1>7 DEF DeliveryInv, Complete, IsDefective, DispositionIn
<1> QED
  BY <1>3, <1>4, <1>5, <1>6, <1>7, Moves
     DEF Reserve, MarkPublished, Initialize, IndexInputs, delivery, publication

-----------------------------------------------------------------------------
(* Numbers are reserved without gap or overlap. *)

LEMMA NumbersAre ==
  ASSUME DeliveryInv, ReservationInv
  PROVE  /\ last.ordinal \in Nat /\ checkpoint <= last.ordinal /\ 1..last.ordinal \subseteq Entries
         /\ \A e \in 1..last.ordinal :
              /\ reserved[e] \in Reservations /\ reserved[e].from \in Nat /\ reserved[e].through \in Nat
         /\ \A n \in 0..last.ordinal :
              ThroughAt(reserved, n) \in Nat /\ ThroughAt(reserved, n) <= 2 * n
         /\ last.sequence \in Nat /\ last.sequence <= 2 * last.ordinal
<1>1. last.ordinal \in Nat /\ checkpoint <= last.ordinal /\ 1..last.ordinal \subseteq Entries
  BY LogIs DEF ReservationInv, Entries
<1>2. \A e \in 1..last.ordinal :
        /\ reserved[e] \in Reservations /\ reserved[e].from \in Nat /\ reserved[e].through \in Nat
  BY <1>1, Numbers DEF ReservationInv, Reservations, Entries
<1>3. \A n \in 0..last.ordinal : ThroughAt(reserved, n) \in Nat /\ ThroughAt(reserved, n) <= 2 * n
  BY <1>1, <1>2 DEF ReservationInv, ThroughAt
<1> QED
  BY <1>1, <1>2, <1>3 DEF ReservationInv

\* A reservation is never changed.
LEMMA Reserves ==
  ASSUME PublishInv, [Next]_vars
  PROVE  /\ \A e \in 1..last.ordinal : reserved'[e] = reserved[e]
         /\ \A n \in 0..last.ordinal : ThroughAt(reserved', n) = ThroughAt(reserved, n)
<1>1. DeliveryInv /\ ReservationInv /\ PublicationInv
  BY DEF PublishInv
<1>2. ASSUME Reserve PROVE \A e \in 1..last.ordinal : reserved'[e] = reserved[e]
  <2>1. last.ordinal = checkpoint
    BY <1>1, <1>2, LogIs, NumbersAre DEF Reserve, ReservationInv, Current, Entries
  <2> QED
    BY <1>1, <1>2, <2>1, NumbersAre DEF Reserve, ReservationInv, Current
<1>3. \A e \in 1..last.ordinal : reserved'[e] = reserved[e]
  BY <1>2, Moves DEF Accept, Prepare, CompleteOutput, Commit, MarkPublished, Initialize,
     IndexInputs, delivery, publication
<1> QED
  BY <1>1, <1>3, NumbersAre DEF ThroughAt

LEMMA ReservationStep ==
  ASSUME PublishInv, [Next]_vars
  PROVE  ReservationInv'
<1>1. DeliveryInv /\ WorkerInv /\ ReservationInv
  BY DEF PublishInv
<1>2. ASSUME NEW class \in Classes, Accept(class) PROVE ReservationInv'
  <2>1. /\ \A e \in 1..Len(wal) : wal'[e] = wal[e]
        /\ Len(wal') = Len(wal) + 1 /\ UNCHANGED <<checkpoint, reserved, last>>
    BY <1>1, <1>2, Appended
  <2>2. last.ordinal \in Nat /\ last.ordinal <= Len(wal) /\ Len(wal) \in Nat
    BY <1>1, LogIs, NumbersAre DEF ReservationInv
  <2>3. \A e \in 1..last.ordinal : wal'[e] = wal[e]
    BY <2>1, <2>2
  <2>4. last'.ordinal <= Len(wal')
    BY <2>1, <2>2
  <2> QED
    BY <1>1, <2>1, <2>3, <2>4 DEF ReservationInv, ThroughAt
<1>3. CASE Commit
  <2>1. checkpoint' = checkpoint + 1 /\ UNCHANGED <<wal, reserved, last>>
    BY <1>3 DEF Commit, Current
  <2>2. Current \in Entries /\ reserved[Current] # None /\ Current = checkpoint + 1
    BY <1>1, <1>3, LogIs DEF Commit, Projecting, Current, WorkerInv, Entries
  <2>3. last.ordinal = checkpoint + 1
    BY <1>1, <2>2, LogIs DEF ReservationInv
  <2> QED
    BY <1>1, <2>1, <2>3 DEF ReservationInv, ThroughAt
<1>4. CASE Reserve
  <2> DEFINE n == Outputs[wal[Current]]
             s == last.sequence
             new == [ordinal |-> last.ordinal + 1, from |-> s + 1, through |-> s + n]
  <2>1. /\ Current \in Entries /\ Current <= Len(wal) /\ Current = checkpoint + 1
        /\ reserved[Current] = None /\ n \in 0..2 /\ UNCHANGED <<wal, checkpoint>>
        /\ last' = [ordinal |-> last.ordinal + 1, sequence |-> s + n]
        /\ reserved' = [reserved EXCEPT ![Current] = new]
    BY <1>1, <1>4, LogIs, Numbers
       DEF Reserve, WorkerInv, Projecting, Current, Entries, delivery, publication
  <2>2. last.ordinal = checkpoint /\ s \in Nat /\ s <= 2 * checkpoint
        /\ s = ThroughAt(reserved, checkpoint)
    BY <1>1, <2>1, LogIs, NumbersAre DEF ReservationInv
  <2>3. /\ last'.ordinal = Current /\ last'.sequence = s + n
        /\ last' = [ordinal |-> last'.ordinal, sequence |-> last'.sequence]
    BY <2>1, <2>2
  <2> DEFINE r == reserved'
  <2>4. \A e \in Entries : r[e] = IF e = Current THEN new ELSE reserved[e]
    BY <1>1, <2>1 DEF ReservationInv
  <2>5. new.ordinal = Current /\ new.from = s + 1 /\ new.through = s + n
    BY <2>1, <2>2
  <2>6. new \in Reservations
    BY <2>1, <2>2, LogIs, <1>1, Numbers DEF Reservations, Entries, DeliveryInv
  <2>7. r \in [Entries -> Reservations \cup {None}]
    BY <1>1, <2>1, <2>6 DEF ReservationInv
  <2>8. \A e \in Entries : r[e] # None <=> e <= last'.ordinal
    <3>1. new # None
      BY <2>1, <2>2, Numbers, LogIs, <1>1
    <3> QED
      BY <1>1, <2>1, <2>2, <2>3, <2>4, <3>1, LogIs DEF ReservationInv, Entries
  <2>9. \A e \in 0..checkpoint : ThroughAt(r, e) = ThroughAt(reserved, e)
    BY <1>1, <2>1, <2>4, LogIs DEF ThroughAt, Entries
  <2> HIDE DEF new, r
  <2>10. \A e \in 1..last'.ordinal :
          /\ r[e].ordinal = e
          /\ r[e].from = ThroughAt(r, e - 1) + 1
          /\ r[e].through = ThroughAt(r, e - 1) + Outputs[wal[e]]
          /\ r[e].through <= 2 * e /\ r[e].through <= last'.sequence
    <3>1. CASE last'.ordinal = Current
      <4> SUFFICES ASSUME NEW e \in 1..Current
                   PROVE  /\ r[e].ordinal = e
                          /\ r[e].from = ThroughAt(r, e - 1) + 1
                          /\ r[e].through = ThroughAt(r, e - 1) + Outputs[wal[e]]
                          /\ r[e].through <= 2 * e /\ r[e].through <= s + n
        BY <2>3, <3>1
      <4>1. CASE e = Current
        <5>1. r[e] = new /\ e - 1 = checkpoint /\ ThroughAt(r, e - 1) = s
          BY <2>1, <2>2, <2>4, <2>9, <4>1, LogIs, <1>1
        <5> QED
          BY <2>1, <2>2, <2>5, <4>1, <5>1, LogIs, <1>1
      <4>2. CASE e # Current
        <5>1. e \in 1..checkpoint /\ r[e] = reserved[e] /\ e - 1 \in 0..checkpoint
          BY <2>1, <2>4, <4>2, LogIs, <1>1 DEF Entries
        <5>2. reserved[e].through \in Nat /\ reserved[e].through <= s
          BY <5>1, <2>2, <1>1, NumbersAre DEF ReservationInv
        <5> QED
          BY <1>1, <2>1, <2>2, <2>9, <5>1, <5>2 DEF ReservationInv
      <4> QED
        BY <4>1, <4>2
    <3> QED
      BY <2>3, <3>1
  <2>11. \A e, f \in 1..last'.ordinal : e < f => r[e].through < r[f].from
    <3> SUFFICES ASSUME NEW e \in 1..Current, NEW f \in 1..Current, e < f
                 PROVE  r[e].through < r[f].from
      BY <2>3
    <3>1. e \in 1..checkpoint /\ r[e] = reserved[e]
      <4>1. checkpoint \in Nat /\ Current = checkpoint + 1 /\ 1..Current \subseteq Entries
        BY <2>1, LogIs, <1>1 DEF Entries
      <4>2. e \in 1..checkpoint /\ e # Current
        BY <4>1
      <4> QED
        BY <2>4, <4>1, <4>2
    <3>2. reserved[e].through \in Nat /\ reserved[e].through <= s
      BY <3>1, <2>2, <1>1, NumbersAre DEF ReservationInv
    <3>3. CASE f = Current
      BY <2>1, <2>2, <2>4, <2>5, <3>1, <3>2, <3>3
    <3>4. CASE f # Current
      <4>1. f \in 1..checkpoint /\ r[f] = reserved[f]
        BY <2>1, <2>4, <3>4, LogIs, <1>1 DEF Entries
      <4> QED
        BY <1>1, <2>2, <3>1, <4>1 DEF ReservationInv
    <3> QED
      BY <3>3, <3>4
  <2>12. last'.sequence = ThroughAt(r, last'.ordinal)
    BY <2>1, <2>3, <2>4, <2>5, LogIs, <1>1 DEF ThroughAt
  <2>13. \A k \in 1..last'.sequence : \E e \in 1..last'.ordinal : r[e].from <= k /\ k <= r[e].through
    <3> SUFFICES ASSUME NEW k \in 1..s + n
                 PROVE  \E e \in 1..Current : r[e].from <= k /\ k <= r[e].through
      BY <2>3
    <3>1. CASE k <= s
      <4>1. PICK e \in 1..checkpoint : reserved[e].from <= k /\ k <= reserved[e].through
        BY <1>1, <2>2, <3>1 DEF ReservationInv
      <4>2. e \in 1..Current /\ r[e] = reserved[e]
        BY <2>1, <2>4, LogIs, <1>1 DEF Entries
      <4> QED
        BY <4>1, <4>2
    <3>2. CASE ~(k <= s)
      <4>1. Current \in 1..Current /\ r[Current] = new
        BY <2>1, <2>4, LogIs, <1>1
      <4> QED
        BY <2>1, <2>2, <2>5, <3>2, <4>1
    <3> QED
      BY <3>1, <3>2
  <2>14. last'.ordinal \in {checkpoint', checkpoint' + 1} /\ last'.ordinal <= Len(wal')
    BY <2>1, <2>3
  <2>15. wal' = wal /\ r = reserved'
    BY <2>1 DEF r
  <2> QED
    BY <2>3, <2>7, <2>8, <2>10, <2>11, <2>12, <2>13, <2>14, <2>15 DEF ReservationInv, ThroughAt
<1>5. CASE UNCHANGED <<wal, checkpoint, reserved, last>>
  BY <1>1, <1>5 DEF ReservationInv, ThroughAt
<1> QED
  BY <1>2, <1>3, <1>4, <1>5, Moves
     DEF Prepare, CompleteOutput, MarkPublished, Initialize, IndexInputs, delivery, publication

-----------------------------------------------------------------------------
(* Entries are published in order, each with all its rows. *)

\* The log and the checkpoint only grow.
LEMMA Grows ==
  ASSUME PublishInv, [Next]_vars
  PROVE  /\ checkpoint' \in Nat /\ checkpoint <= checkpoint'
         /\ Len(wal') \in Nat /\ Len(wal) <= Len(wal') /\ checkpoint' <= Len(wal')
         /\ \A e \in 1..Len(wal) : wal'[e] = wal[e]
<1>1. DeliveryInv /\ DeliveryInv'
  BY DeliveryStep DEF PublishInv
<1>2. Len(wal) \in Nat /\ checkpoint \in Nat
  BY <1>1, LogIs
<1>3. checkpoint' \in Nat /\ Len(wal') \in Nat /\ checkpoint' <= Len(wal')
  BY <1>1 DEF DeliveryInv
<1>4. ASSUME NEW class \in Classes, Accept(class)
      PROVE  /\ checkpoint' = checkpoint /\ Len(wal) <= Len(wal')
             /\ \A e \in 1..Len(wal) : wal'[e] = wal[e]
  BY <1>1, <1>2, <1>4, Appended
<1>5. CASE Commit
  BY <1>2, <1>3, <1>5 DEF Commit, Current
<1>6. CASE UNCHANGED <<wal, checkpoint>>
  BY <1>2, <1>3, <1>6
<1> QED
  BY <1>2, <1>3, <1>4, <1>5, <1>6, Moves DEF Prepare, CompleteOutput, Reserve, MarkPublished,
     Initialize, IndexInputs, delivery, publication

LEMMA PublishedIs ==
  ASSUME DeliveryInv, ReservationInv, PublicationInv
  PROVE  /\ Published \in Nat /\ Published <= checkpoint /\ Published <= last.ordinal
         /\ Published <= Len(wal)
         /\ ThroughAt(reserved, Published) \in Nat
         /\ progress # None => /\ progress.ordinal = Published /\ progress.ingest = Published
                               /\ progress.through = ThroughAt(reserved, Published)
                               /\ progress.count = ThroughAt(reserved, Published)
<1>1. /\ Published \in Nat /\ Published <= checkpoint /\ Published <= last.ordinal
      /\ Published <= Len(wal)
  BY LogIs, NumbersAre DEF PublicationInv
<1>2. ThroughAt(reserved, Published) \in Nat
  BY <1>1, NumbersAre
<1> QED
  BY <1>1, <1>2 DEF PublicationInv, ProgressAt, Published

\* What the publisher works on.
LEMMA OldestIs ==
  ASSUME DeliveryInv, ReservationInv, PublicationInv, outbox # {}
  PROVE  /\ Oldest = Published + 1 /\ Published < checkpoint
         /\ Oldest \in 1..checkpoint /\ Oldest \in 1..last.ordinal
         /\ Size(Oldest) = Outputs[wal[Oldest]] /\ Outputs[wal[Oldest]] \in 0..2
         /\ reserved[Oldest].ordinal = Oldest
         /\ reserved[Oldest].through = ThroughAt(reserved, Published) + Outputs[wal[Oldest]]
<1>1. Published \in Nat /\ checkpoint \in Nat /\ checkpoint <= last.ordinal
      /\ outbox = (Published + 1)..checkpoint
  BY PublishedIs, LogIs, NumbersAre DEF PublicationInv
<1>2. \A e \in outbox : e \in 1..last.ordinal /\ reserved[e].ordinal = e
  BY <1>1, NumbersAre DEF ReservationInv
<1>3. Published + 1 \in outbox /\ Published < checkpoint
  BY <1>1
<1>4. /\ \A o \in outbox : reserved[Published + 1].ordinal <= reserved[o].ordinal
      /\ \A e \in outbox : e # Published + 1 =>
           ~(reserved[e].ordinal <= reserved[Published + 1].ordinal)
  BY <1>1, <1>2, <1>3
<1>5. Oldest = Published + 1
  BY <1>3, <1>4 DEF Oldest
<1>6. Oldest \in 1..checkpoint /\ Oldest \in 1..last.ordinal /\ Oldest - 1 = Published
  BY <1>1, <1>3, <1>5, NumbersAre
<1>7. Outputs[wal[Oldest]] \in 0..2
  BY <1>6, LogIs
<1>8. /\ reserved[Oldest].ordinal = Oldest
      /\ reserved[Oldest].from = ThroughAt(reserved, Published) + 1
      /\ reserved[Oldest].through = ThroughAt(reserved, Published) + Outputs[wal[Oldest]]
  BY <1>6 DEF ReservationInv
<1>9. Size(Oldest) = Outputs[wal[Oldest]]
  BY <1>7, <1>8, PublishedIs DEF Size
<1> QED
  BY <1>3, <1>5, <1>6, <1>7, <1>8, <1>9

\* Revisions and publications are only added, and are outputs of the entry that
\* is being published.
LEMMA TablesKept ==
  ASSUME PublishInv, [Next]_vars
  PROVE  /\ store.revisions \subseteq store'.revisions /\ store'.revisions \subseteq Keys
         /\ store.publications \subseteq store'.publications
         /\ store' = [rows |-> store'.rows, revisions |-> store'.revisions,
                      publications |-> store'.publications, snapshot |-> store'.snapshot,
                      progress |-> store'.progress]
         /\ \A p \in store'.publications : p \in store.publications \/
              \E e \in 1..checkpoint : \E k \in 1..Outputs[wal[e]] : p = Pub(reserved, e, k)
<1>1. /\ DeliveryInv /\ ReservationInv /\ PublicationInv /\ store.revisions \subseteq Keys
      /\ store = [rows |-> store.rows, revisions |-> store.revisions,
                  publications |-> store.publications, snapshot |-> store.snapshot,
                  progress |-> store.progress]
  BY DEF PublishInv, PublicationInv, SnapshotInv
<1>2. CASE Sending /\ store' = WithSent(store)
  <2> DEFINE k == worker.sent \div 2 + 1
  <2>1. outbox # {} /\ worker.sent < 2 * Size(Oldest) /\ worker.sent \in 0..4
    BY <1>2 DEF Sending, Publishing, PublishInv, WorkerInv
  <2>2. k \in 1..Outputs[wal[Oldest]] /\ Outputs[wal[Oldest]] \in 0..2
    <3>1. Outputs[wal[Oldest]] \in 0..2 /\ worker.sent < 2 * Outputs[wal[Oldest]]
      BY <1>1, <2>1, OldestIs
    <3>2. k \in Nat /\ 1 <= k /\ 2 * k <= worker.sent + 2
      <4>1. \A s \in 0..4 : LET h == s \div 2 IN h \in Nat /\ 2 * h <= s
        OBVIOUS
      <4>2. worker.sent \div 2 \in Nat /\ 2 * (worker.sent \div 2) <= worker.sent
        BY <2>1, <4>1
      <4> QED
        BY <2>1, <4>2
    <3> HIDE DEF k
    <3> QED
      BY <2>1, <3>1, <3>2
  <2>3. Oldest \in 1..checkpoint /\ <<Oldest, k>> \in Keys
    BY <1>1, <2>1, <2>2, OldestIs, LogIs DEF Keys
  <2>4. [key |-> <<Oldest, k>>, number |-> reserved[Oldest].from + k - 1] = Pub(reserved, Oldest, k)
    BY DEF Pub
  <2> HIDE DEF k
  <2>5. \/ store' = [store EXCEPT !.revisions = @ \cup {<<Oldest, k>>}]
        \/ store' = [store EXCEPT !.publications = @ \cup {Pub(reserved, Oldest, k)}]
    BY <1>2, <2>4 DEF WithSent, k
  <2> QED
    BY <1>1, <2>2, <2>3, <2>5
<1>3. CASE StoreMoves /\ ~(Sending /\ store' = WithSent(store))
  BY <1>1, <1>3 DEF StoreMoves
<1> QED
  BY <1>1, <1>2, <1>3, StoreIs

\* Publications keep their numbers.
LEMMA PubIs ==
  ASSUME PublishInv, [Next]_vars
  PROVE  \A e \in 1..last.ordinal : \A k : Pub(reserved', e, k) = Pub(reserved, e, k)
BY Reserves DEF Pub

\* What is published grows, in steps that mark one entry.
LEMMA PublishedGrows ==
  ASSUME PublishInv, [Next]_vars
  PROVE  /\ Published' \in {Published, Published + 1}
         /\ progress' = None \/ progress' = ProgressAt(reserved', progress'.ordinal)
         /\ progress # None => progress' # None
         /\ MarkPublished => /\ Published' = Published + 1 /\ Published < checkpoint
                             /\ outbox # {} /\ Oldest = Published + 1
         /\ ~MarkPublished => Published' = Published
<1>1. DeliveryInv /\ ReservationInv /\ PublicationInv
  BY DEF PublishInv
<1>2. Published \in Nat /\ Published \in 0..last.ordinal /\ ThroughAt(reserved, Published) \in Nat
  BY <1>1, PublishedIs, NumbersAre
<1>3. CASE MarkPublished
  <2> DEFINE t == ThroughAt(reserved, Published)
             o == Outputs[wal[Oldest]]
  <2>1. outbox # {} /\ progress # None
    BY <1>3 DEF MarkPublished, Publishing, PublishInv, WorkerInv
  <2>2. /\ Oldest = Published + 1 /\ Published < checkpoint /\ o \in 0..2
        /\ Oldest \in 1..last.ordinal
        /\ reserved[Oldest].ordinal = Oldest /\ reserved[Oldest].through = t + o
        /\ Size(Oldest) = o /\ reserved' = reserved
    BY <1>1, <1>3, <2>1, OldestIs DEF MarkPublished
  <2>3. /\ progress.ordinal = Published /\ progress.ingest = Published /\ progress.through = t
        /\ progress.count = t
    BY <1>1, <2>1, PublishedIs
  <2>4. Max({Published, Published + 1}) = Published + 1
    BY <1>2, MaxOfTwo
  <2>5. Max({t, t + o}) = t + o
    BY <1>2, <2>2, MaxOfTwo
  <2>6. progress' = [ordinal |-> Published + 1, ingest |-> Published + 1, through |-> t + o,
                     count |-> t + o]
    BY <1>3, <2>2, <2>3, <2>4, <2>5 DEF MarkPublished
  <2>7. ThroughAt(reserved', Published + 1) = t + o
    BY <1>2, <2>2 DEF ThroughAt
  <2>8. progress' # None /\ progress'.ordinal = Published + 1
    BY <1>2, <2>2, <2>6, Numbers
  <2> QED
    BY <1>3, <2>1, <2>2, <2>6, <2>7, <2>8 DEF ProgressAt, Published
<1>4. CASE Initialize /\ ~MarkPublished
  <2>1. progress = None => progress' = ProgressAt(reserved', 0) /\ progress'.ordinal = 0
    BY <1>4 DEF Initialize, Initialized, FirstProgress, ProgressAt, ThroughAt
  <2>2. progress # None => progress' = progress /\ reserved' = reserved
    BY <1>4 DEF Initialize, Initialized
  <2>3. progress = None => progress' # None
    BY <2>1, Numbers DEF ProgressAt, ThroughAt
  <2> QED
    BY <1>1, <1>4, <2>1, <2>2, <2>3 DEF Published, PublicationInv
<1>5. CASE progress' = progress /\ ~MarkPublished
  <2>1. Published' = Published
    BY <1>5 DEF Published
  <2>2. progress # None => ThroughAt(reserved', Published) = ThroughAt(reserved, Published)
    BY <1>2, Reserves
  <2>3. progress # None => progress.ordinal = Published
    BY DEF Published
  <2> QED
    BY <1>1, <1>5, <2>1, <2>2, <2>3 DEF PublicationInv, ProgressAt
<1> QED
  BY <1>3, <1>4, <1>5, Moves
     DEF Accept, Prepare, CompleteOutput, Reserve, Commit, IndexInputs, delivery, publication

LEMMA PublicationStep ==
  ASSUME PublishInv, [Next]_vars
  PROVE  PublicationInv'
<1>1. DeliveryInv /\ WorkerInv /\ ReservationInv /\ PublicationInv /\ DeliveryInv'
  BY DeliveryStep DEF PublishInv
<1>2. Published' \in 0..checkpoint'
  <2>1. Published \in Nat /\ Published <= checkpoint /\ checkpoint \in Nat
    BY <1>1, PublishedIs, LogIs
  <2> QED
    BY <2>1, PublishedGrows, Grows
<1>3. done' = 1..Published' /\ outbox' = (Published' + 1)..checkpoint'
  <2>1. Published \in Nat /\ checkpoint \in Nat /\ Published <= checkpoint
        /\ done = 1..Published /\ outbox = (Published + 1)..checkpoint
    BY <1>1, PublishedIs, LogIs DEF PublicationInv
  <2>2. CASE MarkPublished
    <3>1. /\ outbox' = outbox \ {Oldest} /\ done' = done \cup {Oldest} /\ checkpoint' = checkpoint
          /\ Oldest = Published + 1 /\ Published' = Published + 1 /\ Published < checkpoint
      BY <2>2, PublishedGrows DEF MarkPublished, delivery
    <3> QED
      BY <2>1, <3>1
  <2>3. CASE Commit
    <3>1. outbox' = outbox \cup {checkpoint + 1} /\ done' = done /\ checkpoint' = checkpoint + 1
      BY <2>3 DEF Commit, Current
    <3>2. Published' = Published
      BY <2>3, PublishedGrows DEF Commit, MarkPublished, Projecting, Publishing
    <3> QED
      BY <2>1, <3>1, <3>2
  <2>4. CASE UNCHANGED <<outbox, done, checkpoint>> /\ ~MarkPublished
    BY <2>1, <2>4, PublishedGrows
  <2>5. ASSUME ~MarkPublished, ~Commit PROVE UNCHANGED <<outbox, done, checkpoint>>
    BY <2>5, Moves DEF Accept, Prepare, CompleteOutput, Reserve, Initialize, IndexInputs,
       delivery, publication
  <2> QED
    BY <2>2, <2>3, <2>4, <2>5
<1>4. \A p \in store'.publications :
        \E e \in 1..checkpoint' : \E k \in 1..Outputs[wal'[e]] : p = Pub(reserved', e, k)
  <2> SUFFICES ASSUME NEW p \in store'.publications
               PROVE  \E e \in 1..checkpoint' : \E k \in 1..Outputs[wal'[e]] : p = Pub(reserved', e, k)
    OBVIOUS
  <2>1. PICK e \in 1..checkpoint : \E k \in 1..Outputs[wal[e]] : p = Pub(reserved, e, k)
    BY <1>1, TablesKept DEF PublicationInv
  <2>2. e \in 1..checkpoint' /\ e \in 1..last.ordinal /\ wal'[e] = wal[e]
    BY <1>1, Grows, LogIs, NumbersAre
  <2> QED
    BY <2>1, <2>2, PubIs
<1>5. \A e \in 1..Published' : \A k \in 1..Outputs[wal'[e]] :
        <<e, k>> \in store'.revisions /\ Pub(reserved', e, k) \in store'.publications
  <2> SUFFICES ASSUME NEW e \in 1..Published', NEW k \in 1..Outputs[wal'[e]]
               PROVE  <<e, k>> \in store'.revisions /\ Pub(reserved', e, k) \in store'.publications
    OBVIOUS
  <2>1. Published \in Nat /\ Published <= checkpoint /\ checkpoint \in Nat
        /\ checkpoint <= last.ordinal /\ last.ordinal \in Nat /\ checkpoint <= Len(wal)
        /\ Len(wal) \in Nat
    BY <1>1, PublishedIs, LogIs, NumbersAre
  <2>2. CASE e \in 1..Published
    <3>1. wal'[e] = wal[e] /\ e \in 1..last.ordinal
      BY <2>1, <2>2, Grows
    <3>2. <<e, k>> \in store.revisions /\ Pub(reserved, e, k) \in store.publications
      BY <1>1, <2>2, <3>1 DEF PublicationInv
    <3> QED
      BY <3>1, <3>2, PubIs, TablesKept
  <2>3. CASE e \notin 1..Published
    <3>1. MarkPublished /\ Published' = Published + 1 /\ e = Published + 1 /\ Published < checkpoint
      BY <2>1, <2>3, PublishedGrows
    <3>2. wal'[e] = wal[e] /\ e \in 1..last.ordinal
      BY <2>1, <3>1, Grows
    <3>3. worker.sent = 2 * Outputs[wal[e]] /\ Outputs[wal[e]] \in 0..2
      BY <1>1, <3>1, PublishedGrows, OldestIs DEF MarkPublished, SentAll
    <3>4. worker.sent # 0 /\ 2 * k <= worker.sent /\ 2 * k <= worker.sent + 1
      BY <3>2, <3>3
    <3>5. k \in 1..Outputs[wal[Published + 1]]
      BY <3>1, <3>2
    <3>6. <<e, k>> \in store.revisions /\ Pub(reserved, e, k) \in store.publications
      BY <1>1, <3>1, <3>4, <3>5 DEF WorkerInv
    <3> QED
      BY <3>2, <3>6, PubIs, TablesKept
  <2> QED
    BY <2>2, <2>3
<1> QED
  BY <1>2, <1>3, <1>4, <1>5, PublishedGrows, TablesKept DEF PublicationInv

-----------------------------------------------------------------------------
(* Snapshots are boundaries of what is published. *)

\* A boundary stays one.
LEMMA BoundaryKept ==
  ASSUME PublishInv, [Next]_vars, NEW b, IsBoundary(reserved, Published, b)
  PROVE  IsBoundary(reserved', Published', b)
<1>1. DeliveryInv /\ ReservationInv /\ PublicationInv
  BY DEF PublishInv
<1>2. PICK n \in 0..Published : b = BoundaryAt(reserved, n)
  BY DEF IsBoundary
<1>3. n \in 0..last.ordinal /\ n \in 0..Published'
  BY <1>1, <1>2, PublishedIs, NumbersAre, PublishedGrows
<1>4. BoundaryAt(reserved', n) = BoundaryAt(reserved, n)
  BY <1>3, Reserves DEF BoundaryAt
<1> QED
  BY <1>2, <1>3, <1>4 DEF IsBoundary

\* What the worker inserts as a snapshot is the newest boundary.
LEMMA NewSnapshot ==
  ASSUME PublishInv, [Next]_vars
  PROVE  \/ store'.snapshot = store.snapshot
         \/ /\ store'.snapshot = BoundaryAt(reserved, Published)
            /\ UNCHANGED <<reserved, progress>>
<1>1. /\ WorkerInv
      /\ store = [rows |-> store.rows, revisions |-> store.revisions,
                  publications |-> store.publications, snapshot |-> store.snapshot,
                  progress |-> store.progress]
  BY DEF PublishInv, SnapshotInv
<1>2. CASE worker.pc = "snapshot" /\ store' = [store EXCEPT !.snapshot = worker.row]
           /\ UNCHANGED <<reserved, progress>>
  BY <1>1, <1>2 DEF WorkerInv
<1>3. CASE StoreMoves /\ ~(worker.pc = "snapshot" /\ store' = [store EXCEPT !.snapshot = worker.row])
  BY <1>1, <1>3 DEF StoreMoves, WithSent
<1> QED
  BY <1>2, <1>3, StoreIs

LEMMA SnapshotStep ==
  ASSUME PublishInv, [Next]_vars
  PROVE  SnapshotInv'
<1>1. SnapshotInv /\ DeliveryInv /\ ReservationInv /\ PublicationInv
  BY DEF PublishInv
<1>2. CASE store'.snapshot = store.snapshot
  BY <1>1, <1>2, BoundaryKept, TablesKept DEF SnapshotInv
<1>3. CASE store'.snapshot = BoundaryAt(reserved, Published) /\ UNCHANGED <<reserved, progress>>
  <2>1. Published' = Published
    BY <1>3 DEF Published
  <2>2. IsBoundary(reserved', Published', store'.snapshot)
    BY <1>1, <1>3, <2>1, PublishedIs DEF IsBoundary
  <2> QED
    BY <2>2, TablesKept DEF SnapshotInv
<1> QED
  BY <1>2, <1>3, NewSnapshot

-----------------------------------------------------------------------------
(* What flush() has in hand. *)

WorkerLike(w) == w = [pc |-> w.pc, upto |-> w.upto, sent |-> w.sent, catching |-> w.catching,
                      row |-> w.row]

\* At most of its awaits the worker has nothing in hand but its batch.
LEMMA NothingInHand ==
  ASSUME PublishInv, [Next]_vars, WorkerLike(worker'), worker'.sent = 0,
         worker'.upto \in 0..Len(wal'), progress' # None \/ worker'.pc = "down",
         worker'.pc \in {"down", "idle", "index", "batch", "project", "publish", "refresh", "scope"}
  PROVE  WorkerInv'
BY DEF WorkerInv, WorkerLike

LEMMA Resting ==
  /\ WorkerLike(Down) /\ Down.pc = "down" /\ Down.sent = 0 /\ Down.upto = 0
  /\ WorkerLike(Idle) /\ Idle.pc = "idle" /\ Idle.sent = 0 /\ Idle.upto = 0
  /\ \A w : w = [Idle EXCEPT !.pc = "index"] \/ w = [Idle EXCEPT !.pc = "refresh", !.catching = TRUE]
         => WorkerLike(w) /\ w.pc \in {"index", "refresh"} /\ w.sent = 0 /\ w.upto = 0
<1>1. Down = [pc |-> "down", upto |-> 0, sent |-> 0, catching |-> FALSE, row |-> None]
  BY DEF Down
<1>2. WorkerLike(Down) /\ Down.pc = "down" /\ Down.sent = 0 /\ Down.upto = 0
  BY <1>1 DEF WorkerLike
<1>3. WorkerLike(Idle) /\ Idle.pc = "idle" /\ Idle.sent = 0 /\ Idle.upto = 0
  BY <1>2 DEF Idle, WorkerLike
<1>4. /\ DOMAIN Idle = {"pc", "upto", "sent", "catching", "row"}
      /\ Idle = [f \in DOMAIN Idle |-> Idle[f]]
  BY <1>1 DEF Idle
<1>5. ASSUME NEW w, w = [Idle EXCEPT !.pc = "index"]
                    \/ w = [Idle EXCEPT !.pc = "refresh", !.catching = TRUE]
      PROVE  WorkerLike(w) /\ w.pc \in {"index", "refresh"} /\ w.sent = 0 /\ w.upto = 0
  BY <1>3, <1>4, <1>5 DEF WorkerLike
<1> QED
  BY <1>2, <1>3, <1>5

LEMMA RowUpdated ==
  ASSUME NEW r, NEW s, NEW a, TotalRow(r),
         s = [r EXCEPT !.accepted = a] \/ s = [r EXCEPT !.pending = a]
  PROVE  TotalRow(s)
<1>1. /\ r.processed = checkpoint /\ r.visible = Published /\ r.disposed = counts
      /\ r.coverage = "exact" /\ r.received \in 0..Len(wal)
      /\ r = [received |-> r.received, processed |-> r.processed, visible |-> r.visible,
              accepted |-> r.accepted, disposed |-> r.disposed, pending |-> r.pending,
              coverage |-> r.coverage]
  BY DEF TotalRow
<1>2. CASE s = [r EXCEPT !.accepted = a]
  <2>1. s = [received |-> r.received, processed |-> r.processed, visible |-> r.visible,
             accepted |-> a, disposed |-> r.disposed, pending |-> r.pending,
             coverage |-> r.coverage]
    BY <1>1, <1>2
  <2> QED
    BY <1>1, <2>1 DEF TotalRow
<1>3. CASE s = [r EXCEPT !.pending = a]
  <2>1. s = [received |-> r.received, processed |-> r.processed, visible |-> r.visible,
             accepted |-> r.accepted, disposed |-> r.disposed, pending |-> a,
             coverage |-> r.coverage]
    BY <1>1, <1>3
  <2> QED
    BY <1>1, <2>1 DEF TotalRow
<1> QED
  BY <1>2, <1>3

LEMMA WorkerStep ==
  ASSUME PublishInv, [Next]_vars
  PROVE  WorkerInv'
<1> USE DEF delivery, publication
<1>1. /\ DeliveryInv /\ WorkerInv /\ ReservationInv /\ PublicationInv /\ WorkerLike(worker)
  BY DEF PublishInv, WorkerInv, WorkerLike
<1>2. /\ worker.upto \in 0..Len(wal') /\ worker.upto \in 0..Len(wal)
      /\ (progress # None => progress' # None) /\ (worker.pc # "down" => progress # None)
      /\ Len(wal) \in Nat /\ Len(wal') \in Nat /\ Len(wal) <= Len(wal')
  BY <1>1, Grows, LogIs, PublishedGrows DEF WorkerInv
<1>3. CASE UNCHANGED <<plan, checkpoint, counts, reserved, progress, store, worker>>
  <2>1. checkpoint \in Nat /\ Published \in Nat /\ Published <= checkpoint /\ checkpoint <= Len(wal)
        /\ Published' = Published
    BY <1>1, <1>3, LogIs, PublishedIs DEF Published
  <2>2. worker.pc = "inserted" => Current \in 1..Len(wal)
    BY <1>1, <1>2, <2>1 DEF WorkerInv, Current
  <2>3. worker.pc = "inserted" => wal'[Current] = wal[Current]
    BY <2>2, Grows
  <2>4. worker.sent # 0 => wal'[Published + 1] = wal[Published + 1]
    <3>1. worker.sent # 0 => Published + 1 \in 1..Len(wal)
      BY <1>1, <1>2, <2>1 DEF WorkerInv
    <3> QED
      BY <3>1, Grows
  <2>5. TotalRow(worker.row) => TotalRow(worker.row)'
    BY <1>2, <1>3, <2>1 DEF TotalRow
  <2>6. worker'.pc = "inserted" =>
         /\ Current' <= worker'.upto /\ plan'[Current'] # None
         /\ plan'[Current'] < Outputs[wal'[Current']]
         /\ <<Current', plan'[Current'] + 1>> \in store'.rows
    BY <1>1, <1>3, <2>3 DEF WorkerInv, Current
  <2>7. worker'.sent # 0 =>
         /\ worker'.pc = "publish" /\ Published' < checkpoint'
         /\ worker'.sent <= 2 * Outputs[wal'[Published' + 1]]
         /\ \A k \in 1..Outputs[wal'[Published' + 1]] :
              /\ 2 * k <= worker'.sent + 1 => <<Published' + 1, k>> \in store'.revisions
              /\ 2 * k <= worker'.sent => Pub(reserved', Published' + 1, k) \in store'.publications
    BY <1>1, <1>3, <2>1, <2>4 DEF WorkerInv
  <2>8. /\ worker'.pc \in {"snapshot", "boundaries"} => worker'.row = BoundaryAt(reserved', Published')
        /\ worker'.pc \in {"accepted", "pending", "total"} => TotalRow(worker.row)'
        /\ worker'.upto \in 0..Len(wal')
    BY <1>1, <1>2, <1>3, <2>1, <2>5 DEF WorkerInv
  <2> QED
    BY <1>1, <1>3, <2>6, <2>7, <2>8 DEF WorkerInv, WorkerLike
<1>4. CASE Initialize
  <2>1. worker' = Idle /\ progress' # None
    BY <1>4, PublishedGrows, Numbers DEF Initialize, Initialized, FirstProgress
  <2> QED
    BY <1>2, <2>1, NothingInHand, Resting
<1>5. CASE Begin \/ InsertScope
  <2>1. worker' = Idle \/ worker' = [Idle EXCEPT !.pc = "index"]
    BY <1>5 DEF Begin, InsertScope
  <2>2. progress' # None
    BY <1>2, <1>5 DEF Begin, InsertScope
  <2> QED
    BY <1>2, <2>1, <2>2, NothingInHand, Resting
<1>6. CASE IndexInputs \/ TakeBatch \/ CompleteOutput \/ StartPublishing \/ StartRefresh
           \/ InsertTotal
  <2>1. /\ \/ worker.pc \in {"index", "batch", "inserted", "project", "total"}
           \/ worker.pc = "publish" /\ outbox = {}
        /\ \E n \in {"batch", "project", "publish", "refresh", "scope"} :
             \/ worker' = [worker EXCEPT !.pc = n]
             \/ worker' = [worker EXCEPT !.pc = n, !.upto = Min({checkpoint + BatchSize, Len(wal)})]
        /\ progress' = progress
    <3>1. CASE IndexInputs
      BY <3>1 DEF IndexInputs
    <3>2. CASE TakeBatch
      BY <3>2 DEF TakeBatch
    <3>3. CASE CompleteOutput \/ StartPublishing \/ StartRefresh \/ InsertTotal
      BY <3>3 DEF CompleteOutput, StartPublishing, StartRefresh, InsertTotal
    <3> QED
      BY <1>6, <3>1, <3>2, <3>3
  <2>2. worker.sent = 0
    <3>1. outbox = {} => ~(Published < checkpoint)
      BY <1>1, PublishedIs, LogIs DEF PublicationInv
    <3> QED
      BY <1>1, <2>1, <3>1 DEF WorkerInv
  <2>3. progress' # None
    BY <1>2, <2>1
  <2>4. Min({checkpoint + BatchSize, Len(wal)}) \in 0..Len(wal')
    <3> DEFINE a == checkpoint + BatchSize
               b == Len(wal)
    <3>1. a \in Nat /\ b \in Nat /\ b <= Len(wal') /\ a \in Int /\ b \in Int
      BY <1>1, <1>2, LogIs, Numbers
    <3> HIDE DEF a, b
    <3>2. Min({a, b}) \in {a, b} /\ Min({a, b}) <= b
      BY <3>1, MinIs
    <3>3. Min({a, b}) \in 0..Len(wal')
      BY <1>2, <3>1, <3>2
    <3> QED
      BY <3>3 DEF a, b
  <2>5. /\ worker'.pc \in {"batch", "project", "publish", "refresh", "scope"}
        /\ worker'.sent = 0 /\ worker'.upto \in 0..Len(wal') /\ WorkerLike(worker')
    BY <1>1, <1>2, <2>1, <2>2, <2>4 DEF WorkerLike
  <2> QED
    BY <2>3, <2>5, NothingInHand
<1>7. CASE Prepare \/ Reserve \/ Commit
  <2>1. worker.pc = "project" /\ worker' = worker
    BY <1>7 DEF Prepare, Reserve, Commit, Projecting
  <2>2. worker.sent = 0 /\ progress' # None
    BY <1>1, <1>2, <2>1 DEF WorkerInv
  <2> QED
    BY <1>1, <1>2, <2>1, <2>2, NothingInHand
<1>8. CASE MarkPublished
  <2>1. worker' = [worker EXCEPT !.sent = 0] /\ worker.pc = "publish"
    BY <1>8 DEF MarkPublished, Publishing
  <2> QED
    BY <1>1, <1>2, <2>1, NothingInHand DEF WorkerLike
<1>9. CASE InsertFails \/ Crash
  <2>1. worker' \in {Down, Idle, [Idle EXCEPT !.pc = "refresh", !.catching = TRUE]}
    BY <1>9 DEF InsertFails, Crash, AfterFailure
  <2>2. CASE Crash
    BY <1>2, <2>2, NothingInHand, Resting DEF Crash
  <2>3. CASE InsertFails
    <3>1. worker.pc # "down"
      BY <2>3 DEF InsertFails, Outstanding, Projecting, Sending, Publishing
    <3> QED
      BY <1>2, <2>1, <3>1, NothingInHand, Resting
  <2> QED
    BY <1>9, <2>2, <2>3
<1>10. CASE InsertOutput
  <2>1. /\ worker.pc = "project" /\ worker' = [worker EXCEPT !.pc = "inserted"]
        /\ store' = [store EXCEPT !.rows = @ \cup {<<Current, plan[Current] + 1>>}]
        /\ Current <= worker.upto /\ plan[Current] # None /\ plan[Current] < Outputs[wal[Current]]
        /\ UNCHANGED <<wal, plan, checkpoint, progress>>
    BY <1>10 DEF InsertOutput, Outstanding, Projecting
  <2>2. worker.sent = 0 /\ progress # None
    BY <1>1, <2>1 DEF WorkerInv
  <2>3. /\ worker'.pc = "inserted" /\ worker'.upto = worker.upto /\ worker'.sent = 0
        /\ WorkerLike(worker')
    BY <1>1, <2>1, <2>2 DEF WorkerLike
  <2>4. <<Current, plan[Current] + 1>> \in store'.rows
    BY <2>1 DEF PublishInv, SnapshotInv
  <2> QED
    BY <1>2, <2>1, <2>2, <2>3, <2>4 DEF WorkerInv, Current, WorkerLike
<1>11. CASE InsertPublication
  <2> DEFINE s == worker.sent
             o == Outputs[wal[Published + 1]]
  <2>1. /\ outbox # {} /\ worker.pc = "publish" /\ s < 2 * Size(Oldest) /\ store' = WithSent(store)
        /\ worker' = [worker EXCEPT !.sent = s + 1]
        /\ UNCHANGED <<wal, checkpoint, reserved, progress>>
    BY <1>11 DEF InsertPublication, Sending, Publishing
  <2>2. Published < checkpoint /\ Oldest = Published + 1 /\ Size(Oldest) = o /\ o \in 0..2
        /\ Published' = Published
    BY <1>1, <2>1, OldestIs DEF Published
  <2>3. /\ worker'.pc = "publish" /\ worker'.upto = worker.upto /\ worker'.sent = s + 1
        /\ WorkerLike(worker') /\ s \in 0..3 /\ s + 1 <= 2 * o
    BY <1>1, <2>1, <2>2 DEF WorkerLike, WorkerInv
  <2>4. ASSUME NEW k \in 1..o
        PROVE  /\ 2 * k <= s + 2 => <<Published + 1, k>> \in store'.revisions
               /\ 2 * k <= s + 1 => Pub(reserved, Published + 1, k) \in store'.publications
    <3> DEFINE h == s \div 2
    <3>1. /\ 2 * k <= s + 1 => <<Published + 1, k>> \in store.revisions
          /\ 2 * k <= s => Pub(reserved, Published + 1, k) \in store.publications
      <4>1. s = 0 => ~(2 * k <= s + 1) /\ ~(2 * k <= s)
        OBVIOUS
      <4> QED
        BY <1>1, <4>1 DEF WorkerInv
    <3>2. h \in Nat /\ (s % 2 = 0 => s = 2 * h) /\ (s % 2 # 0 => s = 2 * h + 1)
      <4>1. \A t \in 0..3 : LET g == t \div 2 IN
              g \in Nat /\ (t % 2 = 0 => t = 2 * g) /\ (t % 2 # 0 => t = 2 * g + 1)
        OBVIOUS
      <4> QED
        BY <2>3, <4>1
    <3>3. CASE s % 2 = 0
      <4>1. store'.revisions = store.revisions \cup {<<Published + 1, h + 1>>}
            /\ store'.publications = store.publications
        BY <2>1, <2>2, <3>3 DEF WithSent, PublishInv, SnapshotInv
      <4>2. s = 2 * h
        BY <3>2, <3>3
      <4> HIDE DEF h
      <4>3. 2 * k <= s + 2 => k = h + 1 \/ 2 * k <= s + 1
        BY <2>3, <3>2, <4>2
      <4>4. 2 * k <= s + 1 => 2 * k <= s
        BY <2>3, <3>2, <4>2
      <4> QED
        BY <3>1, <4>1, <4>3, <4>4
    <3>4. CASE s % 2 # 0
      <4>1. store'.publications = store.publications \cup {Pub(reserved, Published + 1, h + 1)}
            /\ store'.revisions = store.revisions
        BY <2>1, <2>2, <3>4 DEF WithSent, PublishInv, SnapshotInv, Pub
      <4>2. s = 2 * h + 1
        BY <3>2, <3>4
      <4> HIDE DEF h
      <4>3. 2 * k <= s + 1 => k = h + 1 \/ 2 * k <= s
        BY <2>3, <3>2, <4>2
      <4>4. 2 * k <= s + 2 => 2 * k <= s + 1
        BY <2>3, <3>2, <4>2
      <4> QED
        BY <3>1, <4>1, <4>3, <4>4
    <3> QED
      BY <3>3, <3>4
  <2> QED
    BY <1>1, <1>2, <2>1, <2>2, <2>3, <2>4 DEF WorkerInv, WorkerLike
<1>12. CASE TakeVersion
  <2>1. /\ worker.pc = "refresh" /\ worker' = [worker EXCEPT !.pc = "snapshot", !.row = Boundary]
        /\ UNCHANGED <<reserved, progress>>
    BY <1>12 DEF TakeVersion
  <2>2. worker.sent = 0 /\ progress # None
    BY <1>1, <2>1 DEF WorkerInv
  <2>3. Boundary = BoundaryAt(reserved, Published) /\ Published' = Published
    BY <1>1, <2>1, <2>2, PublishedIs DEF Boundary, BoundaryAt, Published
  <2>4. /\ worker'.pc = "snapshot" /\ worker'.upto = worker.upto /\ worker'.sent = 0
        /\ WorkerLike(worker') /\ worker'.row = BoundaryAt(reserved, Published)
    BY <1>1, <2>1, <2>2, <2>3 DEF WorkerLike
  <2> QED
    BY <1>2, <2>1, <2>2, <2>3, <2>4 DEF WorkerInv, WorkerLike
<1>13. CASE ReadBoundaries \/ ReadAccepted \/ ReadPending
  <2>1. /\ UNCHANGED <<wal, checkpoint, counts, progress>> /\ worker'.pc \in {"accepted", "pending", "total"}
        /\ worker'.upto = worker.upto /\ worker'.sent = worker.sent /\ WorkerLike(worker')
        /\ worker.pc \in {"boundaries", "accepted", "pending"}
    BY <1>1, <1>13 DEF ReadBoundaries, ReadAccepted, ReadPending, WorkerLike
  <2>2. worker.sent = 0 /\ progress # None /\ Published' = Published
    BY <1>1, <2>1 DEF WorkerInv, Published
  <2> DEFINE Row == [received |-> worker'.row.received, processed |-> checkpoint,
                     visible |-> Published, accepted |-> worker'.row.accepted,
                     disposed |-> counts, pending |-> worker'.row.pending, coverage |-> "exact"]
  <2>3. worker'.row = Row /\ worker'.row.received \in 0..Len(wal)
    <3>1. CASE ReadBoundaries
      <4>1. worker.row.ingest = Published
        BY <1>1, <3>1 DEF ReadBoundaries, WorkerInv, BoundaryAt
      <4> QED
        BY <1>1, <1>2, <3>1, <4>1 DEF ReadBoundaries, WorkerLike
    <3>2. CASE ReadAccepted \/ ReadPending
      <4>1. TotalRow(worker.row)
        BY <1>1, <3>2 DEF WorkerInv, ReadAccepted, ReadPending
      <4>2. \/ \E a : worker' = [worker EXCEPT !.pc = "pending", !.row.accepted = a]
            \/ \E a : worker' = [worker EXCEPT !.pc = "total", !.row.pending = a]
        BY <3>2 DEF ReadAccepted, ReadPending
      <4>3. \/ \E a : worker'.row = [worker.row EXCEPT !.accepted = a]
            \/ \E a : worker'.row = [worker.row EXCEPT !.pending = a]
        BY <1>1, <4>2 DEF WorkerLike
      <4>4. TotalRow(worker'.row)
        BY <4>1, <4>3, RowUpdated
      <4> QED
        BY <4>4 DEF TotalRow
    <3> QED
      BY <1>13, <3>1, <3>2
  <2>4. TotalRow(worker.row)'
    BY <2>1, <2>2, <2>3 DEF TotalRow
  <2> QED
    BY <1>2, <2>1, <2>2, <2>4 DEF WorkerInv, WorkerLike
<1>14. CASE InsertSnapshot
  <2>1. /\ worker.pc = "snapshot" /\ worker' = [worker EXCEPT !.pc = "boundaries"]
        /\ UNCHANGED <<reserved, progress>>
    BY <1>14 DEF InsertSnapshot
  <2>2. worker.sent = 0 /\ progress # None /\ worker.row = BoundaryAt(reserved, Published)
        /\ Published' = Published
    BY <1>1, <2>1 DEF WorkerInv, Published
  <2>3. /\ worker'.pc = "boundaries" /\ worker'.upto = worker.upto /\ worker'.sent = 0
        /\ WorkerLike(worker') /\ worker'.row = BoundaryAt(reserved, Published)
    BY <1>1, <2>1, <2>2 DEF WorkerLike
  <2> QED
    BY <1>2, <2>1, <2>2, <2>3 DEF WorkerInv, WorkerLike
<1> QED
  BY <1>3, <1>4, <1>5, <1>6, <1>7, <1>8, <1>9, <1>10, <1>11, <1>12, <1>13, <1>14
     DEF Next, Flush, vars, Accept, ReadMetadata, CheckCounts, ReadPage, NewQuery

-----------------------------------------------------------------------------
(* What a boundary promises can be read. *)

LEMMA ShownIs ==
  ASSUME DeliveryInv, NEW n \in 0..checkpoint
  PROVE  KeysThrough(n) = Shown(wal, n)
<1>1. /\ DOMAIN wal = 1..Len(wal) /\ Len(wal) \in Nat /\ checkpoint \in Nat /\ checkpoint <= Len(wal)
      /\ 1..Len(wal) \subseteq Entries
      /\ \A e \in 1..Len(wal) : wal[e] \in Classes /\ Outputs[wal[e]] \in 0..2
  BY LogIs DEF DeliveryInv
<1>2. ASSUME NEW e \in 1..Len(wal), e <= n, disposition[e] # "projected" PROVE Outputs[wal[e]] = 0
  <2>1. wal[e] \in {"defective", "filtered"}
    BY <1>1, <1>2 DEF DeliveryInv, DispositionIn
  <2> QED
    BY <2>1, OutputsAre
<1>3. ASSUME NEW key \in KeysThrough(n) PROVE key \in Shown(wal, n)
  <2>1. PICK e \in 1..Len(wal) : e <= n /\ key \in KeysOf(e)
    BY <1>1, <1>3 DEF KeysThrough, Received
  <2>2. PICK k \in 1..Outputs[wal[e]] : key = <<e, k>>
    BY <2>1 DEF KeysOf
  <2>3. key \in Keys
    BY <1>1, <2>1, <2>2 DEF Keys
  <2> QED
    BY <2>1, <2>2, <2>3 DEF Shown
<1>4. ASSUME NEW key \in Shown(wal, n) PROVE key \in KeysThrough(n)
  <2>1. PICK e \in Entries, k \in 1..2 : key = <<e, k>> /\ e <= n /\ k <= Outputs[wal[e]]
    BY <1>4 DEF Shown, Keys
  <2>2. e \in 1..Len(wal) /\ k \in 1..Outputs[wal[e]] /\ Outputs[wal[e]] # 0
    BY <1>1, <2>1 DEF Entries
  <2>3. key \in KeysOf(e) /\ disposition[e] = "projected"
    BY <1>2, <2>1, <2>2 DEF KeysOf
  <2> QED
    BY <1>1, <2>1, <2>2, <2>3 DEF KeysThrough, Received
<1> QED
  BY <1>3, <1>4

\* The numbers of an entry, and those of its outputs among them.
LEMMA Spans ==
  ASSUME NEW f \in Nat, NEW t \in Nat, NEW o \in 0..2, t = f + o - 1, NEW k \in 1..o
  PROVE  /\ f + k - 1 \in Nat /\ f <= f + k - 1 /\ f + k - 1 <= t
         /\ k \in 1..2
OBVIOUS

LEMMA SpanIs ==
  ASSUME DeliveryInv, ReservationInv, NEW e \in 1..last.ordinal
  PROVE  /\ reserved[e].from \in Nat /\ reserved[e].through \in Nat
         /\ 1 <= reserved[e].from /\ Outputs[wal[e]] \in 0..2
         /\ reserved[e].through = reserved[e].from + Outputs[wal[e]] - 1
         /\ \A k \in 1..Outputs[wal[e]] :
              /\ reserved[e].from + k - 1 \in Nat
              /\ reserved[e].from <= reserved[e].from + k - 1
              /\ reserved[e].from + k - 1 <= reserved[e].through
              /\ k \in 1..2 /\ <<e, k>> \in Keys
<1> DEFINE f == reserved[e].from
           t == reserved[e].through
           o == Outputs[wal[e]]
           u == ThroughAt(reserved, e - 1)
<1>1. e \in 1..Len(wal) /\ e \in Entries /\ e - 1 \in 0..last.ordinal
  BY LogIs, NumbersAre DEF ReservationInv
<1>2. u \in Nat
  BY <1>1, NumbersAre
<1>3. f \in Nat /\ t \in Nat /\ o \in 0..2
  BY <1>1, LogIs, NumbersAre
<1>4. f = u + 1 /\ t = u + o
  BY DEF ReservationInv
<1> HIDE DEF f, t, o, u
<1>5. 1 <= f /\ t = f + o - 1
  BY <1>2, <1>3, <1>4
<1>6. ASSUME NEW k \in 1..o
      PROVE  /\ f + k - 1 \in Nat /\ f <= f + k - 1 /\ f + k - 1 <= t
             /\ k \in 1..2 /\ <<e, k>> \in Keys
  <2>1. /\ f + k - 1 \in Nat /\ f <= f + k - 1 /\ f + k - 1 <= t
        /\ k \in 1..2
    BY <1>3, <1>5, Spans
  <2> QED
    BY <1>1, <2>1 DEF Keys
<1> QED
  BY <1>3, <1>5, <1>6 DEF f, t, o, u

\* The publications of a boundary are numbered 1, 2, ... up to its last number.
LEMMA BoundaryShows ==
  ASSUME DeliveryInv, ReservationInv, PublicationInv, NEW n \in 0..Published,
         NEW b, b = BoundaryAt(reserved, n)
  PROVE  /\ VisibleWithin(b) = PublishedWithin(b)
         /\ {p.key : p \in VisibleWithin(b)} = Shown(wal, n)
         /\ CountsMatch(b)
<1> DEFINE t == ThroughAt(reserved, n)
           S == PublishedWithin(b)
<1>1. /\ n \in Nat /\ n <= Published /\ n <= last.ordinal /\ n <= checkpoint /\ n <= Len(wal)
      /\ t \in Nat /\ b.ingest = n /\ b.through = t /\ b.count = t
      /\ last.ordinal \in Nat /\ Len(wal) \in Nat /\ checkpoint <= last.ordinal
      /\ Published <= checkpoint /\ checkpoint <= Len(wal) /\ checkpoint \in Nat /\ Published \in Nat
      /\ last.sequence \in Nat
  BY PublishedIs, NumbersAre, LogIs DEF BoundaryAt
<1>2. ASSUME NEW e \in 1..last.ordinal
      PROVE  /\ reserved[e].from \in Nat /\ reserved[e].through \in Nat
             /\ 1 <= reserved[e].from /\ Outputs[wal[e]] \in 0..2
             /\ reserved[e].through = reserved[e].from + Outputs[wal[e]] - 1
             /\ \A k \in 1..Outputs[wal[e]] :
                  /\ reserved[e].from + k - 1 \in Nat
                  /\ reserved[e].from <= reserved[e].from + k - 1
                  /\ reserved[e].from + k - 1 <= reserved[e].through
                  /\ k \in 1..2 /\ <<e, k>> \in Keys
  BY SpanIs
<1>3. ASSUME NEW e \in 1..n, NEW k \in 1..Outputs[wal[e]]
      PROVE  /\ Pub(reserved, e, k) \in S /\ <<e, k>> \in store.revisions
             /\ Pub(reserved, e, k).key = <<e, k>>
             /\ Pub(reserved, e, k).number = reserved[e].from + k - 1
  <2>1. e \in 1..Published /\ e \in 1..last.ordinal
    BY <1>1
  <2>2. Pub(reserved, e, k) \in store.publications /\ <<e, k>> \in store.revisions
    BY <2>1 DEF PublicationInv
  <2>3. Pub(reserved, e, k).key = <<e, k>> /\ Pub(reserved, e, k).number = reserved[e].from + k - 1
    BY DEF Pub
  <2>4. reserved[e].through <= t
    <3>1. CASE e = n
      BY <1>1, <1>2, <2>1, <3>1 DEF ThroughAt
    <3>2. CASE e # n
      <4>1. n \in 1..last.ordinal /\ e < n /\ n # 0
        BY <1>1, <3>2
      <4>2. reserved[e].through < reserved[n].from
        BY <2>1, <4>1 DEF ReservationInv
      <4>3. /\ reserved[n].from \in Nat /\ reserved[n].through = reserved[n].from + Outputs[wal[n]] - 1
            /\ Outputs[wal[n]] \in 0..2 /\ reserved[e].through \in Nat
        BY <1>2, <2>1, <4>1
      <4>4. t = reserved[n].through
        BY <4>1 DEF ThroughAt
      <4> HIDE DEF t
      <4> QED
        BY <1>1, <4>2, <4>3, <4>4
    <3> QED
      BY <3>1, <3>2
  <2>5. reserved[e].from + k - 1 <= t
    <3>1. /\ reserved[e].from + k - 1 \in Nat /\ reserved[e].from + k - 1 <= reserved[e].through
          /\ reserved[e].through \in Nat
      BY <1>2, <2>1
    <3> HIDE DEF t
    <3> QED
      BY <1>1, <2>4, <3>1
  <2> HIDE DEF t
  <2> QED
    BY <1>1, <2>2, <2>3, <2>5 DEF PublishedWithin
<1>4. ASSUME NEW p \in S
      PROVE  \E e \in 1..n : \E k \in 1..Outputs[wal[e]] : p = Pub(reserved, e, k)
  <2>1. p \in store.publications /\ p.key[1] <= n
    BY <1>1 DEF PublishedWithin
  <2>2a. PICK e \in 1..checkpoint : \E k \in 1..Outputs[wal[e]] : p = Pub(reserved, e, k)
    BY <2>1 DEF PublicationInv
  <2>2. PICK k \in 1..Outputs[wal[e]] : p = Pub(reserved, e, k)
    BY <2>2a
  <2>3. e \in 1..n
    BY <1>1, <2>1, <2>2 DEF Pub
  <2> QED
    BY <2>2, <2>3
<1> HIDE DEF t, S
<1>5. VisibleWithin(b) = S
  <2>1. ASSUME NEW p \in S PROVE p.key \in store.revisions
    <3>1a. PICK e \in 1..n : \E k \in 1..Outputs[wal[e]] : p = Pub(reserved, e, k)
      BY <1>4
    <3>1. PICK k \in 1..Outputs[wal[e]] : p = Pub(reserved, e, k)
      BY <3>1a
    <3> QED
      BY <1>3, <3>1
  <2> QED
    BY <2>1 DEF VisibleWithin, S
<1>6. {p.key : p \in S} = Shown(wal, n)
  <2>1. ASSUME NEW p \in S PROVE p.key \in Shown(wal, n)
    <3>1a. PICK e \in 1..n : \E k \in 1..Outputs[wal[e]] : p = Pub(reserved, e, k)
      BY <1>4
    <3>1. PICK k \in 1..Outputs[wal[e]] : p = Pub(reserved, e, k)
      BY <3>1a
    <3>2. p.key = <<e, k>> /\ k \in 1..Outputs[wal[e]]
      BY <1>3, <3>1a, <3>1
    <3>3. e \in 1..last.ordinal
      BY <1>1, <3>1a
    <3>4. <<e, k>> \in Keys
      BY <1>2, <3>2, <3>3
    <3>5. <<e, k>>[1] <= n /\ <<e, k>>[2] <= Outputs[wal[<<e, k>>[1]]]
      BY <1>1, <1>2, <3>2, <3>3, <3>1a
    <3> QED
      BY <3>2, <3>4, <3>5 DEF Shown
  <2>2. ASSUME NEW key \in Shown(wal, n) PROVE \E p \in S : key = p.key
    <3>1. PICK e \in Entries, k \in 1..2 : key = <<e, k>> /\ e <= n /\ k <= Outputs[wal[e]]
      BY <2>2 DEF Shown, Keys
    <3>2. e \in 1..n
      BY <1>1, <3>1, Numbers DEF Entries
    <3>3. e \in 1..last.ordinal
      BY <1>1, <3>2
    <3>4. k \in 1..Outputs[wal[e]]
      BY <1>2, <3>1, <3>3
    <3> QED
      BY <1>3, <3>1, <3>2, <3>4
  <2> QED
    BY <2>1, <2>2
<1>7. IsFiniteSet(S) /\ Cardinality(S) = t
  <2> DEFINE f == [p \in S |-> p.number]
  <2>1. ASSUME NEW p \in S PROVE p.number \in 1..t
    <3>1a. PICK e \in 1..n : \E k \in 1..Outputs[wal[e]] : p = Pub(reserved, e, k)
      BY <1>4
    <3>1. PICK k \in 1..Outputs[wal[e]] : p = Pub(reserved, e, k)
      BY <3>1a
    <3>2. e \in 1..last.ordinal
      BY <1>1
    <3>3. p.number = reserved[e].from + k - 1 /\ p.number <= b.through
      BY <1>3, <3>1 DEF S, PublishedWithin
    <3>4. p.number \in Nat /\ 1 <= p.number
      <4>1. /\ reserved[e].from + k - 1 \in Nat /\ reserved[e].from <= reserved[e].from + k - 1
            /\ reserved[e].from \in Nat /\ 1 <= reserved[e].from
        BY <1>2, <3>1, <3>2
      <4> QED
        BY <3>3, <4>1
    <3> QED
      BY <1>1, <3>3, <3>4
  <2>2. ASSUME NEW p \in S, NEW q \in S, p.number = q.number PROVE p = q
    <3>1a. PICK e \in 1..n : \E k \in 1..Outputs[wal[e]] : p = Pub(reserved, e, k)
      BY <1>4
    <3>1. PICK k \in 1..Outputs[wal[e]] : p = Pub(reserved, e, k)
      BY <3>1a
    <3>2a. PICK g \in 1..n : \E h \in 1..Outputs[wal[g]] : q = Pub(reserved, g, h)
      BY <1>4
    <3>2. PICK h \in 1..Outputs[wal[g]] : q = Pub(reserved, g, h)
      BY <3>2a
    <3>3. e \in 1..last.ordinal /\ g \in 1..last.ordinal
      BY <1>1
    <3>4. reserved[e].from + k - 1 = reserved[g].from + h - 1
      BY <1>3, <2>2, <3>1, <3>2
    <3>5. /\ reserved[e].from + k - 1 <= reserved[e].through /\ reserved[e].from <= reserved[e].from + k - 1
          /\ reserved[g].from + h - 1 <= reserved[g].through /\ reserved[g].from <= reserved[g].from + h - 1
      BY <1>2, <3>1, <3>2, <3>3
    <3>6. ~(e < g) /\ ~(g < e)
      <4>1. /\ e < g => reserved[e].through < reserved[g].from
            /\ g < e => reserved[g].through < reserved[e].from
        BY <3>3 DEF ReservationInv
      <4>2. /\ reserved[e].from \in Nat /\ reserved[e].through \in Nat
            /\ reserved[g].from \in Nat /\ reserved[g].through \in Nat
            /\ reserved[e].from + k - 1 \in Nat
        BY <1>2, <3>1, <3>3
      <4> QED
        BY <3>4, <3>5, <4>1, <4>2
    <3>7. e = g
      BY <3>3, <3>6
    <3>8. k = h
      <4>1. k \in 1..2 /\ h \in 1..2 /\ reserved[e].from \in Nat
        BY <1>2, <3>1, <3>2, <3>3
      <4>2. reserved[e].from + k - 1 = reserved[e].from + h - 1
        BY <3>4, <3>7
      <4> QED
        BY <4>1, <4>2
    <3> QED
      BY <3>1, <3>2, <3>7, <3>8
  <2>3. ASSUME NEW m \in 1..t PROVE \E p \in S : p.number = m
    <3>1. m \in 1..last.sequence
      <4>1. t <= last.sequence
        <5>1. CASE n = 0
          BY <1>1, <5>1 DEF t, ThroughAt
        <5>2. CASE n # 0
          <6>1. n \in 1..last.ordinal
            BY <1>1, <5>2
          <6> QED
            BY <5>2, <6>1 DEF t, ThroughAt, ReservationInv
        <5> QED
          BY <5>1, <5>2
      <4> QED
        BY <1>1, <4>1
    <3>2. PICK e \in 1..last.ordinal : reserved[e].from <= m /\ m <= reserved[e].through
      BY <3>1 DEF ReservationInv
    <3>3. e <= n
      <4>1. ASSUME ~(e <= n), n # 0 PROVE FALSE
        <5>1. n \in 1..last.ordinal /\ n < e
          BY <1>1, <4>1
        <5>2. reserved[n].through < reserved[e].from /\ reserved[n].through = t
          BY <4>1, <5>1 DEF ReservationInv, t, ThroughAt
        <5>3. reserved[e].from \in Nat
          BY <1>2
        <5> QED
          BY <1>1, <3>2, <5>2, <5>3
      <4>2. n # 0
        BY DEF t, ThroughAt
      <4> QED
        BY <4>1, <4>2
    <3>4. e \in 1..n
      BY <1>1, <3>3
    <3> DEFINE k == m - reserved[e].from + 1
    <3>5. k \in 1..Outputs[wal[e]] /\ reserved[e].from + k - 1 = m
      <4> DEFINE x == reserved[e].from
                 y == reserved[e].through
                 o == Outputs[wal[e]]
      <4>1. x \in Nat /\ y \in Nat /\ o \in 0..2 /\ y = x + o - 1
        BY <1>2
      <4>2. m \in Nat /\ x <= m /\ m <= y
        BY <1>1, <3>2
      <4> HIDE DEF x, y, o
      <4>3. m - x + 1 \in 1..o /\ x + (m - x + 1) - 1 = m
        BY <4>1, <4>2
      <4> QED
        BY <4>3 DEF x, o
    <3> HIDE DEF k
    <3> QED
      BY <1>3, <3>4, <3>5
  <2>4. f \in [S -> 1..t]
    BY <2>1
  <2>5. f \in Injection(S, 1..t)
    BY <2>2, <2>4 DEF Injection, IsInjective
  <2>6. f \in Surjection(S, 1..t)
    BY <2>3, <2>4 DEF Surjection
  <2>7. IsFiniteSet(1..t) /\ Cardinality(1..t) = t
    <3>1. 1 \in Int /\ t \in Int /\ t \in Nat
      BY <1>1
    <3>2. IsFiniteSet(1..t) /\ Cardinality(1..t) = IF 1 > t THEN 0 ELSE t - 1 + 1
      BY <3>1, FS_Interval
    <3> HIDE DEF t
    <3> QED
      BY <3>1, <3>2
  <2> HIDE DEF f
  <2> QED
    BY <2>5, <2>6, <2>7, FS_Injection
<1> QED
  BY <1>1, <1>5, <1>6, <1>7 DEF CountsMatch, S

-----------------------------------------------------------------------------
(* The order of the pages. *)

LEMMA BeforeIsOrder ==
  /\ \A k \in Keys : ~Before(k, k)
  /\ \A k, l \in Keys : k # l => Before(k, l) \/ Before(l, k)
  /\ \A k, l \in Keys : ~(Before(k, l) /\ Before(l, k))
<1>1. ASSUME NEW k \in Keys
      PROVE  k[1] \in Nat /\ k[2] \in Nat /\ k = <<k[1], k[2]>>
  BY Numbers DEF Keys, Entries
<1>2. \A k \in Keys : ~Before(k, k)
  BY <1>1 DEF Before
<1>3. ASSUME NEW k \in Keys, NEW l \in Keys, k # l PROVE Before(k, l) \/ Before(l, k)
  <2>1. k[1] # l[1] \/ k[2] # l[2]
    BY <1>1, <1>3
  <2> QED
    BY <1>1, <2>1 DEF Before
<1>4. \A k, l \in Keys : ~(Before(k, l) /\ Before(l, k))
  BY <1>1 DEF Before
<1> QED
  BY <1>2, <1>3, <1>4

\* A nonempty set of keys has a first one.
LEMMA FirstIs ==
  ASSUME NEW S \in SUBSET Keys, S # {}
  PROVE  First(S) \in S /\ \A l \in S \ {First(S)} : Before(First(S), l)
<1> DEFINE T == {k[1] : k \in S}
<1>1. \A k \in S : k[1] \in 0..MaxEntries /\ k[2] \in 0..2 /\ k = <<k[1], k[2]>> /\ MaxEntries \in Nat
  BY Numbers DEF Keys, Entries
<1>2. PICK x \in T : \A y \in T : y <= x
  <2>1. T \in SUBSET (0..MaxEntries) /\ T # {} /\ MaxEntries \in Nat
    BY <1>1
  <2> HIDE DEF T
  <2> QED
    BY <2>1, Largest
<1> DEFINE U == {k[2] : k \in {l \in S : l[1] = x}}
<1>3. PICK z \in U : \A y \in U : y <= z
  <2>1. U \in SUBSET (0..2) /\ 2 \in Nat
    BY <1>1
  <2>2. U # {}
    BY <1>2
  <2> HIDE DEF U
  <2> QED
    BY <2>1, <2>2, Largest
<1>4. PICK k \in S : k[1] = x /\ k[2] = z
  BY <1>3
<1>5. ASSUME NEW l \in S \ {k} PROVE Before(k, l)
  <2>1. l[1] \in T /\ l[1] <= k[1]
    BY <1>2, <1>4
  <2>2. l[1] = k[1] => l[2] <= k[2]
    BY <1>3, <1>4
  <2>3. l[1] # k[1] \/ l[2] # k[2]
    BY <1>1, <1>5
  <2>4. /\ l[1] \in 0..MaxEntries /\ k[1] \in 0..MaxEntries /\ l[2] \in 0..2 /\ k[2] \in 0..2
        /\ MaxEntries \in Nat
    BY <1>1
  <2> QED
    BY <2>1, <2>2, <2>3, <2>4 DEF Before
<1>6. \E m \in S : \A l \in S \ {m} : Before(m, l)
  BY <1>5
<1> QED
  BY <1>6 DEF First

\* A page takes one key after the other.
Longer(c, all) == IF LeftOut(c, all) = {} THEN c ELSE c \o <<First(LeftOut(c, all))>>

PageFrom(all) ==
  LET f[n \in 0..PageLimit] == IF n = 0 THEN <<>> ELSE Longer(f[n - 1], all)
  IN  f[PageLimit]

LEMMA PagesDefined ==
  ASSUME NEW all, NEW N \in Nat
  PROVE  \E f : f = [n \in 0..N |-> IF n = 0 THEN <<>> ELSE Longer(f[n - 1], all)]
<1> DEFINE Good ==
  {m \in Nat : \E f : f = [n \in 0..m |-> IF n = 0 THEN <<>> ELSE Longer(f[n - 1], all)]}
<1>1. 0 \in Good
  <2> DEFINE f == [n \in 0..0 |-> <<>>]
  <2>1. f = [n \in 0..0 |-> IF n = 0 THEN <<>> ELSE Longer(f[n - 1], all)]
    OBVIOUS
  <2> QED
    BY <2>1
<1>2. ASSUME NEW m \in 1..N, m - 1 \in Good PROVE m \in Good
  <2>1. PICK f : f = [n \in 0..(m - 1) |-> IF n = 0 THEN <<>> ELSE Longer(f[n - 1], all)]
    BY <1>2
  <2> DEFINE h == [n \in 0..m |-> IF n = m THEN Longer(f[m - 1], all) ELSE f[n]]
  <2>2. ASSUME NEW n \in 0..m PROVE h[n] = IF n = 0 THEN <<>> ELSE Longer(h[n - 1], all)
    <3>1. CASE n = m
      BY <3>1
    <3>2. CASE n # m
      <4>1. n \in 0..(m - 1)
        BY <3>2
      <4>2. f[n] = IF n = 0 THEN <<>> ELSE Longer(f[n - 1], all)
        BY <2>1, <4>1
      <4>3. h[n] = f[n] /\ (n # 0 => h[n - 1] = f[n - 1])
        BY <4>1
      <4> QED
        BY <4>2, <4>3
    <3> QED
      BY <3>1, <3>2
  <2>3. h = [n \in 0..m |-> IF n = 0 THEN <<>> ELSE Longer(h[n - 1], all)]
    BY <2>2
  <2> HIDE DEF h
  <2>4. \E i : i = [n \in 0..m |-> IF n = 0 THEN <<>> ELSE Longer(i[n - 1], all)]
    BY <2>3
  <2>5. m \in Nat
    OBVIOUS
  <2> QED
    BY <2>4, <2>5
<1> HIDE DEF Good
<1>3. N \in Good
  BY <1>1, <1>2, Induction
<1> QED
  BY <1>3 DEF Good

\* A key that is added is the newest of those that were left out.
LEMMA LongerIsNewest ==
  ASSUME NEW all \in SUBSET Keys, NEW c, Newest(c, all)
  PROVE  /\ Newest(Longer(c, all), all)
         /\ LeftOut(c, all) # {} => Len(Longer(c, all)) = Len(c) + 1
         /\ LeftOut(c, all) = {} => Longer(c, all) = c
<1>1. CASE LeftOut(c, all) = {}
  BY <1>1 DEF Longer
<1>2. CASE LeftOut(c, all) # {}
  <2> DEFINE x == First(LeftOut(c, all))
             d == Longer(c, all)
  <2>1. c \in Seq(Keys) /\ Len(c) \in Nat /\ DOMAIN c = 1..Len(c)
    BY DEF Newest
  <2>2. LeftOut(c, all) \in SUBSET Keys
    BY DEF LeftOut
  <2>3. x \in LeftOut(c, all) /\ \A l \in LeftOut(c, all) \ {x} : Before(x, l)
    BY <1>2, <2>2, FirstIs
  <2>4. d = c \o <<x>>
    BY <1>2 DEF Longer
  <2>5. x \in Keys /\ x \in all /\ \A i \in 1..Len(c) : Before(c[i], x)
    BY <2>2, <2>3 DEF LeftOut, Newest
  <2> HIDE DEF x, d
  <2>6. /\ d \in Seq(Keys) /\ Len(d) = Len(c) + 1 /\ DOMAIN d = 1..Len(d)
        /\ \A i \in 1..Len(c) : d[i] = c[i]
        /\ d[Len(c) + 1] = x
    BY <2>1, <2>4, <2>5
  <2>7. \A k \in LeftOut(d, all) : k \in LeftOut(c, all) /\ k # x
    BY <2>1, <2>6 DEF LeftOut
  <2>8. ASSUME NEW i \in 1..Len(d), NEW j \in 1..Len(d), i < j PROVE Before(d[i], d[j])
    <3>1. CASE j = Len(c) + 1
      <4>1. i \in 1..Len(c)
        BY <2>1, <2>6, <2>8, <3>1
      <4> QED
        BY <2>5, <2>6, <3>1, <4>1
    <3>2. CASE j # Len(c) + 1
      <4>1. i \in 1..Len(c) /\ j \in 1..Len(c)
        BY <2>1, <2>6, <2>8, <3>2
      <4> QED
        BY <2>6, <2>8, <4>1 DEF Newest
    <3> QED
      BY <3>1, <3>2
  <2>9. ASSUME NEW i \in 1..Len(d)
        PROVE  d[i] \in all /\ \A k \in LeftOut(d, all) : Before(d[i], k)
    <3>1. CASE i = Len(c) + 1
      BY <2>3, <2>5, <2>6, <2>7, <3>1
    <3>2. CASE i # Len(c) + 1
      <4>1. i \in 1..Len(c)
        BY <2>1, <2>6, <3>2
      <4> QED
        BY <2>6, <2>7, <4>1 DEF Newest
    <3> QED
      BY <3>1, <3>2
  <2>10. Newest(d, all)
    BY <2>6, <2>8, <2>9 DEF Newest
  <2> QED
    BY <1>2, <2>6, <2>10 DEF d
<1> QED
  BY <1>1, <1>2

LEMMA Recursion ==
  ASSUME NEW all
  PROVE  \E f : /\ f[0] = <<>> /\ \A n \in 1..PageLimit : f[n] = Longer(f[n - 1], all)
               /\ PageFrom(all) = f[PageLimit]
<1>1. \E g : g = [n \in 0..PageLimit |-> IF n = 0 THEN <<>> ELSE Longer(g[n - 1], all)]
  <2>1. PageLimit \in Nat
    BY Numbers
  <2> QED
    BY <2>1, PagesDefined, Zenon
<1> DEFINE f == CHOOSE g : g = [n \in 0..PageLimit |-> IF n = 0 THEN <<>> ELSE Longer(g[n - 1], all)]
<1>2. f = [n \in 0..PageLimit |-> IF n = 0 THEN <<>> ELSE Longer(f[n - 1], all)]
  BY <1>1, Zenon
<1>3. PageFrom(all) = f[PageLimit]
  BY DEF PageFrom
<1> HIDE DEF f
<1>4. f[0] = <<>> /\ \A n \in 1..PageLimit : f[n] = Longer(f[n - 1], all)
  BY <1>2, Numbers
<1> QED
  BY <1>3, <1>4

\* A page is the newest part of what the client has not seen, and all of it if
\* it is not full.
LEMMA PageIs ==
  ASSUME NEW all \in SUBSET Keys
  PROVE  LET p == PageFrom(all)
         IN  /\ Newest(p, all) /\ Len(p) <= PageLimit
             /\ Len(p) < PageLimit => LeftOut(p, all) = {}
<1>1. PICK f : /\ f[0] = <<>> /\ \A n \in 1..PageLimit : f[n] = Longer(f[n - 1], all)
               /\ PageFrom(all) = f[PageLimit]
  BY Recursion
<1> DEFINE Good == {n \in Nat : /\ Newest(f[n], all) /\ Len(f[n]) <= n
                                /\ Len(f[n]) < n => LeftOut(f[n], all) = {}}
<1>2. 0 \in Good
  <2> DEFINE c == f[0]
  <2>1. c = <<>>
    BY <1>1
  <2> HIDE DEF c
  <2>2. c \in Seq(Keys) /\ Len(c) = 0 /\ 1..Len(c) = {}
    BY <2>1
  <2>3. Newest(c, all) /\ Len(c) <= 0 /\ ~(Len(c) < 0)
    BY <2>2 DEF Newest
  <2> QED
    BY <2>3 DEF c
<1>3. ASSUME NEW n \in 1..PageLimit, n - 1 \in Good PROVE n \in Good
  <2> DEFINE c == f[n - 1]
             d == f[n]
  <2>1. d = Longer(c, all) /\ Newest(c, all) /\ Len(c) <= n - 1 /\ n \in Nat
        /\ (Len(c) < n - 1 => LeftOut(c, all) = {})
    BY <1>1, <1>3
  <2>2. Len(c) \in Nat
    BY <2>1 DEF Newest
  <2> HIDE DEF c, d
  <2>3. /\ Newest(d, all)
        /\ LeftOut(c, all) # {} => Len(d) = Len(c) + 1
        /\ LeftOut(c, all) = {} => d = c
    BY <2>1, LongerIsNewest
  <2>4. Len(d) <= n /\ (Len(d) < n => LeftOut(d, all) = {})
    BY <2>1, <2>2, <2>3
  <2> QED
    BY <2>1, <2>3, <2>4 DEF d
<1> HIDE DEF Good
<1>4. PageLimit \in Good
  BY <1>2, <1>3, Numbers, Induction
<1> QED
  BY <1>1, <1>4 DEF Good

\* If there are no more keys than a page holds, it holds all of them.
LEMMA LastPage ==
  ASSUME NEW all \in SUBSET Keys, IsFiniteSet(all), ~(Cardinality(all) > PageLimit)
  PROVE  LeftOut(PageFrom(all), all) = {}
<1> DEFINE c == PageFrom(all)
           f == [i \in 1..PageLimit |-> c[i]]
<1>1. Newest(c, all) /\ Len(c) <= PageLimit /\ (Len(c) < PageLimit => LeftOut(c, all) = {})
  BY PageIs
<1> HIDE DEF c
<1>2. c \in Seq(Keys) /\ Len(c) \in Nat /\ DOMAIN c = 1..Len(c) /\ PageLimit \in Nat
  BY <1>1, Numbers DEF Newest
<1>3. CASE Len(c) = PageLimit
  <2>1. f \in [1..PageLimit -> all]
    BY <1>1, <1>2, <1>3 DEF Newest
  <2>2. ASSUME NEW i \in 1..PageLimit, NEW j \in 1..PageLimit, f[i] = f[j] PROVE i = j
    <3>1. c[i] \in Keys /\ c[i] = c[j]
      BY <1>2, <1>3, <2>2
    <3>2. ~(i < j) /\ ~(j < i)
      BY <1>1, <1>3, <3>1, BeforeIsOrder DEF Newest
    <3> QED
      BY <1>2, <3>2
  <2>3. f \in Injection(1..PageLimit, all)
    BY <2>1, <2>2 DEF Injection, IsInjective
  <2>4. Cardinality(1..PageLimit) = PageLimit /\ Cardinality(all) \in Nat
    <3>1. 1 \in Int /\ PageLimit \in Int
      BY <1>2
    <3>2. Cardinality(1..PageLimit) = IF 1 > PageLimit THEN 0 ELSE PageLimit - 1 + 1
      BY <3>1, FS_Interval
    <3> QED
      BY <1>2, <3>2, FS_CardinalityType
  <2> HIDE DEF f
  <2>5. /\ Cardinality(1..PageLimit) <= Cardinality(all)
        /\ Cardinality(1..PageLimit) = Cardinality(all) => f \in Surjection(1..PageLimit, all)
    BY <2>3, FS_Injection
  <2>6. f \in Surjection(1..PageLimit, all)
    BY <1>2, <2>4, <2>5
  <2>7. \A k \in all : \E i \in 1..Len(c) : c[i] = k
    BY <1>3, <2>6 DEF Surjection, f
  <2> QED
    BY <1>2, <2>7 DEF LeftOut, c
<1>4. CASE Len(c) # PageLimit
  <2>1. Len(c) < PageLimit
    <3>1. Len(c) <= PageLimit /\ Len(c) \in Nat /\ PageLimit \in Nat
      BY <1>1, <1>2
    <3> QED
      BY <1>4, <3>1
  <2>2. LeftOut(c, all) = {}
    BY <1>1, <2>1
  <2> QED
    BY <2>2 DEF c
<1> QED
  BY <1>3, <1>4

-----------------------------------------------------------------------------
(* What a client collects. *)

\* What a boundary shows does not change.
LEMMA ShownKept ==
  ASSUME PublishInv, [Next]_vars, NEW n \in 0..Published
  PROVE  Shown(wal', n) = Shown(wal, n)
<1>1. DeliveryInv /\ ReservationInv /\ PublicationInv
  BY DEF PublishInv
<1>2. n \in Nat /\ n <= Len(wal) /\ Len(wal) \in Nat
  BY <1>1, PublishedIs, LogIs
<1>3. \A e \in 1..n : wal'[e] = wal[e]
  BY <1>2, Grows
<1>4. \A key \in Keys : key[1] <= n => key[1] \in 1..n
  BY <1>2, Numbers DEF Keys, Entries
<1> QED
  BY <1>3, <1>4 DEF Shown

\* Sets of keys are finite.
LEMMA KeysAreFinite ==
  ASSUME NEW all \in SUBSET Keys
  PROVE  IsFiniteSet(all)
<1>1. IsFiniteSet(1..MaxEntries) /\ IsFiniteSet(1..2)
  <2>1. 1 \in Int /\ 2 \in Int /\ MaxEntries \in Int
    BY Numbers
  <2> QED
    BY <2>1, FS_Interval
<1>2. IsFiniteSet(Keys)
  BY <1>1, FS_Product DEF Keys, Entries
<1> QED
  BY <1>2, FS_Subset

\* What the next page is taken from is what the client has not seen.
LEMMA RestIs ==
  ASSUME PublishInv, reader.frozen # None
  PROVE  /\ RestOf(reader.frozen) = LeftOut(reader.collected, Shown(wal, reader.frozen.ingest))
         /\ reader.frozen.ingest \in 0..Published
<1> DEFINE b == reader.frozen
           c == reader.collected
           all == Shown(wal, b.ingest)
<1>1. /\ DeliveryInv /\ ReservationInv /\ PublicationInv
      /\ Newest(c, all) /\ IsBoundary(reserved, Published, b)
      /\ reader.after = IF c = <<>> THEN None ELSE c[Len(c)]
  BY DEF PublishInv, ReaderInv
<1>2. PICK n \in 0..Published : b = BoundaryAt(reserved, n)
  BY <1>1 DEF IsBoundary
<1>3. b.ingest = n
  BY <1>2 DEF BoundaryAt
<1>4. {p.key : p \in VisibleWithin(b)} = all
  BY <1>1, <1>2, <1>3, BoundaryShows
<1> HIDE DEF b, c, all
<1>5. RestOf(b) = {k \in all : reader.after # None => Before(reader.after, k)}
  BY <1>4 DEF RestOf
<1>6. c \in Seq(Keys) /\ Len(c) \in Nat /\ DOMAIN c = 1..Len(c)
  BY <1>1 DEF Newest
<1>7. CASE c = <<>>
  <2>1. {c[i] : i \in DOMAIN c} = {}
    BY <1>7
  <2> QED
    BY <1>1, <1>3, <1>2, <1>5, <1>7, <2>1 DEF LeftOut, b, c, all
<1>8. CASE c # <<>>
  <2> DEFINE x == c[Len(c)]
  <2>1. Len(c) \in 1..Len(c) /\ x \in Keys
    BY <1>6, <1>8
  <2>2. reader.after = x /\ x # None
    BY <1>1, <1>8, <2>1, Numbers
  <2>3. ASSUME NEW k \in LeftOut(c, all) PROVE Before(x, k)
    BY <1>1, <2>1, <2>3 DEF Newest
  <2>4. ASSUME NEW k \in all, Before(x, k) PROVE k \in LeftOut(c, all)
    <3>1. ASSUME NEW i \in 1..Len(c), c[i] = k PROVE FALSE
      <4>1. c[i] \in Keys
        BY <1>6
      <4>2. i = Len(c) \/ Before(c[i], x)
        <5>1. i = Len(c) \/ i < Len(c)
          <6>1. Len(c) \in Nat
            BY <1>6
          <6> QED
            BY <6>1
        <5>2. i < Len(c) => Before(c[i], c[Len(c)])
          BY <1>1, <2>1 DEF Newest
        <5> QED
          BY <5>1, <5>2 DEF x
      <4> QED
        BY <2>1, <2>4, <3>1, <4>1, <4>2, BeforeIsOrder
    <3> QED
      BY <1>6, <3>1 DEF LeftOut
  <2> HIDE DEF x
  <2>5. LeftOut(c, all) \subseteq all
    BY DEF LeftOut
  <2>6. RestOf(b) = LeftOut(c, all)
    BY <1>5, <2>2, <2>3, <2>4, <2>5
  <2> QED
    BY <1>3, <1>2, <2>6 DEF b, c, all
<1> QED
  BY <1>7, <1>8

\* The next page goes behind what a client has.
LEMMA PagesJoin ==
  ASSUME NEW all \in SUBSET Keys, NEW c, NEW p, Newest(c, all), Newest(p, LeftOut(c, all))
  PROVE  /\ Newest(c \o p, all)
         /\ LeftOut(c \o p, all) = LeftOut(p, LeftOut(c, all))
         /\ (c \o p = <<>>) <=> (c = <<>> /\ p = <<>>)
         /\ p # <<>> => (c \o p)[Len(c \o p)] = p[Len(p)]
         /\ p = <<>> => c \o p = c
<1> DEFINE d == c \o p
<1>1. /\ c \in Seq(Keys) /\ Len(c) \in Nat /\ DOMAIN c = 1..Len(c)
      /\ p \in Seq(Keys) /\ Len(p) \in Nat /\ DOMAIN p = 1..Len(p)
  BY DEF Newest
<1>2. /\ d \in Seq(Keys) /\ Len(d) = Len(c) + Len(p) /\ DOMAIN d = 1..Len(d)
      /\ \A i \in 1..Len(d) : d[i] = IF i <= Len(c) THEN c[i] ELSE p[i - Len(c)]
  BY <1>1
<1>3. /\ (d = <<>>) <=> (c = <<>> /\ p = <<>>)
      /\ p = <<>> => d = c
  <2>1. (c = <<>> <=> Len(c) = 0) /\ (p = <<>> <=> Len(p) = 0) /\ (d = <<>> <=> Len(d) = 0)
    <3> HIDE DEF d
    <3> QED
      BY <1>1, <1>2
  <2>2. p = <<>> => d = c
    BY <1>1
  <2> HIDE DEF d
  <2>3. Len(d) = 0 <=> Len(c) = 0 /\ Len(p) = 0
    BY <1>1, <1>2
  <2> QED
    BY <2>1, <2>2, <2>3
<1> HIDE DEF d
<1>4. /\ \A i \in 1..Len(c) : i \in 1..Len(d) /\ d[i] = c[i]
      /\ \A i \in 1..Len(p) : Len(c) + i \in 1..Len(d) /\ d[Len(c) + i] = p[i]
  <2>1. ASSUME NEW i \in 1..Len(c) PROVE i \in 1..Len(d) /\ d[i] = c[i]
    <3>1. i \in 1..Len(d) /\ i <= Len(c)
      BY <1>1, <1>2
    <3> QED
      BY <1>2, <3>1
  <2>2. ASSUME NEW i \in 1..Len(p) PROVE Len(c) + i \in 1..Len(d) /\ d[Len(c) + i] = p[i]
    <3>1. Len(c) + i \in 1..Len(d) /\ ~(Len(c) + i <= Len(c)) /\ Len(c) + i - Len(c) = i
      BY <1>1, <1>2
    <3> QED
      BY <1>2, <3>1
  <2> QED
    BY <2>1, <2>2
<1>5. \A i \in 1..Len(d) : ~(i \in 1..Len(c)) => i - Len(c) \in 1..Len(p) /\ d[i] = p[i - Len(c)]
  BY <1>1, <1>2
<1>6. LeftOut(d, all) = LeftOut(p, LeftOut(c, all))
  <2>1. {d[i] : i \in 1..Len(d)} = {c[i] : i \in 1..Len(c)} \cup {p[i] : i \in 1..Len(p)}
    <3>1. ASSUME NEW i \in 1..Len(d)
          PROVE  d[i] \in {c[j] : j \in 1..Len(c)} \cup {p[j] : j \in 1..Len(p)}
      BY <1>4, <1>5
    <3>2. ASSUME NEW i \in 1..Len(c) PROVE c[i] \in {d[j] : j \in 1..Len(d)}
      BY <1>4
    <3>3. ASSUME NEW i \in 1..Len(p) PROVE p[i] \in {d[j] : j \in 1..Len(d)}
      BY <1>4
    <3> QED
      BY <3>1, <3>2, <3>3
  <2> QED
    BY <1>1, <1>2, <2>1 DEF LeftOut
<1>7. p # <<>> => d[Len(d)] = p[Len(p)]
  <2>1. p # <<>> => Len(p) \in 1..Len(p)
    BY <1>1
  <2> QED
    BY <1>2, <1>4, <2>1
<1>8. ASSUME NEW i \in 1..Len(p)
      PROVE  p[i] \in all /\ p[i] \in LeftOut(c, all) /\ \A k \in LeftOut(d, all) : Before(p[i], k)
  BY <1>6 DEF Newest, LeftOut
<1>9. ASSUME NEW i \in 1..Len(c)
      PROVE  /\ c[i] \in all /\ \A k \in LeftOut(d, all) : Before(c[i], k)
             /\ \A j \in 1..Len(p) : Before(c[i], p[j])
  <2>1. LeftOut(d, all) \subseteq LeftOut(c, all)
    BY <1>6 DEF LeftOut
  <2> QED
    BY <1>8, <2>1 DEF Newest
<1>10. ASSUME NEW i \in 1..Len(d) PROVE d[i] \in all /\ \A k \in LeftOut(d, all) : Before(d[i], k)
  BY <1>4, <1>5, <1>8, <1>9
<1>11. ASSUME NEW i \in 1..Len(d), NEW j \in 1..Len(d), i < j PROVE Before(d[i], d[j])
  <2>1. CASE j \in 1..Len(c)
    <3>1. i \in 1..Len(c)
      BY <1>1, <1>11, <2>1
    <3> QED
      BY <1>4, <1>11, <2>1, <3>1 DEF Newest
  <2>2. CASE i \in 1..Len(c) /\ j \notin 1..Len(c)
    BY <1>4, <1>5, <1>9, <2>2
  <2>3. CASE i \notin 1..Len(c) /\ j \notin 1..Len(c)
    <3>1. i - Len(c) < j - Len(c)
      BY <1>1, <1>11
    <3> QED
      BY <1>5, <2>3, <3>1 DEF Newest
  <2>4. CASE i \notin 1..Len(c) /\ j \in 1..Len(c)
    BY <1>1, <1>11, <2>4
  <2> QED
    BY <2>1, <2>2, <2>3, <2>4
<1>12. Newest(d, all)
  BY <1>2, <1>10, <1>11 DEF Newest
<1> QED
  BY <1>3, <1>6, <1>7, <1>12 DEF d

LEMMA ReaderKept ==
  ASSUME PublishInv, [Next]_vars, reader' = reader
  PROVE  ReaderInv'
<1>1. ReaderInv
  BY DEF PublishInv
<1>2. ASSUME reader.frozen # None
      PROVE  /\ Shown(wal', reader.frozen.ingest) = Shown(wal, reader.frozen.ingest)
             /\ IsBoundary(reserved', Published', reader.frozen)
  <2>1. reader.frozen.ingest \in 0..Published
    BY <1>2, RestIs
  <2>2. IsBoundary(reserved, Published, reader.frozen)
    BY <1>1, <1>2 DEF ReaderInv
  <2> QED
    BY <2>1, <2>2, ShownKept, BoundaryKept
<1> QED
  BY <1>1, <1>2 DEF ReaderInv

LEMMA ReaderStep ==
  ASSUME PublishInv, [Next]_vars
  PROVE  ReaderInv'
<1> DEFINE b == reader.frozen
           c == reader.collected
           all == Shown(wal, b.ingest)
<1>1. /\ DeliveryInv /\ ReservationInv /\ PublicationInv /\ SnapshotInv /\ ReaderInv
      /\ reader = [pc |-> reader.pc, frozen |-> b, after |-> reader.after, collected |-> c]
  BY DEF PublishInv, ReaderInv
<1>2. CASE ReadMetadata
  <2> DEFINE z == Frozen(store.snapshot)
  <2>1. /\ reader' = [reader EXCEPT !.pc = "counts", !.frozen = z]
        /\ UNCHANGED <<wal, reserved, progress>> /\ store.snapshot # None
    BY <1>2 DEF ReadMetadata, publication
  <2>2. /\ reader'.pc = "counts" /\ reader'.frozen = z /\ reader'.after = reader.after
        /\ reader'.collected = c
        /\ reader' = [pc |-> "counts", frozen |-> z, after |-> reader.after, collected |-> c]
    BY <1>1, <2>1
  <2>3. Published' = Published
    BY <2>1 DEF Published
  <2>4. CASE b # None
    <3>1. z = b
      BY <2>4 DEF Frozen
    <3> QED
      BY <1>1, <2>1, <2>2, <2>3, <2>4, <3>1 DEF ReaderInv
  <2>5. CASE b = None
    <3>1. z = store.snapshot /\ c = <<>> /\ reader.after = None
      BY <1>1, <2>5 DEF Frozen, ReaderInv
    <3>2. IsBoundary(reserved, Published, z) /\ z # None
      BY <1>1, <2>1, <3>1 DEF SnapshotInv
    <3>3. \A S : Newest(<<>>, S)
      <4>1. <<>> \in Seq(Keys) /\ 1..Len(<<>>) = {}
        OBVIOUS
      <4> QED
        BY <4>1 DEF Newest
    <3> HIDE DEF z
    <3> QED
      BY <2>1, <2>2, <2>3, <3>1, <3>2, <3>3 DEF ReaderInv
  <2> QED
    BY <2>4, <2>5
<1>3. CASE CheckCounts
  <2>1. /\ reader' = [reader EXCEPT !.pc = IF CountsMatch(reader.frozen) THEN "rows" ELSE "meta"]
        /\ UNCHANGED <<wal, reserved, progress>> /\ reader.pc = "counts"
    BY <1>3 DEF CheckCounts, publication
  <2>2. /\ reader'.pc \in {"rows", "meta"} /\ reader'.frozen = b /\ reader'.after = reader.after
        /\ reader'.collected = c
        /\ reader' = [pc |-> reader'.pc, frozen |-> b, after |-> reader.after, collected |-> c]
    BY <1>1, <2>1
  <2>3. Published' = Published /\ b # None
    BY <1>1, <2>1 DEF Published, ReaderInv
  <2> QED
    BY <1>1, <2>1, <2>2, <2>3 DEF ReaderInv
<1>4. CASE ReadPage
  <2> DEFINE rest == LeftOut(c, all)
             more == Cardinality(RestOf(b)) > PageLimit
             p == Page
  <2>1. /\ reader' = [reader EXCEPT !.pc = IF more THEN "meta" ELSE "finished",
                                    !.after = IF p = <<>> THEN @ ELSE p[Len(p)],
                                    !.collected = @ \o p]
        /\ UNCHANGED <<wal, reserved, progress>> /\ reader.pc = "rows"
    BY <1>4 DEF ReadPage, publication
  <2>2. b # None /\ Published' = Published
    BY <1>1, <2>1 DEF Published, ReaderInv
  <2>3. RestOf(b) = rest /\ all \in SUBSET Keys /\ rest \in SUBSET Keys
    BY <2>2, RestIs DEF LeftOut, Shown
  <2>4. /\ Newest(p, rest) /\ IsFiniteSet(rest)
        /\ ~more => LeftOut(p, rest) = {}
    <3>1. p = PageFrom(rest)
      BY <2>3 DEF Page, PageFrom, Longer, LeftOut
    <3> HIDE DEF p, rest
    <3>2. Newest(PageFrom(rest), rest)
      BY <2>3, PageIs
    <3>3. IsFiniteSet(rest)
      BY <2>3, KeysAreFinite
    <3>4. ~more => LeftOut(PageFrom(rest), rest) = {}
      BY <2>3, <3>3, LastPage
    <3> QED
      BY <3>1, <3>2, <3>3, <3>4
  <2>5. /\ Newest(c, all) /\ IsBoundary(reserved, Published, b)
        /\ reader.after = IF c = <<>> THEN None ELSE c[Len(c)]
    BY <1>1, <2>2 DEF ReaderInv
  <2> DEFINE d == c \o p
  <2> HIDE DEF p, rest, more, all, b, c
  <2>6. /\ Newest(d, all)
        /\ LeftOut(d, all) = LeftOut(p, rest)
        /\ (d = <<>>) <=> (c = <<>> /\ p = <<>>)
        /\ p # <<>> => d[Len(d)] = p[Len(p)]
        /\ p = <<>> => d = c
    <3>1. Newest(p, LeftOut(c, all))
      BY <2>4 DEF rest
    <3>2. all \in SUBSET Keys /\ Newest(c, all)
      BY <2>3, <2>5
    <3>3. LeftOut(d, all) = LeftOut(p, LeftOut(c, all))
      BY <3>1, <3>2, PagesJoin
    <3> QED
      BY <3>1, <3>2, <3>3, PagesJoin DEF rest
  <2>7. /\ reader'.frozen = b /\ reader'.collected = d
        /\ reader'.after = (IF p = <<>> THEN reader.after ELSE p[Len(p)])
        /\ reader'.pc = (IF more THEN "meta" ELSE "finished")
        /\ reader' = [pc |-> reader'.pc, frozen |-> b, after |-> reader'.after, collected |-> d]
    BY <1>1, <2>1 DEF b, c
  <2> HIDE DEF d
  <2>8. reader'.after = IF d = <<>> THEN None ELSE d[Len(d)]
    BY <2>5, <2>6, <2>7
  <2>9. ASSUME reader'.pc = "finished" PROVE {d[i] : i \in 1..Len(d)} = all
    <3>1. LeftOut(d, all) = {} /\ DOMAIN d = 1..Len(d)
      BY <2>4, <2>6, <2>7, <2>9 DEF Newest
    <3> QED
      BY <2>6, <3>1 DEF LeftOut, Newest
  <2>10. Shown(wal', reader'.frozen.ingest) = all
    BY <2>1, <2>7 DEF all
  <2> QED
    <3>1. IsBoundary(reserved', Published', b) /\ b # None
      BY <2>1, <2>2, <2>5
    <3>2. reader'.pc \in {"meta", "counts", "rows", "finished"}
      BY <2>7
    <3> QED
      BY <2>6, <2>7, <2>8, <2>9, <2>10, <3>1, <3>2 DEF ReaderInv
<1>5. CASE NewQuery
  <2>1. reader' = [pc |-> "meta", frozen |-> None, after |-> None, collected |-> <<>>]
    BY <1>5 DEF NewQuery, Waiting
  <2> QED
    BY <2>1 DEF ReaderInv
<1>6. CASE reader' = reader
  BY <1>6, ReaderKept
<1> QED
  <2>1. ReadMetadata \/ CheckCounts \/ ReadPage \/ NewQuery \/ reader' = reader
    <3>1. CASE Flush
      BY <3>1 DEF Flush, Initialize, Begin, IndexInputs, TakeBatch, Prepare, InsertOutput,
         CompleteOutput, Reserve, Commit, StartPublishing, InsertPublication, MarkPublished,
         StartRefresh, TakeVersion, InsertSnapshot, ReadBoundaries, ReadAccepted, ReadPending,
         InsertTotal, InsertScope
    <3>2. CASE ~Flush
      BY <3>2 DEF Next, vars, InsertFails, Crash, Accept
    <3> QED
      BY <3>1, <3>2
  <2> QED
    BY <1>2, <1>3, <1>4, <1>5, <1>6, <2>1

-----------------------------------------------------------------------------
(* The ledger and the counters count what the dispositions say. *)

\* Of entries up to a number there are finitely many.
LEMMA CountsAreFinite ==
  ASSUME NEW w, NEW n \in Nat
  PROVE  /\ IsFiniteSet(AcceptedOf(w, n)) /\ Cardinality(AcceptedOf(w, n)) \in Nat
         /\ \A d : /\ IsFiniteSet(DisposedOf(w, n, d))
                   /\ Cardinality(DisposedOf(w, n, d)) \in Nat
<1>1. IsFiniteSet(1..n)
  <2>1. 1 \in Int /\ n \in Int
    OBVIOUS
  <2> QED
    BY <2>1, FS_Interval
<1>2. AcceptedOf(w, n) \in SUBSET (1..n)
  BY DEF AcceptedOf
<1>3. IsFiniteSet(AcceptedOf(w, n)) /\ Cardinality(AcceptedOf(w, n)) \in Nat
  BY <1>1, <1>2, FS_Subset, FS_CardinalityType
<1>4. ASSUME NEW d
      PROVE  IsFiniteSet(DisposedOf(w, n, d)) /\ Cardinality(DisposedOf(w, n, d)) \in Nat
  <2>1. DisposedOf(w, n, d) \in SUBSET AcceptedOf(w, n)
    BY DEF DisposedOf
  <2> QED
    BY <1>3, <2>1, FS_Subset, FS_CardinalityType
<1> QED
  BY <1>3, <1>4

\* Disjoint sets add up.
LEMMA Adds ==
  ASSUME NEW S, NEW T, NEW U, IsFiniteSet(U), U = S \cup T, S \cap T = {}
  PROVE  /\ IsFiniteSet(S) /\ IsFiniteSet(T)
         /\ Cardinality(U) = Cardinality(S) + Cardinality(T)
         /\ Cardinality(S) \in Nat /\ Cardinality(T) \in Nat /\ Cardinality(U) \in Nat
<1>1. S \in SUBSET U /\ T \in SUBSET U
  OBVIOUS
<1>2. IsFiniteSet(S) /\ IsFiniteSet(T)
  BY <1>1, FS_Subset
<1> QED
  <2>1. Cardinality(U) = Cardinality(S) + Cardinality(T) - Cardinality(S \cap T)
    BY <1>2, FS_Union
  <2>2. Cardinality(S \cap T) = 0
    BY FS_EmptySet
  <2>3. Cardinality(S) \in Nat /\ Cardinality(T) \in Nat /\ Cardinality(U) \in Nat
    BY <1>2, FS_CardinalityType
  <2> QED
    BY <1>2, <2>1, <2>2, <2>3

\* Counts of what is in the log do not change when it grows.
LEMMA CountsKept ==
  ASSUME NEW w, NEW v, NEW m \in Nat, NEW n \in 0..m, \A e \in 1..m : v[e] = w[e]
  PROVE  AcceptedOf(v, n) = AcceptedOf(w, n) /\ \A d : DisposedOf(v, n, d) = DisposedOf(w, n, d)
<1>1. \A e \in 1..n : v[e] = w[e]
  OBVIOUS
<1> QED
  BY <1>1 DEF AcceptedOf, DisposedOf, DispositionIn

\* One more entry.
LEMMA OneMore ==
  ASSUME NEW w, NEW n \in Nat, NEW d
  PROVE  /\ w[n + 1] = "rejected" =>
              /\ AcceptedOf(w, n + 1) = AcceptedOf(w, n)
              /\ DisposedOf(w, n + 1, d) = DisposedOf(w, n, d)
         /\ w[n + 1] # "rejected" =>
              /\ AcceptedOf(w, n + 1) = AcceptedOf(w, n) \cup {n + 1}
              /\ Cardinality(DisposedOf(w, n + 1, d)) =
                   Cardinality(DisposedOf(w, n, d)) + IF DispositionIn(w, n + 1) = d THEN 1 ELSE 0
<1>1. 1..(n + 1) = (1..n) \cup {n + 1} /\ n + 1 \notin 1..n
  OBVIOUS
<1>2. CASE w[n + 1] = "rejected"
  <2>1. AcceptedOf(w, n + 1) = AcceptedOf(w, n)
    BY <1>1, <1>2 DEF AcceptedOf
  <2> QED
    BY <1>2, <2>1 DEF DisposedOf
<1>3. CASE w[n + 1] # "rejected"
  <2>1. AcceptedOf(w, n + 1) = AcceptedOf(w, n) \cup {n + 1} /\ n + 1 \notin AcceptedOf(w, n)
    BY <1>1, <1>3 DEF AcceptedOf
  <2>2. CASE DispositionIn(w, n + 1) = d
    <3>1. /\ DisposedOf(w, n + 1, d) = DisposedOf(w, n, d) \cup {n + 1}
          /\ n + 1 \notin DisposedOf(w, n, d)
      BY <2>1, <2>2 DEF DisposedOf
    <3>2. IsFiniteSet(DisposedOf(w, n, d))
      BY CountsAreFinite
    <3> QED
      BY <1>3, <2>1, <2>2, <3>1, <3>2, FS_AddElement
  <2>3. CASE DispositionIn(w, n + 1) # d
    <3>1. DisposedOf(w, n + 1, d) = DisposedOf(w, n, d)
      BY <2>1, <2>3 DEF DisposedOf
    <3>2. Cardinality(DisposedOf(w, n, d)) \in Nat
      BY CountsAreFinite
    <3> QED
      BY <1>3, <2>1, <2>3, <3>1, <3>2
  <2> QED
    BY <2>2, <2>3
<1> QED
  BY <1>2, <1>3

\* What LedgerInv says, as facts about the current state.
LEMMA LedgerIs ==
  ASSUME DeliveryInv, LedgerInv
  PROVE  /\ ledger.indexed \in Nat /\ checkpoint \in Nat /\ Len(wal) \in Nat
         /\ ledger.indexed <= Len(wal) /\ checkpoint <= Len(wal)
         /\ Both(ledger.indexed, checkpoint) \in 0..Len(wal)
         /\ ledger.accepted \in Nat /\ ledger.pending \in Nat
         /\ IsFiniteSet(waiting)
<1>1. /\ ledger.indexed \in Nat /\ checkpoint \in Nat /\ Len(wal) \in Nat
      /\ ledger.indexed <= Len(wal) /\ checkpoint <= Len(wal)
  BY LogIs DEF LedgerInv
<1>2. Both(ledger.indexed, checkpoint) \in 0..Len(wal)
  BY <1>1 DEF Both
<1>3. ledger.accepted \in Nat /\ IsFiniteSet(AcceptedOf(wal, ledger.indexed))
  BY <1>1, CountsAreFinite DEF LedgerInv
<1>4. waiting \in SUBSET AcceptedOf(wal, ledger.indexed)
  BY DEF LedgerInv
<1>5. IsFiniteSet(waiting) /\ Cardinality(waiting) \in Nat
  BY <1>3, <1>4, FS_Subset, FS_CardinalityType
<1> QED
  BY <1>1, <1>2, <1>3, <1>5 DEF LedgerInv

LEMMA LedgerKept ==
  ASSUME PublishInv, [Next]_vars, UNCHANGED <<checkpoint, counts, ledger, waiting>>
  PROVE  LedgerInv'
<1>1. DeliveryInv /\ LedgerInv
  BY DEF PublishInv
<1>2. /\ ledger.indexed \in 0..Len(wal) /\ checkpoint \in 0..Len(wal)
      /\ Both(ledger.indexed, checkpoint) \in 0..Len(wal)
      /\ Len(wal) \in Nat /\ Len(wal') \in Nat /\ Len(wal) <= Len(wal')
      /\ \A e \in 1..Len(wal) : wal'[e] = wal[e]
  BY <1>1, LedgerIs, Grows
<1>3. /\ \A n \in 0..Len(wal) : AcceptedOf(wal', n) = AcceptedOf(wal, n)
      /\ \A n \in 0..Len(wal) : \A d : DisposedOf(wal', n, d) = DisposedOf(wal, n, d)
  <2> DEFINE m == Len(wal)
  <2>1. m \in Nat /\ \A e \in 1..m : wal'[e] = wal[e]
    BY <1>2
  <2> HIDE DEF m
  <2>2. ASSUME NEW n \in 0..m
        PROVE  AcceptedOf(wal', n) = AcceptedOf(wal, n) /\ \A d : DisposedOf(wal', n, d) = DisposedOf(wal, n, d)
    BY <2>1, CountsKept
  <2> QED
    BY <2>2 DEF m
<1>4. ledger'.indexed = ledger.indexed /\ checkpoint' = checkpoint
  OBVIOUS
<1>5. ledger.indexed \in 0..Len(wal')
  BY <1>2
<1> QED
  BY <1>1, <1>2, <1>3, <1>4, <1>5 DEF LedgerInv

\* What one transaction of indexInputs takes up.
UpTo  == Min({ledger.indexed + IndexLimit, Len(wal)})
Taken == AcceptedIn((ledger.indexed + 1)..UpTo)

\* All fields are written.
LEMMA LedgerFields ==
  ASSUME NEW l, NEW a, NEW b, NEW c, NEW d, NEW e, NEW f, NEW g,
         l = [indexed |-> l.indexed, accepted |-> l.accepted, disposed |-> l.disposed,
              pending |-> l.pending, received |-> l.received, processed |-> l.processed,
              legacy |-> l.legacy]
  PROVE  [l EXCEPT !.indexed = a, !.accepted = b, !.disposed = c, !.pending = d,
                   !.received = e, !.processed = f, !.legacy = g]
           = [indexed |-> a, accepted |-> b, disposed |-> c, pending |-> d,
              received |-> e, processed |-> f, legacy |-> g]
<1> DEFINE l1 == [l EXCEPT !.indexed = a]
<1>1. l1 = [indexed |-> a, accepted |-> l.accepted, disposed |-> l.disposed, pending |-> l.pending,
            received |-> l.received, processed |-> l.processed, legacy |-> l.legacy]
  OBVIOUS
<1> HIDE DEF l1
<1> DEFINE l2 == [l1 EXCEPT !.accepted = b]
<1>2. l2 = [indexed |-> a, accepted |-> b, disposed |-> l.disposed, pending |-> l.pending,
            received |-> l.received, processed |-> l.processed, legacy |-> l.legacy]
  BY <1>1
<1> HIDE DEF l2
<1> DEFINE l3 == [l2 EXCEPT !.disposed = c]
<1>3. l3 = [indexed |-> a, accepted |-> b, disposed |-> c, pending |-> l.pending,
            received |-> l.received, processed |-> l.processed, legacy |-> l.legacy]
  BY <1>2
<1> HIDE DEF l3
<1> DEFINE l4 == [l3 EXCEPT !.pending = d]
<1>4. l4 = [indexed |-> a, accepted |-> b, disposed |-> c, pending |-> d,
            received |-> l.received, processed |-> l.processed, legacy |-> l.legacy]
  BY <1>3
<1> HIDE DEF l4
<1> DEFINE l5 == [l4 EXCEPT !.received = e]
<1>5. l5 = [indexed |-> a, accepted |-> b, disposed |-> c, pending |-> d,
            received |-> e, processed |-> l.processed, legacy |-> l.legacy]
  BY <1>4
<1> HIDE DEF l5
<1> DEFINE l6 == [l5 EXCEPT !.processed = f]
<1>6. l6 = [indexed |-> a, accepted |-> b, disposed |-> c, pending |-> d,
            received |-> e, processed |-> f, legacy |-> l.legacy]
  BY <1>5
<1> HIDE DEF l6
<1> DEFINE l7 == [l6 EXCEPT !.legacy = g]
<1>7. l7 = [indexed |-> a, accepted |-> b, disposed |-> c, pending |-> d,
            received |-> e, processed |-> f, legacy |-> g]
  BY <1>6
<1> HIDE DEF l7
<1> QED
  BY <1>7 DEF l1, l2, l3, l4, l5, l6, l7

LEMMA Indexes ==
  ASSUME PublishInv, IndexInputs
  PROVE  /\ UpTo \in Nat /\ ledger.indexed <= UpTo /\ UpTo <= Len(wal)
         /\ ledger' = [indexed   |-> UpTo,
                       accepted  |-> ledger.accepted + Cardinality(Taken),
                       disposed  |-> [d \in Dispositions |->
                                        ledger.disposed[d] + Cardinality(Disposed(Taken, d))],
                       pending   |-> ledger.pending + Cardinality({e \in Taken : e > checkpoint}),
                       received  |-> Max(Taken \cup {ledger.received}),
                       processed |-> Max({e \in Taken : e <= checkpoint} \cup {ledger.processed}),
                       legacy    |-> FALSE]
         /\ waiting' = waiting \cup {e \in Taken : e > checkpoint}
         /\ UNCHANGED <<wal, checkpoint, counts>>
<1> DEFINE i == ledger.indexed
           unknown == Undisposed(Taken)
           old == {e \in unknown : e <= checkpoint}
           settled == (Taken \ unknown) \cup old
<1>1. DeliveryInv /\ LedgerInv
  BY DEF PublishInv
<1>2. /\ i \in Nat /\ Len(wal) \in Nat /\ i <= Len(wal) /\ checkpoint \in Nat
      /\ 1..Len(wal) \subseteq Entries /\ IndexLimit \in Nat /\ checkpoint <= Len(wal)
  BY <1>1, LedgerIs, LogIs, Numbers
<1>3. UpTo \in Nat /\ i <= UpTo /\ UpTo <= Len(wal)
  <2>1. i + IndexLimit \in Int /\ Len(wal) \in Int /\ i <= i + IndexLimit
    BY <1>2
  <2>2. UpTo \in {i + IndexLimit, Len(wal)} /\ UpTo <= Len(wal)
    BY <2>1, MinIs DEF UpTo
  <2> QED
    BY <1>2, <2>1, <2>2
<1>4. \A e \in Taken : e \in 1..Len(wal) /\ e \in Nat /\ e \in Entries
  BY <1>2, <1>3 DEF Taken, AcceptedIn
<1>5. \A e \in 1..Len(wal) : disposition[e] = None <=> e > checkpoint
  <2>1. \A e \in 1..Len(wal) : DispositionIn(wal, e) # None
    BY Numbers DEF DispositionIn, Dispositions
  <2> QED
    BY <1>1, <1>2, <2>1 DEF DeliveryInv
<1>6. /\ unknown = {e \in Taken : e > checkpoint} /\ old = {}
      /\ settled = {e \in Taken : e <= checkpoint}
  <2>1. unknown = {e \in Taken : e > checkpoint}
    BY <1>4, <1>5 DEF Undisposed
  <2>2. old = {}
    BY <1>2, <1>4, <2>1
  <2> HIDE DEF unknown, old
  <2> QED
    BY <1>2, <1>4, <2>1, <2>2
<1>7. /\ ledger' = [ledger EXCEPT
           !.indexed = UpTo,
           !.accepted = ledger.accepted + Cardinality(Taken),
           !.disposed = [d \in Dispositions |-> ledger.disposed[d] + Cardinality(Disposed(Taken, d))],
           !.pending = ledger.pending + Cardinality(unknown \ old),
           !.received = Max(Taken \cup {ledger.received}),
           !.processed = Max(settled \cup {ledger.processed}),
           !.legacy = ledger.legacy \/ old # {}]
      /\ waiting' = waiting \cup (unknown \ old)
      /\ UNCHANGED <<wal, checkpoint, counts>>
  BY DEF IndexInputs, Taken, UpTo, delivery
<1> HIDE DEF unknown, old, settled
<1>8. unknown \ old = {e \in Taken : e > checkpoint}
  BY <1>6
<1>9. ledger = [indexed |-> ledger.indexed, accepted |-> ledger.accepted,
                disposed |-> ledger.disposed, pending |-> ledger.pending,
                received |-> ledger.received, processed |-> ledger.processed,
                legacy |-> FALSE]
  BY <1>1 DEF LedgerInv
<1>10. ledger' = [ledger EXCEPT
           !.indexed = UpTo,
           !.accepted = ledger.accepted + Cardinality(Taken),
           !.disposed = [d \in Dispositions |-> ledger.disposed[d] + Cardinality(Disposed(Taken, d))],
           !.pending = ledger.pending + Cardinality(unknown \ old),
           !.received = Max(Taken \cup {ledger.received}),
           !.processed = Max(settled \cup {ledger.processed}),
           !.legacy = FALSE]
  <2>1. ledger.legacy = FALSE
    BY <1>9
  <2>2. (ledger.legacy \/ old # {}) = FALSE
    BY <1>6, <2>1, Zenon
  <2> QED
    BY <1>7, <2>2, Zenon
<1>11. ledger' = [indexed |-> UpTo, accepted |-> ledger.accepted + Cardinality(Taken),
                  disposed |-> [d \in Dispositions |->
                                  ledger.disposed[d] + Cardinality(Disposed(Taken, d))],
                  pending |-> ledger.pending + Cardinality(unknown \ old),
                  received |-> Max(Taken \cup {ledger.received}),
                  processed |-> Max(settled \cup {ledger.processed}),
                  legacy |-> FALSE]
  <2>1. ledger.legacy = FALSE
    BY <1>9
  <2>2. ledger = [indexed |-> ledger.indexed, accepted |-> ledger.accepted,
                  disposed |-> ledger.disposed, pending |-> ledger.pending,
                  received |-> ledger.received, processed |-> ledger.processed,
                  legacy |-> ledger.legacy]
    BY <1>9, <2>1, Zenon
  <2> QED
    BY <1>10, <2>2, LedgerFields, Zenon
<1> QED
  BY <1>2, <1>3, <1>6, <1>7, <1>8, <1>11, Zenon

LEMMA IndexStep ==
  ASSUME PublishInv, [Next]_vars, IndexInputs
  PROVE  LedgerInv'
<1> DEFINE i == ledger.indexed
           j == UpTo
           c == checkpoint
           late == {e \in Taken : e > c}
           early == {e \in Taken : e <= c}
<1>1. DeliveryInv /\ LedgerInv
  BY DEF PublishInv
<1>2. /\ i \in Nat /\ j \in Nat /\ i <= j /\ j <= Len(wal) /\ Len(wal) \in Nat
      /\ c \in Nat /\ c <= Len(wal)
  BY <1>1, LedgerIs, Indexes
<1>3. /\ ledger'.indexed = j /\ ledger'.accepted = ledger.accepted + Cardinality(Taken)
      /\ ledger'.disposed = [d \in Dispositions |->
                               ledger.disposed[d] + Cardinality(Disposed(Taken, d))]
      /\ ledger'.pending = ledger.pending + Cardinality(late)
      /\ ledger'.received = Max(Taken \cup {ledger.received})
      /\ ledger'.processed = Max(early \cup {ledger.processed})
      /\ ledger' = [indexed |-> ledger'.indexed, accepted |-> ledger'.accepted,
                    disposed |-> ledger'.disposed, pending |-> ledger'.pending,
                    received |-> ledger'.received, processed |-> ledger'.processed,
                    legacy |-> FALSE]
      /\ waiting' = waiting \cup late /\ wal' = wal /\ checkpoint' = c /\ counts' = counts
  BY Indexes
<1>4. Taken = {e \in (i + 1)..j : wal[e] # "rejected"}
  BY DEF Taken, AcceptedIn, IsAccepted
<1> HIDE DEF j, i, c
\* Indexed so far and taken up now are what is indexed afterwards.
<1>5. AcceptedOf(wal, j) = AcceptedOf(wal, i) \cup Taken /\ AcceptedOf(wal, i) \cap Taken = {}
  BY <1>2, <1>4 DEF AcceptedOf
<1>6. /\ IsFiniteSet(AcceptedOf(wal, j)) /\ IsFiniteSet(Taken)
      /\ Cardinality(AcceptedOf(wal, j)) = Cardinality(AcceptedOf(wal, i)) + Cardinality(Taken)
  BY <1>2, <1>5, CountsAreFinite, Adds
<1>7. ledger'.accepted = Cardinality(AcceptedOf(wal, j))
  BY <1>1, <1>3, <1>6 DEF LedgerInv, i
\* So are those that wait for their disposition,
<1>8. waiting' = {e \in AcceptedOf(wal, j) : e > c} /\ ledger'.pending = Cardinality(waiting')
  <2>1. waiting = {e \in AcceptedOf(wal, i) : e > c} /\ ledger.pending = Cardinality(waiting)
    BY <1>1 DEF LedgerInv, i, c
  <2>2. waiting' = {e \in AcceptedOf(wal, j) : e > c} /\ waiting \cap late = {}
    BY <1>3, <1>5, <2>1
  <2>3. IsFiniteSet(waiting')
    <3>1. waiting' \in SUBSET AcceptedOf(wal, j)
      BY <2>2
    <3> QED
      BY <1>6, <3>1, FS_Subset
  <2> HIDE DEF late
  <2>4. Cardinality(waiting') = Cardinality(waiting) + Cardinality(late)
    BY <1>3, <2>2, <2>3, Adds
  <2> QED
    BY <1>3, <2>1, <2>2, <2>4
\* and those that have it.
<1>9. /\ AcceptedOf(wal, Both(j, c)) = AcceptedOf(wal, Both(i, c)) \cup early
      /\ AcceptedOf(wal, Both(i, c)) \cap early = {} /\ Both(j, c) \in Nat
  BY <1>2, <1>4 DEF AcceptedOf, Both
<1>10. ASSUME NEW d \in Dispositions
       PROVE  Cardinality(DisposedOf(wal, Both(j, c), d)) =
                ledger.disposed[d] + Cardinality(Disposed(Taken, d))
  <2>1. ledger.disposed[d] = Cardinality(DisposedOf(wal, Both(i, c), d))
    BY <1>1 DEF LedgerInv, i, c
  <2>2. Disposed(Taken, d) = {e \in early : DispositionIn(wal, e) = d}
    <3>1. \A e \in Taken : e \in Entries
      BY <1>1, <1>2, <1>4, LogIs
    <3>2. \A e \in Taken : disposition[e] = IF e <= c THEN DispositionIn(wal, e) ELSE None
      BY <1>1, <3>1 DEF DeliveryInv, c
    <3>3. d # None
      BY Numbers
    <3> QED
      BY <3>2, <3>3 DEF Disposed
  <2>3. /\ DisposedOf(wal, Both(j, c), d) = DisposedOf(wal, Both(i, c), d) \cup Disposed(Taken, d)
        /\ DisposedOf(wal, Both(i, c), d) \cap Disposed(Taken, d) = {}
    BY <1>9, <2>2 DEF DisposedOf
  <2>4. IsFiniteSet(DisposedOf(wal, Both(j, c), d))
    BY <1>9, CountsAreFinite
  <2> QED
    BY <2>1, <2>3, <2>4, Adds
<1>11. ASSUME NEW d \in Dispositions
       PROVE  ledger'.disposed[d] = Cardinality(DisposedOf(wal, Both(j, c), d))
  BY <1>3, <1>10
<1>12. ledger'.disposed \in [Dispositions -> Nat]
  <2>1. \A d \in Dispositions : Cardinality(DisposedOf(wal, Both(j, c), d)) \in Nat
    BY <1>9, CountsAreFinite
  <2> QED
    BY <1>3, <1>10, <2>1
<1>13. /\ ledger'.received \in Nat /\ ledger'.processed \in Nat
       /\ ledger.processed <= ledger'.processed
       /\ \A e \in early : e <= ledger'.processed
  <2> DEFINE N == Len(wal) + ledger.received + ledger.processed
  <2>1. ledger.received \in Nat /\ ledger.processed \in Nat
    BY <1>1 DEF LedgerInv
  <2>2. /\ N \in Nat /\ ledger.received \in 0..N /\ ledger.processed \in 0..N
        /\ \A n \in 0..Len(wal) : n \in 0..N
    BY <1>2, <2>1
  <2>3. \A e \in Taken : e \in 0..Len(wal)
    BY <1>2, <1>4
  <2> HIDE DEF N
  <2>4. /\ Taken \cup {ledger.received} \in SUBSET (0..N)
        /\ early \cup {ledger.processed} \in SUBSET (0..N)
    BY <2>2, <2>3
  <2> HIDE DEF early
  <2>5. /\ ledger'.received \in Taken \cup {ledger.received}
        /\ ledger'.processed \in early \cup {ledger.processed}
        /\ \A y \in early \cup {ledger.processed} : y <= ledger'.processed
    BY <1>3, <2>2, <2>4, MaxIs
  <2>6. ledger'.received \in 0..N /\ ledger'.processed \in 0..N
    BY <2>4, <2>5
  <2> QED
    BY <2>2, <2>5, <2>6
<1>14. \A e \in AcceptedOf(wal, Both(j, c)) : e <= ledger'.processed
  <2>1. \A e \in AcceptedOf(wal, Both(i, c)) : e <= ledger.processed /\ e \in Nat
    BY <1>1 DEF LedgerInv, i, c, AcceptedOf
  <2>2. ledger.processed \in Nat
    BY <1>1 DEF LedgerInv
  <2>3. \A e \in AcceptedOf(wal, Both(i, c)) : e <= ledger'.processed
    BY <1>13, <2>1, <2>2
  <2> QED
    BY <1>9, <1>13, <2>3
<1>15. /\ counts' \in [Dispositions -> Nat]
       /\ \A d \in Dispositions : counts'[d] = Cardinality(DisposedOf(wal, c, d))
  BY <1>1, <1>3 DEF LedgerInv, c
<1>16. ledger'.indexed \in 0..Len(wal)
  BY <1>2, <1>3
<1> QED
  BY <1>3, <1>7, <1>8, <1>11, <1>12, <1>13, <1>14, <1>15, <1>16 DEF LedgerInv

LEMMA ThreeFields ==
  ASSUME NEW l, NEW a, NEW b, NEW c,
         l = [indexed |-> l.indexed, accepted |-> l.accepted, disposed |-> l.disposed,
              pending |-> l.pending, received |-> l.received, processed |-> l.processed,
              legacy |-> l.legacy]
  PROVE  [l EXCEPT !.pending = a, !.processed = b, !.disposed = c]
           = [indexed |-> l.indexed, accepted |-> l.accepted, disposed |-> c,
              pending |-> a, received |-> l.received, processed |-> b,
              legacy |-> l.legacy]
<1> DEFINE l1 == [l EXCEPT !.pending = a]
<1>1. l1 = [indexed |-> l.indexed, accepted |-> l.accepted, disposed |-> l.disposed, pending |-> a,
            received |-> l.received, processed |-> l.processed, legacy |-> l.legacy]
  OBVIOUS
<1> HIDE DEF l1
<1> DEFINE l2 == [l1 EXCEPT !.processed = b]
<1>2. l2 = [indexed |-> l.indexed, accepted |-> l.accepted, disposed |-> l.disposed, pending |-> a,
            received |-> l.received, processed |-> b, legacy |-> l.legacy]
  BY <1>1
<1> HIDE DEF l2
<1> DEFINE l3 == [l2 EXCEPT !.disposed = c]
<1>3. l3 = [indexed |-> l.indexed, accepted |-> l.accepted, disposed |-> c, pending |-> a,
            received |-> l.received, processed |-> b, legacy |-> l.legacy]
  BY <1>2
<1> HIDE DEF l3
<1> QED
  BY <1>3 DEF l1, l2, l3

LEMMA CommitStep ==
  ASSUME PublishInv, [Next]_vars, Commit
  PROVE  LedgerInv'
<1> DEFINE i == ledger.indexed
           c == checkpoint
           e == c + 1
           x == DispositionIn(wal, e)
<1>1. DeliveryInv /\ LedgerInv /\ WorkerInv
  BY DEF PublishInv
<1>2. /\ i \in Nat /\ i <= Len(wal) /\ Len(wal) \in Nat /\ c \in Nat /\ c <= Len(wal)
  BY <1>1, LedgerIs
<1>3. e \in 1..Len(wal) /\ wal[e] \in Classes
  <2>1. worker.upto \in 0..Len(wal) /\ e <= worker.upto
    BY <1>1 DEF WorkerInv, Commit, Projecting, Current
  <2> QED
    BY <1>1, <1>2, <2>1, LogIs
<1>4. /\ x \in Dispositions /\ DispositionOf(e) = x
  BY DEF DispositionIn, DispositionOf, IsDefective, Dispositions
<1>5. /\ checkpoint' = e /\ wal' = wal
      /\ counts' = [counts EXCEPT ![x] = @ + IF wal[e] # "rejected" THEN 1 ELSE 0]
      /\ LedgerDisposes(e, x)
  BY <1>4 DEF Commit, Current, IsAccepted
<1> HIDE DEF i, x, c
\* The counters.
<1>6. counts \in [Dispositions -> Nat] /\ \A d \in Dispositions : counts[d] = Cardinality(DisposedOf(wal, c, d))
  BY <1>1 DEF LedgerInv, c
<1>7. ASSUME NEW d \in Dispositions
      PROVE  counts'[d] = Cardinality(DisposedOf(wal, e, d)) /\ counts'[d] \in Nat
  <2>1. Cardinality(DisposedOf(wal, c, d)) \in Nat
    BY <1>2, CountsAreFinite
  <2>2. CASE wal[e] = "rejected"
    <3>1. counts'[d] = counts[d]
      BY <1>4, <1>5, <1>6, <2>2
    <3> QED
      BY <1>2, <1>6, <2>1, <2>2, <3>1, OneMore
  <2>3. CASE wal[e] # "rejected"
    <3>1. counts'[d] = counts[d] + IF x = d THEN 1 ELSE 0
      BY <1>4, <1>5, <1>6, <2>3
    <3>2. Cardinality(DisposedOf(wal, e, d)) =
            Cardinality(DisposedOf(wal, c, d)) + IF x = d THEN 1 ELSE 0
      BY <1>2, <2>3, OneMore DEF x
    <3> QED
      BY <1>6, <2>1, <3>1, <3>2
  <2> QED
    BY <2>2, <2>3
<1>8. counts' \in [Dispositions -> Nat]
  <2>1. counts' = [d \in Dispositions |-> counts'[d]]
    BY <1>5, <1>6
  <2> QED
    BY <1>7, <2>1
\* An input that waits gets its disposition.
<1>9. /\ ledger = [indexed |-> ledger.indexed, accepted |-> ledger.accepted,
                   disposed |-> ledger.disposed, pending |-> ledger.pending,
                   received |-> ledger.received, processed |-> ledger.processed,
                   legacy |-> FALSE]
      /\ ledger.received \in Nat /\ ledger.processed \in Nat
      /\ waiting = {f \in AcceptedOf(wal, i) : f > c} /\ ledger.pending = Cardinality(waiting)
      /\ \A f \in AcceptedOf(wal, Both(i, c)) : f <= ledger.processed
      /\ ledger.disposed \in [Dispositions -> Nat]
      /\ \A d \in Dispositions : ledger.disposed[d] = Cardinality(DisposedOf(wal, Both(i, c), d))
      /\ ledger.accepted = Cardinality(AcceptedOf(wal, i))
  BY <1>1 DEF LedgerInv, i, c
<1>10. CASE e \in waiting
  <2>1. e <= i /\ wal[e] # "rejected" /\ Both(i, c) = c /\ Both(i, e) = e
    BY <1>2, <1>9, <1>10 DEF AcceptedOf, Both
  <2> DEFINE p == Max({ledger.processed, e})
             g == [ledger.disposed EXCEPT ![x] = @ + 1]
  <2>2. /\ ledger' = [ledger EXCEPT !.pending = ledger.pending - 1, !.processed = p,
                                    !.disposed = g]
        /\ waiting' = waiting \ {e}
    BY <1>5, <1>10 DEF LedgerDisposes
  <2>3. p \in Nat /\ ledger.processed <= p /\ e <= p
    <3> DEFINE N == ledger.processed + e
    <3>1. N \in Nat /\ {ledger.processed, e} \in SUBSET (0..N) /\ e \in Nat
      BY <1>2, <1>9
    <3> HIDE DEF N
    <3>2. p \in {ledger.processed, e} /\ \A y \in {ledger.processed, e} : y <= p
      BY <3>1, MaxIs
    <3> QED
      BY <1>9, <3>1, <3>2
  <2> HIDE DEF p, g
  <2>4. /\ ledger'.indexed = i /\ ledger'.accepted = ledger.accepted /\ ledger'.disposed = g
        /\ ledger'.pending = ledger.pending - 1 /\ ledger'.received = ledger.received
        /\ ledger'.processed = p
        /\ ledger' = [indexed |-> ledger'.indexed, accepted |-> ledger'.accepted,
                      disposed |-> ledger'.disposed, pending |-> ledger'.pending,
                      received |-> ledger'.received, processed |-> ledger'.processed,
                      legacy |-> FALSE]
    <3>1. ledger' = [indexed |-> ledger.indexed, accepted |-> ledger.accepted,
                     disposed |-> g, pending |-> ledger.pending - 1,
                     received |-> ledger.received, processed |-> p,
                     legacy |-> FALSE]
      <4>1. ledger.legacy = FALSE
        BY <1>9
      <4>2. ledger = [indexed |-> ledger.indexed, accepted |-> ledger.accepted,
                      disposed |-> ledger.disposed, pending |-> ledger.pending,
                      received |-> ledger.received, processed |-> ledger.processed,
                      legacy |-> ledger.legacy]
        BY <1>9, <4>1, Zenon
      <4>3. ledger' = [indexed |-> ledger.indexed, accepted |-> ledger.accepted,
                       disposed |-> g, pending |-> ledger.pending - 1,
                       received |-> ledger.received, processed |-> p,
                       legacy |-> ledger.legacy]
        BY <2>2, <4>2, ThreeFields, Zenon
      <4> QED
        BY <4>1, <4>3, Zenon
    <3> QED
      BY <3>1 DEF i
  <2>5. waiting' = {f \in AcceptedOf(wal, i) : f > e}
    BY <1>2, <1>9, <2>2 DEF AcceptedOf
  <2>6. ledger'.pending = Cardinality(waiting')
    <3>1. IsFiniteSet(waiting)
      BY <1>1, LedgerIs
    <3> QED
      BY <1>9, <1>10, <2>2, <2>4, <3>1, FS_RemoveElement
  <2>7. \A f \in AcceptedOf(wal, e) : f <= p
    BY <1>2, <2>3 DEF AcceptedOf
  <2>8. ASSUME NEW d \in Dispositions
        PROVE  g[d] = Cardinality(DisposedOf(wal, e, d)) /\ g[d] \in Nat
    <3>1. g[d] = ledger.disposed[d] + IF x = d THEN 1 ELSE 0
      <4>1. ledger.disposed[d] \in Nat
        BY <1>9
      <4> QED
        BY <1>4, <1>9, <4>1 DEF g
    <3>2. Cardinality(DisposedOf(wal, e, d)) =
            Cardinality(DisposedOf(wal, c, d)) + IF x = d THEN 1 ELSE 0
      BY <1>2, <2>1, OneMore DEF x
    <3>3. ledger.disposed[d] = Cardinality(DisposedOf(wal, c, d)) /\ ledger.disposed[d] \in Nat
      BY <1>9, <2>1
    <3> QED
      BY <3>1, <3>2, <3>3
  <2>9. g \in [Dispositions -> Nat]
    <3>1. g = [d \in Dispositions |-> g[d]]
      BY <1>9 DEF g
    <3> QED
      BY <2>8, <3>1
  <2>10. i \in 0..Len(wal)
    BY <1>2
  <2> QED
    BY <1>5, <1>7, <1>8, <1>9, <2>1, <2>3, <2>4, <2>5, <2>6, <2>7, <2>8, <2>9, <2>10 DEF LedgerInv
\* Others are rejected, or left to indexInputs.
<1>11. CASE e \notin waiting
  <2>1. ledger' = ledger /\ waiting' = waiting
    BY <1>5, <1>11 DEF LedgerDisposes
  <2>2. waiting = {f \in AcceptedOf(wal, i) : f > e}
    BY <1>2, <1>9, <1>11 DEF AcceptedOf
  <2>3. /\ AcceptedOf(wal, Both(i, e)) = AcceptedOf(wal, Both(i, c))
        /\ \A d : DisposedOf(wal, Both(i, e), d) = DisposedOf(wal, Both(i, c), d)
    <3>1. CASE i <= c
      <4>1. Both(i, e) = Both(i, c)
        BY <1>2, <3>1 DEF Both
      <4> QED
        BY <4>1
    <3>2. CASE ~(i <= c)
      <4>1. Both(i, e) = e /\ Both(i, c) = c /\ e \in 1..i /\ e > c
        BY <1>2, <3>2 DEF Both
      <4>2. wal[e] = "rejected"
        BY <1>9, <1>11, <4>1 DEF AcceptedOf
      <4> QED
        BY <1>2, <4>1, <4>2, OneMore
    <3> QED
      BY <3>1, <3>2
  <2>4. ledger'.indexed \in 0..Len(wal) /\ ledger'.indexed = i
    BY <1>2, <2>1 DEF i
  <2> QED
    BY <1>5, <1>7, <1>8, <1>9, <2>1, <2>2, <2>3, <2>4 DEF LedgerInv
<1> QED
  BY <1>10, <1>11

LEMMA LedgerStep ==
  ASSUME PublishInv, [Next]_vars
  PROVE  LedgerInv'
<1>1. CASE IndexInputs
  BY <1>1, IndexStep
<1>2. CASE Commit
  BY <1>2, CommitStep
<1>3. CASE UNCHANGED <<checkpoint, counts, ledger, waiting>>
  BY <1>3, LedgerKept
<1> QED
  BY <1>1, <1>2, <1>3, Moves DEF Accept, Prepare, CompleteOutput, Reserve, MarkPublished,
     Initialize, delivery, publication

-----------------------------------------------------------------------------
(* The invariant holds. *)

LEMMA Starts ==
  ASSUME Init
  PROVE  PublishInv
<1>1. /\ wal = <<>> /\ Len(wal) = 0 /\ 1..Len(wal) = {} /\ wal \in Seq(Classes)
      /\ checkpoint = 0 /\ progress = None /\ outbox = {} /\ done = {} /\ waiting = {}
      /\ last = [ordinal |-> 0, sequence |-> 0]
      /\ worker = [pc |-> "down", upto |-> 0, sent |-> 0, catching |-> FALSE, row |-> None]
      /\ reader = [pc |-> "meta", frozen |-> None, after |-> None, collected |-> <<>>]
      /\ store = [rows |-> {}, revisions |-> {}, publications |-> {},
                  snapshot |-> None, progress |-> None]
      /\ plan = [e \in Entries |-> None] /\ disposition = [e \in Entries |-> None]
      /\ reserved = [e \in Entries |-> None] /\ counts = [d \in Dispositions |-> 0]
  BY DEF Init, Down, Waiting
<1>2. Published = 0 /\ ThroughAt(reserved, 0) = 0
  BY <1>1 DEF Published, ThroughAt
<1>3. DeliveryInv
  <2>1. \A e \in Entries : ~(e <= 0)
    BY Numbers DEF Entries
  <2> QED
    BY <1>1, <2>1, Numbers DEF DeliveryInv
<1>4. ReservationInv
  <2>1. \A e \in Entries : ~(e <= 0)
    BY Numbers DEF Entries
  <2> QED
    BY <1>1, <1>2, <2>1 DEF ReservationInv
<1>5. PublicationInv
  BY <1>1, <1>2 DEF PublicationInv
<1>6. WorkerInv
  BY <1>1, <1>2 DEF WorkerInv
<1>7. SnapshotInv
  BY <1>1 DEF SnapshotInv
<1>8. ReaderInv
  BY <1>1 DEF ReaderInv
<1>9. LedgerInv
  <2>1. /\ ledger.indexed = 0 /\ ledger.accepted = 0 /\ ledger.disposed = [d \in Dispositions |-> 0]
        /\ ledger.pending = 0 /\ ledger.received = 0 /\ ledger.processed = 0
        /\ ledger = [indexed |-> ledger.indexed, accepted |-> ledger.accepted,
                     disposed |-> ledger.disposed, pending |-> ledger.pending,
                     received |-> ledger.received, processed |-> ledger.processed,
                     legacy |-> FALSE]
    BY DEF Init
  <2>2. AcceptedOf(wal, 0) = {} /\ \A d : DisposedOf(wal, 0, d) = {}
    BY DEF AcceptedOf, DisposedOf
  <2>3. Both(0, 0) = 0 /\ Cardinality({}) = 0
    BY FS_EmptySet DEF Both
  <2>4. /\ ledger.indexed \in 0..Len(wal)
        /\ ledger.accepted = Cardinality(AcceptedOf(wal, ledger.indexed))
        /\ waiting = {e \in AcceptedOf(wal, ledger.indexed) : e > checkpoint}
        /\ ledger.pending = Cardinality(waiting)
        /\ \A e \in AcceptedOf(wal, Both(ledger.indexed, checkpoint)) : e <= ledger.processed
    <3>1. /\ ledger.indexed = 0 /\ checkpoint = 0 /\ ledger.accepted = 0 /\ ledger.pending = 0
          /\ waiting = {} /\ 0 \in 0..Len(wal)
      BY <1>1, <2>1
    <3> QED
      BY <2>2, <2>3, <3>1
  <2>5. /\ ledger.disposed \in [Dispositions -> Nat] /\ counts \in [Dispositions -> Nat]
        /\ \A d \in Dispositions :
             /\ ledger.disposed[d] = Cardinality(DisposedOf(wal, Both(ledger.indexed, checkpoint), d))
             /\ counts[d] = Cardinality(DisposedOf(wal, checkpoint, d))
    <3>1. /\ ledger.indexed = 0 /\ checkpoint = 0
          /\ ledger.disposed \in [Dispositions -> Nat] /\ counts \in [Dispositions -> Nat]
          /\ \A d \in Dispositions : ledger.disposed[d] = 0 /\ counts[d] = 0
      BY <1>1, <2>1
    <3> QED
      BY <2>2, <2>3, <3>1
  <2>6. ledger.received \in Nat /\ ledger.processed \in Nat
    BY <2>1
  <2> QED
    BY <2>1, <2>4, <2>5, <2>6 DEF LedgerInv
<1> QED
  BY <1>3, <1>4, <1>5, <1>6, <1>7, <1>8, <1>9 DEF PublishInv

LEMMA PublishStep ==
  ASSUME PublishInv, [Next]_vars
  PROVE  PublishInv'
BY DeliveryStep, ReservationStep, PublicationStep, WorkerStep, SnapshotStep, ReaderStep, LedgerStep
   DEF PublishInv

LEMMA Invariance == Spec => []PublishInv
<1>1. Init => PublishInv
  BY Starts
<1>2. PublishInv /\ [Next]_vars => PublishInv'
  BY PublishStep
<1> QED
  BY <1>1, <1>2, PTL DEF Spec

-----------------------------------------------------------------------------
(* What it implies. *)

LEMMA BookkeepingFollows ==
  ASSUME PublishInv
  PROVE  BookkeepingHolds
<1>1. /\ DeliveryInv /\ ReservationInv /\ PublicationInv /\ WorkerInv /\ LedgerInv
  BY DEF PublishInv
<1>2. /\ Len(wal) \in Nat /\ checkpoint \in Nat /\ checkpoint <= Len(wal)
      /\ Published \in Nat /\ Published <= checkpoint
      /\ 1..Len(wal) \subseteq Entries /\ DOMAIN wal = 1..Len(wal)
      /\ last.ordinal \in Nat /\ checkpoint <= last.ordinal
  BY <1>1, LogIs, PublishedIs, NumbersAre DEF DeliveryInv
<1>3. done = 1..Published /\ outbox = (Published + 1)..checkpoint
  BY <1>1 DEF PublicationInv
<1>4. \A e \in Entries : e <= checkpoint <=> disposition[e] # None
  <2>1. \A e \in Entries : DispositionIn(wal, e) # None
    BY Numbers DEF DispositionIn, Dispositions
  <2> QED
    BY <1>1, <2>1 DEF DeliveryInv
<1>5. \A e \in 1..checkpoint : e \in outbox \cup done
  BY <1>2, <1>3
<1>6. \A e \in outbox \cup done : e \in 1..checkpoint /\ e \in Entries
  BY <1>2, <1>3
<1>7. TypeOK
  <2>1. \A e \in outbox \cup done : reserved[e] # None /\ disposition[e] # None
    BY <1>1, <1>2, <1>4, <1>6 DEF ReservationInv
  <2>2. outbox \cap done = {}
    BY <1>2, <1>3
  <2>3. ledger.pending \in Nat /\ waiting \subseteq 1..ledger.indexed
    BY <1>1, LedgerIs DEF LedgerInv, AcceptedOf
  <2>4. {p.key : p \in store.publications} \subseteq Keys
    <3>1. ASSUME NEW p \in store.publications PROVE p.key \in Keys
      <4>1. PICK e \in 1..checkpoint : \E k \in 1..Outputs[wal[e]] : p = Pub(reserved, e, k)
        BY <1>1 DEF PublicationInv
      <4>2. PICK k \in 1..Outputs[wal[e]] : p = Pub(reserved, e, k)
        BY <4>1
      <4>3. p.key = <<e, k>> /\ e \in 1..last.ordinal
        BY <1>2, <4>2 DEF Pub
      <4> QED
        BY <1>1, <4>2, <4>3, SpanIs
    <3> QED
      BY <3>1
  <2>5. outbox \subseteq Entries /\ done \subseteq Entries
    BY <1>6
  <2> QED
    BY <1>1, <2>1, <2>2, <2>3, <2>4, <2>5
       DEF TypeOK, DeliveryInv, ReservationInv, PublicationInv, WorkerInv, LedgerInv
<1>8. CheckpointIsCovered
  <2>1. ASSUME NEW e \in Received, disposition[e] = "projected" PROVE KeysOf(e) \subseteq store.rows
    <3>1. e \in 1..Len(wal) /\ e \in Entries /\ e \in 1..checkpoint
      <4>1. e \in 1..Len(wal) /\ e \in Entries
        BY <1>2 DEF Received
      <4>2. "projected" # None
        BY Numbers DEF Dispositions
      <4> QED
        BY <1>2, <1>4, <2>1, <4>1, <4>2
    <3>2. ~IsDefective(e)
      BY <1>1, <2>1, <3>1 DEF DeliveryInv, DispositionIn, IsDefective
    <3>3. plan[e] = Outputs[wal[e]] /\ Outputs[wal[e]] \in Nat
      BY <1>1, <3>1, <3>2, LogIs DEF DeliveryInv, Complete
    <3>4. \A k \in 1..Outputs[wal[e]] : <<e, k>> \in store.rows
      BY <1>1, <3>1, <3>3, Numbers DEF DeliveryInv
    <3> QED
      BY <3>4 DEF KeysOf
  <2>2. ASSUME NEW e \in Received, e <= checkpoint PROVE e \in outbox \cup done
    BY <1>2, <1>5, <2>2 DEF Received
  <2>3. \A e \in Received : e <= checkpoint <=> disposition[e] # None
    BY <1>2, <1>4 DEF Received
  <2> QED
    BY <2>1, <2>2, <2>3 DEF CheckpointIsCovered
<1> QED
  BY <1>7, <1>8 DEF BookkeepingHolds

LEMMA ReadableFollows ==
  ASSUME PublishInv
  PROVE  SnapshotIsReadable
<1>1. DeliveryInv /\ ReservationInv /\ PublicationInv /\ SnapshotInv
  BY DEF PublishInv
<1> SUFFICES ASSUME store.snapshot # None
             PROVE  /\ CountsMatch(store.snapshot)
                    /\ {p.key : p \in VisibleWithin(store.snapshot)} = KeysThrough(store.snapshot.ingest)
  BY DEF SnapshotIsReadable
<1>2. PICK n \in 0..Published : store.snapshot = BoundaryAt(reserved, n)
  BY <1>1 DEF SnapshotInv, IsBoundary
<1>3. n \in 0..checkpoint /\ store.snapshot.ingest = n
  BY <1>1, <1>2, PublishedIs, LogIs DEF BoundaryAt
<1> QED
  BY <1>1, <1>2, <1>3, BoundaryShows, ShownIs

LEMMA PagesFollow ==
  ASSUME PublishInv
  PROVE  PagesAreOneSnapshot
<1>1. DeliveryInv /\ ReservationInv /\ PublicationInv /\ ReaderInv
  BY DEF PublishInv
<1> DEFINE c == reader.collected
<1> SUFFICES ASSUME reader.pc = "finished"
             PROVE  /\ {c[i] : i \in DOMAIN c} = KeysThrough(reader.frozen.ingest)
                    /\ \A i, j \in DOMAIN c : i < j => Before(c[i], c[j])
  BY DEF PagesAreOneSnapshot
<1>2. /\ reader.frozen # None /\ Newest(c, Shown(wal, reader.frozen.ingest))
      /\ {c[i] : i \in 1..Len(c)} = Shown(wal, reader.frozen.ingest)
  BY <1>1 DEF ReaderInv
<1>3. DOMAIN c = 1..Len(c)
  BY <1>2 DEF Newest
<1>4. reader.frozen.ingest \in 0..checkpoint
  BY <1>1, <1>2, RestIs, PublishedIs, LogIs
<1>5. KeysThrough(reader.frozen.ingest) = Shown(wal, reader.frozen.ingest)
  BY <1>1, <1>4, ShownIs
<1> QED
  BY <1>2, <1>3, <1>5 DEF Newest

LEMMA LedgerFollows ==
  ASSUME PublishInv
  PROVE  LedgerIsExact
<1> DEFINE known == AcceptedIn(1..ledger.indexed)
           both == Both(ledger.indexed, checkpoint)
<1>1. DeliveryInv /\ LedgerInv
  BY DEF PublishInv
<1>2. /\ ledger.indexed \in Nat /\ checkpoint \in Nat /\ Len(wal) \in Nat
      /\ ledger.indexed <= Len(wal) /\ checkpoint <= Len(wal)
      /\ DOMAIN wal = 1..Len(wal) /\ 1..Len(wal) \subseteq Entries
  BY <1>1, LedgerIs, LogIs DEF DeliveryInv
<1>3. known = AcceptedOf(wal, ledger.indexed)
  BY DEF AcceptedIn, IsAccepted, AcceptedOf
<1>4. \A e \in 1..Len(wal) : disposition[e] = IF e <= checkpoint THEN DispositionIn(wal, e) ELSE None
  BY <1>1, <1>2 DEF DeliveryInv
<1>5. \A e : DispositionIn(wal, e) \in Dispositions /\ DispositionIn(wal, e) # None
  BY Numbers DEF DispositionIn, Dispositions
<1>6. waiting = {e \in known : disposition[e] = None}
  BY <1>1, <1>2, <1>3, <1>4, <1>5 DEF LedgerInv, AcceptedOf
<1>7. ASSUME NEW d \in Dispositions
      PROVE  /\ Disposed(known, d) = DisposedOf(wal, both, d)
             /\ Disposed(AcceptedIn(Received), d) = DisposedOf(wal, checkpoint, d)
  <2>1. d # None
    BY Numbers
  <2>2. Disposed(known, d) = DisposedOf(wal, both, d)
    BY <1>2, <1>3, <1>4, <2>1 DEF Disposed, DisposedOf, AcceptedOf, Both
  <2>3. AcceptedIn(Received) = AcceptedOf(wal, Len(wal))
    BY <1>2 DEF AcceptedIn, IsAccepted, AcceptedOf, Received
  <2>4. Disposed(AcceptedIn(Received), d) = DisposedOf(wal, checkpoint, d)
    BY <1>2, <1>4, <2>1, <2>3 DEF Disposed, DisposedOf, AcceptedOf
  <2> QED
    BY <2>2, <2>4
<1>8. ~ledger.legacy
  <2>1. ledger.legacy = FALSE
    BY <1>1 DEF LedgerInv
  <2> QED
    BY <2>1, Zenon
<1> QED
  BY <1>1, <1>3, <1>6, <1>7, <1>8 DEF LedgerIsExact, LedgerInv

\* A snapshot that is replaced gives way to a later one.
LEMMA ThroughGrows ==
  ASSUME DeliveryInv, ReservationInv, NEW n \in 0..last.ordinal, NEW m \in 0..last.ordinal, n <= m
  PROVE  ThroughAt(reserved, n) <= ThroughAt(reserved, m)
<1>1. /\ ThroughAt(reserved, n) \in Nat /\ ThroughAt(reserved, m) \in Nat
      /\ last.ordinal \in Nat
  BY NumbersAre
<1>2. CASE n = 0
  BY <1>1, <1>2 DEF ThroughAt
<1>3. CASE n = m
  BY <1>1, <1>3
<1>4. CASE n # 0 /\ n < m
  <2>1. n \in 1..last.ordinal /\ m \in 1..last.ordinal /\ m # 0
    BY <1>1, <1>4
  <2>2. reserved[n].through < reserved[m].from
    BY <1>4, <2>1 DEF ReservationInv
  <2>3. /\ reserved[m].from \in Nat /\ reserved[m].through \in Nat /\ reserved[n].through \in Nat
        /\ Outputs[wal[m]] \in 0..2
        /\ reserved[m].through = reserved[m].from + Outputs[wal[m]] - 1
    BY <2>1, SpanIs
  <2>4. reserved[n].through <= reserved[m].through
    BY <2>2, <2>3
  <2> QED
    BY <1>4, <2>1, <2>4 DEF ThroughAt
<1> QED
  BY <1>1, <1>2, <1>3, <1>4

LEMMA SnapshotGrows ==
  ASSUME PublishInv, [Next]_vars, store.snapshot # None, NEW f \in {"ingest", "through", "count"}
  PROVE  store'.snapshot[f] >= store.snapshot[f]
<1>1. DeliveryInv /\ ReservationInv /\ PublicationInv /\ SnapshotInv
  BY DEF PublishInv
<1>2. PICK n \in 0..Published : store.snapshot = BoundaryAt(reserved, n)
  BY <1>1 DEF SnapshotInv, IsBoundary
<1>3. /\ n \in 0..last.ordinal /\ Published \in 0..last.ordinal /\ n <= Published
      /\ n \in Nat /\ Published \in Nat
      /\ ThroughAt(reserved, n) \in Nat /\ ThroughAt(reserved, Published) \in Nat
  BY <1>1, PublishedIs, NumbersAre
<1>4. ThroughAt(reserved, n) <= ThroughAt(reserved, Published)
  BY <1>1, <1>3, ThroughGrows
<1>5. store.snapshot[f] = IF f = "ingest" THEN n ELSE ThroughAt(reserved, n)
  BY <1>2 DEF BoundaryAt
<1>6. CASE store'.snapshot = store.snapshot
  BY <1>3, <1>5, <1>6
<1>7. CASE store'.snapshot = BoundaryAt(reserved, Published)
  <2>1. store'.snapshot[f] = IF f = "ingest" THEN Published ELSE ThroughAt(reserved, Published)
    BY <1>7 DEF BoundaryAt
  <2> QED
    BY <1>3, <1>4, <1>5, <2>1
<1> QED
  BY <1>6, <1>7, NewSnapshot

\* A row that says "caught up".
IsCaughtUp(row) == Completeness(row) \in {"caught_up", "caught_up_with_quarantine"}

LEMMA CaughtUpIs ==
  ASSUME NEW row, IsCaughtUp(row)
  PROVE  /\ row.coverage = "exact" /\ ~(row.visible > row.processed) /\ ~(row.pending > 0)
         /\ ~(row.visible < row.processed) /\ ~(row.processed < row.received)
         /\ ~(row.processed > row.received)
         /\ Completeness(row) = "caught_up" => ~(row.disposed["quarantined"] > 0)
BY DEF IsCaughtUp, Completeness

\* What is known is published up to its end.
LEMMA PublishedThrough ==
  ASSUME PublishInv, NEW known \in SUBSET (1..Published)
  PROVE  /\ known \subseteq done
         /\ KeysThrough(MaxEntries) \cap (known \X (1..2)) \subseteq store.revisions
<1>1. DeliveryInv /\ ReservationInv /\ PublicationInv
  BY DEF PublishInv
<1>2. done = 1..Published
  BY <1>1 DEF PublicationInv
<1>3. ASSUME NEW key \in KeysThrough(MaxEntries), key \in known \X (1..2)
      PROVE  key \in store.revisions
  <2>1. PICK e \in Received : key \in KeysOf(e)
    BY DEF KeysThrough
  <2>2. PICK k \in 1..Outputs[wal[e]] : key = <<e, k>>
    BY <2>1 DEF KeysOf
  <2>3. e \in 1..Published
    BY <1>3, <2>2
  <2> QED
    BY <1>1, <2>2, <2>3 DEF PublicationInv
<1> QED
  BY <1>2, <1>3

\* An empty count.
LEMMA NoneCounted ==
  ASSUME NEW S, IsFiniteSet(S), ~(Cardinality(S) > 0)
  PROVE  S = {}
<1>1. Cardinality(S) \in Nat
  BY FS_CardinalityType
<1>2. Cardinality(S) = 0
  BY <1>1
<1> QED
  BY <1>2, FS_EmptySet

LEMMA CaughtUpFollows ==
  ASSUME PublishInv, [Next]_vars, store'.progress # store.progress, IsCaughtUp(store'.progress),
         NEW known, known = AcceptedIn(IF worker.pc = "scope" THEN Received
                                       ELSE 1..store'.progress.received)
  PROVE  /\ known \subseteq done
         /\ KeysThrough(MaxEntries) \cap (known \X (1..2)) \subseteq store.revisions
         /\ Completeness(store'.progress) = "caught_up" => Disposed(known, "quarantined") = {}
<1> DEFINE row == store'.progress
<1>1. /\ DeliveryInv /\ ReservationInv /\ PublicationInv /\ WorkerInv /\ LedgerInv
      /\ store = [rows |-> store.rows, revisions |-> store.revisions,
                  publications |-> store.publications, snapshot |-> store.snapshot,
                  progress |-> store.progress]
  BY DEF PublishInv, SnapshotInv
<1>2. /\ Published \in Nat /\ checkpoint \in Nat /\ Published <= checkpoint
      /\ Len(wal) \in Nat /\ checkpoint <= Len(wal) /\ DOMAIN wal = 1..Len(wal)
      /\ 1..Len(wal) \subseteq Entries
  BY <1>1, PublishedIs, LogIs DEF DeliveryInv
<1>3. /\ row.coverage = "exact" /\ ~(row.visible > row.processed) /\ ~(row.pending > 0)
      /\ ~(row.visible < row.processed) /\ ~(row.processed < row.received)
      /\ ~(row.processed > row.received)
      /\ Completeness(row) = "caught_up" => ~(row.disposed["quarantined"] > 0)
  BY CaughtUpIs
<1>4. \/ worker.pc = "total" /\ row = worker.row
      \/ worker.pc = "scope" /\ row = ScopeRow
  <2>1. StoreMoves
    BY StoreIs
  <2> QED
    BY <1>1, <2>1 DEF StoreMoves, WithSent
<1> HIDE DEF row
\* An accepted entry is quarantined only if it is counted.
<1>5. ASSUME Cardinality(DisposedOf(wal, checkpoint, "quarantined")) = row.disposed["quarantined"],
             Completeness(row) = "caught_up", known \subseteq AcceptedOf(wal, checkpoint)
      PROVE  Disposed(known, "quarantined") = {}
  <2>1. DisposedOf(wal, checkpoint, "quarantined") = {}
    <3>1. IsFiniteSet(DisposedOf(wal, checkpoint, "quarantined"))
      BY <1>2, CountsAreFinite
    <3> QED
      BY <1>3, <1>5, <3>1, NoneCounted
  <2>2. \A e \in known : disposition[e] = DispositionIn(wal, e)
    BY <1>1, <1>2, <1>5 DEF AcceptedOf, DeliveryInv
  <2> QED
    BY <1>5, <2>1, <2>2 DEF Disposed, DisposedOf
<1>6. CASE worker.pc = "total" /\ row = worker.row
  <2>1. /\ row.received \in 0..Len(wal) /\ row.processed = checkpoint /\ row.visible = Published
        /\ row.disposed = counts
    BY <1>1, <1>6 DEF WorkerInv, TotalRow
  <2>2. row.received = checkpoint /\ Published = checkpoint
    BY <1>2, <1>3, <2>1
  <2>3. known = AcceptedOf(wal, checkpoint)
    BY <1>6, <2>2 DEF AcceptedIn, IsAccepted, AcceptedOf, row
  <2>4. known \in SUBSET (1..Published)
    BY <2>2, <2>3 DEF AcceptedOf
  <2>5. Cardinality(DisposedOf(wal, checkpoint, "quarantined")) = row.disposed["quarantined"]
    BY <1>1, <2>1 DEF LedgerInv, Dispositions
  <2> QED
    BY <1>5, <2>3, <2>4, <2>5, PublishedThrough DEF row
<1>7. CASE worker.pc = "scope" /\ row = ScopeRow
  <2>1. /\ row.processed = ledger.processed /\ row.pending = ledger.pending
        /\ row.visible = Min({ledger.processed, progress.ingest})
        /\ row.disposed = ledger.disposed
        /\ row.coverage = IF ledger.legacy THEN "legacy" ELSE Coverage
    BY <1>7 DEF ScopeRow
  <2>2. progress # None /\ progress.ingest = Published
    BY <1>1, <1>7, PublishedIs DEF WorkerInv
  <2>3. ledger.indexed = Len(wal) /\ Both(ledger.indexed, checkpoint) = checkpoint
    <3>1. Coverage = "exact"
      <4>1. ledger.legacy = FALSE
        BY <1>1 DEF LedgerInv
      <4> QED
        BY <1>3, <2>1, <4>1
    <3>2. ledger.indexed >= Len(wal)
      BY <3>1 DEF Coverage
    <3> QED
      BY <1>1, <1>2, <3>2, LedgerIs DEF Both
  <2>4. waiting = {}
    <3>1. IsFiniteSet(waiting) /\ ledger.pending = Cardinality(waiting)
      BY <1>1, LedgerIs DEF LedgerInv
    <3> QED
      BY <1>3, <2>1, <3>1, NoneCounted
  <2>5. known = AcceptedOf(wal, checkpoint)
    <3>1. known = AcceptedOf(wal, Len(wal))
      BY <1>2, <1>7 DEF AcceptedIn, IsAccepted, AcceptedOf, Received
    <3>2. \A e \in AcceptedOf(wal, Len(wal)) : ~(e > checkpoint)
      BY <1>1, <2>3, <2>4 DEF LedgerInv
    <3> QED
      BY <1>2, <3>1, <3>2 DEF AcceptedOf
  <2>6. known \in SUBSET (1..Published)
    <3>1. ledger.processed \in Nat /\ \A e \in known : e <= ledger.processed
      BY <1>1, <2>3, <2>5 DEF LedgerInv
    <3>2. ledger.processed <= Published
      <4>1. row.visible <= Published /\ row.visible \in Int
        <5>1. ledger.processed \in Int /\ Published \in Int
          BY <1>2, <3>1
        <5>2. /\ Min({ledger.processed, Published}) <= Published
              /\ Min({ledger.processed, Published}) \in Int
          BY <5>1, MinIs
        <5> QED
          BY <2>1, <2>2, <5>2
      <4> QED
        BY <1>2, <1>3, <2>1, <3>1, <4>1
    <3> QED
      BY <1>2, <2>5, <3>1, <3>2 DEF AcceptedOf
  <2>7. Cardinality(DisposedOf(wal, checkpoint, "quarantined")) = row.disposed["quarantined"]
    BY <1>1, <2>1, <2>3 DEF LedgerInv, Dispositions
  <2> QED
    BY <1>5, <2>5, <2>6, <2>7, PublishedThrough DEF row
<1> QED
  BY <1>4, <1>6, <1>7

-----------------------------------------------------------------------------
(* The theorems. *)

\* The target's bookkeeping is sound at every step, whatever crashes between an
\* insert, its plan, its reservation and its commit: exactly the entries up to
\* the checkpoint are disposed of, those are published or queued for it, and
\* all rows of those that were projected are in the tables.
THEOREM Bookkeeping == Spec => []BookkeepingHolds
<1>1. PublishInv => BookkeepingHolds
  BY BookkeepingFollows
<1> QED
  BY <1>1, Invariance, PTL

\* A snapshot row that a reader can find counts exactly the revisions and
\* publications that are there, and they are all outputs up to its boundary.
THEOREM Readable == Spec => []SnapshotIsReadable
<1>1. PublishInv => SnapshotIsReadable
  BY ReadableFollows
<1> QED
  BY <1>1, Invariance, PTL

\* The pages a client collects with one cursor are one snapshot: all outputs up
\* to the boundary of the first page, newest first and each once, for every
\* page size and whatever is published between the requests.
THEOREM Pages == Spec => []PagesAreOneSnapshot
<1>1. PublishInv => PagesAreOneSnapshot
  BY PagesFollow
<1> QED
  BY <1>1, Invariance, PTL

\* The ledger and the counters of the target agree with the dispositions, in
\* whatever order inputs are indexed and disposed of.
THEOREM Ledger == Spec => []LedgerIsExact
<1>1. PublishInv => LedgerIsExact
  BY LedgerFollows
<1> QED
  BY <1>1, Invariance, PTL

\* A progress row from which the query API answers "caught up" is inserted only
\* when what it speaks of is published and can be read, and nothing of it was
\* quarantined unless the answer says so.
THEOREM CaughtUp == Spec => CaughtUpIsTrue
<1> DEFINE Known == AcceptedIn(IF worker.pc = "scope" THEN Received
                               ELSE 1..store'.progress.received)
           Right == store'.progress # store.progress =>
             (IsCaughtUp(store'.progress) =>
                /\ Known \subseteq done
                /\ KeysThrough(MaxEntries) \cap (Known \X (1..2)) \subseteq store.revisions
                /\ Completeness(store'.progress) = "caught_up" => Disposed(Known, "quarantined") = {})
<1>1. PublishInv /\ [Next]_vars => Right
  BY CaughtUpFollows
<1>2. Spec => [][Right]_vars
  BY <1>1, Invariance, PTL DEF Spec
<1>3. Spec => [][store'.progress # store.progress =>
       LET row   == store'.progress
           known == AcceptedIn(IF worker.pc = "scope" THEN Received ELSE 1..row.received)
       IN  Completeness(row) \in {"caught_up", "caught_up_with_quarantine"} =>
             /\ known \subseteq done
             /\ KeysThrough(MaxEntries) \cap (known \X (1..2)) \subseteq store.revisions
             /\ Completeness(row) = "caught_up" => Disposed(known, "quarantined") = {}]_vars
  BY <1>2 DEF IsCaughtUp
<1> QED
  BY <1>3 DEF CaughtUpIsTrue

\* What a snapshot offers never goes back.
THEOREM Advances == Spec => SnapshotAdvances
<1> DEFINE Grown == store.snapshot # None =>
             \A f \in {"ingest", "through", "count"} : store'.snapshot[f] >= store.snapshot[f]
<1>1. PublishInv /\ [Next]_vars => Grown
  BY SnapshotGrows
<1>2. Spec => [][Grown]_vars
  BY <1>1, Invariance, PTL DEF Spec
<1> QED
  BY <1>2 DEF SnapshotAdvances
=============================================================================
