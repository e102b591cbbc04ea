------------------------- MODULE WalRetention_proofs -------------------------
(***************************************************************************)
(* Proofs about WalRetention for every set of targets and pins, every      *)
(* segment size and every number of frames.                                *)
(***************************************************************************)
EXTENDS WalRetention, FiniteSetTheorems, TLAPS

-----------------------------------------------------------------------------
(* The inductive invariant, first the part that needs no assumption. *)

Row == [bytes : Nat, first : Nat, last : Nat, closed : BOOLEAN, archived : BOOLEAN,
        gc : {"hot", "planned", "complete"}]

\* While the process is not open nothing runs in it; what each job has in hand.
ModeInv ==
  /\ mode # "open" =>
       /\ writer = "idle" /\ ~poisoned /\ job = "idle" /\ commit = None /\ pinning = None
  /\ job \notin {"copy", "record", "plan"} => todo = {}
  /\ job \in {"copy", "record"} => todo # {}
  /\ writer # "idle" => ~poisoned
  /\ mode = "open" /\ job # "delete" => Planned = {}

\* The checkpoints in memory are the committed ones, but for the one that a
\* commit has not remembered yet: that one is behind.
KnownInv ==
  mode = "open" =>
    \A t \in Targets :
      IF commit # None /\ commit.target = t
      THEN known[t] < checkpoint[t] /\ commit.sequence = checkpoint[t]
      ELSE known[t] = checkpoint[t]

\* A segment that is not given up has its file, one that is was archived.
FileInv ==
  /\ DOMAIN file \subseteq 1..(Len(row) + 1)
  /\ \A s \in Segments :
       /\ row[s].gc = "hot" => s \in DOMAIN file
       /\ row[s].gc # "hot" => row[s].closed /\ row[s].archived
       /\ row[s].archived => row[s].closed

\* The segment written to is the last one that is not deleted, and it is open
\* except between the two steps of a rotation.
CurrentInv ==
  mode = "open" =>
    /\ current \in Segments
    /\ \A s \in Segments : s > current => row[s].gc = "complete"
    /\ ~poisoned => (row[current].closed <=> writer = "create")

\* What a job has in hand is still as it was when the job took it, and a plan
\* that nobody's revision has overtaken is still safe.
JobInv ==
  /\ job \in {"copy", "record"} =>
       \A s \in todo : s \in Segments /\ row[s].gc = "hot" /\ row[s].closed /\ ~row[s].archived
  /\ job = "plan" =>
       /\ \A s \in todo : s \in Segments /\ row[s].gc = "hot" /\ row[s].closed /\ row[s].archived
       /\ "gc" \in fresh => \A s \in todo : SafeToDelete(s)

\* totalBytes is what the rows say.
TotalInv == mode = "open" => total = Bytes(row)

IInv == TypeOK /\ ModeInv /\ KnownInv /\ FileInv /\ CurrentInv /\ JobInv /\ TotalInv

-----------------------------------------------------------------------------
(* Least elements, and induction with a set in the place of a predicate. *)

\* A nonempty family of subsets of a finite set has a smallest member.
LEMMA SmallestSubset ==
  ASSUME NEW S, IsFiniteSet(S), NEW F \in SUBSET (SUBSET S), F # {}
  PROVE  \E m \in F : \A n \in F : n \subseteq m => n = m
<1>1. IsWellFoundedOn(StrictSubsetOrdering(S), SUBSET S)
  BY FS_StrictSubsetOrderingWellFounded, FS_FiniteSubsetsOfFinite
<1>2. PICK m \in F : \A n \in F : <<n, m>> \notin StrictSubsetOrdering(S)
  BY <1>1, WFMin
<1> QED
  BY <1>2 DEF StrictSubsetOrdering

\* A nonempty set of numbers has a least element.
LEMMA Smallest ==
  ASSUME NEW T \in SUBSET Nat, T # {}
  PROVE  \E x \in T : \A y \in T : x <= y
<1>1. PICK n \in T : TRUE
  OBVIOUS
<1> DEFINE S == 0..n
           F == {0..k : k \in T \cap S}
<1>2. IsFiniteSet(S)
  BY <1>1, FS_Interval
<1>3. 0..n \in F
  BY <1>1
<1>4. F \in SUBSET (SUBSET S)
  BY <1>1
<1>5. PICK m \in F : \A k \in F : k \subseteq m => k = m
  <2> HIDE DEF F, S
  <2> QED BY <1>2, <1>3, <1>4, SmallestSubset
<1>6. PICK x \in T \cap S : m = 0..x
  BY <1>5
<1>7. ASSUME NEW y \in T, y < x PROVE FALSE
  <2>1. 0..y \in F
    BY <1>1, <1>6, <1>7
  <2>2. 0..y \subseteq m
    BY <1>6, <1>7
  <2>3. 0..y = m
    BY <1>5, <2>1, <2>2
  <2>4. x \in 0..x /\ x \notin 0..y
    BY <1>6, <1>7
  <2> QED
    BY <2>3, <2>4, <1>6
<1> QED
  BY <1>6, <1>7

\* What holds of 0 and of the successor of what it holds of, holds up to N.
LEMMA Induction ==
  ASSUME NEW Good, 0 \in Good, NEW N \in Nat,
         \A n \in 1..N : n - 1 \in Good => n \in Good
  PROVE  \A n \in 0..N : n \in Good
<1> DEFINE Bad == {n \in 0..N : n \notin Good}
<1>1. ASSUME Bad # {} PROVE FALSE
  <2>1. Bad \in SUBSET Nat
    OBVIOUS
  <2>2. PICK n \in Bad : \A m \in Bad : n <= m
    BY <1>1, <2>1, Smallest
  <2>3. n # 0
    BY <2>2
  <2>4. n \in 1..N /\ n - 1 \in 0..N /\ ~(n <= n - 1)
    BY <2>2, <2>3
  <2> QED
    BY <2>2, <2>4
<1> QED
  BY <1>1

-----------------------------------------------------------------------------
(* The sum of a sequence: what the model's SumOf computes. *)

\* Its recursive definition has a solution.
LEMMA SumDefined ==
  ASSUME NEW e, NEW N \in Nat
  PROVE  \E g : g = [n \in 0..N |-> IF n = 0 THEN 0 ELSE g[n - 1] + e[n]]
<1> DEFINE Good == {m \in Nat : \E g : g = [n \in 0..m |-> IF n = 0 THEN 0 ELSE g[n - 1] + e[n]]}
<1>1. 0 \in Good
  <2> DEFINE g == [n \in 0..0 |-> 0]
  <2>1. g = [n \in 0..0 |-> IF n = 0 THEN 0 ELSE g[n - 1] + e[n]]
    OBVIOUS
  <2> QED
    BY <2>1
<1>2. ASSUME NEW m \in 1..N, m - 1 \in Good PROVE m \in Good
  <2>1. PICK g : g = [n \in 0..(m - 1) |-> IF n = 0 THEN 0 ELSE g[n - 1] + e[n]]
    BY <1>2
  <2> DEFINE h == [n \in 0..m |-> IF n = m THEN g[m - 1] + e[m] ELSE g[n]]
  <2>2. ASSUME NEW n \in 0..m PROVE h[n] = IF n = 0 THEN 0 ELSE h[n - 1] + e[n]
    <3>1. CASE n = m
      BY <3>1
    <3>2. CASE n # m
      <4>1. n \in 0..(m - 1)
        BY <3>2
      <4>2. g[n] = IF n = 0 THEN 0 ELSE g[n - 1] + e[n]
        BY <2>1, <4>1
      <4>3. h[n] = g[n] /\ (n # 0 => h[n - 1] = g[n - 1])
        BY <4>1
      <4> QED
        BY <4>2, <4>3
    <3> QED
      BY <3>1, <3>2
  <2>3. h = [n \in 0..m |-> IF n = 0 THEN 0 ELSE h[n - 1] + e[n]]
    BY <2>2
  <2> HIDE DEF h
  <2>4. \E i : i = [n \in 0..m |-> IF n = 0 THEN 0 ELSE i[n - 1] + e[n]]
    BY <2>3
  <2>5. m \in Nat
    OBVIOUS
  <2> QED
    BY <2>4, <2>5
<1> HIDE DEF Good
<1>3. N \in Good
  BY <1>1, <1>2, Induction
<1> QED
  BY <1>3 DEF Good

\* The sum is the last of the partial sums, which are numbers.
LEMMA PartialSums ==
  ASSUME NEW e \in Seq(Nat)
  PROVE  \E g \in [0..Len(e) -> Nat] :
           /\ g[0] = 0
           /\ \A n \in 1..Len(e) : g[n] = g[n - 1] + e[n]
           /\ SumOf(e) = g[Len(e)]
<1> DEFINE sum == CHOOSE g : g = [n \in 0..Len(e) |-> IF n = 0 THEN 0 ELSE g[n - 1] + e[n]]
           Good == {n \in Nat : sum[n] \in Nat}
<1>1. \E g : g = [n \in 0..Len(e) |-> IF n = 0 THEN 0 ELSE g[n - 1] + e[n]]
  BY SumDefined
<1>2. sum = [n \in 0..Len(e) |-> IF n = 0 THEN 0 ELSE sum[n - 1] + e[n]]
  BY <1>1, Zenon
<1>3. SumOf(e) = sum[Len(e)]
  BY DEF SumOf
<1> HIDE DEF sum
<1>4. sum[0] = 0 /\ \A n \in 1..Len(e) : sum[n] = sum[n - 1] + e[n]
  BY <1>2
<1>5. \A n \in 1..Len(e) : n - 1 \in Good => n \in Good
  BY <1>4
<1>6. \A n \in 0..Len(e) : sum[n] \in Nat
  <2>1. 0 \in Good
    BY <1>4
  <2> HIDE DEF Good
  <2>2. Len(e) \in Nat
    OBVIOUS
  <2>3. \A n \in 0..Len(e) : n \in Good
    BY <1>5, <2>1, <2>2, Induction
  <2> QED
    BY <2>3 DEF Good
<1> QED
  BY <1>2, <1>3, <1>4, <1>6

\* Whatever satisfies the recursion is the sum.
LEMMA SumIs ==
  ASSUME NEW e \in Seq(Nat), NEW g \in [0..Len(e) -> Int], g[0] = 0,
         \A n \in 1..Len(e) : g[n] = g[n - 1] + e[n]
  PROVE  SumOf(e) = g[Len(e)] /\ SumOf(e) \in Nat
<1>1. PICK s \in [0..Len(e) -> Nat] :
         /\ s[0] = 0
         /\ \A n \in 1..Len(e) : s[n] = s[n - 1] + e[n]
         /\ SumOf(e) = s[Len(e)]
  BY PartialSums
<1> DEFINE Good == {n \in Nat : s[n] = g[n]}
<1>2. 0 \in Good /\ \A n \in 1..Len(e) : n - 1 \in Good => n \in Good
  BY <1>1
<1>3. Len(e) \in Good
  <2> HIDE DEF Good
  <2>1. Len(e) \in Nat
    OBVIOUS
  <2>2. \A n \in 0..Len(e) : n \in Good
    BY <1>2, <2>1, Induction
  <2> QED
    BY <2>1, <2>2
<1> QED
  BY <1>1, <1>3

\* Appending a number adds it.
LEMMA SumAppend ==
  ASSUME NEW e \in Seq(Nat), NEW v \in Nat
  PROVE  SumOf(Append(e, v)) = SumOf(e) + v
<1>1. PICK s \in [0..Len(e) -> Nat] :
         /\ s[0] = 0
         /\ \A n \in 1..Len(e) : s[n] = s[n - 1] + e[n]
         /\ SumOf(e) = s[Len(e)]
  BY PartialSums
<1> DEFINE f == Append(e, v)
           g == [n \in 0..Len(f) |-> IF n = Len(f) THEN s[Len(e)] + v ELSE s[n]]
<1>2. /\ f \in Seq(Nat) /\ Len(f) = Len(e) + 1 /\ Len(e) \in Nat
      /\ f[Len(f)] = v /\ \A n \in 1..Len(e) : f[n] = e[n]
  OBVIOUS
<1> HIDE DEF f
<1>3. g \in [0..Len(f) -> Int] /\ g[0] = 0 /\ g[Len(f)] = s[Len(e)] + v
  BY <1>1, <1>2
<1>4. \A n \in 1..Len(f) : g[n] = g[n - 1] + f[n]
  BY <1>1, <1>2
<1> HIDE DEF g
<1>5. SumOf(f) = g[Len(f)]
  BY <1>2, <1>3, <1>4, SumIs
<1> QED
  BY <1>1, <1>3, <1>5 DEF f

\* Replacing a number replaces it in the sum.
LEMMA SumExcept ==
  ASSUME NEW e \in Seq(Nat), NEW k \in 1..Len(e), NEW v \in Nat
  PROVE  SumOf([e EXCEPT ![k] = v]) = SumOf(e) - e[k] + v
<1>1. PICK s \in [0..Len(e) -> Nat] :
         /\ s[0] = 0
         /\ \A n \in 1..Len(e) : s[n] = s[n - 1] + e[n]
         /\ SumOf(e) = s[Len(e)]
  BY PartialSums
<1> DEFINE f == [e EXCEPT ![k] = v]
           g == [n \in 0..Len(e) |-> IF n < k THEN s[n] ELSE s[n] - e[k] + v]
<1>2. /\ f \in Seq(Nat) /\ Len(f) = Len(e) /\ f[k] = v
      /\ Len(e) \in Nat /\ e[k] \in Nat
      /\ \A n \in 1..Len(e) : n # k => f[n] = e[n]
  OBVIOUS
<1> HIDE DEF f
<1>3. g \in [0..Len(e) -> Int] /\ g[0] = 0 /\ g[Len(e)] = s[Len(e)] - e[k] + v
  BY <1>1, <1>2
<1>4. \A m \in 0..Len(e) : g[m] = IF m < k THEN s[m] ELSE s[m] - e[k] + v
  OBVIOUS
<1> HIDE DEF g
<1>5. ASSUME NEW n \in 1..Len(e) PROVE g[n] = g[n - 1] + f[n]
  <2>1. n \in 0..Len(e) /\ n - 1 \in 0..Len(e)
    BY <1>2
  <2>0. s[n - 1] \in Int /\ e[n] \in Int /\ f[n] \in Int /\ e[k] \in Int
    <3>1. s[n - 1] \in Int
      BY <2>1
    <3>2. f[n] \in Int
      BY <1>2
    <3>3. e[n] \in Int
      OBVIOUS
    <3> QED
      BY <1>2, <3>1, <3>2, <3>3
  <2>2. PICK a \in Int, b \in Int, c \in Int, d \in Int :
          a = s[n - 1] /\ b = e[n] /\ c = e[k] /\ d = f[n]
    BY <2>0, Zenon
  <2>3. s[n] = a + b
    BY <1>1, <2>2
  <2>4. g[n - 1] = IF n - 1 < k THEN a ELSE a - c + v
    BY <1>4, <2>1, <2>2
  <2>5. g[n] = IF n < k THEN a + b ELSE (a + b) - c + v
    BY <1>4, <2>1, <2>2, <2>3
  <2>6. IF n = k THEN d = v /\ b = c ELSE d = b
    BY <1>2, <2>2
  <2>7. n \in Nat /\ k \in Nat
    BY <1>2
  <2>8. CASE n < k
    <3>1. g[n] = a + b /\ g[n - 1] = a /\ f[n] = b
      BY <2>2, <2>4, <2>5, <2>6, <2>7, <2>8
    <3> QED
      BY <3>1
  <2>9. CASE n = k
    <3>1. g[n] = (a + b) - c + v /\ g[n - 1] = a /\ f[n] = v /\ b = c
      BY <2>2, <2>4, <2>5, <2>6, <2>7, <2>9
    <3> QED
      BY <3>1
  <2>10. CASE n > k
    <3>1. g[n] = (a + b) - c + v /\ g[n - 1] = a - c + v /\ f[n] = b
      BY <2>2, <2>4, <2>5, <2>6, <2>7, <2>10
    <3>2. (a + b) - c + v = (a - c + v) + b
      OBVIOUS
    <3> QED
      BY <3>1, <3>2
  <2> QED
    BY <2>7, <2>8, <2>9, <2>10
<1>6. SumOf(f) = g[Len(e)]
  BY <1>2, <1>3, <1>5, SumIs
<1> QED
  BY <1>1, <1>3, <1>6 DEF f

\* The sum is monotone.
LEMMA SumOrdered ==
  ASSUME NEW e \in Seq(Nat), NEW f \in Seq(Nat), Len(e) = Len(f),
         \A n \in 1..Len(e) : e[n] <= f[n]
  PROVE  SumOf(e) <= SumOf(f)
<1>1. PICK s \in [0..Len(e) -> Nat] :
         /\ s[0] = 0
         /\ \A n \in 1..Len(e) : s[n] = s[n - 1] + e[n]
         /\ SumOf(e) = s[Len(e)]
  BY PartialSums
<1>2. PICK t \in [0..Len(f) -> Nat] :
         /\ t[0] = 0
         /\ \A n \in 1..Len(f) : t[n] = t[n - 1] + f[n]
         /\ SumOf(f) = t[Len(f)]
  BY PartialSums
<1> DEFINE Good == {n \in Nat : s[n] <= t[n]}
<1>3. 0 \in Good
  BY <1>1, <1>2
<1>4. \A n \in 1..Len(e) : n - 1 \in Good => n \in Good
  <2> SUFFICES ASSUME NEW n \in 1..Len(e), n - 1 \in Good PROVE n \in Good
    OBVIOUS
  <2>1. /\ n - 1 \in 0..Len(e) /\ n - 1 \in 0..Len(f)
        /\ n \in 1..Len(f) /\ n \in Nat
    OBVIOUS
  <2>2. s[n - 1] \in Nat /\ t[n - 1] \in Nat /\ e[n] \in Nat /\ f[n] \in Nat
    <3> HIDE DEF Good
    <3>1. s[n - 1] \in Nat
      BY <2>1
    <3>2. t[n - 1] \in Nat
      BY <2>1
    <3>3. e[n] \in Nat
      OBVIOUS
    <3>4. f[n] \in Nat
      BY <2>1
    <3> QED BY <3>1, <3>2, <3>3, <3>4
  <2>3. s[n] = s[n - 1] + e[n] /\ t[n] = t[n - 1] + f[n]
    BY <1>1, <1>2, <2>1
  <2>4. s[n - 1] <= t[n - 1] /\ e[n] <= f[n]
    OBVIOUS
  <2>5. s[n] <= t[n]
    <3> HIDE DEF Good
    <3> QED BY <2>2, <2>3, <2>4
  <2> QED
    BY <2>1, <2>5
<1>5. Len(e) \in Good
  <2> HIDE DEF Good
  <2>1. Len(e) \in Nat
    OBVIOUS
  <2>2. \A n \in 0..Len(e) : n \in Good
    BY <1>3, <1>4, <2>1, Induction
  <2> QED
    BY <2>1, <2>2
<1> QED
  BY <1>1, <1>2, <1>5
-----------------------------------------------------------------------------
(* Lemmas about the operators the actions are built from. *)

\* The newest file is the one with the greatest number.
LEMMA NewestIs ==
  ASSUME NEW N \in Nat, DOMAIN file \subseteq 1..N, DOMAIN file # {}
  PROVE  Newest \in DOMAIN file /\ \A n \in DOMAIN file : n <= Newest
<1> DEFINE Below == {N - n : n \in DOMAIN file}
<1>1. Below \in SUBSET Nat /\ Below # {}
  OBVIOUS
<1>2. PICK d \in Below : \A x \in Below : d <= x
  BY <1>1, Smallest
<1>3. PICK m \in DOMAIN file : d = N - m
  BY <1>2
<1>4. ASSUME NEW n \in DOMAIN file PROVE n <= m
  <2>1. N - n \in Below /\ n \in Nat /\ m \in Nat
    BY <1>3
  <2>2. N - m <= N - n
    BY <1>2, <1>3, <2>1
  <2> QED
    BY <2>1, <2>2
<1> QED
  BY <1>3, <1>4 DEF Newest

\* The first segment in hand, and the first planned one, exist.
LEMMA LowestIs ==
  ASSUME todo \subseteq Nat, todo # {}
  PROVE  Lowest \in todo /\ \A n \in todo : Lowest <= n
<1>1. PICK x \in todo : \A n \in todo : x <= n
  BY Smallest
<1> QED
  BY <1>1 DEF Lowest

LEMMA FirstPlannedIs ==
  ASSUME Planned # {}, Len(row) \in Nat
  PROVE  FirstPlanned \in Planned /\ \A n \in Planned : FirstPlanned <= n
<1>1. Planned \in SUBSET Nat
  BY DEF Planned, Segments
<1>2. PICK x \in Planned : \A n \in Planned : x <= n
  BY <1>1, Smallest
<1> QED
  BY <1>2 DEF FirstPlanned

\* Saving a row replaces it or adds it at the end.
LEMMA SavedIs ==
  ASSUME NEW rows \in Seq(Row), NEW s \in 1..(Len(rows) + 1), NEW r \in Row
  PROVE  /\ Saved(rows, s, r) \in Seq(Row)
         /\ Len(Saved(rows, s, r)) = IF s <= Len(rows) THEN Len(rows) ELSE Len(rows) + 1
         /\ Saved(rows, s, r)[s] = r
         /\ \A n \in 1..Len(rows) : n # s => Saved(rows, s, r)[n] = rows[n]
<1>1. CASE s <= Len(rows)
  BY <1>1 DEF Saved
<1>2. CASE s = Len(rows) + 1
  BY <1>2 DEF Saved
<1> QED
  BY <1>1, <1>2

LEMMA WithIs ==
  ASSUME NEW f, NEW s, NEW held
  PROVE  /\ DOMAIN With(f, s, held) = DOMAIN f \cup {s}
         /\ With(f, s, held)[s] = held
         /\ \A n \in DOMAIN f : n # s => With(f, s, held)[n] = f[n]
BY DEF With

LEMMA WithoutIs ==
  ASSUME NEW f, NEW s
  PROVE  /\ DOMAIN Without(f, s) = DOMAIN f \ {s}
         /\ \A n \in DOMAIN f \ {s} : Without(f, s)[n] = f[n]
BY DEF Without

LEMMA FreshRowType == FreshRow \in Row
BY DEF FreshRow, Row

\* The scan keeps every row but for closing all that have a file older than
\* the newest, and gives the newest file a row.
LEMMA ScannedIs ==
  ASSUME row \in Seq(Row), DOMAIN file \subseteq 1..(Len(row) + 1)
  PROVE  /\ ScannedRows \in Seq(Row)
         /\ Len(ScannedRows) =
              IF Len(row) + 1 \in DOMAIN file THEN Len(row) + 1 ELSE Len(row)
         /\ \A s \in Segments :
              ScannedRows[s] = IF s \in DOMAIN file /\ s # Newest
                               THEN [row[s] EXCEPT !.closed = TRUE] ELSE row[s]
         /\ Len(row) + 1 \in DOMAIN file =>
              Newest = Len(row) + 1 /\ ScannedRows[Len(row) + 1] = FreshRow
<1> DEFINE old == [s \in Segments |->
                IF s \in DOMAIN file /\ s # Newest THEN [row[s] EXCEPT !.closed = TRUE] ELSE row[s]]
<1>1. Len(row) \in Nat /\ Segments = 1..Len(row)
  BY DEF Segments
<1>2. ASSUME NEW s \in Segments PROVE old[s] \in Row
  <2>1. row[s] \in Row
    BY <1>1
  <2>2. [row[s] EXCEPT !.closed = TRUE] \in Row
    BY <2>1 DEF Row
  <2> QED
    BY <2>1, <2>2
<1>3. old \in Seq(Row) /\ Len(old) = Len(row)
  <2>1. old \in [1..Len(row) -> Row]
    BY <1>1, <1>2
  <2> QED
    BY <1>1, <2>1
<1>4. DOMAIN file # {} => Newest \in DOMAIN file /\ \A n \in DOMAIN file : n <= Newest
  BY <1>1, NewestIs
<1>5. DOMAIN file # {} /\ Newest > Len(row) <=> Len(row) + 1 \in DOMAIN file
  BY <1>1, <1>4
<1>6. Len(row) + 1 \in DOMAIN file => Newest = Len(row) + 1
  BY <1>1, <1>4
<1>7. ScannedRows = IF Len(row) + 1 \in DOMAIN file THEN Append(old, FreshRow) ELSE old
  BY <1>5 DEF ScannedRows
<1>8. \A s \in Segments :
        old[s] = IF s \in DOMAIN file /\ s # Newest
                 THEN [row[s] EXCEPT !.closed = TRUE] ELSE row[s]
  OBVIOUS
<1> HIDE DEF old
<1> QED
  BY <1>1, <1>3, <1>6, <1>7, <1>8, FreshRowType

\* What opening the log makes of rows and files.
LEMMA OpenIs ==
  ASSUME TypeOK, FileInv, Open, Intact
  PROVE  /\ Len(row) \in Nat /\ Len(row') \in Nat /\ row' \in Seq(Row) /\ current' \in Segments'
         /\ Len(row') \in {Len(row), Len(row) + 1}
         /\ ~row'[current'].closed
         /\ file' = file \/ file' = With(file, current', {})
         /\ current' \in DOMAIN file'
         /\ \A s \in Segments : s # current' =>
              row'[s] = IF s \in DOMAIN file /\ s # Newest
                        THEN [row[s] EXCEPT !.closed = TRUE] ELSE row[s]
         /\ \A s \in Segments' : s \notin Segments => row'[s] = FreshRow
         /\ current' \notin Segments => row'[current'] = FreshRow
         /\ current' \in Segments => \/ current' = Newest /\ row'[current'] = row[current']
                                     \/ row'[current'] = FreshRow /\ current' \notin DOMAIN file
         /\ \A s \in Segments : s > current' => s \notin DOMAIN file
         /\ Len(row') > Len(row) => current' = Len(row')
         /\ \A s \in DOMAIN file : s <= current'
         /\ Len(row') > Len(row) => \A s \in Segments : s \in DOMAIN file => row'[s].closed
<1>1. row \in Seq(Row) /\ Len(row) \in Nat /\ Segments = 1..Len(row)
  BY DEF TypeOK, Segments, Row
<1>2. DOMAIN file \subseteq 1..(Len(row) + 1)
  BY DEF FileInv
<1> DEFINE S == ScannedRows
<1>3. /\ S \in Seq(Row)
      /\ Len(S) = IF Len(row) + 1 \in DOMAIN file THEN Len(row) + 1 ELSE Len(row)
      /\ \A s \in Segments :
              S[s] = IF s \in DOMAIN file /\ s # Newest
                     THEN [row[s] EXCEPT !.closed = TRUE] ELSE row[s]
      /\ Len(row) + 1 \in DOMAIN file => Newest = Len(row) + 1 /\ S[Len(row) + 1] = FreshRow
  BY <1>1, <1>2, ScannedIs
<1>4. DOMAIN file # {} => Newest \in DOMAIN file /\ \A n \in DOMAIN file : n <= Newest
  BY <1>1, <1>2, NewestIs
<1> DEFINE R == IF DOMAIN file = {} THEN Len(row) + 1
                ELSE IF S[Newest].closed THEN Newest + 1 ELSE Newest
<1>5. /\ current' = R
      /\ IF R \in DOMAIN file
         THEN file' = file /\ row' = S
         ELSE file' = With(file, R, {}) /\ row' = Saved(S, R, FreshRow)
  BY DEF Open, Reopened
<1> HIDE DEF S
<1>6. /\ R \in 1..(Len(S) + 1)
      /\ \A s \in DOMAIN file : s <= R
      /\ R \in DOMAIN file => R = Newest /\ ~S[R].closed
  <2>1. CASE DOMAIN file = {}
    BY <1>1, <1>3, <2>1
  <2>2. CASE DOMAIN file # {}
    <3>1. Newest \in 1..Len(S)
      BY <1>1, <1>2, <1>3, <1>4, <2>2
    <3>2. R = IF S[Newest].closed THEN Newest + 1 ELSE Newest
      BY <2>2
    <3>3. \A s \in DOMAIN file : s <= Newest /\ s \in Nat
      BY <1>2, <1>4, <2>2
    <3> HIDE DEF R
    <3> QED
      BY <1>3, <3>1, <3>2, <3>3
  <2> QED
    BY <2>1, <2>2
<1> HIDE DEF R
<1>7. Segments' = 1..Len(row')
  BY DEF Segments
<1>8. CASE R \in DOMAIN file
  <2>1. file' = file /\ row' = S /\ current' = Newest /\ current' = R /\ ~S[R].closed
    BY <1>5, <1>6, <1>8
  <2>2. current' \in 1..Len(S)
    BY <1>1, <1>2, <1>3, <1>4, <1>8, <2>1
  <2>3. current' \in Segments => row'[current'] = row[current']
    BY <1>3, <2>1
  <2>4. \A s \in Segments' : s \notin Segments => s = Len(row) + 1 /\ Len(row) + 1 \in DOMAIN file
    BY <1>1, <1>3, <1>7, <2>1
  <2>5. current' \notin Segments => row'[current'] = FreshRow
    BY <1>1, <1>3, <1>7, <2>1, <2>2, <2>4
  <2>6. \A s \in Segments : s > current' => s \notin DOMAIN file
    BY <1>1, <1>4, <1>6, <2>1
  <2>7. Len(row') > Len(row) => current' = Len(row')
    BY <1>1, <1>3, <2>1
  <2>8. \A s \in DOMAIN file : s <= current'
    BY <1>6, <2>1
  <2>9. ASSUME Len(row') > Len(row), NEW s \in Segments, s \in DOMAIN file PROVE row'[s].closed
    <3>1. s # Newest /\ row'[s] = [row[s] EXCEPT !.closed = TRUE]
      BY <1>1, <1>3, <2>1, <2>7, <2>9
    <3>2. row[s] \in Row
      BY <1>1
    <3> QED
      BY <3>1, <3>2 DEF Row
  <2> QED
    BY <1>1, <1>3, <1>7, <1>8, <2>1, <2>2, <2>3, <2>4, <2>5, <2>6, <2>7, <2>8, <2>9
<1>9. CASE R \notin DOMAIN file
  <2>1. file' = With(file, R, {}) /\ row' = Saved(S, R, FreshRow) /\ current' = R
    BY <1>5, <1>9
  <2>2. /\ row' \in Seq(Row)
        /\ Len(row') = IF R <= Len(S) THEN Len(S) ELSE Len(S) + 1
        /\ row'[R] = FreshRow
        /\ \A n \in 1..Len(S) : n # R => row'[n] = S[n]
    <3>1. S \in Seq(Row) /\ R \in 1..(Len(S) + 1) /\ FreshRow \in Row
      BY <1>3, <1>6, FreshRowType
    <3>2. /\ Saved(S, R, FreshRow) \in Seq(Row)
          /\ Len(Saved(S, R, FreshRow)) = IF R <= Len(S) THEN Len(S) ELSE Len(S) + 1
          /\ Saved(S, R, FreshRow)[R] = FreshRow
          /\ \A n \in 1..Len(S) : n # R => Saved(S, R, FreshRow)[n] = S[n]
      BY <3>1, SavedIs
    <3> QED
      BY <2>1, <3>2
  <2>3. Len(S) \in Nat /\ R \in Nat
    BY <1>3, <1>6
  <2>4. Len(row) + 1 \notin DOMAIN file
    <3>1. ASSUME Len(row) + 1 \in DOMAIN file PROVE FALSE
      <4>1. Newest = Len(row) + 1 /\ S[Newest] = FreshRow /\ DOMAIN file # {}
        BY <1>3, <3>1
      <4> QED
        BY <1>9, <3>1, <4>1 DEF R, FreshRow
    <3> QED
      BY <3>1
  <2>5. Len(S) = Len(row)
    BY <1>3, <2>4
  <2>6. DOMAIN file' = DOMAIN file \cup {R}
    BY <2>1, WithIs
  <2>7. \A s \in Segments : s > current' => s \notin DOMAIN file
    BY <1>1, <1>6, <2>1, <2>3
  <2>8. ~row'[current'].closed
    BY <2>1, <2>2 DEF FreshRow
  <2>9. current' \in 1..Len(row')
    BY <1>6, <2>1, <2>2, <2>3
  <2>10. \A s \in 1..Len(row') : s \notin Segments => row'[s] = FreshRow
    <3>1. ASSUME NEW s \in 1..Len(row'), s \notin Segments PROVE s = R
      BY <1>1, <1>6, <2>2, <2>3, <2>5, <3>1
    <3> QED
      BY <2>2, <3>1
  <2>11. Len(row') \in {Len(row), Len(row) + 1} /\ Len(row') \in Nat
         /\ (Len(row') > Len(row) => R = Len(row'))
    BY <1>1, <1>6, <2>2, <2>3, <2>5
  <2>12. \A s \in DOMAIN file : s <= current'
    BY <1>6, <2>1
  <2>13. ASSUME Len(row') > Len(row), NEW s \in Segments, s \in DOMAIN file PROVE row'[s].closed
    <3>1. R = Len(row) + 1 /\ row'[s] = S[s] /\ row[s] \in Row
      BY <1>1, <2>2, <2>3, <2>5, <2>11, <2>13
    <3>2. DOMAIN file # {} /\ R = IF S[Newest].closed THEN Newest + 1 ELSE Newest
      BY <2>13 DEF R
    <3>3. Newest \in DOMAIN file
      BY <1>4, <3>2
    <3>4. S[Newest].closed
      BY <1>9, <3>2, <3>3
    <3>5. CASE s = Newest
      BY <3>1, <3>4, <3>5
    <3>6. CASE s # Newest
      <4>1. S[s] = [row[s] EXCEPT !.closed = TRUE]
        BY <1>3, <2>13, <3>6
      <4>2. [row[s] EXCEPT !.closed = TRUE].closed
        BY <3>1 DEF Row
      <4> QED
        BY <3>1, <4>1, <4>2, Zenon
    <3> QED
      BY <3>5, <3>6
  <2> QED
    BY <1>1, <1>3, <1>7, <1>9, <2>1, <2>2, <2>5, <2>6, <2>7, <2>8, <2>9, <2>10, <2>11, <2>12, <2>13
<1> QED
  BY <1>8, <1>9

-----------------------------------------------------------------------------
(* The bytes that the rows count. *)

Weights(rows) == [n \in DOMAIN rows |-> IF rows[n].gc = "complete" THEN 0 ELSE rows[n].bytes]

LEMMA SameNumbers ==
  ASSUME NEW s \in Seq(Nat), NEW t \in Seq(Nat), Len(s) = Len(t),
         \A n \in 1..Len(s) : s[n] = t[n]
  PROVE  s = t
OBVIOUS

LEMMA WeightsType ==
  ASSUME NEW rows \in Seq(Row)
  PROVE  Weights(rows) \in Seq(Nat) /\ Len(Weights(rows)) = Len(rows)
<1>1. DOMAIN rows = 1..Len(rows) /\ Len(rows) \in Nat
  OBVIOUS
<1>2. ASSUME NEW n \in 1..Len(rows)
      PROVE  (IF rows[n].gc = "complete" THEN 0 ELSE rows[n].bytes) \in Nat
  <2>1. rows[n] \in Row
    BY <1>1
  <2> QED
    BY <2>1 DEF Row
<1>3. Weights(rows) \in [1..Len(rows) -> Nat]
  BY <1>1, <1>2 DEF Weights
<1> QED
  BY <1>1, <1>3

LEMMA BytesType ==
  ASSUME NEW rows \in Seq(Row)
  PROVE  Bytes(rows) \in Nat
<1>1. Weights(rows) \in Seq(Nat)
  BY WeightsType
<1>2. PICK g \in [0..Len(Weights(rows)) -> Nat] : SumOf(Weights(rows)) = g[Len(Weights(rows))]
  BY <1>1, PartialSums
<1>3. Len(Weights(rows)) \in 0..Len(Weights(rows))
  BY <1>1
<1> QED
  BY <1>2, <1>3 DEF Bytes, Weights

\* Rows that count the same are worth the same.
LEMMA BytesSame ==
  ASSUME NEW rows \in Seq(Row), NEW next \in Seq(Row), Len(next) = Len(rows),
         \A n \in 1..Len(rows) : Weights(next)[n] = Weights(rows)[n]
  PROVE  Bytes(next) = Bytes(rows)
<1>1. Weights(rows) \in Seq(Nat) /\ Len(Weights(rows)) = Len(rows)
  BY WeightsType
<1>2. Weights(next) \in Seq(Nat) /\ Len(Weights(next)) = Len(rows)
  BY WeightsType
<1>3. Weights(next) = Weights(rows)
  BY <1>1, <1>2
<1> QED
  BY <1>3 DEF Bytes, Weights

\* A changed row changes the sum by what it counts more or less.
LEMMA BytesChange ==
  ASSUME NEW rows \in Seq(Row), NEW next \in Seq(Row), Len(next) = Len(rows),
         NEW k \in 1..Len(rows),
         \A n \in 1..Len(rows) : n # k => next[n] = rows[n]
  PROVE  Bytes(next) = Bytes(rows) - Weights(rows)[k] + Weights(next)[k]
<1>1. Weights(rows) \in Seq(Nat) /\ Len(Weights(rows)) = Len(rows)
  BY WeightsType
<1>2. Weights(next) \in Seq(Nat) /\ Len(Weights(next)) = Len(rows)
  BY WeightsType
<1> DEFINE v == Weights(next)[k]
<1>3. v \in Nat
  BY <1>2
<1>4. \A n \in 1..Len(rows) : n # k => Weights(next)[n] = Weights(rows)[n]
  BY DEF Weights
<1>5. Weights(next) = [Weights(rows) EXCEPT ![k] = v]
  <2> HIDE DEF v
  <2>1. [Weights(rows) EXCEPT ![k] = v] \in Seq(Nat)
        /\ Len([Weights(rows) EXCEPT ![k] = v]) = Len(rows)
    BY <1>1, <1>3
  <2>2. \A n \in 1..Len(rows) : [Weights(rows) EXCEPT ![k] = v][n] = Weights(next)[n]
    BY <1>1, <1>4 DEF v
  <2>3. Len(Weights(next)) = Len([Weights(rows) EXCEPT ![k] = v])
        /\ \A n \in 1..Len(Weights(next)) : Weights(next)[n] = [Weights(rows) EXCEPT ![k] = v][n]
    BY <1>2, <2>1, <2>2
  <2> QED
    BY <1>2, <2>1, <2>3, SameNumbers
<1>6. SumOf([Weights(rows) EXCEPT ![k] = v]) = SumOf(Weights(rows)) - Weights(rows)[k] + v
  <2> HIDE DEF v
  <2>1. k \in 1..Len(Weights(rows))
    BY <1>1
  <2> QED
    BY <1>1, <1>3, <2>1, SumExcept
<1> QED
  BY <1>5, <1>6 DEF Bytes, Weights

LEMMA BytesAppend ==
  ASSUME NEW rows \in Seq(Row), NEW r \in Row, r.bytes = 0
  PROVE  Bytes(Append(rows, r)) = Bytes(rows)
<1>1. Weights(rows) \in Seq(Nat) /\ Len(Weights(rows)) = Len(rows)
  BY WeightsType
<1>2. Append(rows, r) \in Seq(Row) /\ Len(Append(rows, r)) = Len(rows) + 1
  OBVIOUS
<1>3. Weights(Append(rows, r)) \in Seq(Nat) /\ Len(Weights(Append(rows, r))) = Len(rows) + 1
  BY <1>2, WeightsType
<1>4. \A n \in 1..(Len(rows) + 1) :
        Weights(Append(rows, r))[n] = Append(Weights(rows), 0)[n]
  <2> SUFFICES ASSUME NEW n \in 1..(Len(rows) + 1)
               PROVE  Weights(Append(rows, r))[n] = Append(Weights(rows), 0)[n]
    OBVIOUS
  <2>1. DOMAIN Append(rows, r) = 1..(Len(rows) + 1) /\ DOMAIN rows = 1..Len(rows)
    OBVIOUS
  <2>2. CASE n = Len(rows) + 1
    <3>1. Append(rows, r)[n] = r /\ Append(Weights(rows), 0)[n] = 0
      BY <1>1, <2>2
    <3> QED
      BY <2>1, <3>1 DEF Weights
  <2>3. CASE n \in 1..Len(rows)
    <3>1. Append(rows, r)[n] = rows[n] /\ Append(Weights(rows), 0)[n] = Weights(rows)[n]
      BY <1>1, <2>3
    <3> QED
      BY <2>1, <2>3, <3>1 DEF Weights
  <2>4. n = Len(rows) + 1 \/ n \in 1..Len(rows)
    OBVIOUS
  <2> QED
    BY <2>2, <2>3, <2>4, Zenon
<1>5. Weights(Append(rows, r)) = Append(Weights(rows), 0)
  BY <1>1, <1>3, <1>4
<1>6. SumOf(Append(Weights(rows), 0)) = SumOf(Weights(rows)) + 0
  BY <1>1, SumAppend
<1>7. Bytes(rows) = SumOf(Weights(rows)) /\ Bytes(rows) \in Nat
  BY BytesType DEF Bytes, Weights
<1>8. Bytes(Append(rows, r)) = SumOf(Weights(Append(rows, r)))
  BY DEF Bytes, Weights
<1> QED
  BY <1>5, <1>6, <1>7, <1>8

-----------------------------------------------------------------------------
(* What each group of actions leaves alone. *)

LEMMA IngestLeaves ==
  Ingest => UNCHANGED <<archive, target, observed, checkpoint, pin, mode, known, commit, pinning,
                        upkeep, fresh>>
BY DEF Ingest, Write, CreateSegment, CreateFails, AppendFrame

LEMMA MaintenanceLeaves ==
  Maintenance => UNCHANGED <<frame, file, target, observed, checkpoint, pin, mode, writing, total,
                             known, commit, pinning>>
BY DEF Maintenance, ArchiveStart, ArchiveCopy, ArchiveRecord, CompactStart, CompactRead,
       CompactEvaluate, CompactPlan, CompactEnd, durable

LEMMA DeletionLeaves ==
  Deletion => UNCHANGED <<frame, archive, target, observed, checkpoint, pin, mode, writing, known,
                          commit, pinning, upkeep, fresh>>
BY DEF Deletion, Unlink, Complete

LEMMA ClientsLeave ==
  Clients => UNCHANGED <<frame, row, file, archive, mode, writing, total, upkeep>>
BY DEF Clients, RegisterTarget, RetireTarget, Observe, CommitTransaction, CommitRemembered,
       PinRead, PinCheck, PinTransaction, ReleasePin, durable

\* While a write runs, the segment it writes to exists and is not given up.
LEMMA WriterHas ==
  ASSUME TypeOK, ModeInv, FileInv, CurrentInv, writer = "append" \/ (mode = "open" /\ writer = "idle" /\ ~poisoned)
  PROVE  /\ mode = "open" /\ current \in Segments /\ current \in DOMAIN file
         /\ row[current].gc = "hot" /\ ~row[current].closed
<1>1. mode = "open" /\ ~poisoned /\ writer # "create"
  BY DEF TypeOK, ModeInv
<1>2. current \in Segments /\ ~row[current].closed
  BY <1>1 DEF CurrentInv
<1> QED
  BY <1>1, <1>2 DEF FileInv

\* A planned deletion is only completed by a job or during recovery.
LEMMA DeletingIs ==
  ASSUME TypeOK, ModeInv, Deleting, Planned # {}
  PROVE  /\ FirstPlanned \in Segments /\ row[FirstPlanned].gc = "planned"
         /\ mode = "open" => job = "delete"
<1>1. Len(row) \in Nat
  BY DEF TypeOK
<1>2. FirstPlanned \in Planned
  BY <1>1, FirstPlannedIs
<1> QED
  BY <1>2 DEF Planned, Deleting

-----------------------------------------------------------------------------
(* What each action makes of the rows. *)

LEMMA Typed ==
  ASSUME TypeOK
  PROVE  /\ row \in Seq(Row) /\ Len(row) \in Nat /\ Segments = 1..Len(row)
         /\ \A s \in Segments : row[s] \in Row
         /\ Len(frame) \in Nat /\ todo \subseteq Nat /\ current \in Nat /\ total \in Nat
         /\ mode \in {"down", "recovering", "open", "refused"}
         /\ writer \in {"idle", "create", "append"} /\ poisoned \in BOOLEAN
         /\ job \in {"idle", "copy", "record", "settle", "evaluate", "plan", "delete"}
<1>1. row \in Seq(Row) /\ Len(row) \in Nat /\ Segments = 1..Len(row)
  BY DEF TypeOK, Row, Segments
<1>2. \A s \in Segments : row[s] \in Row
  BY <1>1
<1> QED
  BY <1>1, <1>2 DEF TypeOK

\* One row is replaced.
LEMMA OneRow ==
  ASSUME row \in Seq(Row), NEW k \in Segments, NEW r \in Row, row' = [row EXCEPT ![k] = r]
  PROVE  /\ row' \in Seq(Row) /\ Len(row') = Len(row) /\ Segments' = Segments
         /\ row'[k] = r
         /\ \A s \in Segments : s # k => row'[s] = row[s]
BY DEF Segments

SameCounts(r, q) == q.bytes = r.bytes /\ q.first = r.first /\ q.last = r.last

LEMMA ClosedRow ==
  ASSUME NEW r \in Row
  PROVE  LET q == [r EXCEPT !.closed = TRUE]
         IN q \in Row /\ SameCounts(r, q) /\ q.closed /\ q.archived = r.archived /\ q.gc = r.gc
BY DEF Row, SameCounts

LEMMA ArchivedRow ==
  ASSUME NEW r \in Row
  PROVE  LET q == [r EXCEPT !.archived = TRUE]
         IN q \in Row /\ SameCounts(r, q) /\ q.closed = r.closed /\ q.archived /\ q.gc = r.gc
BY DEF Row, SameCounts

LEMMA GivenUpRow ==
  ASSUME NEW r \in Row, NEW g \in {"planned", "complete"}
  PROVE  LET q == [r EXCEPT !.gc = g]
         IN q \in Row /\ SameCounts(r, q) /\ q.closed = r.closed /\ q.archived = r.archived
            /\ q.gc = g
BY DEF Row, SameCounts

LEMMA WriteRows ==
  ASSUME TypeOK, ModeInv, FileInv, CurrentInv, Write
  PROVE  /\ row' \in Seq(Row) /\ Len(row') = Len(row) /\ Segments' = Segments
         /\ \A s \in Segments : /\ SameCounts(row[s], row'[s]) /\ row'[s].archived = row[s].archived
                                /\ row'[s].gc = row[s].gc
                                /\ row[s].closed => row'[s].closed
                                /\ s # current => row'[s] = row[s]
         /\ row'[current].closed <=> writer' = "create"
         /\ row'[current].closed => row[current].bytes > 0
<1>1. current \in Segments /\ ~row[current].closed
  BY WriterHas DEF Write
<1>2. row \in Seq(Row) /\ row[current] \in Row
  BY <1>1, Typed
<1>3. CASE RotationDue
  <2> DEFINE q == [row[current] EXCEPT !.closed = TRUE]
  <2>1. q \in Row /\ SameCounts(row[current], q) /\ q.closed /\ q.archived = row[current].archived
        /\ q.gc = row[current].gc
    BY <1>2, ClosedRow
  <2>2. row' = [row EXCEPT ![current] = q]
    BY <1>3 DEF Write
  <2> HIDE DEF q
  <2>3. /\ row' \in Seq(Row) /\ Len(row') = Len(row) /\ Segments' = Segments
        /\ row'[current] = q
        /\ \A s \in Segments : s # current => row'[s] = row[s]
    BY <1>1, <1>2, <2>1, <2>2, OneRow
  <2>4. writer' = "create" /\ row[current].bytes > 0
    BY <1>3 DEF Write, RotationDue
  <2> QED
    BY <1>1, <2>1, <2>3, <2>4 DEF SameCounts
<1>4. CASE ~RotationDue
  <2>1. row' = row /\ writer' = "append"
    BY <1>4 DEF Write
  <2>2. Segments' = Segments
    BY <2>1 DEF Segments
  <2> QED
    BY <1>1, <1>2, <2>1, <2>2 DEF SameCounts
<1> QED
  BY <1>3, <1>4

LEMMA CreateRows ==
  ASSUME TypeOK, ModeInv, CurrentInv, CreateSegment
  PROVE  /\ row' \in Seq(Row) /\ mode = "open" /\ current \in Segments /\ ~poisoned
         /\ Len(row') = IF current + 1 \in Segments THEN Len(row) ELSE Len(row) + 1
         /\ Segments' = Segments \cup {current + 1}
         /\ row'[current + 1] = FreshRow /\ row'[current] = row[current]
         /\ \A s \in Segments : s # current + 1 => row'[s] = row[s]
         /\ current + 1 \in Segments => row[current + 1].gc = "complete"
<1>1. mode = "open" /\ current \in Segments /\ ~poisoned
  BY DEF CreateSegment, ModeInv, CurrentInv
<1>2. row \in Seq(Row) /\ Len(row) \in Nat /\ Segments = 1..Len(row)
  BY Typed
<1>3. current + 1 \in 1..(Len(row) + 1) /\ current # current + 1
  BY <1>1, <1>2
<1>4. row' = Saved(row, current + 1, FreshRow)
  BY DEF CreateSegment
<1>5. /\ row' \in Seq(Row)
      /\ Len(row') = IF current + 1 <= Len(row) THEN Len(row) ELSE Len(row) + 1
      /\ row'[current + 1] = FreshRow
      /\ \A n \in 1..Len(row) : n # current + 1 => row'[n] = row[n]
  BY <1>2, <1>3, <1>4, FreshRowType, SavedIs
<1>6. Segments' = 1..Len(row')
  BY DEF Segments
<1>7. Segments' = Segments \cup {current + 1}
  BY <1>2, <1>3, <1>5, <1>6
<1>8. current + 1 \in Segments => row[current + 1].gc = "complete"
  BY <1>1, <1>2 DEF CurrentInv
<1> QED
  BY <1>1, <1>2, <1>3, <1>5, <1>7, <1>8

LEMMA AppendRows ==
  ASSUME TypeOK, ModeInv, FileInv, CurrentInv, AppendFrame
  PROVE  LET r == row[current]
             q == row'[current]
         IN /\ row' \in Seq(Row) /\ Len(row') = Len(row) /\ Segments' = Segments
            /\ \A s \in Segments : s # current => row'[s] = row[s]
            /\ q.bytes = r.bytes + 1 /\ q.last = Len(frame) + 1
            /\ q.first = IF r.first = 0 THEN Len(frame) + 1 ELSE r.first
            /\ q.closed = r.closed /\ q.archived = r.archived /\ q.gc = r.gc
<1>1. current \in Segments
  BY WriterHas DEF AppendFrame
<1>2. row \in Seq(Row) /\ row[current] \in Row /\ Len(frame) + 1 \in Nat
  BY <1>1, Typed
<1> DEFINE r == row[current]
           a == [r EXCEPT !.bytes = r.bytes + 1]
           b == [a EXCEPT !.first = IF r.first = 0 THEN Len(frame) + 1 ELSE r.first]
           q == [b EXCEPT !.last = Len(frame) + 1]
<1>3. row' = [row EXCEPT ![current] = q]
  BY <1>1, <1>2 DEF AppendFrame, Segments
<1>4. /\ q \in Row /\ q.bytes = r.bytes + 1 /\ q.last = Len(frame) + 1
      /\ q.first = IF r.first = 0 THEN Len(frame) + 1 ELSE r.first
      /\ q.closed = r.closed /\ q.archived = r.archived /\ q.gc = r.gc
  <2>1. r.bytes + 1 \in Nat /\ r \in Row
    BY <1>2 DEF Row
  <2>2. /\ a \in Row /\ a.bytes = r.bytes + 1 /\ a.first = r.first /\ a.last = r.last
        /\ a.closed = r.closed /\ a.archived = r.archived /\ a.gc = r.gc
    BY <2>1 DEF Row
  <2>3. (IF r.first = 0 THEN Len(frame) + 1 ELSE r.first) \in Nat
    BY <1>2 DEF Row
  <2> HIDE DEF a, r
  <2>4. /\ b \in Row /\ b.bytes = a.bytes /\ b.last = a.last
        /\ b.first = IF r.first = 0 THEN Len(frame) + 1 ELSE r.first
        /\ b.closed = a.closed /\ b.archived = a.archived /\ b.gc = a.gc
    BY <2>2, <2>3 DEF Row
  <2> HIDE DEF b
  <2> QED
    BY <1>2, <2>2, <2>4 DEF Row
<1> HIDE DEF q
<1>5. /\ row' \in Seq(Row) /\ Len(row') = Len(row) /\ Segments' = Segments
      /\ row'[current] = q
      /\ \A s \in Segments : s # current => row'[s] = row[s]
  BY <1>1, <1>2, <1>3, <1>4, OneRow
<1> QED
  BY <1>4, <1>5

LEMMA ArchiveRows ==
  ASSUME TypeOK, ModeInv, JobInv, ArchiveRecord
  PROVE  /\ row' \in Seq(Row) /\ Len(row') = Len(row) /\ Segments' = Segments
         /\ Lowest \in todo /\ Lowest \in Segments /\ row[Lowest].gc = "hot" /\ row[Lowest].closed
         /\ \A s \in Segments : /\ SameCounts(row[s], row'[s]) /\ row'[s].closed = row[s].closed
                                /\ row'[s].gc = row[s].gc
                                /\ s # Lowest => row'[s] = row[s]
         /\ row'[Lowest].archived
<1>1. todo # {} /\ todo \subseteq Nat
  BY Typed DEF ModeInv, ArchiveRecord
<1>2. Lowest \in todo
  BY <1>1, LowestIs
<1>3. Lowest \in Segments /\ row[Lowest].gc = "hot" /\ row[Lowest].closed
  BY <1>2 DEF JobInv, ArchiveRecord
<1>4. row \in Seq(Row) /\ row[Lowest] \in Row
  BY <1>3, Typed
<1> DEFINE q == [row[Lowest] EXCEPT !.archived = TRUE]
<1>5. q \in Row /\ SameCounts(row[Lowest], q) /\ q.closed = row[Lowest].closed /\ q.archived
      /\ q.gc = row[Lowest].gc
  BY <1>4, ArchivedRow
<1>6. row' = [row EXCEPT ![Lowest] = q]
  BY DEF ArchiveRecord
<1> HIDE DEF q
<1>7. /\ row' \in Seq(Row) /\ Len(row') = Len(row) /\ Segments' = Segments
      /\ row'[Lowest] = q
      /\ \A s \in Segments : s # Lowest => row'[s] = row[s]
  BY <1>3, <1>4, <1>5, <1>6, OneRow
<1> QED
  BY <1>2, <1>3, <1>5, <1>7 DEF SameCounts

LEMMA PlanRows ==
  ASSUME TypeOK, JobInv, CompactPlan
  PROVE  /\ row' \in Seq(Row) /\ Len(row') = Len(row) /\ Segments' = Segments
         /\ \A s \in Segments : /\ SameCounts(row[s], row'[s]) /\ row'[s].closed = row[s].closed
                                /\ row'[s].archived = row[s].archived
                                /\ s \notin todo => row'[s] = row[s]
                                /\ row'[s] = row[s] \/ (s \in todo /\ row'[s].gc = "planned")
         /\ row' = row \/ ("gc" \in fresh /\ job' = "delete" /\ \A s \in todo : row'[s].gc = "planned")
<1>1. row \in Seq(Row) /\ Len(row) \in Nat /\ Segments = 1..Len(row) /\ \A s \in Segments : row[s] \in Row
  BY Typed
<1>2. CASE row' = row
  <2>1. Segments' = Segments
    BY <1>2 DEF Segments
  <2> QED
    BY <1>1, <1>2, <2>1 DEF SameCounts
<1>3. CASE row' # row
  <2>1. /\ "gc" \in fresh /\ job' = "delete"
        /\ row' = [s \in Segments |-> IF s \in todo THEN [row[s] EXCEPT !.gc = "planned"] ELSE row[s]]
    BY <1>3 DEF CompactPlan, PlanUnchanged
  <2>2. \A s \in todo : s \in Segments
    BY DEF JobInv, CompactPlan
  <2>3. ASSUME NEW s \in Segments
        PROVE  /\ row'[s] \in Row /\ SameCounts(row[s], row'[s]) /\ row'[s].closed = row[s].closed
               /\ row'[s].archived = row[s].archived
               /\ IF s \in todo THEN row'[s].gc = "planned" ELSE row'[s] = row[s]
    <3>1. row[s] \in Row /\ row'[s] = IF s \in todo THEN [row[s] EXCEPT !.gc = "planned"] ELSE row[s]
      BY <1>1, <2>1
    <3>2. CASE s \in todo
      <4> DEFINE q == [row[s] EXCEPT !.gc = "planned"]
      <4>1. q \in Row /\ SameCounts(row[s], q) /\ q.closed = row[s].closed
            /\ q.archived = row[s].archived /\ q.gc = "planned"
        BY <3>1, GivenUpRow
      <4>2. row'[s] = q
        BY <3>1, <3>2
      <4> HIDE DEF q
      <4> QED
        BY <3>2, <4>1, <4>2
    <3>3. CASE s \notin todo
      BY <3>1, <3>3 DEF SameCounts
    <3> QED
      BY <3>2, <3>3
  <2>4. DOMAIN row' = 1..Len(row)
    BY <1>1, <2>1
  <2>5. row' \in [1..Len(row) -> Row]
    BY <1>1, <2>1, <2>3
  <2>6. row' \in Seq(Row) /\ Len(row') = Len(row)
    BY <1>1, <2>5
  <2>7. Segments' = Segments
    BY <2>6 DEF Segments
  <2> QED
    BY <2>1, <2>2, <2>3, <2>6, <2>7
<1> QED
  BY <1>2, <1>3

LEMMA CompleteRows ==
  ASSUME TypeOK, ModeInv, Complete
  PROVE  /\ row' \in Seq(Row) /\ Len(row') = Len(row) /\ Segments' = Segments
         /\ FirstPlanned \in Segments /\ row[FirstPlanned].gc = "planned"
         /\ mode = "open" => job = "delete"
         /\ \A s \in Segments : /\ SameCounts(row[s], row'[s]) /\ row'[s].closed = row[s].closed
                                /\ row'[s].archived = row[s].archived
                                /\ s # FirstPlanned => row'[s] = row[s]
         /\ row'[FirstPlanned].gc = "complete"
<1>1. FirstPlanned \in Segments /\ row[FirstPlanned].gc = "planned" /\ (mode = "open" => job = "delete")
  BY DeletingIs DEF Complete
<1>2. row \in Seq(Row) /\ row[FirstPlanned] \in Row
  BY <1>1, Typed
<1> DEFINE q == [row[FirstPlanned] EXCEPT !.gc = "complete"]
<1>3. q \in Row /\ SameCounts(row[FirstPlanned], q) /\ q.closed = row[FirstPlanned].closed
      /\ q.archived = row[FirstPlanned].archived /\ q.gc = "complete"
  BY <1>2, GivenUpRow
<1>4. row' = [row EXCEPT ![FirstPlanned] = q]
  BY DEF Complete
<1> HIDE DEF q
<1>5. /\ row' \in Seq(Row) /\ Len(row') = Len(row) /\ Segments' = Segments
      /\ row'[FirstPlanned] = q
      /\ \A s \in Segments : s # FirstPlanned => row'[s] = row[s]
  BY <1>1, <1>2, <1>3, <1>4, OneRow
<1> QED
  BY <1>1, <1>3, <1>5 DEF SameCounts

-----------------------------------------------------------------------------
(* The inductive invariant is preserved, one part at a time. *)

LEMMA TotalStep == IInv /\ [Next]_vars => TotalInv'
<1> SUFFICES ASSUME IInv, [Next]_vars PROVE TotalInv'
  OBVIOUS
<1>1. TypeOK /\ ModeInv /\ FileInv /\ CurrentInv /\ JobInv /\ TotalInv
  BY DEF IInv
<1>2. row \in Seq(Row) /\ Len(row) \in Nat /\ Segments = 1..Len(row) /\ total \in Nat
  BY <1>1, Typed
<1> DEFINE Same == Len(row') = Len(row) /\ row' \in Seq(Row)
                   /\ \A s \in Segments : SameCounts(row[s], row'[s])
                                          /\ (row'[s].gc = "complete" <=> row[s].gc = "complete")
<1>3. ASSUME Same PROVE Bytes(row') = Bytes(row)
  <2>1. \A n \in 1..Len(row) : Weights(row')[n] = Weights(row)[n]
    BY <1>2, <1>3 DEF Weights, SameCounts
  <2> QED
    BY <1>2, <1>3, <2>1, BytesSame
<1>4. ASSUME row' = row, total' = total, mode' = mode PROVE TotalInv'
  BY <1>1, <1>4 DEF TotalInv, Bytes
<1>5. ASSUME Bytes(row') = Bytes(row), total' = total, mode' = mode PROVE TotalInv'
  BY <1>1, <1>5 DEF TotalInv
<1>6. CASE Write
  <2>1. Same
    BY <1>1, <1>6, WriteRows
  <2> QED
    BY <1>3, <1>5, <1>6, <2>1 DEF Write
<1>7. CASE CreateSegment
  <2>1. /\ row' \in Seq(Row) /\ mode = "open" /\ current \in Segments
        /\ Len(row') = IF current + 1 \in Segments THEN Len(row) ELSE Len(row) + 1
        /\ row'[current + 1] = FreshRow
        /\ \A s \in Segments : s # current + 1 => row'[s] = row[s]
        /\ current + 1 \in Segments => row[current + 1].gc = "complete"
    BY <1>1, <1>7, CreateRows
  <2>2. CASE current + 1 \in Segments
    <3>1. Bytes(row') = Bytes(row) - Weights(row)[current + 1] + Weights(row')[current + 1]
      BY <1>2, <2>1, <2>2, BytesChange
    <3>2. Weights(row)[current + 1] = 0 /\ Weights(row')[current + 1] = 0
      BY <1>2, <2>1, <2>2 DEF Weights, FreshRow
    <3>3. Bytes(row) \in Nat
      BY <1>2, BytesType
    <3>4. Bytes(row') = Bytes(row)
      BY <3>1, <3>2, <3>3
    <3> QED
      BY <1>5, <1>7, <3>4 DEF CreateSegment
  <2>3. CASE current + 1 \notin Segments
    <3>1. row' = Append(row, FreshRow)
      BY <1>2, <1>7, <2>1, <2>3 DEF CreateSegment, Saved
    <3>2. Bytes(row') = Bytes(row)
      <4>1. FreshRow.bytes = 0 /\ FreshRow \in Row
        BY FreshRowType DEF FreshRow
      <4> QED
        BY <1>2, <3>1, <4>1, BytesAppend
    <3> QED
      BY <1>5, <1>7, <3>2 DEF CreateSegment
  <2> QED
    BY <2>2, <2>3
<1>8. CASE CreateFails
  BY <1>4, <1>8 DEF CreateFails
<1>9. CASE AppendFrame
  <2>1. /\ row' \in Seq(Row) /\ Len(row') = Len(row)
        /\ \A s \in Segments : s # current => row'[s] = row[s]
        /\ row'[current].bytes = row[current].bytes + 1 /\ row'[current].gc = row[current].gc
    BY <1>1, <1>9, AppendRows
  <2>2. current \in Segments /\ row[current].gc = "hot" /\ mode = "open"
    BY <1>1, <1>9, WriterHas DEF AppendFrame
  <2>3. Bytes(row') = Bytes(row) - Weights(row)[current] + Weights(row')[current]
    BY <1>2, <2>1, <2>2, BytesChange
  <2>4. Weights(row)[current] = row[current].bytes /\ Weights(row')[current] = row[current].bytes + 1
    BY <1>2, <2>1, <2>2 DEF Weights
  <2>5. row[current].bytes \in Nat
    BY <1>1, <2>2, Typed DEF Row
  <2>6. Bytes(row) = total
    BY <1>1, <2>2 DEF TotalInv
  <2>7. Bytes(row') = total + 1
    BY <1>2, <2>3, <2>4, <2>5, <2>6
  <2> QED
    BY <1>9, <2>7 DEF TotalInv, AppendFrame
<1>10. CASE ArchiveRecord
  <2>1. Same
    BY <1>1, <1>10, ArchiveRows
  <2> QED
    BY <1>3, <1>5, <1>10, <2>1 DEF ArchiveRecord, writing
<1>11. CASE CompactPlan
  <2>1. Same
    <3>1. /\ row' \in Seq(Row) /\ Len(row') = Len(row)
          /\ \A s \in Segments : /\ SameCounts(row[s], row'[s])
                                 /\ row'[s] = row[s] \/ (s \in todo /\ row'[s].gc = "planned")
      BY <1>1, <1>11, PlanRows
    <3>2. \A s \in todo : row[s].gc = "hot"
      BY <1>1, <1>11 DEF JobInv, CompactPlan
    <3> QED
      BY <3>1, <3>2
  <2> QED
    BY <1>3, <1>5, <1>11, <2>1 DEF CompactPlan, writing
<1>12. ASSUME Maintenance, ~ArchiveRecord, ~CompactPlan PROVE TotalInv'
  BY <1>4, <1>12, MaintenanceLeaves DEF Maintenance, ArchiveStart, ArchiveCopy, CompactStart,
     CompactRead, CompactEvaluate, CompactEnd, durable
<1>13. CASE Unlink
  BY <1>4, <1>13 DEF Unlink
<1>14. CASE Complete
  <2> DEFINE s == FirstPlanned
  <2>1. /\ row' \in Seq(Row) /\ Len(row') = Len(row) /\ s \in Segments /\ row[s].gc = "planned"
        /\ \A n \in Segments : n # s => row'[n] = row[n]
        /\ row'[s].gc = "complete"
    BY <1>1, <1>14, CompleteRows
  <2>2. mode' = mode /\ total' = IF mode = "open" THEN total - row[s].bytes ELSE total
    BY <1>14 DEF Complete
  <2> HIDE DEF s
  <2>3. Bytes(row') = Bytes(row) - Weights(row)[s] + Weights(row')[s]
    BY <1>2, <2>1, BytesChange
  <2>4. Weights(row)[s] = row[s].bytes /\ Weights(row')[s] = 0
    BY <1>2, <2>1 DEF Weights
  <2>5. row[s].bytes \in Nat
    BY <1>1, <2>1, Typed DEF Row
  <2>6. mode = "open" => Bytes(row') = total - row[s].bytes
    BY <1>1, <1>2, <2>3, <2>4, <2>5 DEF TotalInv
  <2> QED
    BY <2>2, <2>6 DEF TotalInv
<1>15. CASE Clients
  BY <1>4, <1>15, ClientsLeave
<1>16. CASE Crash
  BY <1>16 DEF Crash, TotalInv
<1>17. CASE Start
  BY <1>17 DEF Start, TotalInv
<1>18. CASE Open
  BY <1>18 DEF Open, TotalInv
<1>19. CASE UNCHANGED vars
  BY <1>4, <1>19 DEF vars
<1> QED
  BY <1>6, <1>7, <1>8, <1>9, <1>10, <1>11, <1>12, <1>13, <1>14, <1>15, <1>16, <1>17, <1>18, <1>19
     DEF Next, Ingest, Deletion

\* Rows keep their shape, and no segment ever disappears.
LEMMA RowStep == IInv /\ [Next]_vars => row' \in Seq(Row) /\ Segments \subseteq Segments'
<1> SUFFICES ASSUME IInv, [Next]_vars PROVE row' \in Seq(Row) /\ Segments \subseteq Segments'
  OBVIOUS
<1>1. TypeOK /\ ModeInv /\ FileInv /\ CurrentInv /\ JobInv
  BY DEF IInv
<1>2. row \in Seq(Row) /\ Len(row) \in Nat /\ Segments = 1..Len(row)
  BY <1>1, Typed
<1>3. ASSUME row' = row PROVE row' \in Seq(Row) /\ Segments \subseteq Segments'
  BY <1>2, <1>3 DEF Segments
<1>4. CASE Ingest
  BY <1>1, <1>3, <1>4, WriteRows, CreateRows, AppendRows DEF Ingest, CreateFails
<1>5. CASE Maintenance
  <2>1. CASE ArchiveRecord \/ CompactPlan
    BY <1>1, <2>1, ArchiveRows, PlanRows
  <2>2. CASE ~(ArchiveRecord \/ CompactPlan)
    BY <1>3, <1>5, <2>2 DEF Maintenance, ArchiveStart, ArchiveCopy, CompactStart,
       CompactRead, CompactEvaluate, CompactEnd, durable
  <2> QED
    BY <2>1, <2>2
<1>6. CASE Deletion
  BY <1>1, <1>3, <1>6, CompleteRows DEF Deletion, Unlink
<1>7. CASE Clients
  BY <1>3, <1>7, ClientsLeave
<1>8. CASE Crash \/ Start \/ UNCHANGED vars
  BY <1>3, <1>8 DEF Crash, Start, durable, vars
<1>9. CASE Open
  <2>1. CASE Intact
    BY <1>1, <1>2, <1>9, <2>1, OpenIs DEF Segments
  <2>2. CASE ~Intact
    BY <1>3, <1>9, <2>2 DEF Open
  <2> QED
    BY <2>1, <2>2
<1> QED
  BY <1>4, <1>5, <1>6, <1>7, <1>8, <1>9 DEF Next

LEMMA TypeStep == IInv /\ [Next]_vars => TypeOK'
<1> SUFFICES ASSUME IInv, [Next]_vars PROVE TypeOK'
  OBVIOUS
<1>1. TypeOK /\ ModeInv /\ FileInv /\ CurrentInv /\ JobInv
  BY DEF IInv
<1>2. row' \in Seq(Row) /\ Segments \subseteq Segments'
  BY RowStep
<1>3. /\ Len(row) \in Nat /\ Segments = 1..Len(row) /\ todo \subseteq Nat /\ current \in Nat
      /\ total \in Nat /\ Len(frame) \in Nat
  BY <1>1, Typed
<1> DEFINE FileOK    == DOMAIN file \subseteq Nat /\ \A s \in DOMAIN file : file[s] \subseteq Nat
           ArchiveOK == DOMAIN archive \subseteq Nat /\ \A s \in DOMAIN archive : archive[s] \subseteq Nat
           FrameOK   == frame \in Seq([segment : Nat, end : Nat])
           TargetOK  == /\ target \in [Targets -> [status : Statuses, start : Nat] \cup {None}]
                        /\ observed \subseteq Targets
                        /\ checkpoint \in [Targets -> Nat] /\ known \in [Targets -> Nat]
                        /\ commit \in [target : Targets, sequence : Nat] \cup {None}
           PinOK     == /\ pin \in [Pins -> [from : Nat, through : Nat] \cup {None}]
                        /\ pinning \in [id : Pins, from : Nat, through : Nat, checked : BOOLEAN]
                                       \cup {None}
           ModeOK    == /\ mode \in {"down", "recovering", "open", "refused"}
                        /\ writer \in {"idle", "create", "append"} /\ poisoned \in BOOLEAN
                        /\ current \in Nat
           JobOK     == /\ job \in {"idle", "copy", "record", "settle", "evaluate", "plan", "delete"}
                        /\ todo \subseteq Nat /\ fresh \subseteq {"gc", "pin"}
<1>4. FileOK /\ ArchiveOK /\ FrameOK /\ TargetOK /\ PinOK /\ ModeOK /\ JobOK
  BY <1>1 DEF TypeOK
<1>5. ASSUME NEW f, DOMAIN f \subseteq Nat, \A s \in DOMAIN f : f[s] \subseteq Nat,
             NEW s \in Nat, NEW held \in SUBSET Nat
      PROVE  /\ DOMAIN With(f, s, held) \subseteq Nat
             /\ \A n \in DOMAIN With(f, s, held) : With(f, s, held)[n] \subseteq Nat
  BY <1>5 DEF With
<1>6. total' \in Nat
  <2>1. CASE mode' = "open"
    BY <1>2, <2>1, TotalStep, BytesType DEF TotalInv
  <2>2. CASE mode' # "open"
    <3>1. CASE Ingest \/ Maintenance \/ Clients \/ Unlink \/ Start \/ UNCHANGED vars
      <4>1. mode # "open" \/ total' = total
        BY <2>2, <3>1, IngestLeaves, MaintenanceLeaves, ClientsLeave DEF Unlink, Start, vars
      <4>2. Ingest => mode = "open"
        BY <1>1 DEF ModeInv, Ingest, Write, CreateSegment, CreateFails, AppendFrame
      <4>3. Ingest => mode' = mode
        BY IngestLeaves
      <4>4. total' = total
        BY <2>2, <3>1, <4>2, <4>3, MaintenanceLeaves, ClientsLeave DEF Unlink, Start, vars
      <4> QED
        BY <1>3, <4>4
    <3>2. CASE Complete
      BY <1>3, <2>2, <3>2 DEF Complete
    <3>3. CASE Crash \/ Open
      BY <1>3, <2>2, <3>3 DEF Crash, Open
    <3> QED
      BY <3>1, <3>2, <3>3 DEF Next, Deletion
  <2> QED
    BY <2>1, <2>2
<1>7. FileOK'
  <2>1. CASE CreateSegment \/ CreateFails \/ Crash
    <3>1. file' = file \/ file' = With(file, current + 1, {})
      BY <2>1 DEF CreateSegment, CreateFails, Crash
    <3>2. current + 1 \in Nat /\ {} \in SUBSET Nat
      BY <1>3
    <3> QED
      BY <1>4, <1>5, <3>1, <3>2
  <2>2. CASE AppendFrame
    <3>1. current \in DOMAIN file
      BY <1>1, <2>2, WriterHas DEF AppendFrame
    <3> DEFINE held == file[current] \cup {Len(frame) + 1}
    <3>2. file' = With(file, current, held)
      BY <2>2 DEF AppendFrame
    <3>3. held \in SUBSET Nat
      BY <1>3, <1>4, <3>1
    <3> HIDE DEF held
    <3> QED
      BY <1>3, <1>4, <1>5, <3>2, <3>3
  <2>3. CASE Unlink
    <3>1. file' = Without(file, FirstPlanned)
      BY <2>3 DEF Unlink
    <3> QED
      BY <1>4, <3>1 DEF Without
  <2>4. CASE Open
    <3>1. CASE Intact
      <4>1. (file' = file \/ file' = With(file, current', {})) /\ current' \in Segments'
        BY <1>1, <2>4, <3>1, OpenIs
      <4>2. current' \in Nat /\ {} \in SUBSET Nat
        BY <1>2, <4>1 DEF Segments
      <4> QED
        BY <1>4, <1>5, <4>1, <4>2
    <3>2. CASE ~Intact
      BY <1>4, <2>4, <3>2 DEF Open
    <3> QED
      BY <3>1, <3>2
  <2>5. CASE Write \/ Maintenance \/ Complete \/ Clients \/ Start \/ UNCHANGED vars
    <3>1. file' = file
      BY <2>5, MaintenanceLeaves, ClientsLeave DEF Write, Complete, Start, durable, vars
    <3> QED
      BY <1>4, <3>1
  <2> QED
    BY <2>1, <2>2, <2>3, <2>4, <2>5 DEF Next, Ingest, Deletion
<1>8. ArchiveOK'
  <2>1. CASE ArchiveCopy
    <3>1. job = "copy" /\ Lowest \in todo
      BY <1>1, <1>3, <2>1, LowestIs DEF ArchiveCopy, ModeInv
    <3>2. Lowest \in DOMAIN file /\ Lowest \in Nat
      BY <1>1, <1>3, <3>1 DEF JobInv, FileInv
    <3>3. archive' = archive \/ archive' = With(archive, Lowest, file[Lowest])
      BY <2>1 DEF ArchiveCopy
    <3> QED
      BY <1>4, <1>5, <3>2, <3>3
  <2>2. CASE ~ArchiveCopy
    <3>1. archive' = archive
      BY <2>2, IngestLeaves, DeletionLeaves, ClientsLeave DEF Next, Maintenance, ArchiveStart,
         ArchiveRecord, CompactStart, CompactRead, CompactEvaluate, CompactPlan, CompactEnd,
         Crash, Start, Open, durable, vars
    <3> QED
      BY <1>4, <3>1
  <2> QED
    BY <2>1, <2>2
<1>9. FrameOK'
  <2>1. CASE AppendFrame
    <3>1. frame' = Append(frame, [segment |-> current, end |-> row[current].bytes + 1])
      BY <2>1 DEF AppendFrame
    <3>2. row[current] \in Row
      BY <1>1, <2>1, WriterHas, Typed DEF AppendFrame
    <3>3. [segment |-> current, end |-> row[current].bytes + 1] \in [segment : Nat, end : Nat]
      BY <1>3, <3>2 DEF Row
    <3> QED
      BY <1>4, <3>1, <3>3
  <2>2. CASE ~AppendFrame
    <3>1. frame' = frame
      BY <2>2, MaintenanceLeaves, DeletionLeaves, ClientsLeave DEF Next, Ingest, Write,
         CreateSegment, CreateFails, Crash, Start, Open, durable, vars
    <3> QED
      BY <1>4, <3>1
  <2> QED
    BY <2>1, <2>2
<1>10. TargetOK'
  <2>1. CASE Clients
    <3>1. ASSUME NEW t \in Targets, RegisterTarget(t) \/ RetireTarget(t) \/ Observe(t) PROVE TargetOK'
      <4>1. CASE RegisterTarget(t)
        BY <1>3, <1>4, <4>1 DEF RegisterTarget, Statuses
      <4>2. CASE RetireTarget(t)
        BY <1>4, <4>2 DEF RetireTarget, Statuses
      <4>3. CASE Observe(t)
        BY <1>4, <4>3 DEF Observe
      <4> QED
        BY <3>1, <4>1, <4>2, <4>3
    <3>2. ASSUME NEW t \in Targets, NEW q \in 1..Len(frame), CommitTransaction(t, q) PROVE TargetOK'
      BY <1>3, <1>4, <3>2 DEF CommitTransaction, Statuses
    <3>3. CASE CommitRemembered
      BY <1>4, <3>3 DEF CommitRemembered, durable
    <3>4. ASSUME NEW p \in Pins, NEW from \in 1..Len(frame), NEW through \in 1..Len(frame),
                 PinRead(p, from, through)
          PROVE  TargetOK'
      BY <1>4, <3>4 DEF PinRead, durable
    <3>5. CASE PinCheck \/ PinTransaction
      BY <1>4, <3>5 DEF PinCheck, PinTransaction, durable
    <3>6. ASSUME NEW p \in Pins, ReleasePin(p) PROVE TargetOK'
      BY <1>4, <3>6 DEF ReleasePin
    <3> QED
      BY <2>1, <3>1, <3>2, <3>3, <3>4, <3>5, <3>6 DEF Clients
  <2>2. CASE Crash
    BY <1>4, <2>2 DEF Crash
  <2>3. CASE Open
    BY <1>4, <2>3 DEF Open
  <2>4. CASE Ingest \/ Maintenance \/ Deletion \/ Start \/ UNCHANGED vars
    BY <1>4, <2>4, IngestLeaves, MaintenanceLeaves, DeletionLeaves DEF Start, durable, vars
  <2> QED
    BY <2>1, <2>2, <2>3, <2>4 DEF Next
<1>11. PinOK'
  <2>1. CASE Clients
    <3>1. ASSUME NEW t \in Targets, RegisterTarget(t) \/ RetireTarget(t) \/ Observe(t) PROVE PinOK'
      BY <1>4, <3>1 DEF RegisterTarget, RetireTarget, Observe
    <3>2. ASSUME NEW t \in Targets, NEW q \in 1..Len(frame), CommitTransaction(t, q) PROVE PinOK'
      BY <1>4, <3>2 DEF CommitTransaction
    <3>3. CASE CommitRemembered
      BY <1>4, <3>3 DEF CommitRemembered, durable
    <3>4. ASSUME NEW p \in Pins, NEW from \in 1..Len(frame), NEW through \in 1..Len(frame),
                 PinRead(p, from, through)
          PROVE  PinOK'
      BY <1>3, <1>4, <3>4 DEF PinRead, durable
    <3>5. CASE PinCheck
      BY <1>4, <3>5 DEF PinCheck, durable
    <3>6. CASE PinTransaction
      <4>1. pinning \in [id : Pins, from : Nat, through : Nat, checked : BOOLEAN]
        BY <1>4, <3>6 DEF PinTransaction
      <4>2. [from |-> pinning.from, through |-> pinning.through] \in [from : Nat, through : Nat]
        BY <4>1
      <4>3. /\ pin' = pin \/ pin' = [pin EXCEPT ![pinning.id] =
                                     [from |-> pinning.from, through |-> pinning.through]]
            /\ pinning' = None
        BY <3>6 DEF PinTransaction
      <4> QED
        BY <1>4, <4>1, <4>2, <4>3
    <3>7. ASSUME NEW p \in Pins, ReleasePin(p) PROVE PinOK'
      BY <1>4, <3>7 DEF ReleasePin
    <3> QED
      BY <2>1, <3>1, <3>2, <3>3, <3>4, <3>5, <3>6, <3>7 DEF Clients
  <2>2. CASE ~Clients
    <3>1. pin' = pin /\ (pinning' = pinning \/ pinning' = None)
      BY <2>2, IngestLeaves, MaintenanceLeaves, DeletionLeaves DEF Next, Crash, Open, Start,
         durable, vars
    <3> QED
      BY <1>4, <3>1
  <2> QED
    BY <2>1, <2>2
<1>12. ModeOK'
  <2>1. CASE Ingest
    <3>1. /\ mode' = mode /\ writer' \in {"idle", "create", "append"}
          /\ poisoned' \in {poisoned, TRUE} /\ current' \in {current, current + 1}
      BY <2>1 DEF Ingest, Write, CreateSegment, CreateFails, AppendFrame
    <3>2. poisoned' \in BOOLEAN
      BY <1>4, <3>1, Zenon
    <3>3. current' \in Nat
      BY <1>3, <3>1
    <3> QED
      BY <1>4, <3>1, <3>2, <3>3, Zenon
  <2>2. CASE Maintenance \/ Deletion \/ Clients \/ Start \/ UNCHANGED vars
    BY <1>4, <2>2, MaintenanceLeaves, DeletionLeaves, ClientsLeave DEF Start, writing, vars
  <2>3. CASE Crash
    BY <2>3 DEF Crash
  <2>4. CASE Open
    <3>1. CASE Intact
      BY <1>1, <1>2, <1>4, <2>4, <3>1, OpenIs DEF Open, Segments
    <3>2. CASE ~Intact
      BY <1>4, <2>4, <3>2 DEF Open
    <3> QED
      BY <3>1, <3>2
  <2> QED
    BY <2>1, <2>2, <2>3, <2>4 DEF Next
<1>13. JobOK'
  <2>1. CASE Ingest \/ Deletion \/ Start \/ UNCHANGED vars
    BY <1>4, <2>1, IngestLeaves, DeletionLeaves DEF Start, upkeep, vars
  <2>2. CASE Maintenance
    BY <1>3, <1>4, <2>2 DEF Maintenance, ArchiveStart, ArchiveCopy, ArchiveRecord, CompactStart,
       CompactRead, CompactEvaluate, CompactPlan, CompactEnd, Unarchived, Eligible
  <2>3. CASE Clients
    BY <1>4, <2>3 DEF Clients, RegisterTarget, RetireTarget, Observe, CommitTransaction,
       CommitRemembered, PinRead, PinCheck, PinTransaction, ReleasePin, Revised, upkeep
  <2>4. CASE Crash \/ Open
    BY <1>4, <2>4 DEF Crash, Open, upkeep
  <2> QED
    BY <2>1, <2>2, <2>3, <2>4 DEF Next
<1> HIDE DEF FileOK, ArchiveOK, FrameOK, TargetOK, PinOK, ModeOK, JobOK
<1> QED
  BY <1>2, <1>6, <1>7, <1>8, <1>9, <1>10, <1>11, <1>12, <1>13
     DEF TypeOK, FileOK, ArchiveOK, FrameOK, TargetOK, PinOK, ModeOK, JobOK, Row

LEMMA ModeStep == IInv /\ [Next]_vars => ModeInv'
<1> SUFFICES ASSUME IInv, [Next]_vars PROVE ModeInv'
  OBVIOUS
<1>1. TypeOK /\ ModeInv /\ FileInv /\ CurrentInv /\ JobInv
  BY DEF IInv
<1>2. /\ Len(row) \in Nat /\ Segments = 1..Len(row) /\ todo \subseteq Nat
      /\ mode \in {"down", "recovering", "open", "refused"}
  BY <1>1, Typed
<1>3. ASSUME Segments' = Segments, \A s \in Segments : row'[s].gc = row[s].gc
      PROVE  Planned' = Planned
  BY <1>3 DEF Planned
<1>4. ASSUME row' = row
      PROVE  Planned' = Planned
  BY <1>4 DEF Planned, Segments
<1>5. ASSUME Planned' = Planned, UNCHANGED <<mode, writing, job, todo, commit, pinning>>
      PROVE  ModeInv'
  BY <1>1, <1>5 DEF ModeInv, writing
<1>6. CASE Ingest
  <2>1. mode = "open" /\ mode' = mode /\ job' = job /\ todo' = todo
    BY <1>1, <1>6, IngestLeaves DEF Ingest, ModeInv, Write, CreateSegment, CreateFails, AppendFrame,
       upkeep
  <2>2. writer' # "idle" => ~poisoned'
    BY <1>1, <1>6 DEF Ingest, ModeInv, Write, CreateSegment, CreateFails, AppendFrame
  <2>3. Planned' \subseteq Planned
    <3>1. CASE Write
      <4>1. Segments' = Segments /\ \A s \in Segments : row'[s].gc = row[s].gc
        BY <1>1, <3>1, WriteRows
      <4> QED
        BY <1>3, <4>1
    <3>2. CASE CreateSegment
      <4>1. /\ Segments' = Segments \cup {current + 1} /\ row'[current + 1] = FreshRow
            /\ \A s \in Segments : s # current + 1 => row'[s] = row[s]
        BY <1>1, <3>2, CreateRows
      <4>2. FreshRow.gc = "hot"
        BY DEF FreshRow
      <4> QED
        BY <4>1, <4>2 DEF Planned
    <3>3. CASE CreateFails
      BY <1>4, <3>3 DEF CreateFails
    <3>4. CASE AppendFrame
      <4>1. Segments' = Segments /\ \A s \in Segments : row'[s].gc = row[s].gc
        BY <1>1, <3>4, AppendRows
      <4> QED
        BY <1>3, <4>1
    <3> QED
      BY <1>6, <3>1, <3>2, <3>3, <3>4 DEF Ingest
  <2> QED
    BY <1>1, <2>1, <2>2, <2>3 DEF ModeInv
<1>7. CASE Maintenance
  <2>1. mode = "open" /\ UNCHANGED <<mode, writing, commit, pinning>>
    BY <1>1, <1>7, MaintenanceLeaves DEF Maintenance, ModeInv, ArchiveStart, ArchiveCopy,
       ArchiveRecord, CompactStart, CompactRead, CompactEvaluate, CompactPlan, CompactEnd
  <2>2. /\ job' \notin {"copy", "record", "plan"} => todo' = {}
        /\ job' \in {"copy", "record"} => todo' # {}
    BY <1>1, <1>7 DEF Maintenance, ModeInv, ArchiveStart, ArchiveCopy,
       ArchiveRecord, CompactStart, CompactRead, CompactEvaluate, CompactPlan, CompactEnd
  <2>3. job' # "delete" => Planned' = {}
    <3>1. CASE CompactPlan
      <4>1. job = "plan" /\ Planned = {}
        BY <1>1, <2>1, <3>1 DEF CompactPlan, ModeInv
      <4>2. row' = row \/ job' = "delete"
        BY <3>1 DEF CompactPlan
      <4> QED
        BY <1>4, <4>1, <4>2
    <3>2. CASE ArchiveRecord
      <4>1. job # "delete" /\ Segments' = Segments /\ \A s \in Segments : row'[s].gc = row[s].gc
        BY <1>1, <3>2, ArchiveRows DEF ArchiveRecord
      <4>2. Planned = {}
        BY <1>1, <2>1, <4>1 DEF ModeInv
      <4> QED
        BY <1>3, <4>1, <4>2
    <3>3. CASE ~(CompactPlan \/ ArchiveRecord)
      <4>1. row' = row /\ (job' # "delete" => job # "delete" \/ Planned = {})
        BY <1>7, <3>3 DEF Maintenance, ArchiveStart, ArchiveCopy, CompactStart, CompactRead,
           CompactEvaluate, CompactEnd, durable
      <4> QED
        BY <1>1, <1>4, <2>1, <4>1 DEF ModeInv
    <3> QED
      BY <3>1, <3>2, <3>3
  <2> QED
    BY <1>1, <2>1, <2>2, <2>3 DEF ModeInv, writing
<1>8. CASE Unlink
  BY <1>4, <1>5, <1>8 DEF Unlink, upkeep
<1>9. CASE Complete
  <2>1. /\ Segments' = Segments /\ FirstPlanned \in Segments
        /\ mode = "open" => job = "delete"
    BY <1>1, <1>9, CompleteRows
  <2>2. UNCHANGED <<mode, writing, job, todo, commit, pinning>>
    BY <1>9 DEF Complete, upkeep
  <2> QED
    BY <1>1, <2>1, <2>2 DEF ModeInv, writing
<1>10. CASE Clients
  <2>1. UNCHANGED <<row, mode, writing, job, todo>>
    BY <1>10, ClientsLeave DEF upkeep
  <2>2. mode = "open"
    BY <1>1, <1>10 DEF Clients, ModeInv, RegisterTarget, RetireTarget, Observe, CommitTransaction,
       CommitRemembered, PinRead, PinCheck, PinTransaction, ReleasePin
  <2> QED
    BY <1>1, <1>4, <2>1, <2>2 DEF ModeInv, writing
<1>11. CASE Crash
  BY <1>11 DEF Crash, ModeInv
<1>12. CASE Start
  BY <1>1, <1>4, <1>12 DEF Start, ModeInv, durable, writing, upkeep
<1>13. CASE Open
  <2>1. mode = "recovering" /\ Planned = {} /\ UNCHANGED <<writer, poisoned, job, todo, commit, pinning>>
    BY <1>13 DEF Open, upkeep
  <2>2. writer = "idle" /\ ~poisoned /\ job = "idle" /\ commit = None /\ pinning = None
    BY <1>1, <2>1 DEF ModeInv
  <2>3. mode' = "open" => Planned' = {}
    <3>1. CASE Intact
      <4>1. /\ \A s \in Segments : s # current' =>
                 row'[s] = IF s \in DOMAIN file /\ s # Newest
                           THEN [row[s] EXCEPT !.closed = TRUE] ELSE row[s]
            /\ \A s \in Segments' : s \notin Segments => row'[s] = FreshRow
            /\ current' \in Segments => row'[current'] = row[current'] \/ row'[current'] = FreshRow
        BY <1>1, <1>13, <3>1, OpenIs
      <4>2. ASSUME NEW s \in Segments', row'[s].gc = "planned" PROVE FALSE
        <5>1. FreshRow.gc = "hot"
          BY DEF FreshRow
        <5>2. s \in Segments /\ row'[s] # FreshRow
          BY <4>1, <4>2, <5>1
        <5>3. row[s] \in Row
          BY <1>1, <5>2, Typed
        <5>4. [row[s] EXCEPT !.closed = TRUE].gc = row[s].gc
          BY <5>3 DEF Row
        <5>5. row[s].gc = "planned"
          BY <4>1, <4>2, <5>2, <5>4
        <5> QED
          BY <2>1, <5>2, <5>5 DEF Planned
      <4> QED
        BY <4>2 DEF Planned
    <3>2. CASE ~Intact
      BY <1>13, <3>2 DEF Open
    <3> QED
      BY <3>1, <3>2
  <2> QED
    BY <1>1, <2>1, <2>2, <2>3 DEF ModeInv
<1>14. CASE UNCHANGED vars
  BY <1>4, <1>5, <1>14 DEF vars, writing, upkeep
<1> QED
  BY <1>6, <1>7, <1>8, <1>9, <1>10, <1>11, <1>12, <1>13, <1>14 DEF Next, Deletion

LEMMA KnownStep == IInv /\ [Next]_vars => KnownInv'
<1> SUFFICES ASSUME IInv, [Next]_vars PROVE KnownInv'
  OBVIOUS
<1>1. TypeOK /\ ModeInv /\ KnownInv
  BY DEF IInv
<1>2. /\ checkpoint \in [Targets -> Nat] /\ known \in [Targets -> Nat]
      /\ commit \in [target : Targets, sequence : Nat] \cup {None} /\ Len(frame) \in Nat
  BY <1>1 DEF TypeOK
<1>3. ASSUME UNCHANGED <<mode, known, checkpoint, commit>> PROVE KnownInv'
  BY <1>1, <1>3 DEF KnownInv
<1>4. ASSUME NEW t \in Targets, NEW q \in 1..Len(frame), CommitTransaction(t, q) PROVE KnownInv'
  <2>1. /\ mode = "open" /\ commit = None /\ q > known[t] /\ mode' = mode /\ known' = known
        /\ checkpoint' = [checkpoint EXCEPT ![t] = q]
        /\ commit' = [target |-> t, sequence |-> q]
    BY <1>4 DEF CommitTransaction, Later
  <2>2. commit' # None
    BY <1>2, <2>1, NoneAssumption
  <2> QED
    BY <1>1, <1>2, <2>1, <2>2 DEF KnownInv
<1>5. CASE CommitRemembered
  <2>1. /\ commit \in [target : Targets, sequence : Nat] /\ mode = "open"
        /\ mode' = mode /\ checkpoint' = checkpoint /\ commit' = None
        /\ known' = [known EXCEPT ![commit.target] = commit.sequence]
    BY <1>1, <1>2, <1>5 DEF CommitRemembered, ModeInv, durable
  <2> QED
    BY <1>1, <1>2, <1>5, <2>1 DEF KnownInv, CommitRemembered
<1>6. CASE Clients
  <2>1. ASSUME NEW t \in Targets, RegisterTarget(t) \/ RetireTarget(t) \/ Observe(t) PROVE KnownInv'
    BY <1>3, <2>1 DEF RegisterTarget, RetireTarget, Observe
  <2>2. ASSUME NEW p \in Pins, NEW from \in 1..Len(frame), NEW through \in 1..Len(frame),
               PinRead(p, from, through)
        PROVE  KnownInv'
    BY <1>3, <2>2 DEF PinRead, durable
  <2>3. CASE PinCheck \/ PinTransaction
    BY <1>3, <2>3 DEF PinCheck, PinTransaction, durable
  <2>4. ASSUME NEW p \in Pins, ReleasePin(p) PROVE KnownInv'
    BY <1>3, <2>4 DEF ReleasePin
  <2> QED
    BY <1>4, <1>5, <1>6, <2>1, <2>2, <2>3, <2>4 DEF Clients
<1>7. CASE Ingest \/ Maintenance \/ Deletion \/ UNCHANGED vars
  BY <1>3, <1>7, IngestLeaves, MaintenanceLeaves, DeletionLeaves DEF vars
<1>8. CASE Crash \/ Start
  BY <1>8 DEF Crash, Start, KnownInv
<1>9. CASE Open
  <2>1. commit = None /\ commit' = None /\ checkpoint' = checkpoint
        /\ (mode' = "open" => known' = checkpoint)
    BY <1>1, <1>9 DEF Open, ModeInv
  <2> QED
    BY <2>1 DEF KnownInv
<1> QED
  BY <1>6, <1>7, <1>8, <1>9 DEF Next

LEMMA FileStep == IInv /\ [Next]_vars => FileInv'
<1> SUFFICES ASSUME IInv, [Next]_vars PROVE FileInv'
  OBVIOUS
<1>1. TypeOK /\ ModeInv /\ FileInv /\ CurrentInv /\ JobInv
  BY DEF IInv
<1>2. Len(row) \in Nat /\ Segments = 1..Len(row) /\ \A s \in Segments : row[s] \in Row
  BY <1>1, Typed
<1>3. ASSUME row' = row, DOMAIN file \subseteq DOMAIN file', DOMAIN file' \subseteq 1..(Len(row) + 1)
      PROVE  FileInv'
  BY <1>1, <1>3 DEF FileInv, Segments
<1>4. ASSUME row' = row, file' = file PROVE FileInv'
  BY <1>1, <1>4 DEF FileInv, Segments
<1>5. CASE Ingest
  <2>1. CASE Write
    <3>1. /\ Len(row') = Len(row) /\ Segments' = Segments
          /\ \A s \in Segments : /\ row'[s].archived = row[s].archived /\ row'[s].gc = row[s].gc
                                 /\ row[s].closed => row'[s].closed
      BY <1>1, <2>1, WriteRows
    <3> QED
      BY <1>1, <2>1, <3>1 DEF FileInv, Write
  <2>2. CASE CreateSegment
    <3>1. /\ current \in Segments /\ Len(row') \in {Len(row), Len(row) + 1}
          /\ Segments' = Segments \cup {current + 1} /\ row'[current + 1] = FreshRow
          /\ \A s \in Segments : s # current + 1 => row'[s] = row[s]
          /\ Len(row') >= current + 1
      BY <1>1, <1>2, <2>2, CreateRows
    <3>2. DOMAIN file' = DOMAIN file \cup {current + 1}
      BY <2>2, WithIs DEF CreateSegment
    <3>3. FreshRow.gc = "hot" /\ ~FreshRow.archived
      BY DEF FreshRow
    <3>4. DOMAIN file' \subseteq 1..(Len(row') + 1)
      BY <1>1, <1>2, <3>1, <3>2 DEF FileInv
    <3>5. ASSUME NEW s \in Segments'
          PROVE  /\ row'[s].gc = "hot" => s \in DOMAIN file'
                 /\ row'[s].gc # "hot" => row'[s].closed /\ row'[s].archived
                 /\ row'[s].archived => row'[s].closed
      <4>1. CASE s = current + 1
        BY <3>1, <3>2, <3>3, <4>1
      <4>2. CASE s # current + 1
        BY <1>1, <3>1, <3>2, <4>2 DEF FileInv
      <4> QED
        BY <4>1, <4>2
    <3> QED
      BY <3>4, <3>5 DEF FileInv
  <2>3. CASE CreateFails
    <3>1. current \in Segments
      BY <1>1, <2>3 DEF CreateFails, ModeInv, CurrentInv
    <3>2. DOMAIN file' \in {DOMAIN file, DOMAIN file \cup {current + 1}}
      BY <2>3, WithIs DEF CreateFails
    <3>3. current + 1 \in 1..(Len(row) + 1)
      BY <1>2, <3>1
    <3>4. DOMAIN file \subseteq 1..(Len(row) + 1)
      BY <1>1 DEF FileInv
    <3>5. DOMAIN file \subseteq DOMAIN file' /\ DOMAIN file' \subseteq 1..(Len(row) + 1)
      BY <3>2, <3>3, <3>4
    <3>6. row' = row
      BY <2>3 DEF CreateFails
    <3> QED
      BY <1>3, <3>5, <3>6
  <2>4. CASE AppendFrame
    <3>1. current \in DOMAIN file
      BY <1>1, <2>4, WriterHas DEF AppendFrame
    <3>2. DOMAIN file' = DOMAIN file
      <4>1. file' = With(file, current, file[current] \cup {Len(frame) + 1})
        BY <2>4 DEF AppendFrame
      <4>2. DOMAIN file' = DOMAIN file \cup {current}
        BY <4>1, WithIs
      <4> QED
        BY <3>1, <4>2
    <3>3. /\ Len(row') = Len(row) /\ Segments' = Segments
          /\ \A s \in Segments : /\ row'[s].archived = row[s].archived /\ row'[s].gc = row[s].gc
                                 /\ row'[s].closed = row[s].closed
      BY <1>1, <2>4, AppendRows
    <3> QED
      BY <1>1, <3>2, <3>3 DEF FileInv
  <2> QED
    BY <1>5, <2>1, <2>2, <2>3, <2>4 DEF Ingest
<1>6. CASE Maintenance
  <2>1. file' = file
    BY <1>6, MaintenanceLeaves
  <2>2. CASE ArchiveRecord
    <3>1. /\ Len(row') = Len(row) /\ Segments' = Segments
          /\ Lowest \in Segments /\ row[Lowest].closed /\ row[Lowest].gc = "hot"
          /\ \A s \in Segments : /\ row'[s].closed = row[s].closed /\ row'[s].gc = row[s].gc
                                 /\ s # Lowest => row'[s] = row[s]
      BY <1>1, <2>2, ArchiveRows
    <3> QED
      BY <1>1, <2>1, <3>1 DEF FileInv
  <2>3. CASE CompactPlan
    <3>1. /\ Len(row') = Len(row) /\ Segments' = Segments
          /\ \A s \in Segments : /\ row'[s].closed = row[s].closed
                                 /\ row'[s].archived = row[s].archived
                                 /\ row'[s] = row[s] \/ (s \in todo /\ row'[s].gc = "planned")
      BY <1>1, <2>3, PlanRows
    <3>2. \A s \in todo : row[s].closed /\ row[s].archived
      BY <1>1, <2>3 DEF JobInv, CompactPlan
    <3> QED
      BY <1>1, <2>1, <3>1, <3>2 DEF FileInv
  <2>4. CASE ~(ArchiveRecord \/ CompactPlan)
    BY <1>4, <1>6, <2>1, <2>4 DEF Maintenance, ArchiveStart, ArchiveCopy, CompactStart,
       CompactRead, CompactEvaluate, CompactEnd, durable
  <2> QED
    BY <2>2, <2>3, <2>4
<1>7. CASE Unlink
  <2>1. row' = row /\ DOMAIN file' = DOMAIN file \ {FirstPlanned}
    BY <1>7, WithoutIs DEF Unlink
  <2>2. row[FirstPlanned].gc = "planned"
    BY <1>1, <1>7, DeletingIs DEF Unlink
  <2> QED
    BY <1>1, <2>1, <2>2 DEF FileInv, Segments
<1>8. CASE Complete
  <2>1. /\ Len(row') = Len(row) /\ Segments' = Segments
        /\ FirstPlanned \in Segments /\ row[FirstPlanned].gc = "planned"
        /\ \A s \in Segments : /\ row'[s].closed = row[s].closed
                               /\ row'[s].archived = row[s].archived
                               /\ s # FirstPlanned => row'[s] = row[s]
        /\ row'[FirstPlanned].gc = "complete"
    BY <1>1, <1>8, CompleteRows
  <2>2. file' = file
    BY <1>8 DEF Complete
  <2>3. "planned" # "hot" /\ "complete" # "hot"
    OBVIOUS
  <2> QED
    BY <1>1, <2>1, <2>2, <2>3 DEF FileInv
<1>9. CASE Clients \/ Start \/ UNCHANGED vars
  BY <1>4, <1>9, ClientsLeave DEF Start, durable, vars
<1>10. CASE Crash
  <2>1. CASE file' = file
    BY <1>4, <1>10, <2>1 DEF Crash
  <2>2. CASE writer = "create" /\ file' = With(file, current + 1, {})
    <3>1. current \in Segments
      BY <1>1, <2>2 DEF ModeInv, CurrentInv
    <3>2. DOMAIN file' = DOMAIN file \cup {current + 1}
      BY <2>2, WithIs
    <3>3. current + 1 \in 1..(Len(row) + 1)
      BY <1>2, <3>1
    <3>4. DOMAIN file \subseteq 1..(Len(row) + 1)
      BY <1>1 DEF FileInv
    <3>5. row' = row
      BY <1>10 DEF Crash
    <3> QED
      BY <1>3, <3>2, <3>3, <3>4, <3>5
  <2> QED
    BY <1>10, <2>1, <2>2 DEF Crash
<1>11. CASE Open
  <2>1. CASE Intact
    <3>1. /\ current' \in Segments' /\ Len(row') \in {Len(row), Len(row) + 1}
          /\ file' = file \/ file' = With(file, current', {})
          /\ current' \in DOMAIN file'
          /\ \A s \in Segments : s # current' =>
               row'[s] = IF s \in DOMAIN file /\ s # Newest
                         THEN [row[s] EXCEPT !.closed = TRUE] ELSE row[s]
          /\ \A s \in Segments' : s \notin Segments => row'[s] = FreshRow
          /\ current' \in Segments => row'[current'] = row[current'] \/ row'[current'] = FreshRow
          /\ Len(row') > Len(row) => current' = Len(row')
      BY <1>1, <1>11, <2>1, OpenIs
    <3>2. FreshRow.gc = "hot" /\ ~FreshRow.archived
      BY DEF FreshRow
    <3>3. DOMAIN file' \in {DOMAIN file, DOMAIN file \cup {current'}}
      <4>1. DOMAIN With(file, current', {}) = DOMAIN file \cup {current'}
        BY WithIs
      <4> QED
        BY <3>1, <4>1
    <3>4. DOMAIN file' \subseteq 1..(Len(row') + 1)
      <4>1. Segments' = 1..Len(row')
        BY DEF Segments
      <4> QED
        BY <1>1, <1>2, <3>1, <3>3, <4>1 DEF FileInv
    <3>5. ASSUME NEW s \in Segments'
          PROVE  /\ row'[s].gc = "hot" => s \in DOMAIN file'
                 /\ row'[s].gc # "hot" => row'[s].closed /\ row'[s].archived
                 /\ row'[s].archived => row'[s].closed
      <4>1. CASE row'[s] = FreshRow
        <5>1. s = current' \/ s \in Segments
          <6>1. Segments' = 1..Len(row')
            BY DEF Segments
          <6> QED
            BY <1>2, <3>1, <6>1
        <5>2. CASE s = current'
          BY <3>1, <3>2, <4>1, <5>2
        <5>3. CASE s \in Segments /\ s # current'
          <6>1. row[s] \in Row /\ [row[s] EXCEPT !.closed = TRUE].gc = row[s].gc
            BY <1>2, <5>3 DEF Row
          <6>2. row[s].gc = "hot"
            BY <3>1, <3>2, <4>1, <5>3, <6>1
          <6> QED
            BY <1>1, <3>2, <3>3, <4>1, <5>3, <6>2 DEF FileInv
        <5> QED
          BY <5>1, <5>2, <5>3
      <4>2. CASE row'[s] # FreshRow
        <5>1. s \in Segments
          BY <3>1, <4>2
        <5>2. row[s] \in Row
          BY <1>2, <5>1
        <5> DEFINE q == [row[s] EXCEPT !.closed = TRUE]
        <5>3. q.closed /\ q.archived = row[s].archived /\ q.gc = row[s].gc
          BY <5>2 DEF Row
        <5>4. row'[s] = q \/ row'[s] = row[s]
          BY <3>1, <4>2, <5>1
        <5> HIDE DEF q
        <5> QED
          BY <1>1, <3>3, <5>1, <5>3, <5>4 DEF FileInv
      <4> QED
        BY <4>1, <4>2
    <3> QED
      BY <3>4, <3>5 DEF FileInv
  <2>2. CASE ~Intact
    BY <1>4, <1>11, <2>2 DEF Open
  <2> QED
    BY <2>1, <2>2
<1> QED
  BY <1>5, <1>6, <1>7, <1>8, <1>9, <1>10, <1>11 DEF Next, Deletion

LEMMA CurrentStep == IInv /\ [Next]_vars => CurrentInv'
<1> SUFFICES ASSUME IInv, [Next]_vars PROVE CurrentInv'
  OBVIOUS
<1>1. TypeOK /\ ModeInv /\ FileInv /\ CurrentInv /\ JobInv
  BY DEF IInv
<1>2. Len(row) \in Nat /\ Segments = 1..Len(row) /\ \A s \in Segments : row[s] \in Row
  BY <1>1, Typed
<1>3. ASSUME UNCHANGED <<row, mode, writer, poisoned, current>> PROVE CurrentInv'
  BY <1>1, <1>3 DEF CurrentInv, Segments
<1>4. ASSUME Segments' = Segments, UNCHANGED <<mode, writer, poisoned, current>>,
             \A s \in Segments : /\ row'[s].closed = row[s].closed
                                 /\ row[s].gc = "complete" => row'[s].gc = "complete"
      PROVE  CurrentInv'
  BY <1>1, <1>4 DEF CurrentInv
<1>5. CASE Write
  <2>1. /\ mode = "open" /\ ~poisoned /\ current \in Segments
    BY <1>1, <1>5, WriterHas DEF Write
  <2>2. /\ Segments' = Segments /\ \A s \in Segments : row'[s].gc = row[s].gc
        /\ row'[current].closed <=> writer' = "create"
    BY <1>1, <1>5, WriteRows
  <2>3. mode' = mode /\ current' = current
    BY <1>5 DEF Write
  <2> QED
    BY <1>1, <2>1, <2>2, <2>3 DEF CurrentInv
<1>6. CASE CreateSegment
  <2>1. /\ mode = "open" /\ current \in Segments
        /\ Segments' = Segments \cup {current + 1} /\ row'[current + 1] = FreshRow
        /\ \A s \in Segments : s # current + 1 => row'[s] = row[s]
    BY <1>1, <1>6, CreateRows
  <2>2. current' = current + 1 /\ writer' = "append" /\ mode' = mode
    BY <1>6 DEF CreateSegment
  <2>3. ASSUME NEW s \in Segments', s > current + 1 PROVE row'[s].gc = "complete"
    <3>1. s \in Segments /\ s > current /\ s # current + 1
      BY <1>2, <2>1, <2>3
    <3> QED
      BY <1>1, <2>1, <3>1 DEF CurrentInv
  <2>4. ~row'[current'].closed
    BY <2>1, <2>2 DEF FreshRow
  <2> QED
    BY <2>1, <2>2, <2>3, <2>4 DEF CurrentInv
<1>7. CASE CreateFails
  BY <1>1, <1>7 DEF CreateFails, CurrentInv, Segments
<1>8. CASE AppendFrame
  <2>1. mode = "open" /\ current \in Segments /\ ~row[current].closed
    BY <1>1, <1>8, WriterHas DEF AppendFrame
  <2>2. /\ Segments' = Segments /\ \A s \in Segments : s # current => row'[s] = row[s]
        /\ row'[current].closed = row[current].closed
    BY <1>1, <1>8, AppendRows
  <2>3. current' = current /\ writer' = "idle" /\ mode' = mode
    BY <1>8 DEF AppendFrame
  <2>4. ASSUME NEW s \in Segments, s > current PROVE row'[s].gc = "complete"
    <3>1. s # current
      BY <1>2, <2>1, <2>4
    <3> QED
      BY <1>1, <2>1, <2>2, <2>4, <3>1 DEF CurrentInv
  <2> QED
    BY <2>1, <2>2, <2>3, <2>4 DEF CurrentInv
<1>9. CASE Maintenance
  <2>1. UNCHANGED <<mode, writer, poisoned, current>>
    BY <1>9, MaintenanceLeaves DEF writing
  <2>2. CASE ArchiveRecord
    BY <1>1, <1>4, <2>1, <2>2, ArchiveRows
  <2>3. CASE CompactPlan
    <3>1. /\ Segments' = Segments
          /\ \A s \in Segments : /\ row'[s].closed = row[s].closed
                                 /\ row'[s] = row[s] \/ (s \in todo /\ row'[s].gc = "planned")
      BY <1>1, <2>3, PlanRows
    <3>2. \A s \in todo : row[s].gc = "hot"
      BY <1>1, <2>3 DEF JobInv, CompactPlan
    <3>3. \A s \in Segments : row[s].gc = "complete" => row'[s].gc = "complete"
      BY <3>1, <3>2
    <3> QED
      BY <1>4, <2>1, <3>1, <3>3
  <2>4. CASE ~(ArchiveRecord \/ CompactPlan)
    BY <1>3, <1>9, <2>1, <2>4 DEF Maintenance, ArchiveStart, ArchiveCopy, CompactStart,
       CompactRead, CompactEvaluate, CompactEnd, durable
  <2> QED
    BY <2>2, <2>3, <2>4
<1>10. CASE Unlink
  BY <1>3, <1>10 DEF Unlink, writing
<1>11. CASE Complete
  <2>1. /\ Segments' = Segments
        /\ \A s \in Segments : /\ row'[s].closed = row[s].closed
                               /\ s # FirstPlanned => row'[s] = row[s]
        /\ row'[FirstPlanned].gc = "complete"
    BY <1>1, <1>11, CompleteRows
  <2>2. \A s \in Segments : row[s].gc = "complete" => row'[s].gc = "complete"
    BY <2>1
  <2> QED
    BY <1>4, <1>11, <2>1, <2>2 DEF Complete, writing
<1>12. CASE Clients \/ UNCHANGED vars
  BY <1>3, <1>12, ClientsLeave DEF writing, vars
<1>13. CASE Crash \/ Start
  BY <1>13 DEF Crash, Start, CurrentInv
<1>14. CASE Open
  <2>1. CASE Intact
    <3>1. /\ current' \in Segments' /\ Len(row') \in {Len(row), Len(row) + 1}
          /\ ~row'[current'].closed
          /\ \A s \in Segments : s # current' =>
               row'[s] = IF s \in DOMAIN file /\ s # Newest
                         THEN [row[s] EXCEPT !.closed = TRUE] ELSE row[s]
          /\ \A s \in Segments : s > current' => s \notin DOMAIN file
          /\ Len(row') > Len(row) => current' = Len(row')
      BY <1>1, <1>14, <2>1, OpenIs
    <3>2. writer' = "idle"
      BY <1>1, <1>14 DEF Open, ModeInv
    <3>3. Segments' = 1..Len(row')
      BY DEF Segments
    <3>4. ASSUME NEW s \in Segments', s > current' PROVE row'[s].gc = "complete"
      <4>1. s \in Segments /\ s # current'
        BY <1>2, <3>1, <3>3, <3>4
      <4>2. s \notin DOMAIN file /\ row'[s] = row[s]
        BY <3>1, <3>4, <4>1
      <4>3. row[s].gc # "hot" /\ row[s].gc # "planned"
        BY <1>1, <1>14, <4>1, <4>2 DEF FileInv, Open, Planned
      <4> QED
        BY <1>2, <4>1, <4>2, <4>3 DEF Row
    <3> QED
      BY <3>1, <3>2, <3>4 DEF CurrentInv
  <2>2. CASE ~Intact
    BY <1>14, <2>2 DEF Open, CurrentInv
  <2> QED
    BY <2>1, <2>2
<1> QED
  BY <1>5, <1>6, <1>7, <1>8, <1>9, <1>10, <1>11, <1>12, <1>13, <1>14 DEF Next, Ingest, Deletion

\* A segment that is safe to delete stays safe as long as nobody revises what
\* protects it: targets, pins and readers are as they were, and commits only
\* move on.
LEMMA StaysSafe ==
  ASSUME TypeOK, NEW s \in Segments, SafeToDelete(s),
         UNCHANGED <<target, observed, pin>>,
         SameCounts(row[s], row'[s]),
         checkpoint' \in [Targets -> Nat], \A t \in Targets : checkpoint'[t] >= checkpoint[t]
  PROVE  SafeToDelete(s)'
<1>1. checkpoint \in [Targets -> Nat] /\ row[s] \in Row
  BY Typed DEF TypeOK
<1>2. row'[s].last = row[s].last /\ row'[s].first = row[s].first /\ row[s].last \in Nat
  BY <1>1 DEF SameCounts, Row
<1>3. Registered' = Registered
  BY DEF Registered
<1>4. ASSUME NEW t \in Registered, target[t].status # "retired"
      PROVE  Bigger(target[t].start, checkpoint'[t]) >= row[s].last
  <2>1. t \in Targets /\ target[t] # None
    BY DEF Registered
  <2>2. target[t].start \in Nat /\ checkpoint[t] \in Nat /\ checkpoint'[t] \in Nat
    BY <1>1, <2>1 DEF TypeOK
  <2>3. Bigger(target[t].start, checkpoint[t]) >= row[s].last
    BY <1>4 DEF SafeToDelete
  <2>4. checkpoint'[t] >= checkpoint[t]
    BY <2>1
  <2> QED
    BY <1>2, <2>2, <2>3, <2>4 DEF Bigger
<1>5. \A p \in Pins : Overlaps(s, pin[p])' <=> Overlaps(s, pin[p])
  BY <1>2 DEF Overlaps
<1> QED
  BY <1>2, <1>3, <1>4, <1>5 DEF SafeToDelete

\* What evaluation finds deletable is safe to delete: it looks at checkpoints in
\* memory, which are never ahead of the committed ones.
LEMMA EligibleIsSafe ==
  ASSUME TypeOK, KnownInv, mode = "open", RegistryComplete, NEW s \in Eligible
  PROVE  SafeToDelete(s)
<1>1. s \in Segments /\ ~Protected(s)
  BY DEF Eligible
<1>2. row[s] \in Row
  BY <1>1, Typed
<1>3. ASSUME NEW t \in Registered, target[t].status # "retired"
      PROVE  Bigger(target[t].start, checkpoint[t]) >= row[s].last
  <2>1. t \in Targets /\ target[t] # None
    BY DEF Registered
  <2>2. target[t].start \in Nat /\ checkpoint[t] \in Nat /\ known[t] \in Nat /\ row[s].last \in Nat
    BY <1>2, <2>1 DEF TypeOK, Row
  <2>3. known[t] <= checkpoint[t]
    BY <2>1, <2>2 DEF KnownInv
  <2>4. ~(Passed(t) < row[s].last)
    BY <1>1, <1>3 DEF Protected
  <2> QED
    BY <2>2, <2>3, <2>4 DEF Passed, Bigger
<1> QED
  BY <1>1, <1>3 DEF SafeToDelete, Protected, RegistryComplete

LEMMA JobStep == IInv /\ [Next]_vars => JobInv'
<1> SUFFICES ASSUME IInv, [Next]_vars PROVE JobInv'
  OBVIOUS
<1>1. TypeOK /\ ModeInv /\ KnownInv /\ FileInv /\ CurrentInv /\ JobInv
  BY DEF IInv
<1>2. Len(row) \in Nat /\ Segments = 1..Len(row) /\ todo \subseteq Nat
      /\ checkpoint \in [Targets -> Nat]
  BY <1>1, Typed DEF TypeOK
\* A step outside maintenance that leaves the rows in hand alone.
<1>3. ASSUME UNCHANGED <<job, todo>>, Segments \subseteq Segments', mode = "open",
             \A s \in todo : row'[s] = row[s],
             ("gc" \in fresh' => "gc" \in fresh /\ UNCHANGED <<target, observed, pin>>
                /\ checkpoint' \in [Targets -> Nat] /\ \A t \in Targets : checkpoint'[t] >= checkpoint[t])
      PROVE  JobInv'
  <2>1. CASE job \in {"copy", "record"}
    BY <1>1, <1>3, <2>1 DEF JobInv
  <2>2. CASE job = "plan"
    <3>1. ASSUME NEW s \in todo, "gc" \in fresh' PROVE SafeToDelete(s)'
      <4>1. s \in Segments /\ SafeToDelete(s)
        BY <1>1, <1>3, <2>2, <3>1 DEF JobInv
      <4>2. SameCounts(row[s], row'[s])
        BY <1>3, <3>1 DEF SameCounts
      <4> QED
        BY <1>1, <1>3, <3>1, <4>1, <4>2, StaysSafe
    <3> QED
      BY <1>1, <1>3, <2>2, <3>1 DEF JobInv
  <2>3. CASE job \notin {"copy", "record", "plan"}
    BY <1>3, <2>3 DEF JobInv
  <2> QED
    BY <2>1, <2>2, <2>3
<1>4. ASSUME job' \notin {"copy", "record", "plan"} PROVE JobInv'
  BY <1>4 DEF JobInv
<1>5. ASSUME UNCHANGED <<target, observed, pin, checkpoint>>
      PROVE  checkpoint' \in [Targets -> Nat] /\ \A t \in Targets : checkpoint'[t] >= checkpoint[t]
  BY <1>2, <1>5
<1>6. CASE Ingest
  <2>1. /\ mode = "open" /\ job' = job /\ todo' = todo /\ fresh' = fresh
        /\ UNCHANGED <<target, observed, pin, checkpoint>>
    BY <1>1, <1>6, IngestLeaves DEF Ingest, ModeInv, Write, CreateSegment, CreateFails, AppendFrame,
       upkeep
  <2>2. CASE job \in {"copy", "record", "plan"}
    <3>1. \A s \in todo : s \in Segments /\ row[s].gc = "hot" /\ row[s].closed
      BY <1>1, <2>2 DEF JobInv
    <3>2. \A s \in todo : row'[s] = row[s]
      <4>1. CASE Write
        <5>1. ~row[current].closed
          BY <1>1, <4>1, WriterHas DEF Write
        <5>2. \A s \in Segments : s # current => row'[s] = row[s]
          BY <1>1, <4>1, WriteRows
        <5> QED
          BY <3>1, <5>1, <5>2
      <4>2. CASE CreateSegment
        <5>1. /\ \A s \in Segments : s # current + 1 => row'[s] = row[s]
              /\ current + 1 \in Segments => row[current + 1].gc = "complete"
          BY <1>1, <4>2, CreateRows
        <5> QED
          BY <3>1, <5>1
      <4>3. CASE CreateFails
        BY <4>3 DEF CreateFails
      <4>4. CASE AppendFrame
        <5>1. ~row[current].closed
          BY <1>1, <4>4, WriterHas DEF AppendFrame
        <5>2. \A s \in Segments : s # current => row'[s] = row[s]
          BY <1>1, <4>4, AppendRows
        <5> QED
          BY <3>1, <5>1, <5>2
      <4> QED
        BY <1>6, <4>1, <4>2, <4>3, <4>4 DEF Ingest
    <3>3. Segments \subseteq Segments'
      BY RowStep
    <3> QED
      BY <1>3, <1>5, <2>1, <3>2, <3>3
  <2>3. CASE job \notin {"copy", "record", "plan"}
    BY <1>4, <2>1, <2>3
  <2> QED
    BY <2>2, <2>3
<1>7. CASE Maintenance
  <2>1. mode = "open"
    BY <1>1, <1>7 DEF Maintenance, ModeInv, ArchiveStart, ArchiveCopy,
       ArchiveRecord, CompactStart, CompactRead, CompactEvaluate, CompactPlan, CompactEnd
  <2>2. CASE ArchiveStart
    <3>1. row' = row /\ Segments' = Segments /\ job' = "copy" /\ todo' = Unarchived
      BY <2>2 DEF ArchiveStart, durable, Segments
    <3> QED
      BY <3>1 DEF JobInv, Unarchived
  <2>3. CASE ArchiveCopy
    <3>1. row' = row /\ Segments' = Segments /\ job = "copy"
          /\ (job' = "idle" \/ (job' = "record" /\ todo' = todo))
      BY <2>3 DEF ArchiveCopy, Segments
    <3> QED
      BY <1>1, <3>1 DEF JobInv
  <2>4. CASE ArchiveRecord
    <3>1. /\ Segments' = Segments /\ \A s \in Segments : s # Lowest => row'[s] = row[s]
      BY <1>1, <2>4, ArchiveRows
    <3>2. job = "record" /\ job' \in {"idle", "copy"} /\ todo' = todo \ {Lowest}
      BY <2>4 DEF ArchiveRecord
    <3> QED
      BY <1>1, <3>1, <3>2 DEF JobInv
  <2>5. CASE CompactEvaluate
    <3>1. /\ row' = row /\ Segments' = Segments /\ UNCHANGED <<target, observed, pin, checkpoint>>
          /\ IF RegistryComplete THEN job' = "plan" /\ todo' = Eligible ELSE job' = "idle"
      BY <2>5 DEF CompactEvaluate, durable, Segments
    <3>2. CASE RegistryComplete
      <4>1. ASSUME NEW s \in Eligible PROVE SafeToDelete(s)'
        <5>1. SafeToDelete(s) /\ s \in Segments
          BY <1>1, <2>1, <3>2, EligibleIsSafe DEF Eligible
        <5>2. SameCounts(row[s], row'[s])
          BY <3>1 DEF SameCounts
        <5> QED
          BY <1>1, <1>5, <3>1, <5>1, <5>2, StaysSafe
      <4>2. \A s \in Eligible : s \in Segments /\ row[s].gc = "hot" /\ row[s].closed /\ row[s].archived
        BY DEF Eligible
      <4> QED
        BY <3>1, <3>2, <4>1, <4>2 DEF JobInv
    <3>3. CASE ~RegistryComplete
      BY <1>4, <3>1, <3>3
    <3> QED
      BY <3>2, <3>3
  <2>6. CASE CompactStart \/ CompactRead \/ CompactPlan \/ CompactEnd
    BY <1>4, <2>6 DEF CompactStart, CompactRead, CompactPlan, CompactEnd
  <2> QED
    BY <1>7, <2>2, <2>3, <2>4, <2>5, <2>6 DEF Maintenance
<1>8. CASE Deletion
  <2>1. /\ job' = job /\ todo' = todo
        /\ job = "delete" \/ job = "idle"
    <3>1. mode = "recovering" => job = "idle"
      BY <1>1 DEF ModeInv
    <3> QED
      BY <1>8, <3>1, DeletionLeaves DEF Deletion, Unlink, Complete, Deleting, upkeep
  <2> QED
    BY <1>4, <2>1
<1>9. CASE Clients
  <2>1. UNCHANGED <<row, mode, job, todo>> /\ Segments' = Segments
    BY <1>9, ClientsLeave DEF upkeep, Segments
  <2>2. mode = "open"
    BY <1>1, <1>9 DEF Clients, ModeInv, RegisterTarget, RetireTarget, Observe, CommitTransaction,
       CommitRemembered, PinRead, PinCheck, PinTransaction, ReleasePin
  <2>3. ASSUME "gc" \in fresh'
        PROVE  /\ "gc" \in fresh /\ UNCHANGED <<target, observed, pin>>
               /\ checkpoint' \in [Targets -> Nat]
               /\ \A t \in Targets : checkpoint'[t] >= checkpoint[t]
    <3>1. ASSUME NEW t \in Targets, RegisterTarget(t) \/ RetireTarget(t) \/ Observe(t) PROVE FALSE
      BY <2>3, <3>1 DEF RegisterTarget, RetireTarget, Observe, Revised
    <3>2. ASSUME NEW t \in Targets, NEW q \in 1..Len(frame), CommitTransaction(t, q)
          PROVE  /\ "gc" \in fresh /\ UNCHANGED <<target, observed, pin>>
                 /\ checkpoint' \in [Targets -> Nat]
                 /\ \A n \in Targets : checkpoint'[n] >= checkpoint[n]
      <4>1. /\ target[t] # None /\ fresh' = fresh /\ UNCHANGED <<target, observed, pin>>
            /\ checkpoint' = [checkpoint EXCEPT ![t] = q] /\ commit = None /\ q > known[t]
        BY <2>3, <3>2 DEF CommitTransaction, Later
      <4>2. known[t] = checkpoint[t] /\ q \in Nat
        BY <1>1, <2>2, <4>1 DEF KnownInv
      <4> QED
        BY <1>2, <2>3, <4>1, <4>2
    <3>3. ASSUME CommitRemembered \/ PinCheck
          PROVE  fresh' = fresh /\ UNCHANGED <<target, observed, pin, checkpoint>>
      BY <3>3 DEF CommitRemembered, PinCheck, durable
    <3>4. ASSUME NEW p \in Pins, NEW from \in 1..Len(frame), NEW through \in 1..Len(frame),
                 PinRead(p, from, through)
          PROVE  "gc" \in fresh /\ UNCHANGED <<target, observed, pin, checkpoint>>
      BY <2>3, <3>4 DEF PinRead, durable
    <3>5. ASSUME PinTransaction
          PROVE  "gc" \in fresh /\ UNCHANGED <<target, observed, pin, checkpoint>>
      BY <2>3, <3>5 DEF PinTransaction
    <3>6. ASSUME NEW p \in Pins, ReleasePin(p) PROVE FALSE
      BY <2>3, <3>6 DEF ReleasePin, Revised
    <3> QED
      BY <1>5, <1>9, <2>3, <3>1, <3>2, <3>3, <3>4, <3>5, <3>6 DEF Clients
  <2> QED
    BY <1>3, <2>1, <2>2, <2>3
<1>10. CASE Crash \/ Start \/ Open
  <2>1. job' = "idle"
    <3>1. mode # "open" => job = "idle"
      BY <1>1 DEF ModeInv
    <3> QED
      BY <1>10, <3>1 DEF Crash, Start, Open, upkeep
  <2> QED
    BY <1>4, <2>1
<1>11. CASE UNCHANGED vars
  <2>1. UNCHANGED <<row, mode, job, todo, fresh, target, observed, pin, checkpoint>> /\ Segments' = Segments
    BY <1>11 DEF vars, Segments
  <2>2. CASE mode = "open"
    BY <1>3, <1>5, <2>1, <2>2
  <2>3. CASE mode # "open"
    BY <1>1, <1>4, <2>1, <2>3 DEF ModeInv
  <2> QED
    BY <2>2, <2>3
<1> QED
  BY <1>6, <1>7, <1>8, <1>9, <1>10, <1>11 DEF Next

-----------------------------------------------------------------------------
(* The theorems that need no assumption. *)

LEMMA InitInv == Init => IInv
<1> SUFFICES ASSUME Init PROVE IInv
  OBVIOUS
<1>1. Segments = {}
  BY DEF Init, Segments
<1>2. TypeOK
  <2>1. frame \in Seq([segment : Nat, end : Nat]) /\ row \in Seq(Row)
    BY DEF Init
  <2>2. DOMAIN file = {} /\ DOMAIN archive = {}
    BY DEF Init
  <2>3. /\ target \in [Targets -> [status : Statuses, start : Nat] \cup {None}]
        /\ pin \in [Pins -> [from : Nat, through : Nat] \cup {None}]
        /\ checkpoint \in [Targets -> Nat] /\ known \in [Targets -> Nat]
    BY DEF Init
  <2> QED
    BY <2>1, <2>2, <2>3 DEF Init, TypeOK, Row
<1>3. ModeInv /\ KnownInv /\ CurrentInv /\ JobInv /\ TotalInv
  BY <1>1 DEF Init, ModeInv, KnownInv, CurrentInv, JobInv, TotalInv, Planned
<1>4. FileInv
  BY <1>1 DEF Init, FileInv
<1> QED
  BY <1>2, <1>3, <1>4 DEF IInv

LEMMA NextInv == IInv /\ [Next]_vars => IInv'
BY TypeStep, ModeStep, KnownStep, FileStep, CurrentStep, JobStep, TotalStep DEF IInv

LEMMA Invariance == Spec => []IInv
BY InitInv, NextInv, PTL DEF Spec

\* The directory, the rows and the process's state always have the shape that
\* the operations of wal.ts assume; in particular totalBytes is never negative.
THEOREM TypeCorrect == Spec => []TypeOK
<1>1. IInv => TypeOK
  BY DEF IInv
<1> QED
  BY <1>1, Invariance, PTL

\* A segment is only given up by a plan that nothing has overtaken.
LEMMA GivingUp ==
  ASSUME IInv, Next, NEW s \in Segments, row[s].gc = "hot", row'[s].gc = "planned"
  PROVE  SafeToDelete(s)
<1>1. TypeOK /\ ModeInv /\ FileInv /\ CurrentInv /\ JobInv
  BY DEF IInv
<1>2. row[s] \in Row /\ "planned" # "hot" /\ "planned" # "complete" /\ FreshRow.gc = "hot"
  BY <1>1, Typed DEF FreshRow
<1>3. CASE CompactPlan
  <2>1. s \in todo /\ "gc" \in fresh
    BY <1>1, <1>2, <1>3, PlanRows
  <2> QED
    BY <1>1, <1>3, <2>1 DEF JobInv, CompactPlan
<1>4. ASSUME row' = row PROVE FALSE
  BY <1>2, <1>4
<1>5. CASE Ingest
  BY <1>1, <1>2, <1>4, <1>5, WriteRows, CreateRows, AppendRows DEF Ingest, CreateFails
<1>6. CASE ArchiveRecord
  BY <1>1, <1>2, <1>6, ArchiveRows
<1>7. CASE Maintenance /\ ~CompactPlan /\ ~ArchiveRecord
  BY <1>4, <1>7 DEF Maintenance, ArchiveStart, ArchiveCopy, CompactStart,
     CompactRead, CompactEvaluate, CompactEnd, durable
<1>8. CASE Deletion
  BY <1>1, <1>2, <1>4, <1>8, CompleteRows DEF Deletion, Unlink
<1>9. CASE Clients \/ Crash \/ Start
  BY <1>4, <1>9, ClientsLeave DEF Crash, Start, durable
<1>10. CASE Open
  <2>1. Intact
    BY <1>4, <1>10 DEF Open
  <2>2. /\ s # current' => row'[s] = IF s \in DOMAIN file /\ s # Newest
                                     THEN [row[s] EXCEPT !.closed = TRUE] ELSE row[s]
        /\ current' \in Segments => row'[current'] = row[current'] \/ row'[current'] = FreshRow
    BY <1>1, <1>10, <2>1, OpenIs
  <2>3. [row[s] EXCEPT !.closed = TRUE].gc = row[s].gc
    BY <1>2 DEF Row
  <2>4. row'[s].gc = "hot"
    BY <1>2, <2>2, <2>3
  <2> QED
    BY <1>2, <2>4
<1> QED
  BY <1>3, <1>5, <1>6, <1>7, <1>8, <1>9, <1>10 DEF Next

\* A committed checkpoint only moves on.
LEMMA MovingOn ==
  ASSUME IInv, Next, NEW t \in Targets
  PROVE  checkpoint'[t] >= checkpoint[t]
<1>1. TypeOK /\ ModeInv /\ KnownInv
  BY DEF IInv
<1>2. checkpoint \in [Targets -> Nat] /\ Len(frame) \in Nat
  BY <1>1 DEF TypeOK
<1>3. ASSUME checkpoint' = checkpoint PROVE checkpoint'[t] >= checkpoint[t]
  BY <1>2, <1>3
<1>4. ASSUME NEW n \in Targets, NEW q \in 1..Len(frame), CommitTransaction(n, q)
      PROVE  checkpoint'[t] >= checkpoint[t]
  <2>1. /\ mode = "open" /\ commit = None /\ q > known[n]
        /\ checkpoint' = [checkpoint EXCEPT ![n] = q]
    BY <1>4 DEF CommitTransaction, Later
  <2>2. known[n] = checkpoint[n] /\ q \in Nat
    BY <1>1, <2>1 DEF KnownInv
  <2> QED
    BY <1>2, <2>1, <2>2
<1>5. CASE Clients
  <2>1. ASSUME NEW n \in Targets, RegisterTarget(n) \/ RetireTarget(n) \/ Observe(n)
        PROVE  checkpoint' = checkpoint
    BY <2>1 DEF RegisterTarget, RetireTarget, Observe
  <2>2. ASSUME NEW p \in Pins, NEW from \in 1..Len(frame), NEW through \in 1..Len(frame),
               PinRead(p, from, through)
        PROVE  checkpoint' = checkpoint
    BY <2>2 DEF PinRead, durable
  <2>3. CASE CommitRemembered \/ PinCheck \/ PinTransaction
    BY <1>3, <2>3 DEF CommitRemembered, PinCheck, PinTransaction, durable
  <2>4. ASSUME NEW p \in Pins, ReleasePin(p) PROVE checkpoint' = checkpoint
    BY <2>4 DEF ReleasePin
  <2> QED
    BY <1>3, <1>4, <1>5, <2>1, <2>2, <2>3, <2>4 DEF Clients
<1>6. CASE Ingest \/ Maintenance \/ Deletion \/ Crash \/ Start \/ Open
  BY <1>3, <1>6, IngestLeaves, MaintenanceLeaves, DeletionLeaves DEF Crash, Start, Open, durable
<1> QED
  BY <1>5, <1>6 DEF Next

\* compact() gives a segment up only when, at that very step, every target that
\* is not retired has committed past it, no pin covers it and no unregistered
\* reader was seen; and no commit, retry or restart takes a checkpoint back.
THEOREM Protection == Spec => ProtectionHolds
<1>1. IInv /\ [Next]_vars =>
        [\A s \in Segments : row[s].gc = "hot" /\ row'[s].gc = "planned" => SafeToDelete(s)]_vars
  BY GivingUp
<1>2. IInv /\ [Next]_vars => [\A t \in Targets : checkpoint'[t] >= checkpoint[t]]_vars
  BY MovingOn
<1> QED
  BY <1>1, <1>2, Invariance, PTL DEF Spec, ProtectionHolds, DeletesRespectProtection,
     CheckpointsAdvance

-----------------------------------------------------------------------------
(***************************************************************************)
(* The second part of the invariant.  It needs that opening a new segment  *)
(* file never fails beside a pin: otherwise a poisoned log can delete its  *)
(* last segment while a pin keeps an older one, the next start numbers the *)
(* new segment after the newest FILE, and overwrites a row whose frames    *)
(* are only in the archive.                                                *)
(***************************************************************************)
NoPinnedFailure == CanFailCreate => Pins = {}

FramesOf(s) == {q \in DOMAIN frame : frame[q].segment = s}

\* While no segment creation fails, the last segment is never archived.
LastKept ==
  /\ ~poisoned
  /\ row # <<>> => ~row[Len(row)].archived /\ (job \in {"copy", "record"} => Len(row) \notin todo)

\* Without pins, segments are archived, planned and deleted from the oldest on.
PrefixKept ==
  \A s, n \in Segments : n < s =>
     /\ row[s].archived => row[n].archived
     /\ job \in {"copy", "record"} /\ s \in todo => n \in todo \/ row[n].archived
     /\ row[s].gc # "hot" => row[n].gc # "hot"
     /\ job = "plan" /\ s \in todo => n \in todo \/ row[n].gc # "hot"
     /\ s \notin DOMAIN file => n \notin DOMAIN file

\* The segment written to is the last one there is.
TailInv ==
  /\ mode = "open" => current = Len(row)
  /\ IF CanFailCreate THEN PrefixKept ELSE LastKept

\* An open segment is the last one, and a closed one holds frames.
ClosedInv ==
  \A s \in Segments :
    /\ s < Len(row) \/ Len(row) + 1 \in DOMAIN file => row[s].closed
    /\ row[s].closed => row[s].bytes > 0

\* The last frame of a row that counts any ends where the row says.
RowInv ==
  \A s \in Segments :
    /\ row[s].bytes = 0 => row[s].first = 0 /\ row[s].last = 0
    /\ row[s].bytes > 0 =>
         /\ row[s].first > 0 /\ row[s].first <= row[s].last /\ row[s].last <= Len(frame)
         /\ frame[row[s].last] = [segment |-> s, end |-> row[s].bytes]

\* Segments hold consecutive ranges of frames.
OrderInv ==
  \A s, n \in Segments : n < s /\ row[s].bytes > 0 => row[n].last < row[s].first

\* A frame lies in the range its row names.
FrameInv ==
  \A q \in DOMAIN frame :
    /\ frame[q].segment \in Segments
    /\ row[frame[q].segment].first <= q /\ q <= row[frame[q].segment].last

\* Files and archived copies hold exactly the frames of their segment, a row
\* counts them, and a deleted segment has no file.
HeldInv ==
  /\ \A s \in DOMAIN file : file[s] = FramesOf(s)
  /\ \A s \in Segments : Cardinality(FramesOf(s)) = row[s].bytes
  /\ \A s \in Segments : row[s].archived => s \in DOMAIN archive /\ archive[s] = FramesOf(s)
  /\ job = "record" => Lowest \in DOMAIN archive /\ archive[Lowest] = FramesOf(Lowest)
  /\ \A s \in Segments : row[s].gc = "complete" => s \notin DOMAIN file

\* A pin, and one about to be written that nobody's revision has overtaken,
\* covers no segment that is being deleted.
PinInv ==
  /\ \A p \in Pins : pin[p] # None =>
       /\ pin[p].from > 0 /\ pin[p].through <= Len(frame)
       /\ \A s \in Planned : ~Overlaps(s, pin[p])
  /\ pinning # None =>
       /\ pinning.from > 0 /\ pinning.through <= Len(frame)
       /\ pinning.checked /\ "pin" \in fresh => \A s \in Planned : ~Overlaps(s, pinning)

KeptInv == /\ TailInv /\ ClosedInv /\ RowInv /\ OrderInv /\ FrameInv /\ HeldInv /\ PinInv
           /\ StartupNeverRefuses

-----------------------------------------------------------------------------
(* What opening the log does to a directory in that order. *)

LEMMA OpenKeeps ==
  ASSUME IInv, KeptInv, Open
  PROVE  Intact
<1>1. TypeOK /\ FileInv /\ RowInv /\ HeldInv
  BY DEF IInv, KeptInv
<1>2. \A s \in Segments : row[s].gc = "hot" => s \in DOMAIN file
  BY <1>1 DEF FileInv
<1>3. ASSUME NEW s \in DOMAIN file \cap Segments, row[s].bytes > 0
      PROVE  \E q \in file[s] : frame[q] = [segment |-> s, end |-> row[s].bytes]
  <2> DEFINE q == row[s].last
  <2>1. q \in Nat /\ q > 0 /\ q <= Len(frame) /\ frame[q] = [segment |-> s, end |-> row[s].bytes]
    <3>1. row[s] \in Row /\ Len(frame) \in Nat
      BY <1>1, Typed
    <3> QED
      BY <1>1, <1>3, <3>1 DEF RowInv, Row
  <2>2. q \in DOMAIN frame
    <3>1. DOMAIN frame = 1..Len(frame)
      BY <1>1 DEF TypeOK
    <3> QED
      BY <2>1, <3>1
  <2>3. q \in file[s]
    BY <1>1, <2>1, <2>2 DEF HeldInv, FramesOf
  <2> QED
    BY <2>1, <2>3
<1> QED
  BY <1>1, <1>2, <1>3 DEF Intact, HeldInv

\* Nothing that is there changes: at most one row is added at the end, and one
\* empty file beyond the rows there were.
LEMMA OpenAdds ==
  ASSUME IInv, KeptInv, Open
  PROVE  /\ row' \in Seq(Row) /\ current' = Len(row') /\ Len(row') \in {Len(row), Len(row) + 1}
         /\ Segments \subseteq Segments' /\ Segments' = 1..Len(row')
         /\ \A s \in Segments : row'[s] = row[s]
         /\ \A s \in Segments' : s \notin Segments => s = Len(row) + 1 /\ row'[s] = FreshRow
         /\ file' = file \/ (file' = With(file, Len(row) + 1, {}) /\ Len(row) + 1 \notin DOMAIN file)
         /\ current' \in DOMAIN file' /\ ~row'[current'].closed
         /\ \A s \in DOMAIN file' : s <= Len(row')
         /\ \A s \in Segments : Len(row') > Len(row) => row[s].closed
<1>1. /\ TypeOK /\ FileInv /\ ClosedInv /\ HeldInv /\ TailInv /\ ModeInv /\ Intact
  BY OpenKeeps DEF IInv, KeptInv
<1>2. /\ Len(row) \in Nat /\ Segments = 1..Len(row)
      /\ \A s \in Segments : row[s] \in Row
  BY <1>1, Typed
<1>3. /\ Len(row') \in Nat /\ row' \in Seq(Row) /\ current' \in Segments'
      /\ Len(row') \in {Len(row), Len(row) + 1}
      /\ ~row'[current'].closed
      /\ file' = file \/ file' = With(file, current', {})
      /\ current' \in DOMAIN file'
      /\ \A s \in Segments : s # current' =>
           row'[s] = IF s \in DOMAIN file /\ s # Newest
                     THEN [row[s] EXCEPT !.closed = TRUE] ELSE row[s]
      /\ \A s \in Segments' : s \notin Segments => row'[s] = FreshRow
      /\ current' \in Segments => \/ current' = Newest /\ row'[current'] = row[current']
                                  \/ row'[current'] = FreshRow /\ current' \notin DOMAIN file
      /\ Len(row') > Len(row) => current' = Len(row')
      /\ \A s \in DOMAIN file : s <= current'
      /\ Len(row') > Len(row) => \A s \in Segments : s \in DOMAIN file => row'[s].closed
  BY <1>1, OpenIs
<1>4. Segments' = 1..Len(row')
  BY DEF Segments
<1>5. row # <<>> => Len(row) \in Segments
  BY <1>1, <1>2 DEF TypeOK
<1>6. ASSUME Len(row') = Len(row)
      PROVE  current' = Len(row) /\ row'[current'] = row[current'] /\ current' \in DOMAIN file
  <2>1. Len(row) \in Segments /\ current' \in Segments
    BY <1>2, <1>3, <1>4, <1>6
  <2>2. CASE ~CanFailCreate
    <3>1. ~row[Len(row)].archived
      BY <1>1, <1>2, <2>1, <2>2 DEF TailInv, LastKept
    <3>2. Len(row) \in DOMAIN file
      BY <1>1, <2>1, <3>1 DEF FileInv
    <3>3. current' = Len(row)
      BY <1>2, <1>3, <2>1, <3>2
    <3> QED
      BY <1>3, <2>1, <3>2, <3>3
  <2>3. CASE CanFailCreate
    <3>1. PrefixKept
      BY <1>1, <2>3 DEF TailInv
    <3>2. CASE Len(row) \in DOMAIN file
      <4>1. current' = Len(row)
        BY <1>2, <1>3, <2>1, <3>2
      <4> QED
        BY <1>3, <2>1, <3>2, <4>1
    <3>3. CASE Len(row) \notin DOMAIN file
      <4>1. \A n \in Segments : n \notin DOMAIN file
        BY <1>2, <2>1, <3>1, <3>3 DEF PrefixKept
      <4>2. DOMAIN file = {} \/ DOMAIN file = {Len(row) + 1}
        <5>1. \A n \in DOMAIN file : n \in 1..(Len(row) + 1) /\ n \notin 1..Len(row)
          BY <1>1, <1>2, <4>1 DEF FileInv
        <5>2. \A n \in DOMAIN file : n = Len(row) + 1
          BY <1>2, <5>1
        <5> QED
          BY <5>2
      <4>3. CASE DOMAIN file = {}
        <5>1. current' = Len(row) + 1
          BY <1>1, <4>3 DEF Open, Reopened
        <5> QED
          BY <1>2, <2>1, <5>1
      <4>4. CASE DOMAIN file = {Len(row) + 1}
        BY <1>2, <1>3, <2>1, <4>4
      <4> QED
        BY <4>2, <4>3, <4>4
    <3> QED
      BY <3>2, <3>3
  <2> QED
    BY <2>2, <2>3
<1>7. current' = Len(row')
  BY <1>2, <1>3, <1>6
<1>8. ASSUME NEW s \in Segments, Len(row') > Len(row) PROVE row[s].closed
  <2>1. CASE s < Len(row)
    BY <1>1, <2>1 DEF ClosedInv
  <2>2. CASE s = Len(row)
    <3>1. CASE s \notin DOMAIN file
      BY <1>1, <3>1 DEF FileInv
    <3>2. CASE s \in DOMAIN file
      <4>1. CASE s = Newest
        <5>1. row'[s] = row[s]
          <6>1. s # current'
            BY <1>2, <1>3, <1>7, <1>8
          <6> QED
            BY <1>3, <4>1, <6>1, Zenon
        <5> QED
          BY <1>3, <1>8, <3>2, <5>1
      <4>2. CASE s # Newest
        <5>1. Newest \in DOMAIN file /\ Newest >= Len(row)
          BY <1>1, <1>2, <2>2, <3>2, NewestIs DEF FileInv
        <5>2. Len(row) + 1 \in DOMAIN file
          BY <1>1, <1>2, <2>2, <4>2, <5>1 DEF FileInv
        <5> QED
          BY <1>1, <5>2 DEF ClosedInv
      <4> QED
        BY <4>1, <4>2
    <3> QED
      BY <3>1, <3>2
  <2> QED
    BY <1>2, <2>1, <2>2
<1>9. ASSUME NEW s \in Segments PROVE row'[s] = row[s]
  <2>1. CASE s = current'
    BY <1>2, <1>3, <1>6, <1>7, <2>1
  <2>2. CASE s # current' /\ row[s].closed
    <3>1. row[s] \in Row
      BY <1>2
    <3>2. [row[s] EXCEPT !.closed = TRUE] = row[s]
      BY <2>2, <3>1 DEF Row
    <3> QED
      BY <1>3, <2>2, <3>2
  <2>3. CASE s # current' /\ ~row[s].closed
    <3>1. s = Len(row)
      <4>1. ~(s < Len(row))
        BY <1>1, <2>3 DEF ClosedInv
      <4> QED
        BY <1>2, <4>1
    <3> QED
      BY <1>2, <1>3, <1>7, <1>8, <2>3, <3>1
  <2> QED
    BY <2>1, <2>2, <2>3
<1>10. ASSUME NEW s \in Segments', s \notin Segments PROVE s = Len(row) + 1
  BY <1>2, <1>3, <1>4, <1>10
<1>11. file' = file \/ (file' = With(file, Len(row) + 1, {}) /\ Len(row) + 1 \notin DOMAIN file)
  <2>1. CASE Len(row') = Len(row)
    BY <1>1, <1>6, <2>1 DEF Open
  <2>2. CASE Len(row') # Len(row)
    <3>1. current' = Len(row) + 1
      BY <1>3, <1>7, <2>2
    <3> QED
      BY <1>1, <3>1 DEF Open
  <2> QED
    BY <2>1, <2>2
<1>12. \A s \in DOMAIN file' : s <= Len(row')
  <2>1. DOMAIN With(file, current', {}) = DOMAIN file \cup {current'}
    BY WithIs
  <2> QED
    BY <1>3, <1>7, <2>1
<1> QED
  BY <1>2, <1>3, <1>4, <1>7, <1>8, <1>9, <1>10, <1>11, <1>12

-----------------------------------------------------------------------------
(* The second part is preserved, one conjunct at a time. *)

\* Only an append changes frames and counts; a new row counts nothing.
CountsKept ==
  /\ frame' = frame /\ Segments \subseteq Segments'
  /\ \A s \in Segments : SameCounts(row[s], row'[s])
  /\ \A s \in Segments' : s \notin Segments => s = Len(row) + 1 /\ row'[s] = FreshRow

LEMMA NoNewSegment ==
  ASSUME row' = row, frame' = frame
  PROVE  CountsKept
BY DEF CountsKept, SameCounts, Segments

\* A rotation adds the next row.
LEMMA CreateAdds ==
  ASSUME IInv, KeptInv, CreateSegment
  PROVE  /\ mode = "open" /\ current = Len(row) /\ Len(row') = Len(row) + 1
         /\ Segments' = Segments \cup {Len(row) + 1} /\ Len(row) \in Segments
         /\ \A s \in Segments : row'[s] = row[s] /\ s # Len(row) + 1
         /\ row'[Len(row) + 1] = FreshRow /\ row[Len(row)].closed
         /\ file' = With(file, Len(row) + 1, {}) /\ ~poisoned
<1>1. TypeOK /\ ModeInv /\ CurrentInv /\ TailInv
  BY DEF IInv, KeptInv
<1>2. Len(row) \in Nat /\ Segments = 1..Len(row)
  BY <1>1, Typed
<1>3. /\ mode = "open" /\ current \in Segments /\ ~poisoned
      /\ Len(row') = IF current + 1 \in Segments THEN Len(row) ELSE Len(row) + 1
      /\ Segments' = Segments \cup {current + 1}
      /\ row'[current + 1] = FreshRow /\ row'[current] = row[current]
      /\ \A s \in Segments : s # current + 1 => row'[s] = row[s]
  BY <1>1, CreateRows
<1>4. current = Len(row)
  BY <1>1, <1>3 DEF TailInv
<1>5. Len(row) + 1 \notin Segments
  BY <1>2
<1>6. row[current].closed
  BY <1>1, <1>3 DEF CurrentInv, CreateSegment
<1>7. file' = With(file, Len(row) + 1, {})
  BY <1>4 DEF CreateSegment
<1>8. /\ Len(row') = Len(row) + 1 /\ Segments' = Segments \cup {Len(row) + 1}
      /\ row'[Len(row) + 1] = FreshRow /\ Len(row) \in Segments /\ row[Len(row)].closed
  BY <1>3, <1>4, <1>5, <1>6, Zenon
<1>9. \A s \in Segments : s # Len(row) + 1 /\ row'[s] = row[s]
  BY <1>3, <1>4, <1>5
<1> QED
  BY <1>3, <1>4, <1>7, <1>8, <1>9

LEMMA CountsStep ==
  ASSUME IInv, KeptInv, [Next]_vars, ~AppendFrame
  PROVE  CountsKept
<1>1. TypeOK /\ ModeInv /\ FileInv /\ CurrentInv /\ JobInv
  BY DEF IInv
<1>2. ASSUME row' = row, frame' = frame PROVE CountsKept
  BY <1>2, NoNewSegment
<1>3. ASSUME frame' = frame, Segments' = Segments, \A s \in Segments : SameCounts(row[s], row'[s])
      PROVE  CountsKept
  BY <1>3 DEF CountsKept
<1>4. CASE Write
  BY <1>1, <1>3, <1>4, WriteRows DEF Write
<1>5. CASE CreateSegment
  <2>1. /\ Segments' = Segments \cup {Len(row) + 1}
        /\ \A s \in Segments : row'[s] = row[s]
        /\ row'[Len(row) + 1] = FreshRow
    BY <1>5, CreateAdds
  <2>2. frame' = frame
    BY <1>5 DEF CreateSegment
  <2> QED
    BY <2>1, <2>2 DEF CountsKept, SameCounts
<1>6. CASE CreateFails
  BY <1>2, <1>6 DEF CreateFails
<1>7. CASE Maintenance
  <2>1. frame' = frame
    BY <1>7, MaintenanceLeaves
  <2>2. CASE ArchiveRecord
    BY <1>1, <1>3, <2>1, <2>2, ArchiveRows
  <2>3. CASE CompactPlan
    BY <1>1, <1>3, <2>1, <2>3, PlanRows
  <2>4. CASE ~(ArchiveRecord \/ CompactPlan)
    BY <1>2, <1>7, <2>1, <2>4 DEF Maintenance, ArchiveStart, ArchiveCopy, CompactStart,
       CompactRead, CompactEvaluate, CompactEnd, durable
  <2> QED
    BY <2>2, <2>3, <2>4
<1>8. CASE Unlink
  BY <1>2, <1>8 DEF Unlink
<1>9. CASE Complete
  BY <1>1, <1>3, <1>9, CompleteRows DEF Complete
<1>10. CASE Clients \/ Crash \/ Start \/ UNCHANGED vars
  BY <1>2, <1>10, ClientsLeave DEF Crash, Start, durable, vars
<1>11. CASE Open
  <2>1. /\ Segments \subseteq Segments' /\ \A s \in Segments : row'[s] = row[s]
        /\ \A s \in Segments' : s \notin Segments => s = Len(row) + 1 /\ row'[s] = FreshRow
    BY <1>11, OpenAdds
  <2>2. frame' = frame
    BY <1>11 DEF Open
  <2> QED
    BY <2>1, <2>2 DEF CountsKept, SameCounts
<1> QED
  BY <1>4, <1>5, <1>6, <1>7, <1>8, <1>9, <1>10, <1>11 DEF Next, Ingest, Deletion

\* An append writes the next frame into the last segment.
LEMMA AppendAdds ==
  ASSUME IInv, KeptInv, AppendFrame
  PROVE  LET q == Len(frame) + 1
             s == Len(row)
         IN /\ mode = "open" /\ current = s /\ s \in Segments /\ s \in DOMAIN file
            /\ row[s].gc = "hot" /\ ~row[s].closed /\ ~row[s].archived
            /\ q \in Nat /\ q > 0 /\ Len(frame') = q /\ DOMAIN frame = 1..Len(frame)
            /\ DOMAIN frame' = DOMAIN frame \cup {q} /\ q \notin DOMAIN frame
            /\ frame'[q] = [segment |-> s, end |-> row[s].bytes + 1]
            /\ \A n \in DOMAIN frame : frame'[n] = frame[n]
            /\ Len(row') = Len(row) /\ Segments' = Segments
            /\ \A n \in Segments : n # s => row'[n] = row[n]
            /\ row'[s].bytes = row[s].bytes + 1 /\ row'[s].last = q
            /\ row'[s].first = IF row[s].first = 0 THEN q ELSE row[s].first
            /\ row'[s].closed = row[s].closed /\ row'[s].archived = row[s].archived
            /\ row'[s].gc = row[s].gc
            /\ file' = With(file, s, file[s] \cup {q})
<1>1. TypeOK /\ ModeInv /\ FileInv /\ CurrentInv /\ TailInv
  BY DEF IInv, KeptInv
<1>2. /\ mode = "open" /\ current \in Segments /\ current \in DOMAIN file
      /\ row[current].gc = "hot" /\ ~row[current].closed
  BY <1>1, WriterHas DEF AppendFrame
<1>3. current = Len(row)
  BY <1>1, <1>2 DEF TailInv
<1>4. ~row[current].archived
  BY <1>1, <1>2 DEF FileInv
<1>5. /\ Len(row') = Len(row) /\ Segments' = Segments
      /\ \A n \in Segments : n # current => row'[n] = row[n]
      /\ row'[current].bytes = row[current].bytes + 1 /\ row'[current].last = Len(frame) + 1
      /\ row'[current].first = IF row[current].first = 0 THEN Len(frame) + 1 ELSE row[current].first
      /\ row'[current].closed = row[current].closed
      /\ row'[current].archived = row[current].archived /\ row'[current].gc = row[current].gc
  BY <1>1, AppendRows
<1>6. /\ frame' = Append(frame, [segment |-> current, end |-> row[current].bytes + 1])
      /\ file' = With(file, current, file[current] \cup {Len(frame) + 1})
  BY DEF AppendFrame
<1>7. frame \in Seq([segment : Nat, end : Nat]) /\ Len(frame) \in Nat
  BY <1>1 DEF TypeOK
<1>8. /\ Len(frame') = Len(frame) + 1 /\ DOMAIN frame = 1..Len(frame)
      /\ frame'[Len(frame) + 1] = [segment |-> current, end |-> row[current].bytes + 1]
      /\ \A n \in DOMAIN frame : frame'[n] = frame[n]
      /\ DOMAIN frame' = 1..(Len(frame) + 1)
  BY <1>6, <1>7
<1>9. /\ Len(frame) + 1 \in Nat /\ Len(frame) + 1 > 0 /\ Len(frame) + 1 \notin DOMAIN frame
      /\ DOMAIN frame' = DOMAIN frame \cup {Len(frame) + 1}
  BY <1>7, <1>8
<1> QED
  BY <1>2, <1>3, <1>4, <1>5, <1>6, <1>8, <1>9, Zenon

\* A row counts frames and names their range, or neither.
LEMMA RowFacts ==
  ASSUME TypeOK, RowInv, NEW s \in Segments
  PROVE  /\ row[s].bytes \in Nat /\ row[s].first \in Nat /\ row[s].last \in Nat
         /\ \/ row[s].bytes = 0 /\ row[s].first = 0 /\ row[s].last = 0
            \/ /\ row[s].bytes > 0 /\ row[s].first > 0 /\ row[s].first <= row[s].last
               /\ row[s].last \in 1..Len(frame)
               /\ frame[row[s].last] = [segment |-> s, end |-> row[s].bytes]
         /\ row[s].first # 0 => row[s].bytes > 0
         /\ row[s].first <= Len(frame) /\ row[s].last <= Len(frame)
         /\ row[s].last # 0 => row[s].first # 0
<1>1. Len(frame) \in Nat /\ row[s].bytes \in Nat /\ row[s].first \in Nat /\ row[s].last \in Nat
  BY Typed DEF Row
<1>2. CASE row[s].bytes = 0
  <2>1. row[s].first = 0 /\ row[s].last = 0
    BY <1>2 DEF RowInv
  <2> QED
    BY <1>1, <1>2, <2>1
<1>3. CASE row[s].bytes > 0
  <2>1. /\ row[s].first > 0 /\ row[s].first <= row[s].last /\ row[s].last <= Len(frame)
        /\ frame[row[s].last] = [segment |-> s, end |-> row[s].bytes]
    BY <1>3 DEF RowInv
  <2>2. row[s].last \in 1..Len(frame) /\ row[s].first <= Len(frame) /\ row[s].first # 0
    BY <1>1, <2>1
  <2> QED
    BY <1>1, <1>3, <2>1, <2>2
<1> QED
  BY <1>1, <1>2, <1>3

LEMMA RowInvStep == IInv /\ KeptInv /\ [Next]_vars => RowInv'
<1> SUFFICES ASSUME IInv, KeptInv, [Next]_vars PROVE RowInv'
  OBVIOUS
<1>1. TypeOK /\ RowInv
  BY DEF IInv, KeptInv
<1>2. Len(row) \in Nat /\ Len(frame) \in Nat /\ \A s \in Segments : row[s] \in Row
  BY <1>1, Typed
<1>3. CASE AppendFrame
  <2> DEFINE q == Len(frame) + 1
             c == Len(row)
  <2>1. /\ c \in Segments /\ q \in Nat /\ q > 0 /\ Len(frame') = q /\ DOMAIN frame = 1..Len(frame)
        /\ frame'[q] = [segment |-> c, end |-> row[c].bytes + 1]
        /\ \A n \in DOMAIN frame : frame'[n] = frame[n]
        /\ Segments' = Segments
        /\ \A n \in Segments : n # c => row'[n] = row[n]
        /\ row'[c].bytes = row[c].bytes + 1 /\ row'[c].last = q
        /\ row'[c].first = IF row[c].first = 0 THEN q ELSE row[c].first
    BY <1>3, AppendAdds
  <2>2. ASSUME NEW s \in Segments
        PROVE  /\ row'[s].bytes = 0 => row'[s].first = 0 /\ row'[s].last = 0
               /\ row'[s].bytes > 0 =>
                    /\ row'[s].first > 0 /\ row'[s].first <= row'[s].last /\ row'[s].last <= Len(frame')
                    /\ frame'[row'[s].last] = [segment |-> s, end |-> row'[s].bytes]
    <3>1. /\ row[s].bytes \in Nat /\ row[s].first \in Nat /\ row[s].last \in Nat
      BY <1>2 DEF Row
    <3>2. CASE s = c
      <4>1. row[s].first # 0 => row[s].first <= Len(frame)
        BY <1>1, RowFacts
      <4>2. row'[s].bytes > 0 /\ row'[s].bytes # 0
        BY <2>1, <3>1, <3>2
      <4>3. row'[s].first > 0 /\ row'[s].first <= q
        BY <1>2, <2>1, <3>1, <3>2, <4>1
      <4>4. frame'[row'[s].last] = [segment |-> s, end |-> row'[s].bytes]
        BY <2>1, <3>2
      <4> QED
        BY <2>1, <3>2, <4>2, <4>3, <4>4
    <3>3. CASE s # c
      <4>1. row'[s] = row[s]
        BY <2>1, <3>3
      <4>2. CASE row[s].bytes = 0
        <5>1. row[s].first = 0 /\ row[s].last = 0
          BY <1>1, <4>2 DEF RowInv
        <5> QED
          BY <4>1, <4>2, <5>1
      <4>3. CASE row[s].bytes > 0
        <5>1. /\ row[s].first > 0 /\ row[s].first <= row[s].last /\ row[s].last <= Len(frame)
              /\ frame[row[s].last] = [segment |-> s, end |-> row[s].bytes]
          BY <1>1, <4>3 DEF RowInv
        <5>2. row[s].last \in DOMAIN frame /\ row[s].last <= Len(frame')
          BY <1>2, <2>1, <3>1, <5>1
        <5>3. frame'[row[s].last] = frame[row[s].last]
          BY <2>1, <5>2
        <5> QED
          BY <3>1, <4>1, <4>3, <5>1, <5>2, <5>3
      <4> QED
        BY <3>1, <4>2, <4>3
    <3> QED
      BY <3>2, <3>3
  <2> QED
    BY <2>1, <2>2 DEF RowInv
<1>4. CASE ~AppendFrame
  <2>1. CountsKept
    BY <1>4, CountsStep
  <2>2. ASSUME NEW s \in Segments'
        PROVE  /\ row'[s].bytes = 0 => row'[s].first = 0 /\ row'[s].last = 0
               /\ row'[s].bytes > 0 =>
                    /\ row'[s].first > 0 /\ row'[s].first <= row'[s].last /\ row'[s].last <= Len(frame')
                    /\ frame'[row'[s].last] = [segment |-> s, end |-> row'[s].bytes]
    <3>1. CASE s \in Segments
      BY <1>1, <2>1, <3>1 DEF RowInv, CountsKept, SameCounts
    <3>2. CASE s \notin Segments
      BY <2>1, <3>2 DEF CountsKept, FreshRow
    <3> QED
      BY <3>1, <3>2
  <2> QED
    BY <2>2 DEF RowInv
<1> QED
  BY <1>3, <1>4

LEMMA OrderStep == IInv /\ KeptInv /\ [Next]_vars => OrderInv'
<1> SUFFICES ASSUME IInv, KeptInv, [Next]_vars PROVE OrderInv'
  OBVIOUS
<1>1. TypeOK /\ RowInv /\ OrderInv
  BY DEF IInv, KeptInv
<1>2. /\ Len(row) \in Nat /\ Len(frame) \in Nat /\ Segments = 1..Len(row)
      /\ \A s \in Segments : row[s] \in Row
  BY <1>1, Typed
<1>3. CASE AppendFrame
  <2> DEFINE q == Len(frame) + 1
             c == Len(row)
  <2>1. /\ c \in Segments /\ Segments' = Segments
        /\ \A n \in Segments : n # c => row'[n] = row[n]
        /\ row'[c].bytes = row[c].bytes + 1 /\ row'[c].last = q
        /\ row'[c].first = IF row[c].first = 0 THEN q ELSE row[c].first
    BY <1>3, AppendAdds
  <2>2. ASSUME NEW s \in Segments, NEW n \in Segments, n < s, row'[s].bytes > 0
        PROVE  row'[n].last < row'[s].first
    <3>1. /\ row[s].bytes \in Nat /\ row[s].first \in Nat /\ row[n].last \in Nat /\ row[n].bytes \in Nat
      BY <1>2 DEF Row
    <3>2. n # c /\ row'[n] = row[n]
      BY <1>2, <2>1, <2>2
    <3>3. CASE s # c
      BY <1>1, <2>1, <2>2, <3>2, <3>3 DEF OrderInv
    <3>4. CASE s = c /\ row[s].first = 0
      <4>1. row[n].last <= Len(frame)
        BY <1>1, RowFacts
      <4> QED
        BY <1>2, <2>1, <3>1, <3>2, <3>4, <4>1
    <3>5. CASE s = c /\ row[s].first # 0
      <4>1. row[s].bytes > 0
        BY <1>1, <3>5, RowFacts
      <4> QED
        BY <1>1, <2>1, <2>2, <3>2, <3>5, <4>1 DEF OrderInv
    <3> QED
      BY <3>3, <3>4, <3>5
  <2> QED
    BY <2>1, <2>2 DEF OrderInv
<1>4. CASE ~AppendFrame
  <2>1. CountsKept
    BY <1>4, CountsStep
  <2>2. ASSUME NEW s \in Segments', NEW n \in Segments', n < s, row'[s].bytes > 0
        PROVE  row'[n].last < row'[s].first
    <3>1. s \in Segments
      BY <2>1, <2>2 DEF CountsKept, FreshRow
    <3>2. n \in Segments
      BY <1>2, <2>1, <2>2, <3>1 DEF CountsKept
    <3> QED
      BY <1>1, <2>1, <2>2, <3>1, <3>2 DEF OrderInv, CountsKept, SameCounts
  <2> QED
    BY <2>2 DEF OrderInv
<1> QED
  BY <1>3, <1>4

LEMMA FrameStep == IInv /\ KeptInv /\ [Next]_vars => FrameInv'
<1> SUFFICES ASSUME IInv, KeptInv, [Next]_vars PROVE FrameInv'
  OBVIOUS
<1>1. TypeOK /\ RowInv /\ FrameInv
  BY DEF IInv, KeptInv
<1>2. /\ Len(row) \in Nat /\ Len(frame) \in Nat /\ Segments = 1..Len(row)
      /\ \A s \in Segments : row[s] \in Row
  BY <1>1, Typed
<1>3. CASE AppendFrame
  <2> DEFINE q == Len(frame) + 1
             c == Len(row)
  <2>1. /\ c \in Segments /\ q \in Nat /\ q > 0 /\ DOMAIN frame = 1..Len(frame)
        /\ DOMAIN frame' = DOMAIN frame \cup {q}
        /\ frame'[q] = [segment |-> c, end |-> row[c].bytes + 1]
        /\ \A n \in DOMAIN frame : frame'[n] = frame[n]
        /\ Segments' = Segments
        /\ \A n \in Segments : n # c => row'[n] = row[n]
        /\ row'[c].last = q
        /\ row'[c].first = IF row[c].first = 0 THEN q ELSE row[c].first
    BY <1>3, AppendAdds
  <2>2. ASSUME NEW n \in DOMAIN frame'
        PROVE  /\ frame'[n].segment \in Segments'
               /\ row'[frame'[n].segment].first <= n /\ n <= row'[frame'[n].segment].last
    <3>0. /\ row[c].bytes \in Nat /\ row[c].first \in Nat /\ row[c].last \in Nat
      BY <1>2, <2>1 DEF Row
    <3>1. CASE n = q
      <4>1. frame'[n].segment = c
        BY <2>1, <3>1
      <4>2. row[c].first # 0 => row[c].first <= Len(frame)
        BY <1>1, <2>1, RowFacts
      <4>3. row'[c].first <= q
        BY <1>2, <2>1, <3>0, <4>2
      <4> QED
        BY <2>1, <3>1, <4>1, <4>3
    <3>2. CASE n \in DOMAIN frame
      <4> DEFINE s == frame[n].segment
      <4>1. s \in Segments /\ row[s].first <= n /\ n <= row[s].last /\ frame'[n].segment = s
        BY <1>1, <2>1, <3>2 DEF FrameInv
      <4> HIDE DEF s
      <4>2. CASE s # c
        BY <2>1, <4>1, <4>2
      <4>3. CASE s = c
        <5>1. n \in 1..Len(frame)
          BY <2>1, <3>2
        <5>2. row[c].first # 0
          <6>1. row[c].last # 0
            BY <1>2, <3>0, <4>1, <4>3, <5>1
          <6> QED
            BY <1>1, <2>1, <6>1, RowFacts
        <5>3. row'[c].first = row[c].first /\ n <= q
          BY <1>2, <2>1, <5>1, <5>2
        <5> QED
          BY <2>1, <4>1, <4>3, <5>3
      <4> QED
        BY <4>2, <4>3
    <3> QED
      BY <2>1, <3>1, <3>2
  <2> QED
    BY <2>2 DEF FrameInv
<1>4. CASE ~AppendFrame
  <2>1. CountsKept
    BY <1>4, CountsStep
  <2> QED
    BY <1>1, <2>1 DEF FrameInv, CountsKept, SameCounts
<1> QED
  BY <1>3, <1>4

\* Files are only added beyond the rows, or unlinked.
LEMMA FileMoves ==
  ASSUME IInv, KeptInv, [Next]_vars, ~AppendFrame, ~Unlink
  PROVE  /\ file' = file \/ file' = With(file, Len(row) + 1, {})
         /\ file' # file => row[Len(row)].closed \/ Open
<1>1. TypeOK /\ ModeInv /\ CurrentInv /\ TailInv
  BY DEF IInv, KeptInv
<1>2. CASE CreateSegment
  BY <1>2, CreateAdds
<1>3. ASSUME writer = "create"
      PROVE  current = Len(row) /\ row[Len(row)].closed
  <2>1. mode = "open" /\ ~poisoned
    BY <1>1, <1>3 DEF ModeInv
  <2> QED
    BY <1>1, <1>3, <2>1 DEF CurrentInv, TailInv
<1>4. CASE CreateFails
  BY <1>3, <1>4 DEF CreateFails
<1>5. CASE Crash
  BY <1>3, <1>5 DEF Crash
<1>6. CASE Open
  BY <1>6, OpenAdds
<1>7. CASE Write \/ Maintenance \/ Complete \/ Clients \/ Start \/ UNCHANGED vars
  BY <1>7, MaintenanceLeaves, ClientsLeave DEF Write, Complete, Start, durable, vars
<1> QED
  BY <1>2, <1>4, <1>5, <1>6, <1>7 DEF Next, Ingest, Deletion

\* Rows are added by a rotation or at startup only.
LEMMA LengthStep ==
  ASSUME IInv, [Next]_vars, ~CreateSegment, ~Open
  PROVE  Len(row') = Len(row) /\ Segments' = Segments
<1>1. TypeOK /\ ModeInv /\ FileInv /\ CurrentInv /\ JobInv
  BY DEF IInv
<1>2. ASSUME row' = row PROVE Len(row') = Len(row) /\ Segments' = Segments
  BY <1>2 DEF Segments
<1>3. CASE Write \/ AppendFrame \/ CreateFails
  BY <1>1, <1>2, <1>3, WriteRows, AppendRows DEF CreateFails
<1>4. CASE ArchiveRecord \/ CompactPlan
  BY <1>1, <1>4, ArchiveRows, PlanRows
<1>5. CASE Maintenance /\ ~(ArchiveRecord \/ CompactPlan)
  BY <1>2, <1>5 DEF Maintenance, ArchiveStart, ArchiveCopy, CompactStart,
     CompactRead, CompactEvaluate, CompactEnd, durable
<1>6. CASE Deletion
  BY <1>1, <1>2, <1>6, CompleteRows DEF Deletion, Unlink
<1>7. CASE Clients \/ Crash \/ Start \/ UNCHANGED vars
  BY <1>2, <1>7, ClientsLeave DEF Crash, Start, durable, vars
<1> QED
  BY <1>3, <1>4, <1>5, <1>6, <1>7 DEF Next, Ingest

\* Which step sets which mark of a row; no step takes one back.
Marks(s) ==
  /\ row'[s].archived => s \in Segments /\ (row[s].archived \/ (ArchiveRecord /\ s = Lowest))
  /\ row'[s].gc # "hot" =>
       /\ s \in Segments
       /\ row[s].gc # "hot" \/ (CompactPlan /\ s \in todo /\ \A n \in todo : row'[n].gc = "planned")
  /\ row'[s].gc = "planned" => row[s].gc = "planned" \/ (CompactPlan /\ s \in todo)
  /\ row'[s].gc = "complete" => row[s].gc = "complete" \/ (Complete /\ s = FirstPlanned)
  /\ s \in Segments => /\ row[s].archived => row'[s].archived
                       /\ row[s].gc # "hot" => row'[s].gc # "hot"

LEMMA MarksStep ==
  ASSUME IInv, KeptInv, [Next]_vars, NEW s \in Segments'
  PROVE  Marks(s)
<1>1. TypeOK /\ ModeInv /\ FileInv /\ CurrentInv /\ JobInv
  BY DEF IInv
<1>2. ASSUME s \in Segments, row'[s].archived = row[s].archived, row'[s].gc = row[s].gc
      PROVE  Marks(s)
  BY <1>2 DEF Marks
<1>3. ASSUME row'[s] = FreshRow, s \notin Segments PROVE Marks(s)
  <2>1. ~FreshRow.archived /\ FreshRow.gc = "hot"
    BY DEF FreshRow
  <2> QED
    BY <1>3, <2>1 DEF Marks
<1>4. ASSUME row' = row PROVE Marks(s)
  <2>1. s \in Segments
    BY <1>4 DEF Segments
  <2> QED
    BY <1>2, <1>4, <2>1
<1>5. CASE Write
  BY <1>1, <1>2, <1>5, WriteRows
<1>6. CASE CreateSegment
  <2>1. /\ Segments' = Segments \cup {Len(row) + 1}
        /\ \A n \in Segments : row'[n] = row[n] /\ n # Len(row) + 1
        /\ row'[Len(row) + 1] = FreshRow
    BY <1>6, CreateAdds
  <2> QED
    BY <1>2, <1>3, <2>1
<1>7. CASE CreateFails
  BY <1>4, <1>7 DEF CreateFails
<1>8. CASE AppendFrame
  <2>1. /\ Segments' = Segments
        /\ \A n \in Segments : n # Len(row) => row'[n] = row[n]
        /\ row'[Len(row)].archived = row[Len(row)].archived /\ row'[Len(row)].gc = row[Len(row)].gc
    BY <1>8, AppendAdds
  <2> QED
    BY <1>2, <2>1
<1>9. CASE ArchiveRecord
  <2>1. /\ Segments' = Segments /\ row'[s].gc = row[s].gc
        /\ s # Lowest => row'[s] = row[s]
        /\ row'[Lowest].archived
    BY <1>1, <1>9, ArchiveRows
  <2>2. CASE s # Lowest
    BY <1>2, <2>1, <2>2
  <2>3. CASE s = Lowest
    BY <1>9, <2>1, <2>3 DEF Marks
  <2> QED
    BY <2>2, <2>3
<1>10. CASE CompactPlan
  <2>1. Segments' = Segments
    BY <1>1, <1>10, PlanRows
  <2>2. /\ row'[s].archived = row[s].archived
        /\ s \notin todo => row'[s] = row[s]
        /\ row'[s] = row[s] \/ (s \in todo /\ row'[s].gc = "planned")
        /\ row' = row \/ \A n \in todo : row'[n].gc = "planned"
    BY <1>1, <1>10, <2>1, PlanRows
  <2>3. "planned" # "complete" /\ "planned" # "hot"
    OBVIOUS
  <2>4. CASE row'[s] = row[s]
    BY <1>2, <2>1, <2>4
  <2>5. CASE row'[s] # row[s]
    <3>1. s \in todo /\ row'[s].gc = "planned" /\ \A n \in todo : row'[n].gc = "planned"
      BY <2>2, <2>5
    <3> QED
      BY <1>10, <2>1, <2>2, <2>3, <3>1 DEF Marks
  <2> QED
    BY <2>4, <2>5
<1>11. CASE Maintenance /\ ~(ArchiveRecord \/ CompactPlan)
  BY <1>4, <1>11 DEF Maintenance, ArchiveStart, ArchiveCopy, CompactStart,
     CompactRead, CompactEvaluate, CompactEnd, durable
<1>12. CASE Unlink
  BY <1>4, <1>12 DEF Unlink
<1>13. CASE Complete
  <2>1. Segments' = Segments
    BY <1>1, <1>13, CompleteRows
  <2>2. /\ row[FirstPlanned].gc = "planned"
        /\ row'[s].archived = row[s].archived /\ (s # FirstPlanned => row'[s] = row[s])
        /\ row'[FirstPlanned].gc = "complete"
    BY <1>1, <1>13, <2>1, CompleteRows
  <2>3. "planned" # "complete" /\ "planned" # "hot" /\ "complete" # "hot"
    OBVIOUS
  <2>4. CASE s # FirstPlanned
    BY <1>2, <2>1, <2>2, <2>4
  <2>5. CASE s = FirstPlanned
    BY <1>13, <2>1, <2>2, <2>3, <2>5 DEF Marks
  <2> QED
    BY <2>4, <2>5
<1>14. CASE Clients \/ Crash \/ Start \/ UNCHANGED vars
  BY <1>4, <1>14, ClientsLeave DEF Crash, Start, durable, vars
<1>15. CASE Open
  <2>1. /\ \A n \in Segments : row'[n] = row[n]
        /\ \A n \in Segments' : n \notin Segments => row'[n] = FreshRow
    BY <1>15, OpenAdds
  <2> QED
    BY <1>2, <1>3, <2>1
<1> QED
  BY <1>5, <1>6, <1>7, <1>8, <1>9, <1>10, <1>11, <1>12, <1>13, <1>14, <1>15
     DEF Next, Ingest, Deletion

LEMMA ClosedStep == IInv /\ KeptInv /\ [Next]_vars => ClosedInv'
<1> SUFFICES ASSUME IInv, KeptInv, [Next]_vars PROVE ClosedInv'
  OBVIOUS
<1>1. TypeOK /\ ModeInv /\ FileInv /\ CurrentInv /\ JobInv /\ TailInv /\ ClosedInv /\ RowInv
  BY DEF IInv, KeptInv
<1>2. Len(row) \in Nat /\ Segments = 1..Len(row) /\ DOMAIN file \subseteq 1..(Len(row) + 1)
      /\ \A s \in Segments : row[s] \in Row
  BY <1>1, Typed DEF FileInv
<1>3. ASSUME Len(row') = Len(row), Segments' = Segments,
             DOMAIN file' \subseteq DOMAIN file \/ (Len(row) \in Segments => row[Len(row)].closed),
             \A s \in Segments : /\ row[s].closed => row'[s].closed
                                 /\ row'[s].closed => row'[s].bytes > 0
      PROVE  ClosedInv'
  BY <1>1, <1>2, <1>3 DEF ClosedInv
<1>4. ASSUME row' = row, DOMAIN file' \subseteq DOMAIN file \/ row[Len(row)].closed
      PROVE  ClosedInv'
  <2>1. Segments' = Segments
    BY <1>4 DEF Segments
  <2> QED
    BY <1>1, <1>3, <1>4, <2>1 DEF ClosedInv
<1>5. CASE Write
  <2>1. /\ Len(row') = Len(row) /\ Segments' = Segments /\ file' = file
        /\ \A s \in Segments : /\ SameCounts(row[s], row'[s])
                               /\ row[s].closed => row'[s].closed
                               /\ s # current => row'[s] = row[s]
        /\ row'[current].closed => row[current].bytes > 0
    BY <1>1, <1>5, WriteRows DEF Write
  <2>2. \A s \in Segments : row'[s].closed => row'[s].bytes > 0
    BY <1>1, <2>1 DEF ClosedInv, SameCounts
  <2> QED
    BY <1>3, <2>1, <2>2
<1>6. CASE CreateSegment
  <2>1. /\ Len(row') = Len(row) + 1 /\ Segments' = Segments \cup {Len(row) + 1}
        /\ \A s \in Segments : row'[s] = row[s]
        /\ row'[Len(row) + 1] = FreshRow /\ row[Len(row)].closed
        /\ file' = With(file, Len(row) + 1, {})
    BY <1>6, CreateAdds
  <2>2. Len(row') + 1 \notin DOMAIN file'
    <3>1. DOMAIN With(file, Len(row) + 1, {}) = DOMAIN file \cup {Len(row) + 1}
      BY WithIs
    <3> QED
      BY <1>2, <2>1, <3>1
  <2>3. \A s \in Segments : row[s].closed
    BY <1>1, <1>2, <2>1 DEF ClosedInv
  <2>4. ~FreshRow.closed
    BY DEF FreshRow
  <2> QED
    BY <1>1, <1>2, <2>1, <2>2, <2>3, <2>4 DEF ClosedInv
<1>7. CASE AppendFrame
  <2>1. /\ Len(row') = Len(row) /\ Segments' = Segments
        /\ \A n \in Segments : n # Len(row) => row'[n] = row[n]
        /\ row'[Len(row)].closed = row[Len(row)].closed /\ ~row[Len(row)].closed
        /\ file' = With(file, Len(row), file[Len(row)] \cup {Len(frame) + 1})
        /\ Len(row) \in DOMAIN file
    BY <1>7, AppendAdds
  <2>2. DOMAIN file' = DOMAIN file
    <3> DEFINE held == file[Len(row)] \cup {Len(frame) + 1}
    <3>1. DOMAIN With(file, Len(row), held) = DOMAIN file \cup {Len(row)}
      BY WithIs
    <3> QED
      BY <2>1, <3>1
  <2>3. \A s \in Segments : /\ row[s].closed => row'[s].closed
                            /\ row'[s].closed => row'[s].bytes > 0
    BY <1>1, <2>1 DEF ClosedInv
  <2> QED
    BY <1>3, <2>1, <2>2, <2>3
<1>8. CASE ArchiveRecord \/ CompactPlan \/ Complete
  <2>1. /\ Len(row') = Len(row) /\ Segments' = Segments
        /\ \A s \in Segments : SameCounts(row[s], row'[s]) /\ row'[s].closed = row[s].closed
    BY <1>1, <1>8, ArchiveRows, PlanRows, CompleteRows
  <2>2. file' = file
    BY <1>8 DEF ArchiveRecord, CompactPlan, Complete
  <2>3. \A s \in Segments : row'[s].closed => row'[s].bytes > 0
    BY <1>1, <2>1 DEF ClosedInv, SameCounts
  <2> QED
    BY <1>3, <2>1, <2>2, <2>3
<1>9. CASE CreateFails \/ Crash
  <2>1. row' = row /\ (file' = file \/ writer = "create")
    BY <1>9 DEF CreateFails, Crash
  <2>2. writer = "create" => row[Len(row)].closed
    <3>1. writer = "create" => mode = "open" /\ ~poisoned
      BY <1>1 DEF ModeInv
    <3> QED
      BY <1>1, <3>1 DEF CurrentInv, TailInv
  <2> QED
    BY <1>4, <2>1, <2>2
<1>10. CASE Unlink
  <2>1. DOMAIN file' \subseteq DOMAIN file
    <3>1. file' = Without(file, FirstPlanned)
      BY <1>10 DEF Unlink
    <3> QED
      BY <3>1, WithoutIs
  <2> QED
    BY <1>4, <1>10, <2>1 DEF Unlink
<1>11. CASE Maintenance /\ ~(ArchiveRecord \/ CompactPlan)
  BY <1>4, <1>11, MaintenanceLeaves DEF Maintenance, ArchiveStart, ArchiveCopy, CompactStart,
     CompactRead, CompactEvaluate, CompactEnd, durable
<1>12. CASE Clients \/ Start \/ UNCHANGED vars
  BY <1>4, <1>12, ClientsLeave DEF Start, durable, vars
<1>13. CASE Open
  <2>1. /\ Len(row') \in {Len(row), Len(row) + 1} /\ Segments' = 1..Len(row')
        /\ \A s \in Segments : row'[s] = row[s]
        /\ \A s \in Segments' : s \notin Segments => s = Len(row) + 1 /\ row'[s] = FreshRow
        /\ \A s \in DOMAIN file' : s <= Len(row')
        /\ \A s \in Segments : Len(row') > Len(row) => row[s].closed
    BY <1>13, OpenAdds
  <2>2. Len(row') + 1 \notin DOMAIN file'
    BY <1>2, <2>1
  <2>3. ASSUME NEW s \in Segments', s < Len(row') PROVE row'[s].closed
    <3>1. s \in Segments
      BY <1>2, <2>1, <2>3
    <3>2. s < Len(row) \/ Len(row') > Len(row)
      BY <1>2, <2>1, <2>3
    <3> QED
      BY <1>1, <2>1, <3>1, <3>2 DEF ClosedInv
  <2>4. ASSUME NEW s \in Segments', row'[s].closed PROVE row'[s].bytes > 0
    <3>1. s \in Segments
      BY <2>1, <2>4 DEF FreshRow
    <3> QED
      BY <1>1, <2>1, <2>4, <3>1 DEF ClosedInv
  <2> QED
    BY <2>2, <2>3, <2>4 DEF ClosedInv
<1> QED
  BY <1>5, <1>6, <1>7, <1>8, <1>9, <1>10, <1>11, <1>12, <1>13 DEF Next, Ingest, Deletion

-----------------------------------------------------------------------------
(* What files and archived copies hold. *)

\* The segment after the last one has no frames yet.
LEMMA NoFramesBeyond ==
  ASSUME TypeOK, FrameInv
  PROVE  FramesOf(Len(row) + 1) = {}
<1>1. Len(row) \in Nat /\ Segments = 1..Len(row)
  BY Typed
<1>2. Len(row) + 1 \notin Segments
  BY <1>1
<1> QED
  BY <1>2 DEF FramesOf, FrameInv

\* An append adds its frame to those of the last segment.
LEMMA AppendFrames ==
  ASSUME IInv, KeptInv, AppendFrame
  PROVE  /\ \A s : s # Len(row) => FramesOf(s)' = FramesOf(s)
         /\ FramesOf(Len(row))' = FramesOf(Len(row)) \cup {Len(frame) + 1}
         /\ Len(row') = Len(row)
<1> DEFINE q == Len(frame) + 1
           c == Len(row)
<1>1. /\ DOMAIN frame' = DOMAIN frame \cup {q} /\ q \notin DOMAIN frame
      /\ frame'[q] = [segment |-> c, end |-> row[c].bytes + 1]
      /\ \A n \in DOMAIN frame : frame'[n] = frame[n]
      /\ Len(row') = Len(row)
  BY AppendAdds
<1>2. frame'[q].segment = c
  BY <1>1
<1> HIDE DEF q, c
<1>3. \A s : s # c => FramesOf(s)' = FramesOf(s)
  BY <1>1, <1>2 DEF FramesOf
<1>4. {n \in DOMAIN frame' : frame'[n].segment = c} = FramesOf(c) \cup {q}
  BY <1>1, <1>2 DEF FramesOf
<1>5. FramesOf(Len(row))' = {n \in DOMAIN frame' : frame'[n].segment = c}
  BY <1>1 DEF FramesOf, c
<1> QED
  BY <1>1, <1>3, <1>4, <1>5 DEF q, c

\* A step that appends nothing leaves the files' contents alone.
LEMMA FilesKeep ==
  ASSUME IInv, KeptInv, [Next]_vars, ~AppendFrame
  PROVE  \A s \in DOMAIN file' : \/ s \in DOMAIN file /\ file'[s] = file[s]
                                 \/ s = Len(row) + 1 /\ file'[s] = {}
<1>1. CASE Unlink
  <2>1. file' = Without(file, FirstPlanned)
    BY <1>1 DEF Unlink
  <2> QED
    BY <2>1, WithoutIs
<1>2. CASE ~Unlink
  <2>1. file' = file \/ file' = With(file, Len(row) + 1, {})
    BY <1>2, FileMoves
  <2>2. CASE file' = With(file, Len(row) + 1, {})
    <3> DEFINE f == With(file, Len(row) + 1, {})
    <3>1. /\ DOMAIN f = DOMAIN file \cup {Len(row) + 1} /\ f[Len(row) + 1] = {}
          /\ \A n \in DOMAIN file : n # Len(row) + 1 => f[n] = file[n]
      BY DEF With
    <3> HIDE DEF f
    <3>2. file' = f
      BY <2>2 DEF f
    <3> QED
      BY <3>1, <3>2
  <2> QED
    BY <2>1, <2>2
<1> QED
  BY <1>1, <1>2

\* A copy that is in the archive stays there as it is, and a new one is that of
\* a file.
LEMMA ArchiveKeeps ==
  ASSUME IInv, KeptInv, [Next]_vars
  PROVE  /\ archive' = archive \/ (ArchiveCopy /\ archive' = With(archive, Lowest, file[Lowest]))
         /\ job' = "record" => \/ ArchiveCopy /\ archive' = With(archive, Lowest, file[Lowest])
                               \/ job = "record" /\ archive' = archive
         /\ job' = "record" => todo' = todo
<1>1. CASE Ingest \/ Deletion \/ Open
  BY <1>1, IngestLeaves, DeletionLeaves DEF Open, upkeep
<1>2. CASE Maintenance
  BY <1>2 DEF Maintenance, ArchiveStart, ArchiveCopy, ArchiveRecord, CompactStart, CompactRead,
       CompactEvaluate, CompactPlan, CompactEnd, durable
<1>3. CASE Clients \/ Crash \/ Start \/ UNCHANGED vars
  BY <1>3, ClientsLeave DEF Crash, Start, durable, upkeep, vars
<1> QED
  BY <1>1, <1>2, <1>3 DEF Next

LEMMA HeldStep == IInv /\ KeptInv /\ [Next]_vars => HeldInv'
<1> SUFFICES ASSUME IInv, KeptInv, [Next]_vars PROVE HeldInv'
  OBVIOUS
<1>1. TypeOK /\ ModeInv /\ FileInv /\ JobInv /\ FrameInv /\ HeldInv
  BY DEF IInv, KeptInv
<1>2. /\ Len(row) \in Nat /\ Len(frame) \in Nat /\ Segments = 1..Len(row) /\ todo \subseteq Nat
      /\ \A s \in Segments : row[s] \in Row
  BY <1>1, Typed
<1>3. job \in {"copy", "record"} =>
        /\ Lowest \in Segments /\ row[Lowest].closed /\ row[Lowest].gc = "hot"
        /\ Lowest \in DOMAIN file
  BY <1>1, <1>2, LowestIs DEF ModeInv, JobInv, FileInv
<1>4. CASE AppendFrame
  <2> DEFINE q == Len(frame) + 1
             c == Len(row)
  <2>1. /\ c \in Segments /\ ~row[c].closed /\ ~row[c].archived /\ row[c].gc = "hot"
        /\ c \in DOMAIN file /\ q \notin DOMAIN frame /\ DOMAIN frame = 1..Len(frame)
        /\ Segments' = Segments
        /\ \A n \in Segments : n # c => row'[n] = row[n]
        /\ row'[c].bytes = row[c].bytes + 1 /\ row'[c].archived = row[c].archived
        /\ row'[c].gc = row[c].gc
        /\ file' = With(file, c, file[c] \cup {q})
    BY <1>4, AppendAdds
  <2>2. /\ \A s : s # c => FramesOf(s)' = FramesOf(s)
        /\ FramesOf(c)' = FramesOf(c) \cup {q}
        /\ c' = c
    BY <1>4, AppendFrames
  <2>3. /\ DOMAIN file' = DOMAIN file /\ file'[c] = file[c] \cup {q}
        /\ \A n \in DOMAIN file : n # c => file'[n] = file[n]
    <3> DEFINE held == file[c] \cup {q}
    <3>1. /\ DOMAIN With(file, c, held) = DOMAIN file \cup {c} /\ With(file, c, held)[c] = held
          /\ \A n \in DOMAIN file : n # c => With(file, c, held)[n] = file[n]
      BY DEF With
    <3> QED
      BY <2>1, <3>1
  <2>4. IsFiniteSet(FramesOf(c)) /\ q \notin FramesOf(c)
    <3>1. FramesOf(c) \subseteq 1..Len(frame)
      BY <2>1 DEF FramesOf
    <3>2. IsFiniteSet(1..Len(frame))
      BY <1>2, FS_Interval
    <3> QED
      BY <2>1, <3>1, <3>2, FS_Subset DEF FramesOf
  <2>5. Cardinality(FramesOf(c) \cup {q}) = Cardinality(FramesOf(c)) + 1
    BY <2>4, FS_AddElement
  <2>6. archive' = archive /\ todo' = todo /\ job' = job /\ Lowest' = Lowest
    BY <1>4 DEF AppendFrame, upkeep, Lowest
  <2>7. FramesOf(c)' = {n \in DOMAIN frame' : frame'[n].segment = c}
    BY <2>2 DEF FramesOf
  <2> HIDE DEF c, q
  <2>8. \A s \in DOMAIN file' : file'[s] = FramesOf(s)'
    <3>1. ASSUME NEW s \in DOMAIN file' PROVE file'[s] = FramesOf(s)'
      <4>1. CASE s = c
        <5>1. file'[s] = FramesOf(c) \cup {q}
          BY <1>1, <2>1, <2>3, <4>1 DEF HeldInv
        <5>2. FramesOf(s)' = {n \in DOMAIN frame' : frame'[n].segment = s}
          BY DEF FramesOf
        <5> QED
          BY <2>2, <2>7, <4>1, <5>1, <5>2
      <4>2. CASE s # c
        BY <1>1, <2>2, <2>3, <4>2 DEF HeldInv
      <4> QED
        BY <4>1, <4>2
    <3> QED
      BY <3>1
  <2>9. \A s \in Segments' : Cardinality(FramesOf(s))' = row'[s].bytes
    <3>1. ASSUME NEW s \in Segments' PROVE Cardinality(FramesOf(s)') = row'[s].bytes
      <4>1. CASE s = c
        <5>1. FramesOf(s)' = {n \in DOMAIN frame' : frame'[n].segment = s}
          BY DEF FramesOf
        <5>2. FramesOf(s)' = FramesOf(c) \cup {q}
          BY <2>2, <2>7, <4>1, <5>1
        <5> QED
          BY <1>1, <2>1, <2>5, <4>1, <5>2 DEF HeldInv
      <4>2. CASE s # c
        BY <1>1, <2>1, <2>2, <4>2 DEF HeldInv
      <4> QED
        BY <4>1, <4>2
    <3> QED
      BY <3>1
  <2>10. \A s \in Segments' : row'[s].archived =>
           s \in DOMAIN archive' /\ archive'[s] = FramesOf(s)'
    BY <1>1, <2>1, <2>2, <2>6 DEF HeldInv
  <2>11. job' = "record" =>
           Lowest' \in DOMAIN archive' /\ archive'[Lowest'] = FramesOf(Lowest)'
    <3>1. Lowest # c \/ job # "record"
      BY <1>3, <2>1
    <3>2. {n \in DOMAIN frame' : frame'[n].segment = Lowest} = FramesOf(Lowest) \/ job # "record"
      BY <2>2, <3>1 DEF FramesOf
    <3>3. FramesOf(Lowest)' = {n \in DOMAIN frame' : frame'[n].segment = Lowest}
      BY <2>6 DEF FramesOf
    <3> QED
      BY <1>1, <2>6, <3>2, <3>3 DEF HeldInv
  <2>12. \A s \in Segments' : row'[s].gc = "complete" => s \notin DOMAIN file'
    BY <1>1, <2>1, <2>3 DEF HeldInv
  <2> QED
    BY <2>8, <2>9, <2>10, <2>11, <2>12 DEF HeldInv
<1>5. CASE ~AppendFrame
  <2>1. CountsKept
    BY <1>5, CountsStep
  <2>2. \A s : FramesOf(s)' = FramesOf(s)
    BY <2>1 DEF CountsKept, FramesOf
  <2>3. \A s \in DOMAIN file' : \/ s \in DOMAIN file /\ file'[s] = file[s]
                                \/ s = Len(row) + 1 /\ file'[s] = {}
    BY <1>5, FilesKeep
  <2>4. FramesOf(Len(row) + 1) = {}
    BY <1>1, NoFramesBeyond
  <2>5. /\ archive' = archive \/ (ArchiveCopy /\ archive' = With(archive, Lowest, file[Lowest]))
        /\ job' = "record" => \/ ArchiveCopy /\ archive' = With(archive, Lowest, file[Lowest])
                              \/ job = "record" /\ archive' = archive
        /\ job' = "record" => todo' = todo
    BY ArchiveKeeps
  <2>6. ArchiveCopy => file[Lowest] = FramesOf(Lowest)
    BY <1>1, <1>3 DEF ArchiveCopy, HeldInv
  <2>7. ASSUME archive' = With(archive, Lowest, file[Lowest]), ArchiveCopy
        PROVE  /\ Lowest \in DOMAIN archive' /\ archive'[Lowest] = FramesOf(Lowest)
               /\ \A s \in DOMAIN archive : /\ s \in DOMAIN archive'
                                            /\ s # Lowest => archive'[s] = archive[s]
    <3> DEFINE held == file[Lowest]
               f == With(archive, Lowest, held)
    <3>1. /\ DOMAIN f = DOMAIN archive \cup {Lowest} /\ f[Lowest] = held
          /\ \A n \in DOMAIN archive : n # Lowest => f[n] = archive[n]
      BY DEF With
    <3> HIDE DEF f
    <3>2. archive' = f
      BY <2>7 DEF f
    <3> QED
      BY <2>6, <2>7, <3>1, <3>2
  <2>8. \A s : s \in DOMAIN archive /\ archive[s] = FramesOf(s) =>
                 s \in DOMAIN archive' /\ archive'[s] = FramesOf(s)
    BY <2>5, <2>7
  <2>9. \A s \in DOMAIN file' : file'[s] = FramesOf(s)'
    BY <1>1, <2>2, <2>3, <2>4 DEF HeldInv
  <2>10. \A s \in Segments' : Cardinality(FramesOf(s)') = row'[s].bytes
    <3>1. ASSUME NEW s \in Segments' PROVE Cardinality(FramesOf(s)) = row'[s].bytes
      <4>1. CASE s \in Segments
        BY <1>1, <2>1, <4>1 DEF CountsKept, SameCounts, HeldInv
      <4>2. CASE s \notin Segments
        <5>1. row'[s].bytes = 0 /\ FramesOf(s) = {}
          BY <2>1, <2>4, <4>2 DEF CountsKept, FreshRow
        <5> QED
          BY <5>1, FS_EmptySet
      <4> QED
        BY <4>1, <4>2
    <3> QED
      BY <2>2, <3>1
  <2>11. \A s \in Segments' : row'[s].archived =>
           s \in DOMAIN archive' /\ archive'[s] = FramesOf(s)'
    <3>1. ASSUME NEW s \in Segments', row'[s].archived
          PROVE  s \in DOMAIN archive /\ archive[s] = FramesOf(s)
      <4>1. s \in Segments /\ (row[s].archived \/ (ArchiveRecord /\ s = Lowest))
        BY <3>1, MarksStep DEF Marks
      <4> QED
        BY <1>1, <4>1 DEF HeldInv, ArchiveRecord
    <3> QED
      BY <2>2, <2>8, <3>1
  <2>12. job' = "record" =>
           Lowest' \in DOMAIN archive' /\ archive'[Lowest'] = FramesOf(Lowest)'
    <3>1. ASSUME job' = "record"
          PROVE  Lowest \in DOMAIN archive' /\ archive'[Lowest] = FramesOf(Lowest)
      BY <1>1, <2>5, <2>7, <3>1 DEF HeldInv
    <3>2. job' = "record" => Lowest' = Lowest
      BY <2>5 DEF Lowest
    <3>3. job' = "record" => FramesOf(Lowest)' = FramesOf(Lowest)
      BY <2>1, <3>2 DEF FramesOf, CountsKept
    <3> QED
      BY <3>1, <3>2, <3>3
  <2>13. \A s \in Segments' : row'[s].gc = "complete" => s \notin DOMAIN file'
    <3>1. ASSUME NEW s \in Segments', row'[s].gc = "complete"
          PROVE  s \notin DOMAIN file'
      <4>0. s \in Segments /\ (row[s].gc = "complete" \/ (Complete /\ s = FirstPlanned))
        <5>1. "complete" # "hot"
          OBVIOUS
        <5> QED
          BY <3>1, <5>1, MarksStep DEF Marks
      <4>1. s # Len(row) + 1
        BY <1>2, <4>0
      <4>2. s \notin DOMAIN file
        BY <1>1, <4>0 DEF HeldInv, Complete
      <4> QED
        BY <2>3, <4>1, <4>2
    <3> QED
      BY <3>1
  <2> QED
    BY <2>9, <2>10, <2>11, <2>12, <2>13 DEF HeldInv
<1> QED
  BY <1>4, <1>5

-----------------------------------------------------------------------------
(* The order in which segments are archived, given up and deleted. *)

\* Files come beyond the rows, and only an unlink takes one away.
LEMMA FilesCome ==
  ASSUME IInv, KeptInv, [Next]_vars
  PROVE  /\ DOMAIN file' \subseteq DOMAIN file \cup {Len(row) + 1}
         /\ \A s \in DOMAIN file : s \in DOMAIN file' \/ (Unlink /\ s = FirstPlanned)
<1>1. CASE AppendFrame
  <2> DEFINE held == file[Len(row)] \cup {Len(frame) + 1}
  <2>1. Len(row) \in DOMAIN file /\ file' = With(file, Len(row), held)
    BY <1>1, AppendAdds
  <2>2. DOMAIN With(file, Len(row), held) = DOMAIN file \cup {Len(row)}
    BY WithIs
  <2> QED
    BY <2>1, <2>2
<1>2. CASE Unlink
  <2>1. file' = Without(file, FirstPlanned)
    BY <1>2 DEF Unlink
  <2>2. DOMAIN Without(file, FirstPlanned) = DOMAIN file \ {FirstPlanned}
    BY WithoutIs
  <2> QED
    BY <1>2, <2>1, <2>2
<1>3. CASE ~AppendFrame /\ ~Unlink
  <2>1. file' = file \/ file' = With(file, Len(row) + 1, {})
    BY <1>3, FileMoves
  <2>2. DOMAIN With(file, Len(row) + 1, {}) = DOMAIN file \cup {Len(row) + 1}
    BY WithIs
  <2> QED
    BY <2>1, <2>2
<1> QED
  BY <1>1, <1>2, <1>3

\* What a job has in hand it took when it started, and it puts down one segment
\* at a time.
LEMMA InHand ==
  ASSUME [Next]_vars
  PROVE  /\ job' \in {"copy", "record"} =>
              \/ ArchiveStart /\ todo' = Unarchived
              \/ /\ job \in {"copy", "record"}
                 /\ todo' = todo \/ (ArchiveRecord /\ todo' = todo \ {Lowest})
         /\ job' = "plan" =>
              \/ CompactEvaluate /\ todo' = Eligible
              \/ job = "plan" /\ todo' = todo
<1>1. CASE Ingest \/ Deletion \/ Open
  BY <1>1, IngestLeaves, DeletionLeaves DEF Open, upkeep
<1>2. CASE Maintenance
  BY <1>2 DEF Maintenance, ArchiveStart, ArchiveCopy, ArchiveRecord, CompactStart, CompactRead,
       CompactEvaluate, CompactPlan, CompactEnd, durable
<1>3. CASE Clients \/ Crash \/ Start \/ UNCHANGED vars
  BY <1>3, ClientsLeave DEF Crash, Start, durable, upkeep, vars
<1> QED
  BY <1>1, <1>2, <1>3 DEF Next

\* Without pins, what is deletable up to a segment is deletable before it.
LEMMA EligiblePrefix ==
  ASSUME IInv, KeptInv, Pins = {}, NEW s \in Eligible, NEW n \in Segments, n < s,
         row[n].archived, row[n].gc = "hot"
  PROVE  n \in Eligible
<1>1. TypeOK /\ ClosedInv /\ RowInv /\ OrderInv
  BY DEF IInv, KeptInv
<1>2. s \in Segments /\ row[s].closed /\ ~Protected(s)
  BY DEF Eligible
<1>3. Len(row) \in Nat /\ Segments = 1..Len(row)
  BY <1>1, Typed
<1>4. row[n].closed
  BY <1>1, <1>2, <1>3 DEF ClosedInv
<1>5. row[n].last < row[s].last
  <2>1. row[s].bytes > 0
    BY <1>1, <1>2 DEF ClosedInv
  <2>2. row[n].last < row[s].first /\ row[s].first <= row[s].last
    BY <1>1, <1>2, <2>1 DEF OrderInv, RowInv
  <2>3. row[n].last \in Nat /\ row[s].first \in Nat /\ row[s].last \in Nat
    BY <1>1, <1>2, RowFacts
  <2> QED
    BY <2>2, <2>3
<1>6. ASSUME NEW t \in Registered, target[t].status # "retired", Passed(t) < row[n].last
      PROVE  FALSE
  <2>1. Passed(t) \in Nat
    <3>1. t \in Targets /\ target[t] # None
      BY DEF Registered
    <3>2. target[t] \in [status : Statuses, start : Nat] /\ known[t] \in Nat
      BY <1>1, <3>1 DEF TypeOK
    <3> QED
      BY <3>2 DEF Passed, Bigger
  <2>2. row[n].last \in Nat /\ row[s].last \in Nat
    BY <1>1, <1>2, RowFacts
  <2>3. Passed(t) < row[s].last
    BY <1>5, <1>6, <2>1, <2>2
  <2> QED
    BY <1>2, <1>6, <2>3 DEF Protected
<1>7. ~Protected(n)
  BY <1>6 DEF Protected
<1> QED
  BY <1>4, <1>7 DEF Eligible

LEMMA LastKeptStep ==
  ASSUME IInv, KeptInv, [Next]_vars, ~CanFailCreate
  PROVE  LastKept'
<1>1. TypeOK /\ ModeInv /\ CurrentInv /\ JobInv /\ TailInv /\ LastKept
  BY DEF IInv, KeptInv, TailInv
<1>2. Len(row) \in Nat /\ Segments = 1..Len(row) /\ todo \subseteq Nat /\ row \in Seq(Row)
  BY <1>1, Typed
<1>3. row' \in Seq(Row) /\ Segments \subseteq Segments'
  BY RowStep
<1>4. Segments' = 1..Len(row') /\ Len(row') \in Nat
  BY <1>3 DEF Segments
<1>5. Len(row) <= Len(row')
  <2>1. CASE Len(row) = 0
    BY <1>4, <2>1
  <2>2. CASE Len(row) # 0
    <3>1. Len(row) \in Segments
      BY <1>2, <2>2
    <3> QED
      BY <1>3, <1>4, <3>1
  <2> QED
    BY <2>1, <2>2
<1>6. ~poisoned'
  <2>1. CASE Ingest
    BY <1>1, <2>1 DEF Ingest, Write, CreateSegment, CreateFails, AppendFrame, LastKept
  <2>2. CASE Maintenance \/ Deletion \/ Clients
    BY <1>1, <2>2, MaintenanceLeaves, DeletionLeaves, ClientsLeave DEF writing, LastKept
  <2>3. CASE Crash \/ Start \/ Open \/ UNCHANGED vars
    BY <1>1, <2>3 DEF Crash, Start, Open, writing, vars, LastKept
  <2> QED
    BY <2>1, <2>2, <2>3 DEF Next
<1>7. ASSUME row' # <<>>, row'[Len(row')].archived PROVE FALSE
  <2> DEFINE s == Len(row')
  <2>1. s \in Segments'
    BY <1>3, <1>4, <1>7
  <2>2. s \in Segments /\ (row[s].archived \/ (ArchiveRecord /\ s = Lowest))
    <3>1. \A n \in Segments' : Marks(n)
      BY MarksStep
    <3> QED
      BY <1>7, <2>1, <3>1 DEF Marks
  <2>3. s = Len(row) /\ row # <<>>
    BY <1>2, <1>4, <1>5, <2>2
  <2>4. ArchiveRecord => Lowest \in todo /\ job = "record"
    BY <1>1, <1>2, LowestIs DEF ArchiveRecord, ModeInv
  <2> QED
    BY <1>1, <2>2, <2>3, <2>4 DEF LastKept
<1>8. ASSUME row' # <<>>, job' \in {"copy", "record"}, Len(row') \in todo' PROVE FALSE
  <2>1. \/ ArchiveStart /\ todo' = Unarchived
        \/ job \in {"copy", "record"} /\ todo' \subseteq todo
    BY <1>8, InHand
  <2>2. CASE job \in {"copy", "record"} /\ todo' \subseteq todo
    <3>1. Len(row') \in Segments /\ Len(row') \in todo
      BY <1>1, <1>8, <2>2 DEF JobInv
    <3>2. Len(row') = Len(row) /\ row # <<>>
      BY <1>2, <1>4, <1>5, <3>1
    <3> QED
      BY <1>1, <2>2, <3>1, <3>2 DEF LastKept
  <2>3. CASE ArchiveStart /\ todo' = Unarchived
    <3>1. mode = "open" /\ writer = "idle" /\ row' = row
      BY <2>3 DEF ArchiveStart, durable
    <3>2. current = Len(row) /\ ~row[Len(row)].closed
      <4>1. ~poisoned /\ current = Len(row)
        BY <1>1, <3>1 DEF LastKept, TailInv
      <4>2. row[current].closed <=> writer = "create"
        BY <1>1, <3>1, <4>1 DEF CurrentInv
      <4> QED
        BY <3>1, <4>1, <4>2
    <3> QED
      BY <1>8, <2>3, <3>1, <3>2 DEF Unarchived
  <2> QED
    BY <2>1, <2>2, <2>3
<1> QED
  BY <1>6, <1>7, <1>8 DEF LastKept

LEMMA PrefixKeptStep ==
  ASSUME IInv, KeptInv, [Next]_vars, CanFailCreate, Pins = {}
  PROVE  PrefixKept'
<1>1. /\ TypeOK /\ ModeInv /\ FileInv /\ JobInv /\ PrefixKept /\ ClosedInv /\ HeldInv
      /\ FileInv' /\ JobInv'
  BY FileStep, JobStep DEF IInv, KeptInv, TailInv
<1>2. Len(row) \in Nat /\ Segments = 1..Len(row) /\ todo \subseteq Nat
  BY <1>1, Typed
<1>3. \A s \in Segments' : Marks(s)
  BY MarksStep
<1>4. \A s \in Segments' : s \notin Segments => s = Len(row) + 1 /\ row'[s] = FreshRow
  <2>1. CASE AppendFrame
    BY <2>1, AppendAdds
  <2>2. CASE ~AppendFrame
    BY <2>2, CountsStep DEF CountsKept
  <2> QED
    BY <2>1, <2>2
<1>5. Segments \subseteq Segments'
  BY RowStep
<1>6. ASSUME NEW s \in Segments', s \notin Segments
      PROVE  /\ ~row'[s].archived /\ row'[s].gc = "hot" /\ s \in DOMAIN file'
             /\ job' \in {"copy", "record", "plan"} => s \notin todo'
  <2>1. row'[s] = FreshRow
    BY <1>4, <1>6
  <2>2. ~row'[s].archived /\ ~row'[s].closed /\ row'[s].gc = "hot"
    BY <2>1 DEF FreshRow
  <2> QED
    BY <1>1, <2>2 DEF FileInv, JobInv
<1>7. ASSUME NEW s \in Segments, NEW n \in Segments, n < s, row'[s].archived
      PROVE  row'[n].archived
  <2>1. row[s].archived \/ (ArchiveRecord /\ s = Lowest)
    BY <1>3, <1>5, <1>7 DEF Marks
  <2>2. ASSUME ArchiveRecord, s = Lowest PROVE row[n].archived
    <3>1. job = "record" /\ s \in todo /\ n \notin todo
      BY <1>1, <1>2, <1>7, <2>2, LowestIs DEF ArchiveRecord, ModeInv
    <3> QED
      BY <1>1, <1>7, <3>1 DEF PrefixKept
  <2>3. row[n].archived
    BY <1>1, <1>7, <2>1, <2>2 DEF PrefixKept
  <2> QED
    BY <1>3, <1>5, <2>3 DEF Marks
<1>8. ASSUME NEW s \in Segments, NEW n \in Segments, n < s,
             job' \in {"copy", "record"}, s \in todo', n \notin todo'
      PROVE  row'[n].archived
  <2>1. CASE ArchiveStart /\ todo' = Unarchived
    <3>1. row' = row
      BY <2>1 DEF ArchiveStart, durable
    <3>2. row[n].closed
      BY <1>1, <1>2, <1>8 DEF ClosedInv
    <3> QED
      BY <1>1, <1>8, <2>1, <3>1, <3>2 DEF Unarchived, FileInv
  <2>2. CASE /\ job \in {"copy", "record"}
             /\ todo' = todo \/ (ArchiveRecord /\ todo' = todo \ {Lowest})
    <3>1. row[n].archived \/ n \in todo
      BY <1>1, <1>8, <2>2 DEF PrefixKept
    <3>2. CASE row[n].archived
      BY <1>3, <1>5, <3>2 DEF Marks
    <3>3. CASE n \in todo
      <4>1. ArchiveRecord /\ n = Lowest
        BY <1>8, <2>2, <3>3
      <4> QED
        BY <1>1, <4>1, ArchiveRows
    <3> QED
      BY <3>1, <3>2, <3>3
  <2> QED
    BY <1>8, <2>1, <2>2, InHand
<1>9. ASSUME NEW s \in Segments, NEW n \in Segments, n < s, row'[s].gc # "hot"
      PROVE  row'[n].gc # "hot"
  <2>1. row[s].gc # "hot" \/ (CompactPlan /\ s \in todo /\ \A m \in todo : row'[m].gc = "planned")
    BY <1>3, <1>5, <1>9 DEF Marks
  <2>2. CASE row[n].gc # "hot"
    BY <1>3, <1>5, <2>2 DEF Marks
  <2>3. CASE row[n].gc = "hot"
    <3>1. CompactPlan /\ s \in todo /\ \A m \in todo : row'[m].gc = "planned"
      BY <1>1, <1>9, <2>1, <2>3 DEF PrefixKept
    <3>2. n \in todo
      BY <1>1, <1>9, <2>3, <3>1 DEF PrefixKept, CompactPlan
    <3>3. row'[n].gc = "planned"
      BY <3>1, <3>2
    <3> QED
      BY <3>3
  <2> QED
    BY <2>2, <2>3
<1>10. ASSUME NEW s \in Segments, NEW n \in Segments, n < s,
              job' = "plan", s \in todo', n \notin todo'
       PROVE  row'[n].gc # "hot"
  <2>1. CASE CompactEvaluate /\ todo' = Eligible
    <3>1. row' = row /\ s \in Eligible /\ n \notin Eligible
      BY <1>10, <2>1 DEF CompactEvaluate, durable
    <3>2. row[n].archived
      BY <1>1, <1>10, <3>1 DEF PrefixKept, Eligible
    <3> QED
      BY <1>10, <3>1, <3>2, EligiblePrefix
  <2>2. CASE job = "plan" /\ todo' = todo
    <3>1. row[n].gc # "hot"
      BY <1>1, <1>10, <2>2 DEF PrefixKept
    <3> QED
      BY <1>3, <1>5, <3>1 DEF Marks
  <2> QED
    BY <1>10, <2>1, <2>2, InHand
<1>11. ASSUME NEW s \in Segments, NEW n \in Segments, n < s, s \notin DOMAIN file', n \in DOMAIN file'
       PROVE  FALSE
  <2>1. n \in DOMAIN file
    BY <1>2, <1>11, FilesCome
  <2>2. s \in DOMAIN file
    BY <1>1, <1>11, <2>1 DEF PrefixKept
  <2>3. Unlink /\ s = FirstPlanned
    BY <1>11, <2>2, FilesCome
  <2>4. row[s].gc = "planned" /\ n \notin Planned
    <3>1. Planned # {}
      BY <2>3 DEF Unlink
    <3>2. FirstPlanned \in Planned /\ \A m \in Planned : FirstPlanned <= m
      BY <1>2, <3>1, FirstPlannedIs
    <3> QED
      BY <1>2, <1>11, <2>3, <3>2 DEF Planned
  <2>5. row[n].gc # "hot" /\ row[n].gc # "planned"
    <3>1. "planned" # "hot"
      OBVIOUS
    <3> QED
      BY <1>1, <1>11, <2>4, <3>1 DEF PrefixKept, Planned
  <2>6. row[n].gc = "complete"
    <3>1. row[n].gc \in {"hot", "planned", "complete"}
      BY <1>1, Typed DEF Row
    <3> QED
      BY <2>5, <3>1
  <2> QED
    BY <1>1, <2>1, <2>6 DEF HeldInv
<1>12. ASSUME NEW s \in Segments', NEW n \in Segments', n < s
       PROVE  /\ row'[s].archived => row'[n].archived
              /\ job' \in {"copy", "record"} /\ s \in todo' => n \in todo' \/ row'[n].archived
              /\ row'[s].gc # "hot" => row'[n].gc # "hot"
              /\ job' = "plan" /\ s \in todo' => n \in todo' \/ row'[n].gc # "hot"
              /\ s \notin DOMAIN file' => n \notin DOMAIN file'
  <2>1. CASE s \in Segments
    <3>1. n \in Segments
      BY <1>2, <1>4, <1>12, <2>1
    <3> QED
      BY <1>7, <1>8, <1>9, <1>10, <1>11, <1>12, <2>1, <3>1
  <2>2. CASE s \notin Segments
    BY <1>6, <2>2
  <2> QED
    BY <2>1, <2>2
<1> QED
  BY <1>12 DEF PrefixKept

LEMMA TailStep == IInv /\ KeptInv /\ NoPinnedFailure /\ [Next]_vars => TailInv'
<1> SUFFICES ASSUME IInv, KeptInv, NoPinnedFailure, [Next]_vars PROVE TailInv'
  OBVIOUS
<1>1. mode = "open" => current = Len(row)
  BY DEF KeptInv, TailInv
<1>2. mode' = "open" => current' = Len(row')
  <2>1. CASE CreateSegment
    <3>1. current = Len(row) /\ Len(row') = Len(row) + 1
      BY <2>1, CreateAdds
    <3> QED
      BY <2>1, <3>1 DEF CreateSegment
  <2>2. CASE Open
    BY <2>2, OpenAdds
  <2>3. CASE ~CreateSegment /\ ~Open
    <3>1. Len(row') = Len(row)
      BY <2>3, LengthStep
    <3>2. CASE Ingest
      <4>1. mode' = mode /\ current' = current
        BY <2>3, <3>2 DEF Ingest, Write, CreateFails, AppendFrame
      <4> QED
        BY <1>1, <3>1, <4>1
    <3>3. CASE Maintenance \/ Deletion \/ Clients
      <4>1. mode' = mode /\ current' = current
        BY <3>3, MaintenanceLeaves, DeletionLeaves, ClientsLeave DEF writing
      <4> QED
        BY <1>1, <3>1, <4>1
    <3>4. CASE Crash \/ Start \/ UNCHANGED vars
      BY <1>1, <3>4 DEF Crash, Start, vars
    <3> QED
      BY <2>3, <3>2, <3>3, <3>4 DEF Next
  <2> QED
    BY <2>1, <2>2, <2>3
<1>3. IF CanFailCreate THEN PrefixKept' ELSE LastKept'
  BY LastKeptStep, PrefixKeptStep DEF NoPinnedFailure
<1> QED
  BY <1>2, <1>3 DEF TailInv

-----------------------------------------------------------------------------
(* Pins and deletions. *)

\* Only a plan adds planned deletions; their ranges no longer change.
LEMMA PlannedStays ==
  ASSUME IInv, KeptInv, [Next]_vars, ~CompactPlan
  PROVE  \A s \in Planned' : s \in Planned /\ SameCounts(row[s], row'[s])
<1> SUFFICES ASSUME NEW s \in Planned' PROVE s \in Planned /\ SameCounts(row[s], row'[s])
  OBVIOUS
<1>1. s \in Segments' /\ row'[s].gc = "planned"
  BY DEF Planned
<1>2. s \in Segments /\ row[s].gc = "planned"
  <2>1. "planned" # "hot"
    OBVIOUS
  <2>2. Marks(s)
    BY <1>1, MarksStep
  <2> QED
    BY <1>1, <2>1, <2>2 DEF Marks
<1>3. CASE AppendFrame
  <2>1. s # Len(row) /\ row'[s] = row[s]
    BY <1>2, <1>3, AppendAdds
  <2> QED
    BY <1>2, <2>1 DEF Planned, SameCounts
<1>4. CASE ~AppendFrame
  BY <1>2, <1>4, CountsStep DEF Planned, CountsKept
<1> QED
  BY <1>3, <1>4

\* A pin keeps away from deletions as long as it and they do not change.
LEMMA PinStays ==
  ASSUME IInv, KeptInv, [Next]_vars, ~CompactPlan, NEW range,
         \A s \in Planned : ~Overlaps(s, range)
  PROVE  \A s \in Planned' : ~(range.from <= row'[s].last /\ range.through >= row'[s].first)
<1>1. \A s \in Planned' : s \in Planned /\ SameCounts(row[s], row'[s])
  BY PlannedStays
<1> QED
  BY <1>1 DEF SameCounts, Overlaps

\* A plan that goes through plans nothing that a pin covers.
LEMMA PlanSpares ==
  ASSUME IInv, KeptInv, CompactPlan, NEW p \in Pins, pin[p] # None
  PROVE  \A s \in Planned' : ~(pin[p].from <= row'[s].last /\ pin[p].through >= row'[s].first)
<1>1. TypeOK /\ ModeInv /\ JobInv
  BY DEF IInv
<1>2. job = "plan" /\ mode = "open" /\ Planned = {}
  <2>1. job = "plan"
    BY DEF CompactPlan
  <2>2. "plan" # "idle" /\ "plan" # "delete"
    OBVIOUS
  <2>3. mode = "open"
    BY <1>1, <2>1, <2>2 DEF ModeInv
  <2> QED
    BY <1>1, <2>1, <2>2, <2>3 DEF ModeInv
<1>3. ASSUME NEW s \in Planned'
      PROVE  ~(pin[p].from <= row'[s].last /\ pin[p].through >= row'[s].first)
  <2>1. Segments' = Segments
    BY <1>1, PlanRows
  <2>2. s \in Segments /\ row'[s].gc = "planned" /\ row[s].gc # "planned"
    BY <1>2, <2>1 DEF Planned
  <2>3. /\ SameCounts(row[s], row'[s]) /\ s \in todo /\ "gc" \in fresh
    BY <1>1, <2>2, PlanRows
  <2>4. SafeToDelete(s)
    BY <1>1, <1>2, <2>3 DEF JobInv
  <2> QED
    BY <2>3, <2>4 DEF SafeToDelete, SameCounts, Overlaps
<1> QED
  BY <1>3

\* Frames are only added.
LEMMA FramesGrow ==
  ASSUME IInv, KeptInv, [Next]_vars
  PROVE  Len(frame) \in Nat /\ Len(frame') \in Nat /\ Len(frame) <= Len(frame')
<1>1. Len(frame) \in Nat
  BY Typed DEF IInv
<1>2. CASE AppendFrame
  BY <1>1, <1>2, AppendAdds
<1>3. CASE ~AppendFrame
  BY <1>1, <1>3, CountsStep DEF CountsKept
<1> QED
  BY <1>2, <1>3

LEMMA PinStep == IInv /\ KeptInv /\ [Next]_vars => PinInv'
<1> SUFFICES ASSUME IInv, KeptInv, [Next]_vars PROVE PinInv'
  OBVIOUS
<1>1. TypeOK /\ PinInv
  BY DEF IInv, KeptInv
<1>2. Len(frame) \in Nat /\ Len(frame') \in Nat /\ Len(frame) <= Len(frame')
  BY FramesGrow
<1>3. \A p \in Pins : pin[p] # None => pin[p].from \in Nat /\ pin[p].through \in Nat
  BY <1>1 DEF TypeOK
<1>4. pinning # None => pinning.from \in Nat /\ pinning.through \in Nat
  BY <1>1 DEF TypeOK
<1> DEFINE Apart(range) ==
      \A s \in Planned' : ~(range.from <= row'[s].last /\ range.through >= row'[s].first)
<1>5. ASSUME NEW p \in Pins, pin[p] # None
      PROVE  pin[p].from > 0 /\ pin[p].through <= Len(frame') /\ Apart(pin[p])
  <2>1. pin[p].from > 0 /\ pin[p].through <= Len(frame) /\ \A s \in Planned : ~Overlaps(s, pin[p])
    BY <1>1, <1>5 DEF PinInv
  <2>2. Apart(pin[p])
    <3>1. CASE CompactPlan
      BY <1>5, <3>1, PlanSpares
    <3>2. CASE ~CompactPlan
      BY <2>1, <3>2, PinStays
    <3> QED
      BY <3>1, <3>2
  <2>3. pin[p].through <= Len(frame')
    BY <1>2, <1>3, <1>5, <2>1
  <2> QED
    BY <2>1, <2>2, <2>3
<1>6. ASSUME pinning # None
      PROVE  /\ pinning.from > 0 /\ pinning.through <= Len(frame')
             /\ pinning.checked /\ "pin" \in fresh /\ ~CompactPlan => Apart(pinning)
  <2>1. pinning.from > 0 /\ pinning.through <= Len(frame)
    BY <1>1, <1>6 DEF PinInv
  <2>2. pinning.through <= Len(frame')
    BY <1>2, <1>4, <1>6, <2>1
  <2>3. ASSUME pinning.checked, "pin" \in fresh, ~CompactPlan PROVE Apart(pinning)
    <3>1. \A s \in Planned : ~Overlaps(s, pinning)
      BY <1>1, <1>6, <2>3 DEF PinInv
    <3> QED
      BY <2>3, <3>1, PinStays
  <2> QED
    BY <2>1, <2>2, <2>3
<1> HIDE DEF Apart
<1>7. ASSUME pin' = pin,
             pinning' = None \/ (/\ pinning' = pinning
                                 /\ "pin" \in fresh' => "pin" \in fresh /\ ~CompactPlan)
      PROVE  PinInv'
  <2>1. ASSUME NEW p \in Pins, pin'[p] # None
        PROVE  /\ pin'[p].from > 0 /\ pin'[p].through <= Len(frame')
               /\ Apart(pin'[p])
    BY <1>5, <1>7, <2>1
  <2>2. ASSUME pinning' # None
        PROVE  /\ pinning'.from > 0 /\ pinning'.through <= Len(frame')
               /\ pinning'.checked /\ "pin" \in fresh' => Apart(pinning')
    BY <1>6, <1>7, <2>2
  <2> QED
    BY <2>1, <2>2 DEF PinInv, Overlaps, Apart
<1>8. CASE Ingest \/ Deletion
  <2>1. pin' = pin /\ pinning' = pinning /\ fresh' = fresh
    BY <1>8, IngestLeaves, DeletionLeaves
  <2>2. ~CompactPlan
    <3>1. CASE Ingest
      BY <3>1 DEF Ingest, Write, CreateSegment, CreateFails, AppendFrame, upkeep, CompactPlan
    <3>2. CASE Deletion
      BY <3>2 DEF Deletion, Unlink, Complete, upkeep, CompactPlan
    <3> QED
      BY <1>8, <3>1, <3>2
  <2> QED
    BY <1>7, <2>1, <2>2
<1>9. CASE CompactPlan
  <2>1. pin' = pin /\ pinning' = pinning
    BY <1>9 DEF CompactPlan
  <2>2. CASE fresh' = {}
    <3>1. ASSUME NEW p \in Pins, pin'[p] # None
          PROVE  /\ pin'[p].from > 0 /\ pin'[p].through <= Len(frame')
                 /\ Apart(pin'[p])
      BY <1>5, <2>1, <3>1
    <3>2. ASSUME pinning' # None
          PROVE  pinning'.from > 0 /\ pinning'.through <= Len(frame')
      BY <1>6, <2>1, <3>2
    <3> QED
      BY <2>2, <3>1, <3>2 DEF PinInv, Overlaps, Apart
  <2>3. CASE row' = row
    <3>1. Planned' = Planned /\ frame' = frame /\ fresh' \subseteq fresh
      BY <1>9, <2>3 DEF Planned, Segments, CompactPlan
    <3> QED
      BY <1>1, <2>1, <2>3, <3>1 DEF PinInv, Overlaps
  <2> QED
    BY <1>9, <2>2, <2>3 DEF CompactPlan
<1>10. CASE Maintenance /\ ~CompactPlan
  <2>1. pin' = pin /\ pinning' = pinning
    BY <1>10, MaintenanceLeaves
  <2>2. fresh' \subseteq fresh \cup {"gc"}
    BY <1>10 DEF Maintenance, ArchiveStart, ArchiveCopy, ArchiveRecord, CompactStart, CompactRead,
       CompactEvaluate, CompactEnd
  <2>3. "pin" # "gc"
    OBVIOUS
  <2> QED
    BY <1>7, <1>10, <2>1, <2>2, <2>3
<1>11. CASE Clients
  <2>0. row' = row /\ frame' = frame /\ Segments' = Segments /\ Planned' = Planned
    BY <1>11, ClientsLeave DEF Segments, Planned
  <2>1. ~CompactPlan
    <3>1. job' = job /\ todo' = todo
      BY <1>11, ClientsLeave DEF upkeep
    <3> QED
      BY <3>1 DEF CompactPlan
  <2>2. CASE \E t \in Targets : RegisterTarget(t) \/ RetireTarget(t) \/ Observe(t)
    BY <1>7, <2>1, <2>2 DEF RegisterTarget, RetireTarget, Observe, Revised
  <2>3. CASE CommitRemembered \/ \E t \in Targets, q \in 1..Len(frame) : CommitTransaction(t, q)
    <3>1. pin' = pin /\ pinning' = pinning /\ fresh' \subseteq fresh
      BY <2>3 DEF CommitRemembered, CommitTransaction, durable
    <3> QED
      BY <1>7, <2>1, <3>1
  <2>4. ASSUME NEW p \in Pins, NEW from \in 1..Len(frame), NEW through \in 1..Len(frame),
               PinRead(p, from, through)
        PROVE  PinInv'
    <3>1. /\ pin' = pin
          /\ pinning' = [id |-> p, from |-> from, through |-> through, checked |-> FALSE]
      BY <2>4 DEF PinRead, durable
    <3>2. pinning'.from > 0 /\ pinning'.through <= Len(frame') /\ ~pinning'.checked
      BY <1>2, <2>0, <2>4, <3>1
    <3>3. ASSUME NEW n \in Pins, pin'[n] # None
          PROVE  /\ pin'[n].from > 0 /\ pin'[n].through <= Len(frame')
                 /\ Apart(pin'[n])
      BY <1>5, <3>1, <3>3
    <3> QED
      BY <3>2, <3>3 DEF PinInv, Overlaps, Apart
  <2>5. CASE PinCheck
    <3>1. pin' = pin /\ pinning # None
      BY <2>5 DEF PinCheck, durable
    <3>2. CASE pinning' = None
      BY <1>7, <3>1, <3>2
    <3>3. CASE pinning' # None
      <4>1. /\ ~ \E s \in Segments : row[s].gc = "planned" /\ Overlaps(s, pinning)
            /\ pinning' = [pinning EXCEPT !.checked = TRUE]
        BY <2>5, <3>3 DEF PinCheck
      <4>2. pinning'.from = pinning.from /\ pinning'.through = pinning.through
        BY <1>1, <3>1, <4>1 DEF TypeOK
      <4>3. \A s \in Planned : ~Overlaps(s, pinning)
        BY <4>1 DEF Planned
      <4>4. Apart(pinning')
        BY <2>0, <4>2, <4>3 DEF Apart, Overlaps
      <4>5. ASSUME NEW n \in Pins, pin'[n] # None
            PROVE  /\ pin'[n].from > 0 /\ pin'[n].through <= Len(frame')
                   /\ Apart(pin'[n])
        BY <1>5, <3>1, <4>5
      <4>6. pinning'.from > 0 /\ pinning'.through <= Len(frame')
        BY <1>6, <3>1, <4>2
      <4> QED
        BY <4>4, <4>5, <4>6 DEF PinInv, Overlaps, Apart
    <3> QED
      BY <3>2, <3>3
  <2>6. CASE PinTransaction
    <3>1. pinning # None /\ pinning.checked /\ pinning' = None
      BY <2>6 DEF PinTransaction
    <3>2. CASE "pin" \in fresh
      <4> DEFINE range == [from |-> pinning.from, through |-> pinning.through]
      <4>1. pin' = [pin EXCEPT ![pinning.id] = range]
        BY <2>6, <3>2 DEF PinTransaction, PinUnchanged
      <4>2. range.from > 0 /\ range.through <= Len(frame') /\ Apart(range)
        BY <1>6, <2>1, <3>1, <3>2 DEF Apart
      <4>3. ASSUME NEW n \in Pins, pin'[n] # None
            PROVE  /\ pin'[n].from > 0 /\ pin'[n].through <= Len(frame')
                   /\ Apart(pin'[n])
        <5>1. CASE n = pinning.id
          <6>1. pin'[n] = range
            BY <1>1, <4>1, <5>1 DEF TypeOK
          <6> QED
            BY <4>2, <6>1
        <5>2. CASE n # pinning.id
          <6>1. pin'[n] = pin[n]
            BY <1>1, <4>1, <5>2 DEF TypeOK
          <6> QED
            BY <1>5, <4>3, <6>1
        <5> QED
          BY <5>1, <5>2
      <4> QED
        BY <3>1, <4>3 DEF PinInv, Overlaps, Apart
    <3>3. CASE "pin" \notin fresh
      BY <1>7, <2>6, <3>1, <3>3 DEF PinTransaction, PinUnchanged
    <3> QED
      BY <3>2, <3>3
  <2>7. ASSUME NEW p \in Pins, ReleasePin(p) PROVE PinInv'
    <3>1. pin' = [pin EXCEPT ![p] = None] /\ pinning' = pinning /\ fresh' = {}
      BY <2>7 DEF ReleasePin, Revised
    <3>2. ASSUME NEW n \in Pins, pin'[n] # None
          PROVE  /\ pin'[n].from > 0 /\ pin'[n].through <= Len(frame')
                 /\ Apart(pin'[n])
      <4>1. pin'[n] = pin[n]
        BY <1>1, <3>1, <3>2 DEF TypeOK
      <4> QED
        BY <1>5, <3>2, <4>1
    <3>3. ASSUME pinning' # None
          PROVE  pinning'.from > 0 /\ pinning'.through <= Len(frame')
      BY <1>6, <3>1, <3>3
    <3> QED
      BY <3>1, <3>2, <3>3 DEF PinInv, Overlaps, Apart
  <2> QED
    BY <1>11, <2>2, <2>3, <2>4, <2>5, <2>6, <2>7 DEF Clients
<1>12. CASE Crash
  BY <1>7, <1>12 DEF Crash
<1>13. CASE Start \/ Open \/ UNCHANGED vars
  <2>1. pin' = pin /\ pinning' = pinning /\ fresh' = fresh
    BY <1>13 DEF Start, Open, durable, vars
  <2>2. ~CompactPlan \/ row' = row
    BY <1>13 DEF Start, Open, upkeep, vars, CompactPlan
  <2>3. CASE CompactPlan
    BY <1>9, <2>3
  <2>4. CASE ~CompactPlan
    BY <1>7, <2>1, <2>4
  <2> QED
    BY <2>3, <2>4
<1> QED
  BY <1>8, <1>9, <1>10, <1>11, <1>12, <1>13 DEF Next

LEMMA StartupStep == IInv /\ KeptInv /\ [Next]_vars => StartupNeverRefuses'
<1> SUFFICES ASSUME IInv, KeptInv, [Next]_vars PROVE mode' # "refused"
  BY DEF StartupNeverRefuses
<1>1. mode # "refused"
  BY DEF KeptInv, StartupNeverRefuses
<1>2. CASE Open
  BY <1>2, OpenKeeps DEF Open
<1>3. CASE Ingest \/ Maintenance \/ Deletion \/ Clients
  BY <1>1, <1>3, IngestLeaves, MaintenanceLeaves, DeletionLeaves, ClientsLeave
<1>4. CASE Crash \/ Start \/ UNCHANGED vars
  BY <1>1, <1>4 DEF Crash, Start, vars
<1> QED
  BY <1>2, <1>3, <1>4 DEF Next

LEMMA InitKept == Init => KeptInv
<1> SUFFICES ASSUME Init PROVE KeptInv
  OBVIOUS
<1>1. Segments = {} /\ DOMAIN file = {} /\ DOMAIN frame = {} /\ Len(frame) = 0
  BY DEF Init, Segments
<1>2. TailInv /\ ClosedInv /\ RowInv /\ OrderInv /\ FrameInv
  BY <1>1 DEF Init, TailInv, LastKept, PrefixKept, ClosedInv, RowInv, OrderInv, FrameInv
<1>3. HeldInv
  BY <1>1 DEF Init, HeldInv
<1>4. PinInv /\ StartupNeverRefuses
  BY DEF Init, PinInv, StartupNeverRefuses
<1> QED
  BY <1>2, <1>3, <1>4 DEF KeptInv

LEMMA KeptNext == IInv /\ KeptInv /\ NoPinnedFailure /\ [Next]_vars => KeptInv'
BY TailStep, ClosedStep, RowInvStep, OrderStep, FrameStep, HeldStep, PinStep, StartupStep DEF KeptInv

-----------------------------------------------------------------------------
(* The theorems that need it. *)

LEMMA Kept ==
  ASSUME NoPinnedFailure
  PROVE  Spec => [](IInv /\ KeptInv)
<1>1. Init => IInv /\ KeptInv
  BY InitInv, InitKept
<1>2. IInv /\ KeptInv /\ [Next]_vars => (IInv /\ KeptInv)'
  BY NextInv, KeptNext
<1> QED
  BY <1>1, <1>2, PTL DEF Spec

\* Where a frame's bytes are, by what its row says.
LEMMA Whereabouts ==
  ASSUME IInv, KeptInv, NEW q \in DOMAIN frame
  PROVE  LET s == frame[q].segment
         IN /\ s \in Segments /\ row[s].first <= q /\ q <= row[s].last
            /\ row[s].gc \in {"hot", "planned", "complete"}
            /\ row[s].gc = "hot" => s \in DOMAIN file /\ q \in file[s]
            /\ row[s].gc # "hot" => row[s].archived /\ s \in DOMAIN archive /\ q \in archive[s]
<1> DEFINE s == frame[q].segment
<1>1. TypeOK /\ FileInv /\ FrameInv /\ HeldInv
  BY DEF IInv, KeptInv
<1>2. s \in Segments /\ row[s].first <= q /\ q <= row[s].last
  BY <1>1 DEF FrameInv
<1>3. row[s].gc \in {"hot", "planned", "complete"}
  BY <1>1, <1>2, Typed DEF Row
<1>4. q \in FramesOf(s)
  BY DEF FramesOf
<1> HIDE DEF s
<1>5. row[s].gc = "hot" => s \in DOMAIN file /\ q \in file[s]
  BY <1>1, <1>2, <1>4 DEF FileInv, HeldInv
<1>6. row[s].gc # "hot" => row[s].archived /\ s \in DOMAIN archive /\ q \in archive[s]
  BY <1>1, <1>2, <1>4 DEF FileInv, HeldInv
<1> QED
  BY <1>2, <1>3, <1>5, <1>6 DEF s

\* No interleaving of rotation, archiving, compaction and restarts loses a frame
\* of wal_frames: it is in its segment file, or in the archived copy that its row
\* names, or will name once the deletion under way is completed.
THEOREM NothingIsLost ==
  ASSUME NoPinnedFailure
  PROVE  Spec => []FramesSurvive
<1>1. IInv /\ KeptInv => FramesSurvive
  <2> SUFFICES ASSUME IInv, KeptInv, NEW q \in DOMAIN frame
               PROVE  LET s == frame[q].segment
                      IN \/ Readable(q)
                         \/ row[s].gc = "planned" /\ row[s].archived
                            /\ s \in DOMAIN archive /\ q \in archive[s]
    BY DEF FramesSurvive
  <2> QED
    BY Whereabouts DEF Readable
<1> QED
  BY <1>1, Kept, PTL

\* pin() and compact() never both succeed on a segment, so what a pin covers can
\* be read from a file or an archived copy at every moment of a compaction, of a
\* crash in the middle of it and of the restart that finishes it.
THEOREM PinsHold ==
  ASSUME NoPinnedFailure
  PROVE  Spec => []PinnedReadable
<1>1. IInv /\ KeptInv => PinnedReadable
  <2> SUFFICES ASSUME IInv, KeptInv, NEW p \in Pins, pin[p] # None,
                      NEW q \in pin[p].from..pin[p].through
               PROVE  Readable(q)
    BY DEF PinnedReadable
  <2>1. TypeOK /\ PinInv /\ RowInv
    BY DEF IInv, KeptInv
  <2>2. /\ pin[p].from \in Nat /\ pin[p].through \in Nat /\ Len(frame) \in Nat
        /\ pin[p].from > 0 /\ pin[p].through <= Len(frame)
        /\ \A s \in Planned : ~Overlaps(s, pin[p])
    BY <2>1, Typed DEF TypeOK, PinInv
  <2>3. q \in DOMAIN frame
    <3>1. DOMAIN frame = 1..Len(frame)
      BY <2>1 DEF TypeOK
    <3> QED
      BY <2>2, <3>1
  <2> DEFINE s == frame[q].segment
  <2>4. /\ s \in Segments /\ row[s].first <= q /\ q <= row[s].last
        /\ row[s].gc \in {"hot", "planned", "complete"}
        /\ row[s].gc = "hot" => s \in DOMAIN file /\ q \in file[s]
        /\ row[s].gc # "hot" => row[s].archived /\ s \in DOMAIN archive /\ q \in archive[s]
    BY <2>3, Whereabouts
  <2>5. row[s].first \in Nat /\ row[s].last \in Nat
    BY <2>1, <2>4, RowFacts
  <2>6. Overlaps(s, pin[p])
    <3> HIDE DEF s
    <3> QED
      BY <2>2, <2>4, <2>5 DEF Overlaps
  <2>7. row[s].gc # "planned"
    BY <2>2, <2>4, <2>6 DEF Planned
  <2> QED
    BY <2>4, <2>7 DEF Readable
<1> QED
  BY <1>1, Kept, PTL

\* The running total bounds what the files hold, and is it when nothing is being
\* deleted.
LEMMA TotalIsHeld ==
  ASSUME IInv, KeptInv, mode = "open"
  PROVE  total >= FileBytes /\ (job # "delete" => total = FileBytes)
<1> DEFINE w == Weights(row)
           h == [n \in Segments |-> Held(n)]
<1>1. TypeOK /\ ModeInv /\ FileInv /\ HeldInv /\ TotalInv
  BY DEF IInv, KeptInv
<1>2. /\ Len(row) \in Nat /\ Segments = 1..Len(row) /\ row \in Seq(Row)
      /\ \A s \in Segments : row[s] \in Row
  BY <1>1, Typed
<1>3. w \in Seq(Nat) /\ Len(w) = Len(row) /\ total = SumOf(w)
  <2>1. Bytes(row) = SumOf(w)
    BY DEF Bytes, Weights
  <2> QED
    BY <1>1, <1>2, <2>1, WeightsType DEF TotalInv
<1>4. ASSUME NEW n \in Segments
      PROVE  /\ Held(n) \in Nat /\ Held(n) <= w[n]
             /\ job # "delete" => Held(n) = w[n]
  <2>1. row[n].bytes \in Nat /\ row[n].gc \in {"hot", "planned", "complete"}
    BY <1>2 DEF Row
  <2>2. w[n] = IF row[n].gc = "complete" THEN 0 ELSE row[n].bytes
    BY <1>2 DEF Weights
  <2>3. CASE n \in DOMAIN file
    <3>1. Held(n) = row[n].bytes /\ row[n].gc # "complete"
      BY <1>1, <2>3 DEF HeldInv, Held
    <3> QED
      BY <2>1, <2>2, <3>1
  <2>4. CASE n \notin DOMAIN file
    <3>1. Held(n) = 0 /\ row[n].gc # "hot"
      BY <1>1, <2>4 DEF FileInv, Held
    <3>2. job # "delete" => row[n].gc # "planned"
      BY <1>1 DEF ModeInv, Planned
    <3> QED
      BY <2>1, <2>2, <3>1, <3>2
  <2> QED
    BY <2>3, <2>4
<1>5. h \in Seq(Nat) /\ Len(h) = Len(row) /\ \A n \in 1..Len(row) : h[n] = Held(n)
  BY <1>2, <1>4
<1>6. FileBytes = SumOf(h)
  BY DEF FileBytes
<1> HIDE DEF w, h
<1>7. SumOf(h) <= SumOf(w)
  BY <1>2, <1>3, <1>4, <1>5, SumOrdered
<1>8. SumOf(h) \in Nat /\ total \in Nat
  <2>1. \E g \in [0..Len(h) -> Nat] : SumOf(h) = g[Len(h)]
    BY <1>5, PartialSums
  <2>2. Len(h) \in 0..Len(h)
    BY <1>2, <1>5
  <2> QED
    BY <1>1, <2>1, <2>2, Typed
<1>9. job # "delete" => SumOf(h) = SumOf(w)
  <2>1. job # "delete" => h = w
    BY <1>2, <1>3, <1>4, <1>5, SameNumbers
  <2> QED
    BY <2>1
<1> QED
  BY <1>3, <1>6, <1>7, <1>8, <1>9

\* Whatever an interrupted rotation, archive job or compaction leaves,
\* initialize() accepts it; and the total that admission compares with the high
\* water is what the segment files hold, never less.
THEOREM RestartsWork ==
  ASSUME NoPinnedFailure
  PROVE  Spec => []RestartFindsWhatWasLeft
<1>1. IInv /\ KeptInv => RestartFindsWhatWasLeft
  BY TotalIsHeld DEF RestartFindsWhatWasLeft, TotalMatchesFiles, IInv, KeptInv
<1> QED
  BY <1>1, Kept, PTL

=============================================================================
