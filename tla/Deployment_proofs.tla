-------------------------- MODULE Deployment_proofs --------------------------
(* Theorems about what brings a deployment up: the migration of its store,  *)
(* the command line with its registry, what it accepts as configuration, and *)
(* the order in which the generated services start.                         *)
EXTENDS Migration, Deployment, ComposeConfig, ComposeStack, FiniteSetTheorems, TLAPS

----------------------------------------------------------------------------
(* Migration                                                                *)
EventOf(f, status) == [name |-> f.name, hash |-> f.hash, status |-> status]
IsCompleted(f) == EventOf(f, "completed") \in ledger

Run == [step : {"history", "next", "execute", "verified", "failing"},
        files : {Releases[r] : r \in DOMAIN Releases},
        completed : SUBSET {f.name : f \in Files},
        file : Nat \ {0}, statement : Nat \ {0}]

MigrationTypeOK ==
    /\ \A o \in DOMAIN tables : {"columns", "engine"} \subseteq DOMAIN tables[o]
    /\ \A e \in ledger : \E f \in Files, status \in {"started", "completed", "failed"} :
          e = EventOf(f, status)
    /\ DOMAIN migrator = Migrators /\ \A m \in Migrators : migrator[m] \in {Off} \cup Run

\* The lock has one holder at most.
OneHolder == \A m \in Migrators : migrator[m] # Off => holder = {m}

CompletedIsInForce ==
    \A f \in Files : IsCompleted(f) => \A s \in Declared(f) : InForce(s)

OneContent == \A e, f \in ledger : e.name = f.name => e.hash = f.hash

\* Files are completed in the order in which a release has them, if the ledger
\* has no other content of one.
CompletedInOrder ==
    \A r \in DOMAIN Releases : (\A e \in ledger : AgreesWith(Releases[r], e)) =>
        \A i \in DOMAIN Releases[r] :
            IsCompleted(Releases[r][i]) => \A k \in 1..i : IsCompleted(Releases[r][k])

\* What a run that holds the lock knows of the ledger.
RunIsTrue(r) ==
    /\ Loadable(r.files)
    /\ r.step = "history" => r.file = 1
    /\ r.step # "history" =>
          /\ \A e \in ledger : AgreesWith(r.files, e)
          /\ \A i \in DOMAIN r.files : r.files[i].name \in r.completed => IsCompleted(r.files[i])
    /\ r.step = "next" =>
          /\ r.file <= Len(r.files) + 1
          /\ \A i \in DOMAIN r.files :
                IsCompleted(r.files[i]) => r.files[i].name \in r.completed \/ i < r.file
          /\ \A i \in DOMAIN r.files : i < r.file => IsCompleted(r.files[i])
    /\ r.step \in {"execute", "verified", "failing"} => r.file \in DOMAIN r.files
    /\ r.step \in {"execute", "verified"} =>
          \A i \in DOMAIN r.files : IsCompleted(r.files[i]) <=> i < r.file
    /\ r.step = "verified" => SchemaHolds(r.files[r.file].statements)

MigrationInvariant ==
    /\ MigrationTypeOK /\ OneHolder /\ CompletedIsInForce /\ OneContent /\ CompletedInOrder
    /\ \A m \in Migrators : migrator[m] # Off => RunIsTrue(migrator[m])

----------------------------------------------------------------------------
LEMMA FilesOf ==
    ASSUME NEW r \in DOMAIN Releases
    PROVE  /\ Releases[r] \in Seq(Files)
           /\ \A i \in DOMAIN Releases[r] : Releases[r][i] \in Files
<1>1. Releases[r] \in Seq(Files)
  BY MigrationAssumption
<1>2. \A i \in DOMAIN Releases[r] : Releases[r][i] \in Files
  BY DEF Files
<1> QED BY <1>1, <1>2

LEMMA DeclaredAt ==
    ASSUME NEW f \in Files
    PROVE  /\ Len(f.statements) \in Nat
           /\ DOMAIN f.statements = 1..Len(f.statements)
           /\ \A k \in DOMAIN f.statements : f.statements[k] \in Declared(f)
<1>1. f.statements \in Seq(Declared(f))
  BY MigrationAssumption
<1>2. \A k \in DOMAIN f.statements : f.statements[k] \in Declared(f)
  BY DEF Declared
<1> QED BY <1>1, <1>2

\* The ledger names a file, and that is the one.
LEMMA FileOfEvent ==
    ASSUME NEW f \in Files, NEW status
    PROVE  FileOf(EventOf(f, status)) = f
<1>1. \A g \in Files : g.name = f.name /\ g.hash = f.hash <=> g = f
  BY MigrationAssumption
<1> QED BY <1>1 DEF FileOf, EventOf

LEMMA EventIsOne ==
    ASSUME NEW f \in Files, NEW g \in Files, NEW s, NEW t, EventOf(f, s) = EventOf(g, t)
    PROVE  f = g /\ s = t
<1>1. EventOf(f, s).name = EventOf(g, t).name /\ EventOf(f, s).hash = EventOf(g, t).hash
      /\ EventOf(f, s).status = EventOf(g, t).status
  OBVIOUS
<1>2. f.name = g.name /\ f.hash = g.hash /\ s = t
  BY <1>1 DEF EventOf
<1> QED BY <1>2, MigrationAssumption

----------------------------------------------------------------------------
(* What the catalogue says and what a file declares.                        *)
LEMMA SameType ==
    ASSUME NEW a, NEW b
    PROVE  NormalizedType(a) = NormalizedType(b) <=> a = b \/ {a, b} = {"Bool", "UInt8"}
<1>1. "Bool" # "UInt8"
  OBVIOUS
<1>2. {a, b} = {"Bool", "UInt8"} <=> (a = "Bool" /\ b = "UInt8") \/ (a = "UInt8" /\ b = "Bool")
  OBVIOUS
<1>3. NormalizedType(a) = NormalizedType(b)
        <=> a = b \/ (a = "Bool" /\ b = "UInt8") \/ (a = "UInt8" /\ b = "Bool")
  BY <1>1 DEF NormalizedType
<1> QED BY <1>2, <1>3

\* A statement that is in force, column by column.
LEMMA InForceIs ==
    ASSUME NEW s
    PROVE  InForce(s) <=>
             /\ s.object \in DOMAIN tables
             /\ \A c \in DOMAIN s.columns :
                   /\ c \in DOMAIN tables[s.object].columns
                   /\ NormalizedType(tables[s.object].columns[c]) = NormalizedType(s.columns[c])
             /\ s.kind = "create" => tables[s.object].engine = s.engine
  BY SameType DEF InForce

LEMMA VerifiedIsInForce ==
    ASSUME NEW f \in Files, SchemaHolds(f.statements)
    PROVE  \A s \in Declared(f) : InForce(s)
<1> SUFFICES ASSUME NEW k \in DOMAIN f.statements PROVE InForce(f.statements[k])
  BY DEF Declared
<1> DEFINE s == f.statements[k]
<1>1. Has(s.object, s.columns, s.engine)
  BY DEF SchemaHolds
<1>2. s.kind = "create" => s.engine # ""
  BY DeclaredAt, MigrationAssumption
<1> HIDE DEF s
<1>3. InForce(s)
  BY <1>1, <1>2, InForceIs DEF Has
<1> QED BY <1>3 DEF s

\* Executing a statement keeps the shape of the catalogue.
LEMMA ExecutedShape ==
    ASSUME NEW s, RetrySafe(s), Executable(s),
           \A o \in DOMAIN tables : {"columns", "engine"} \subseteq DOMAIN tables[o]
    PROVE  \A o \in DOMAIN Executed(s) : {"columns", "engine"} \subseteq DOMAIN Executed(s)[o]
<1>1. CASE s.kind \in {"create", "newview"}
  <2>1. CASE s.object \in DOMAIN tables
    BY <1>1, <2>1 DEF Executed
  <2>2. CASE s.object \notin DOMAIN tables
    <3> DEFINE r == [columns |-> s.columns,
                     engine |-> IF s.kind = "create" THEN s.engine ELSE "View"]
    <3>1. {"columns", "engine"} \subseteq DOMAIN r
      OBVIOUS
    <3>2. Executed(s) = Created(s.object, r)
      BY <1>1, <2>2 DEF Executed
    <3> HIDE DEF r
    <3> QED BY <3>1, <3>2 DEF Created
  <2> QED BY <2>1, <2>2
<1>2. CASE s.kind = "view"
  <2> DEFINE r == [columns |-> s.columns, engine |-> "View"]
  <2>1. {"columns", "engine"} \subseteq DOMAIN r
    OBVIOUS
  <2>2. Executed(s) = Created(s.object, r)
    BY <1>2 DEF Executed
  <2> HIDE DEF r
  <2> QED BY <2>1, <2>2 DEF Created
<1>3. CASE s.kind = "column"
  <2>1. Executed(s) = [tables EXCEPT ![s.object].columns = Joined(@, s.columns)]
    BY <1>3 DEF Executed
  <2> QED BY <2>1
<1> QED BY <1>1, <1>2, <1>3 DEF RetrySafe

\* And what was in force stays so, when what is executed keeps it.
LEMMA ExecutedKeeps ==
    ASSUME NEW s, NEW t, RetrySafe(s), Executable(s), Keeps(s, t), InForce(t),
           \A o \in DOMAIN tables : {"columns", "engine"} \subseteq DOMAIN tables[o],
           tables' = Executed(s)
    PROVE  InForce(t)'
<1> DEFINE Same(c) == /\ c \in DOMAIN tables[t.object].columns
                      /\ NormalizedType(tables[t.object].columns[c]) = NormalizedType(t.columns[c])
<1>1. /\ t.object \in DOMAIN tables
      /\ \A c \in DOMAIN t.columns : Same(c)
      /\ t.kind = "create" => tables[t.object].engine = t.engine
  BY InForceIs
<1>2. SUFFICES /\ t.object \in DOMAIN tables'
               /\ \A c \in DOMAIN t.columns :
                   /\ c \in DOMAIN tables'[t.object].columns
                   /\ NormalizedType(tables'[t.object].columns[c]) = NormalizedType(t.columns[c])
               /\ t.kind = "create" => tables'[t.object].engine = t.engine
  BY SameType DEF InForce
<1>3. CASE t.object \in DOMAIN tables' /\ tables'[t.object] = tables[t.object]
  BY <1>1, <1>3
<1>4. CASE s.kind \in {"create", "newview"}
  <2>1. CASE s.object \in DOMAIN tables
    BY <1>3, <1>4, <2>1, <1>1 DEF Executed
  <2>2. CASE s.object \notin DOMAIN tables
    <3> DEFINE r == [columns |-> s.columns,
                     engine |-> IF s.kind = "create" THEN s.engine ELSE "View"]
    <3>1. tables' = Created(s.object, r)
      BY <1>4, <2>2 DEF Executed
    <3> HIDE DEF r
    <3> QED BY <1>1, <1>3, <2>2, <3>1 DEF Created
  <2> QED BY <2>1, <2>2
<1>5. CASE s.kind = "view"
  <2> DEFINE r == [columns |-> s.columns, engine |-> "View"]
  <2>1. tables' = Created(s.object, r) /\ r.columns = s.columns
    BY <1>5 DEF Executed
  <2> HIDE DEF r
  <2>2. CASE s.object # t.object
    BY <1>1, <1>3, <2>1, <2>2 DEF Created
  <2>3. CASE s.object = t.object
    <3>1. t.object \in DOMAIN tables' /\ tables'[t.object] = r
      BY <2>1, <2>3 DEF Created
    <3>2. /\ t.kind # "create"
          /\ \A c \in DOMAIN t.columns :
                c \in DOMAIN s.columns /\ NormalizedType(s.columns[c]) = NormalizedType(t.columns[c])
      BY <1>5, <2>3 DEF Keeps
    <3> QED BY <2>1, <3>1, <3>2
  <2> QED BY <2>2, <2>3
<1>6. CASE s.kind = "column"
  <2>1. tables' = [tables EXCEPT ![s.object].columns = Joined(@, s.columns)]
    BY <1>6 DEF Executed
  <2>2. CASE s.object # t.object
    BY <1>1, <1>3, <2>1, <2>2
  <2>3. CASE s.object = t.object
    <3>1. /\ t.object \in DOMAIN tables'
          /\ tables'[t.object].columns = Joined(tables[t.object].columns, s.columns)
          /\ tables'[t.object].engine = tables[t.object].engine
      BY <1>1, <2>1, <2>3
    <3> QED BY <1>1, <3>1 DEF Joined
  <2> QED BY <2>2, <2>3
<1> QED BY <1>4, <1>5, <1>6 DEF RetrySafe

----------------------------------------------------------------------------
(* What the steps of a run have in common.                                  *)
LEMMA RunHas ==
    ASSUME MigrationTypeOK, NEW m \in Migrators, migrator[m] # Off
    PROVE  /\ migrator[m] \in Run
           /\ \E r \in DOMAIN Releases : migrator[m].files = Releases[r]
           /\ migrator[m].files \in Seq(Files)
           /\ migrator[m].file \in Nat \ {0}
           /\ Len(migrator[m].files) \in Nat
           /\ DOMAIN migrator[m].files = 1..Len(migrator[m].files)
           /\ \A i \in DOMAIN migrator[m].files : migrator[m].files[i] \in Files
<1>1. migrator[m] \in Run
  BY DEF MigrationTypeOK
<1>2. PICK r \in DOMAIN Releases : migrator[m].files = Releases[r]
  BY <1>1 DEF Run
<1>3. migrator[m].file \in Nat \ {0}
  BY <1>1 DEF Run
<1>4. migrator[m].files \in Seq(Files)
      /\ \A i \in DOMAIN migrator[m].files : migrator[m].files[i] \in Files
  BY <1>2, FilesOf
<1>5. Len(migrator[m].files) \in Nat /\ DOMAIN migrator[m].files = 1..Len(migrator[m].files)
  BY <1>4
<1> QED BY <1>1, <1>2, <1>3, <1>4, <1>5

\* Files that two releases have in common are at the same places of both, and so
\* are the names of those before them.
LEMMA ReleasesAppend ==
    ASSUME NEW p \in DOMAIN Releases, NEW s \in DOMAIN Releases,
           NEW i \in DOMAIN Releases[p], NEW j \in DOMAIN Releases[s],
           Releases[p][i] = Releases[s][j]
    PROVE  i = j /\ \A k \in 1..i : Releases[p][k].name = Releases[s][k].name
<1>1. \A r, q \in DOMAIN Releases : \A x \in DOMAIN Releases[r], y \in DOMAIN Releases[q] :
          Releases[r][x].name = Releases[q][y].name =>
              x = y /\ \A k \in 1..x : Releases[r][k].name = Releases[q][k].name
  BY MigrationAssumption
<1> QED BY <1>1

\* A release that agrees with the ledger has what is completed under its name.
LEMMA SameName ==
    ASSUME NEW p \in DOMAIN Releases, NEW k \in DOMAIN Releases[p], NEW f \in Files,
           IsCompleted(f), f.name = Releases[p][k].name,
           \A e \in ledger : AgreesWith(Releases[p], e)
    PROVE  Releases[p][k] = f
<1>1. AgreesWith(Releases[p], EventOf(f, "completed"))
  BY DEF IsCompleted
<1>2. PICK x \in DOMAIN Releases[p] :
          Releases[p][x].name = f.name /\ Releases[p][x].hash = f.hash
  BY <1>1 DEF AgreesWith, EventOf
<1>3. x = k
  <2>1. \A r \in DOMAIN Releases : \A i, j \in DOMAIN Releases[r] :
            Releases[r][i].name = Releases[r][j].name => i = j
    BY MigrationAssumption
  <2> QED BY <1>2, <2>1
<1>4. Releases[p][k] \in Files
  BY FilesOf
<1> QED BY <1>2, <1>3, <1>4, MigrationAssumption

\* A run that begins to execute its file, and one that goes on to the next.
Executing(r) == [r EXCEPT !.step = "execute", !.statement = 1]
Moved(r)     == [r EXCEPT !.step = "next", !.file = r.file + 1]

LEMMA TwoFields ==
    ASSUME NEW r \in Run
    PROVE  /\ Executing(r) \in Run
           /\ Executing(r).step = "execute" /\ Executing(r).file = r.file
           /\ Executing(r).files = r.files /\ Executing(r).completed = r.completed
           /\ Moved(r) \in Run
           /\ Moved(r).step = "next" /\ Moved(r).file = r.file + 1
           /\ Moved(r).files = r.files /\ Moved(r).completed = r.completed
<1> DEFINE A == {Releases[x] : x \in DOMAIN Releases}
           B == SUBSET {f.name : f \in Files}
<1>1. Run = [step : {"history", "next", "execute", "verified", "failing"},
             files : A, completed : B, file : Nat \ {0}, statement : Nat \ {0}]
  BY DEF Run
<1> HIDE DEF A, B
<1> DEFINE P == Nat \ {0}
<1>6. 1 \in P /\ r.file + 1 \in P
  BY <1>1
<1>7. Run = [step : {"history", "next", "execute", "verified", "failing"},
             files : A, completed : B, file : P, statement : P]
  BY <1>1
<1>3. /\ Executing(r).step = "execute" /\ Executing(r).file = r.file
      /\ Executing(r).files = r.files /\ Executing(r).completed = r.completed
  BY <1>1 DEF Executing
<1> HIDE DEF P
<1>8. Executing(r) \in Run
  BY <1>6, <1>7 DEF Executing
<1>4. /\ Moved(r).step = "next" /\ Moved(r).file = r.file + 1
      /\ Moved(r).files = r.files /\ Moved(r).completed = r.completed
  BY <1>1 DEF Moved
<1>5. Moved(r) \in Run
  BY <1>6, <1>7 DEF Moved
<1> QED BY <1>3, <1>4, <1>5, <1>8

\* Names are distinct in a release, and files are the same when they have name
\* and hash in common.
LEMMA NamesAreDistinct ==
    ASSUME MigrationTypeOK, NEW m \in Migrators, migrator[m] # Off
    PROVE  \A i, k \in DOMAIN migrator[m].files :
              migrator[m].files[i].name = migrator[m].files[k].name => i = k
<1>1. PICK r \in DOMAIN Releases : migrator[m].files = Releases[r]
  BY RunHas
<1>2. \A i, k \in DOMAIN Releases[r] : Releases[r][i].name = Releases[r][k].name => i = k
  BY MigrationAssumption
<1> QED BY <1>1, <1>2

\* Another migrator waits for the lock.
LEMMA OthersAreOff ==
    ASSUME OneHolder, NEW m \in Migrators, migrator[m] # Off
    PROVE  \A n \in Migrators : n # m => migrator[n] = Off
  BY DEF OneHolder

\* The order of the completed files, when the ledger tells no more of them.
LEMMA OrderStays ==
    ASSUME CompletedInOrder, \A f \in Files : IsCompleted(f)' <=> IsCompleted(f),
           ledger \subseteq ledger'
    PROVE  CompletedInOrder'
<1>1. \A r \in DOMAIN Releases : \A i \in DOMAIN Releases[r] :
         IsCompleted(Releases[r][i])' <=> IsCompleted(Releases[r][i])
  BY FilesOf
<1>2. \A r \in DOMAIN Releases : \A i \in DOMAIN Releases[r] : \A k \in 1..i : k \in DOMAIN Releases[r]
  <2>1. \A r \in DOMAIN Releases : DOMAIN Releases[r] = 1..Len(Releases[r]) /\ Len(Releases[r]) \in Nat
    BY FilesOf
  <2> QED BY <2>1
<1>3. \A r \in DOMAIN Releases : (\A e \in ledger' : AgreesWith(Releases[r], e)) =>
          \A e \in ledger : AgreesWith(Releases[r], e)
  OBVIOUS
<1> QED BY <1>1, <1>2, <1>3 DEF CompletedInOrder, AgreesWith

\* A run that ends leaves a ledger and a store that agree.
LEMMA UnlockStep ==
    ASSUME MigrationInvariant, NEW m \in Migrators, migrator[m] # Off, Unlock(m), UNCHANGED tables,
           \A e \in ledger' : \E f \in Files, status \in {"started", "completed", "failed"} :
               e = EventOf(f, status),
           \A f \in Files : IsCompleted(f)' <=> IsCompleted(f),
           ledger \subseteq ledger', OneContent'
    PROVE  MigrationInvariant'
<1>1. DOMAIN migrator' = Migrators /\ \A n \in Migrators : migrator'[n] = Off
  BY OthersAreOff DEF Unlock, MigrationInvariant, MigrationTypeOK
<1>2. MigrationTypeOK'
  BY <1>1 DEF MigrationInvariant, MigrationTypeOK
<1>3. OneHolder'
  BY <1>1 DEF OneHolder
<1>4. CompletedIsInForce'
  BY DEF MigrationInvariant, CompletedIsInForce, InForce
<1>5. CompletedInOrder'
  BY OrderStays DEF MigrationInvariant
<1> QED BY <1>1, <1>2, <1>3, <1>4, <1>5 DEF MigrationInvariant

\* The ledger after an event of the file under way, that may have been lost.
LEMMA RecordIs ==
    ASSUME MigrationInvariant, NEW m \in Migrators, migrator[m] # Off, ~Done(m),
           migrator[m].step # "history",
           NEW status \in {"started", "completed", "failed"}, Record(m, status)
    PROVE  /\ \A e \in ledger' : \E f \in Files, s \in {"started", "completed", "failed"} :
                  e = EventOf(f, s)
           /\ OneContent'
           /\ \A e \in ledger' : AgreesWith(migrator[m].files, e)
           /\ status # "completed" => \A f \in Files : IsCompleted(f)' <=> IsCompleted(f)
           /\ \A f \in Files : f # File(m) => (IsCompleted(f)' <=> IsCompleted(f))
           /\ \A f \in Files : IsCompleted(f) => IsCompleted(f)'
           /\ ledger \subseteq ledger'
<1>1. /\ migrator[m].file \in DOMAIN migrator[m].files /\ File(m) \in Files
      /\ RunIsTrue(migrator[m])
  BY RunHas DEF Done, File, MigrationInvariant
<1>2. Event(m, status) = EventOf(File(m), status)
  BY DEF Event, EventOf
<1>3. ledger' = ledger \/ ledger' = ledger \cup {EventOf(File(m), status)}
  BY <1>2 DEF Record
<1>4. \A e \in ledger : AgreesWith(migrator[m].files, e)
  BY <1>1 DEF RunIsTrue
<1>5. AgreesWith(migrator[m].files, EventOf(File(m), status))
  BY <1>1 DEF AgreesWith, EventOf, File
<1>6. \A e \in ledger' : AgreesWith(migrator[m].files, e)
  BY <1>3, <1>4, <1>5
<1>7. OneContent'
  <2> SUFFICES ASSUME NEW e \in ledger', NEW f \in ledger', e.name = f.name
               PROVE  e.hash = f.hash
    BY DEF OneContent
  <2>1. PICK i \in DOMAIN migrator[m].files :
            migrator[m].files[i].name = e.name /\ migrator[m].files[i].hash = e.hash
    BY <1>6 DEF AgreesWith
  <2>2. PICK k \in DOMAIN migrator[m].files :
            migrator[m].files[k].name = f.name /\ migrator[m].files[k].hash = f.hash
    BY <1>6 DEF AgreesWith
  <2>3. i = k
    BY <2>1, <2>2, NamesAreDistinct DEF MigrationInvariant
  <2> QED BY <2>1, <2>2, <2>3
<1>8. \A e \in ledger' : \E f \in Files, s \in {"started", "completed", "failed"} : e = EventOf(f, s)
  BY <1>1, <1>3 DEF MigrationInvariant, MigrationTypeOK
<1>9. \A f \in Files : f # File(m) \/ status # "completed"
          => EventOf(f, "completed") # EventOf(File(m), status)
  BY <1>1, EventIsOne
<1>10. \A f \in Files : f # File(m) \/ status # "completed" => (IsCompleted(f)' <=> IsCompleted(f))
  <2> SUFFICES ASSUME NEW f \in Files, f # File(m) \/ status # "completed"
               PROVE  EventOf(f, "completed") \in ledger' <=> EventOf(f, "completed") \in ledger
    BY DEF IsCompleted, EventOf
  <2> QED BY <1>3, <1>9
<1>11. \A f \in Files : IsCompleted(f) => IsCompleted(f)'
  <2> SUFFICES ASSUME NEW f \in Files, EventOf(f, "completed") \in ledger
               PROVE  EventOf(f, "completed") \in ledger'
    BY DEF IsCompleted, EventOf
  <2> QED BY <1>3
<1> QED BY <1>3, <1>6, <1>7, <1>8, <1>10, <1>11

\* The next step of the run that holds the lock.
LEMMA RunStep ==
    ASSUME MigrationInvariant, NEW m \in Migrators, migrator[m] # Off, migrator'[m] \in Run,
           migrator' = [migrator EXCEPT ![m] = migrator'[m]], UNCHANGED holder,
           \A o \in DOMAIN tables' : {"columns", "engine"} \subseteq DOMAIN tables'[o],
           \A e \in ledger' : \E f \in Files, status \in {"started", "completed", "failed"} :
               e = EventOf(f, status),
           CompletedIsInForce', OneContent', CompletedInOrder',
           RunIsTrue(migrator[m])'
    PROVE  MigrationInvariant'
<1>1. /\ DOMAIN migrator' = Migrators /\ migrator'[m] \in Run
      /\ \A n \in Migrators : n # m => migrator'[n] = Off
  BY OthersAreOff DEF MigrationInvariant, MigrationTypeOK
<1>2. MigrationTypeOK'
  BY <1>1 DEF MigrationTypeOK
<1>3. OneHolder'
  BY <1>1 DEF OneHolder, MigrationInvariant
<1>4. \A n \in Migrators : migrator'[n] # Off => RunIsTrue(migrator[n])'
  BY <1>1
<1> QED BY <1>2, <1>3, <1>4 DEF MigrationInvariant

LEMMA AcquireStep ==
    ASSUME MigrationInvariant, NEW m \in Migrators, NEW r \in DOMAIN Releases, Acquire(m, r)
    PROVE  MigrationInvariant'
<1> DEFINE q == [step |-> "history", files |-> Releases[r], completed |-> {}, file |-> 1,
                 statement |-> 1]
<1>1. /\ holder = {} /\ holder' = {m} /\ UNCHANGED <<tables, ledger>>
      /\ migrator' = [migrator EXCEPT ![m] = q] /\ Loadable(Releases[r])
  BY DEF Acquire, Unlocked
<1>2. q \in Run
  BY DEF Run
<1>3. \A n \in Migrators : migrator[n] = Off
  BY <1>1 DEF MigrationInvariant, OneHolder
<1>4. q.step = "history" /\ q.files = Releases[r] /\ q.file = 1
  OBVIOUS
<1> HIDE DEF q
<1>5. /\ DOMAIN migrator' = Migrators /\ migrator'[m] = q
      /\ \A n \in Migrators : n # m => migrator'[n] = Off
  BY <1>1, <1>3 DEF MigrationInvariant, MigrationTypeOK
<1>6. MigrationTypeOK'
  BY <1>1, <1>2, <1>5 DEF MigrationInvariant, MigrationTypeOK
<1>7. OneHolder'
  BY <1>1, <1>5 DEF OneHolder
<1>8. RunIsTrue(migrator[m])'
  BY <1>1, <1>4, <1>5 DEF RunIsTrue, Loadable, RetrySafe
<1>9. CompletedIsInForce' /\ OneContent' /\ CompletedInOrder'
  BY <1>1 DEF MigrationInvariant, CompletedIsInForce, InForce, OneContent, CompletedInOrder,
              IsCompleted, AgreesWith
<1> QED BY <1>5, <1>6, <1>7, <1>8, <1>9 DEF MigrationInvariant

\* A run that ends without an event.
LEMMA QuietUnlock ==
    ASSUME MigrationInvariant, NEW m \in Migrators, migrator[m] # Off, Unlock(m),
           UNCHANGED <<tables, ledger>>
    PROVE  MigrationInvariant'
<1>1. /\ \A e \in ledger' : \E f \in Files, status \in {"started", "completed", "failed"} :
             e = EventOf(f, status)
      /\ \A f \in Files : IsCompleted(f)' <=> IsCompleted(f)
      /\ ledger \subseteq ledger' /\ OneContent'
  BY DEF MigrationInvariant, MigrationTypeOK, IsCompleted, EventOf, OneContent
<1> QED BY <1>1, UnlockStep

\* A step that tells the store and the ledger nothing.
LEMMA QuietStep ==
    ASSUME MigrationInvariant, NEW m \in Migrators, migrator[m] # Off, migrator'[m] \in Run,
           migrator' = [migrator EXCEPT ![m] = migrator'[m]], UNCHANGED <<tables, ledger, holder>>,
           RunIsTrue(migrator[m])'
    PROVE  MigrationInvariant'
<1>1. CompletedIsInForce' /\ OneContent' /\ CompletedInOrder'
  BY DEF MigrationInvariant, CompletedIsInForce, InForce, OneContent, CompletedInOrder,
         IsCompleted, AgreesWith
<1>2. /\ \A o \in DOMAIN tables' : {"columns", "engine"} \subseteq DOMAIN tables'[o]
      /\ \A e \in ledger' : \E f \in Files, status \in {"started", "completed", "failed"} :
            e = EventOf(f, status)
  BY DEF MigrationInvariant, MigrationTypeOK
<1> QED BY <1>1, <1>2, RunStep

LEMMA ReadHistoryStep ==
    ASSUME MigrationInvariant, NEW m \in Migrators, ReadHistory(m)
    PROVE  MigrationInvariant'
<1>1. migrator[m].step = "history" /\ UNCHANGED <<tables, ledger>>
  BY DEF ReadHistory
<1>2. migrator[m] # Off
  BY <1>1 DEF Off
<1>3. CASE ~ \A event \in ledger : AgreesWith(migrator[m].files, event)
  BY <1>1, <1>2, <1>3, QuietUnlock DEF ReadHistory
<1>4. CASE \A event \in ledger : AgreesWith(migrator[m].files, event)
  <2> DEFINE names == {e.name : e \in {e \in ledger : e.status = "completed"}}
  <2> PICK r : r = migrator[m]
    OBVIOUS
  <2> PICK q : q = [r EXCEPT !.step = "next", !.completed = names]
    OBVIOUS
  <2>1. r \in Run /\ RunIsTrue(r) /\ r.file = 1
    BY <1>1, <1>2, RunHas DEF MigrationInvariant, RunIsTrue
  <2>2. migrator' = [migrator EXCEPT ![m] = q] /\ UNCHANGED holder
    BY <1>4 DEF ReadHistory
  <2>3. names \in SUBSET {f.name : f \in Files}
    BY DEF MigrationInvariant, MigrationTypeOK, EventOf
  <2>4. \A i \in DOMAIN r.files : r.files[i].name \in names <=> IsCompleted(r.files[i])
    <3> SUFFICES ASSUME NEW i \in DOMAIN r.files
                 PROVE  r.files[i].name \in names <=> IsCompleted(r.files[i])
      OBVIOUS
    <3>1. r.files[i] \in Files
      BY <1>2, RunHas DEF MigrationInvariant
    <3>2. ASSUME r.files[i].name \in names PROVE IsCompleted(r.files[i])
      <4>1. PICK e \in ledger : e.status = "completed" /\ e.name = r.files[i].name
        BY <3>2
      <4>2. PICK k \in DOMAIN r.files : r.files[k].name = e.name /\ r.files[k].hash = e.hash
        BY <1>4, <4>1 DEF AgreesWith
      <4>3. k = i
        BY <1>2, <4>1, <4>2, NamesAreDistinct DEF MigrationInvariant
      <4>4. PICK f \in Files, status \in {"started", "completed", "failed"} : e = EventOf(f, status)
        BY <4>1 DEF MigrationInvariant, MigrationTypeOK
      <4>5. e = EventOf(r.files[i], "completed")
        BY <4>1, <4>2, <4>3, <4>4 DEF EventOf
      <4> QED BY <4>1, <4>5 DEF IsCompleted
    <3>3. ASSUME IsCompleted(r.files[i]) PROVE r.files[i].name \in names
      <4>1. EventOf(r.files[i], "completed").status = "completed"
            /\ EventOf(r.files[i], "completed").name = r.files[i].name
        BY DEF EventOf
      <4> QED BY <3>3, <4>1 DEF IsCompleted
    <3> QED BY <3>2, <3>3
  <2>5. q \in Run
    BY <2>1, <2>3 DEF Run
  <2>6. q.step = "next" /\ q.completed = names /\ q.file = 1 /\ q.files = r.files
    BY <2>1 DEF Run
  <2>7. migrator'[m] = q
    BY <2>2 DEF MigrationInvariant, MigrationTypeOK
  <2> HIDE DEF names
  <2>8. /\ r.file <= Len(r.files) + 1
        /\ \A i \in DOMAIN r.files : ~(i < 1)
    BY <1>2, <2>1, RunHas DEF MigrationInvariant
  <2>9. RunIsTrue(migrator[m])'
    <3>1. \A f : IsCompleted(f)' <=> IsCompleted(f)
      BY <1>1 DEF IsCompleted, EventOf
    <3>2. Loadable(q.files)'
      BY <2>1, <2>6 DEF RunIsTrue, Loadable
    <3>3. \A e \in ledger' : AgreesWith(q.files, e)
      BY <1>1, <1>4, <2>6
    <3>4. /\ q.file <= Len(q.files) + 1
          /\ \A i \in DOMAIN q.files : q.files[i].name \in q.completed => IsCompleted(q.files[i])'
          /\ \A i \in DOMAIN q.files :
                IsCompleted(q.files[i])' => q.files[i].name \in q.completed \/ i < q.file
          /\ \A i \in DOMAIN q.files : i < q.file => IsCompleted(q.files[i])'
      BY <2>1, <2>4, <2>6, <2>8, <3>1
    <3> QED BY <2>6, <2>7, <3>2, <3>3, <3>4 DEF RunIsTrue, IsCompleted, AgreesWith
  <2> QED BY <1>1, <1>2, <2>2, <2>5, <2>7, <2>9, QuietStep
<1> QED BY <1>3, <1>4

LEMMA SkipStep ==
    ASSUME MigrationInvariant, NEW m \in Migrators, Skip(m)
    PROVE  MigrationInvariant'
<1>1. migrator[m].step = "next" /\ ~Done(m) /\ UNCHANGED <<tables, ledger>>
  BY DEF Skip
<1>2. migrator[m] # Off
  BY <1>1 DEF Off
<1>3. CASE ~SchemaHolds(File(m).statements)
  BY <1>1, <1>2, <1>3, QuietUnlock DEF Skip
<1>4. CASE SchemaHolds(File(m).statements)
  <2> PICK r : r = migrator[m]
    OBVIOUS
  <2> PICK q : q = [r EXCEPT !.file = @ + 1]
    OBVIOUS
  <2>1. /\ r \in Run /\ RunIsTrue(r) /\ r.step = "next" /\ r.file \in DOMAIN r.files
        /\ r.file \in Nat \ {0} /\ DOMAIN r.files = 1..Len(r.files) /\ Len(r.files) \in Nat
    BY <1>1, <1>2, RunHas DEF MigrationInvariant, Done
  <2>2. migrator' = [migrator EXCEPT ![m] = q] /\ UNCHANGED holder
    BY <1>4 DEF Skip
  <2>3. q \in Run
    BY <2>1 DEF Run
  <2>4. q.step = "next" /\ q.completed = r.completed /\ q.file = r.file + 1 /\ q.files = r.files
    BY <2>1 DEF Run
  <2>5. migrator'[m] = q
    BY <2>2 DEF MigrationInvariant, MigrationTypeOK
  <2>6. IsCompleted(r.files[r.file])
    BY <2>1 DEF Skip, File, RunIsTrue
  <2>7. RunIsTrue(migrator[m])'
    <3>1. \A f : IsCompleted(f)' <=> IsCompleted(f)
      BY <1>1 DEF IsCompleted, EventOf
    <3>2. Loadable(q.files)' /\ \A e \in ledger' : AgreesWith(q.files, e)
      BY <1>1, <2>1, <2>4 DEF RunIsTrue, Loadable
    <3>3. \A i \in DOMAIN r.files : i < r.file + 1 <=> i < r.file \/ i = r.file
      BY <2>1
    <3>4. /\ q.file <= Len(q.files) + 1
          /\ \A i \in DOMAIN q.files : q.files[i].name \in q.completed => IsCompleted(q.files[i])'
          /\ \A i \in DOMAIN q.files :
                IsCompleted(q.files[i])' => q.files[i].name \in q.completed \/ i < q.file
          /\ \A i \in DOMAIN q.files : i < q.file => IsCompleted(q.files[i])'
      <4>1. q.file <= Len(q.files) + 1
        BY <2>1, <2>4
      <4>2. /\ \A i \in DOMAIN r.files : r.files[i].name \in r.completed => IsCompleted(r.files[i])
            /\ \A i \in DOMAIN r.files :
                  IsCompleted(r.files[i]) => r.files[i].name \in r.completed \/ i < r.file
            /\ \A i \in DOMAIN r.files : i < r.file => IsCompleted(r.files[i])
        BY <2>1 DEF RunIsTrue
      <4> QED BY <2>4, <2>6, <3>1, <3>3, <4>1, <4>2
    <3> QED BY <2>4, <2>5, <3>2, <3>4 DEF RunIsTrue, IsCompleted, AgreesWith
  <2> QED BY <1>1, <1>2, <2>2, <2>3, <2>5, <2>7, QuietStep
<1> QED BY <1>3, <1>4

\* A failure that is recorded, or not, and the end of the command.
LEMMA RecordUnlock ==
    ASSUME MigrationInvariant, NEW m \in Migrators, migrator[m] # Off, ~Done(m),
           migrator[m].step # "history", NEW status \in {"started", "failed"},
           Record(m, status), Unlock(m), UNCHANGED tables
    PROVE  MigrationInvariant'
<1>1. /\ \A e \in ledger' : \E f \in Files, s \in {"started", "completed", "failed"} :
            e = EventOf(f, s)
      /\ ledger \subseteq ledger' /\ OneContent'
      /\ \A f \in Files : IsCompleted(f)' <=> IsCompleted(f)
  BY RecordIs
<1> QED BY <1>1, UnlockStep

LEMMA StartFileStep ==
    ASSUME MigrationInvariant, NEW m \in Migrators, StartFile(m)
    PROVE  MigrationInvariant'
<1>1. migrator[m].step = "next" /\ ~Done(m) /\ UNCHANGED tables
  BY DEF StartFile
<1>2. migrator[m] # Off
  BY <1>1 DEF Off
<1>3. CASE Record(m, "started") /\ Unlock(m)
  BY <1>1, <1>2, <1>3, RecordUnlock
<1>4. CASE /\ ledger' = ledger \cup {Event(m, "started")}
           /\ migrator' = [migrator EXCEPT ![m] = [@ EXCEPT !.step = "execute", !.statement = 1]]
           /\ UNCHANGED holder
  <2> PICK r : r = migrator[m]
    OBVIOUS
  <2> PICK q : q = Executing(r)
    OBVIOUS
  <2>1. /\ r \in Run /\ RunIsTrue(r) /\ r.step = "next" /\ r.file \in DOMAIN r.files
        /\ r.file \in Nat \ {0} /\ DOMAIN r.files = 1..Len(r.files) /\ Len(r.files) \in Nat
        /\ \A i \in DOMAIN r.files : r.files[i] \in Files
    BY <1>1, <1>2, RunHas DEF MigrationInvariant, Done
  <2>2. migrator' = [migrator EXCEPT ![m] = q]
    BY <1>4 DEF Executing
  <2>3. q \in Run
    BY <2>1, TwoFields
  <2>4. q.step = "execute" /\ q.file = r.file /\ q.files = r.files /\ q.completed = r.completed
    BY <2>1, TwoFields
  <2>5. migrator'[m] = q
    BY <2>2 DEF MigrationInvariant, MigrationTypeOK
  <2>6. /\ \A e \in ledger' : \E f \in Files, s \in {"started", "completed", "failed"} :
              e = EventOf(f, s)
        /\ ledger \subseteq ledger' /\ OneContent'
        /\ \A e \in ledger' : AgreesWith(r.files, e)
        /\ \A f \in Files : IsCompleted(f)' <=> IsCompleted(f)
    <3>1. Record(m, "started")
      BY <1>4 DEF Record
    <3>2. migrator[m].step # "history"
      BY <1>1
    <3> QED BY <1>1, <1>2, <3>1, <3>2, RecordIs
  <2>7. \A i \in DOMAIN r.files : IsCompleted(r.files[i]) <=> i < r.file
    <3>1. ASSUME NEW i \in DOMAIN r.files, IsCompleted(r.files[i]), ~(i < r.file) PROVE FALSE
      <4>1. PICK s \in DOMAIN Releases : r.files = Releases[s]
        BY <1>2, RunHas DEF MigrationInvariant
      <4>2. r.file \in 1..i
        BY <2>1, <3>1
      <4>3. IsCompleted(r.files[r.file])
        BY <2>1, <3>1, <4>1, <4>2 DEF MigrationInvariant, CompletedInOrder, RunIsTrue
      <4>4. r.files[r.file].name \in r.completed
        BY <2>1, <4>3 DEF RunIsTrue
      <4> QED BY <4>4 DEF StartFile, File
    <3> QED BY <2>1, <3>1 DEF RunIsTrue
  <2>8. RunIsTrue(migrator[m])'
    <3>1. Loadable(q.files)'
      BY <2>1, <2>4 DEF RunIsTrue, Loadable
    <3>2. \A i \in DOMAIN q.files : IsCompleted(q.files[i])' <=> i < q.file
      BY <2>1, <2>4, <2>6, <2>7
    <3>3. \A i \in DOMAIN q.files : q.files[i].name \in q.completed => IsCompleted(q.files[i])'
      BY <2>1, <2>4, <2>6 DEF RunIsTrue
    <3> QED BY <2>1, <2>4, <2>5, <2>6, <3>1, <3>2, <3>3 DEF RunIsTrue, IsCompleted, AgreesWith
  <2>9. CompletedInOrder'
    BY <2>6, OrderStays DEF MigrationInvariant
  <2>10. CompletedIsInForce'
    BY <1>1, <2>6 DEF MigrationInvariant, CompletedIsInForce, InForce
  <2>11. \A o \in DOMAIN tables' : {"columns", "engine"} \subseteq DOMAIN tables'[o]
    BY <1>1 DEF MigrationInvariant, MigrationTypeOK
  <2> QED BY <1>2, <1>4, <2>2, <2>3, <2>5, <2>6, <2>8, <2>9, <2>10, <2>11, RunStep
<1> QED BY <1>3, <1>4 DEF StartFile

LEMMA ExecuteStep ==
    ASSUME MigrationInvariant, NEW m \in Migrators, Execute(m)
    PROVE  MigrationInvariant'
<1>1. migrator[m].step = "execute" /\ UNCHANGED <<ledger, holder>>
  BY DEF Execute
<1>2. migrator[m] # Off
  BY <1>1 DEF Off
<1> PICK r : r = migrator[m]
  OBVIOUS
<1> PICK q : q = migrator'[m]
  OBVIOUS
<1> PICK s : s = File(m).statements[migrator[m].statement]
  OBVIOUS
<1>3. /\ r \in Run /\ RunIsTrue(r) /\ r.step = "execute"
      /\ r.file \in Nat \ {0} /\ DOMAIN r.files = 1..Len(r.files) /\ Len(r.files) \in Nat
      /\ \A i \in DOMAIN r.files : r.files[i] \in Files
      /\ r.statement \in Nat \ {0}
  BY <1>1, <1>2, RunHas DEF MigrationInvariant, Run
<1>4. r.file \in DOMAIN r.files /\ \A i \in DOMAIN r.files : IsCompleted(r.files[i]) <=> i < r.file
  BY <1>3 DEF RunIsTrue
<1>5. r.statement \in DOMAIN r.files[r.file].statements
      /\ s \in Declared(r.files[r.file])
  <2>1. r.statement <= Len(r.files[r.file].statements) /\ File(m) = r.files[r.file]
    BY DEF Execute, File
  <2>2. r.files[r.file] \in Files
    BY <1>3, <1>4
  <2>3. /\ Len(r.files[r.file].statements) \in Nat
        /\ DOMAIN r.files[r.file].statements = 1..Len(r.files[r.file].statements)
        /\ \A k \in DOMAIN r.files[r.file].statements :
              r.files[r.file].statements[k] \in Declared(r.files[r.file])
    BY <2>2, DeclaredAt
  <2>4. r.statement \in DOMAIN r.files[r.file].statements
    BY <1>3, <2>1, <2>3
  <2> QED BY <2>1, <2>3, <2>4
<1>6. RetrySafe(s)
  <2>1. s = r.files[r.file].statements[r.statement]
    BY DEF File
  <2> QED BY <1>3, <1>4, <1>5, <2>1 DEF RunIsTrue, Loadable
<1>7. /\ migrator' = [migrator EXCEPT ![m] = q]
      /\ q \in Run /\ q.files = r.files /\ q.file = r.file /\ q.completed = r.completed
      /\ q.step = "execute" \/ q.step = "failing"
      /\ tables' = tables \/ (Executable(s) /\ tables' = Executed(s))
  <2>1. \/ Set(m, "failing") /\ UNCHANGED tables
        \/ Executable(s) /\ tables' = Executed(s)
           /\ migrator' = [migrator EXCEPT ![m].statement = migrator[m].statement + 1]
        \/ Executable(s) /\ tables' \in {tables, Executed(s)} /\ Set(m, "failing")
    BY DEF Execute
  <2>2. CASE Set(m, "failing")
    <3>1. migrator' = [migrator EXCEPT ![m] = [r EXCEPT !.step = "failing"]]
      BY <2>2 DEF Set
    <3>2. q = [r EXCEPT !.step = "failing"]
      BY <3>1 DEF MigrationInvariant, MigrationTypeOK
    <3>3. q \in Run /\ q.files = r.files /\ q.file = r.file /\ q.step = "failing"
          /\ q.completed = r.completed
      BY <1>3, <3>2 DEF Run
    <3> QED BY <2>1, <3>1, <3>2, <3>3
  <2>3. CASE migrator' = [migrator EXCEPT ![m].statement = migrator[m].statement + 1]
    <3>1. migrator' = [migrator EXCEPT ![m] = [r EXCEPT !.statement = r.statement + 1]]
      BY <2>3
    <3>2. q = [r EXCEPT !.statement = r.statement + 1]
      BY <3>1 DEF MigrationInvariant, MigrationTypeOK
    <3>3. q \in Run /\ q.files = r.files /\ q.file = r.file /\ q.step = "execute"
          /\ q.completed = r.completed
      BY <1>3, <3>2 DEF Run
    <3> QED BY <2>1, <3>1, <3>2, <3>3
  <2> QED BY <2>1, <2>2, <2>3
<1>8. \A f \in Files : IsCompleted(f)' <=> IsCompleted(f)
  BY <1>1 DEF IsCompleted, EventOf
<1>9. CompletedIsInForce'
  <2> SUFFICES ASSUME NEW f \in Files, IsCompleted(f), NEW t \in Declared(f) PROVE InForce(t)'
    BY <1>8 DEF CompletedIsInForce
  <2>1. InForce(t)
    BY DEF MigrationInvariant, CompletedIsInForce
  <2>2. CASE tables' = tables
    BY <2>1, <2>2 DEF InForce
  <2>3. CASE Executable(s) /\ tables' = Executed(s)
    <3>1. PICK i \in DOMAIN r.files : f = r.files[i]
      <4>1. AgreesWith(r.files, EventOf(f, "completed"))
        BY <1>3 DEF RunIsTrue, IsCompleted
      <4>2. PICK i \in DOMAIN r.files : r.files[i].name = f.name /\ r.files[i].hash = f.hash
        BY <4>1 DEF AgreesWith, EventOf
      <4>3. r.files[i] \in Files
        BY <1>3
      <4>4. r.files[i] = f
        BY <4>2, <4>3, MigrationAssumption
      <4> QED BY <4>4
    <3>2. i < r.file
      BY <1>4, <3>1
    <3>3. PICK p \in DOMAIN Releases : r.files = Releases[p]
      BY <1>2, RunHas DEF MigrationInvariant
    <3>4. Keeps(s, t)
      BY <1>4, <1>5, <3>1, <3>2, <3>3, MigrationAssumption
    <3>5. \A o \in DOMAIN tables : {"columns", "engine"} \subseteq DOMAIN tables[o]
      BY DEF MigrationInvariant, MigrationTypeOK
    <3> QED BY <1>6, <2>1, <2>3, <3>4, <3>5, ExecutedKeeps
  <2> QED BY <1>7, <2>2, <2>3
<1>10. \A o \in DOMAIN tables' : {"columns", "engine"} \subseteq DOMAIN tables'[o]
  <2>1. \A o \in DOMAIN tables : {"columns", "engine"} \subseteq DOMAIN tables[o]
    BY DEF MigrationInvariant, MigrationTypeOK
  <2> QED BY <1>6, <1>7, <2>1, ExecutedShape
<1>11. CompletedInOrder'
  BY <1>1, <1>8, OrderStays DEF MigrationInvariant
<1>12. OneContent' /\ \A e \in ledger' :
          \E f \in Files, status \in {"started", "completed", "failed"} : e = EventOf(f, status)
  BY <1>1 DEF MigrationInvariant, OneContent, MigrationTypeOK
<1>13. RunIsTrue(migrator[m])'
  <2>1. \A e \in ledger' : AgreesWith(q.files, e)
    BY <1>1, <1>3, <1>7 DEF RunIsTrue
  <2>2. Loadable(q.files)'
    BY <1>3, <1>7 DEF RunIsTrue, Loadable
  <2>3. q.file \in DOMAIN q.files /\ \A i \in DOMAIN q.files : IsCompleted(q.files[i])' <=> i < q.file
    BY <1>3, <1>4, <1>7, <1>8
  <2>4. q = migrator'[m] /\ q.step \in {"execute", "failing"}
    BY <1>7
  <2>5. \A i \in DOMAIN q.files : q.files[i].name \in q.completed => IsCompleted(q.files[i])'
    BY <1>3, <1>7, <1>8 DEF RunIsTrue
  <2> QED BY <2>1, <2>2, <2>3, <2>4, <2>5 DEF RunIsTrue, IsCompleted, AgreesWith
<1> QED BY <1>1, <1>2, <1>7, <1>9, <1>10, <1>11, <1>12, <1>13, RunStep

LEMMA VerifyStep ==
    ASSUME MigrationInvariant, NEW m \in Migrators, Verify(m)
    PROVE  MigrationInvariant'
<1>1. migrator[m].step = "execute" /\ UNCHANGED <<tables, ledger, holder>>
  BY DEF Verify
<1>2. migrator[m] # Off
  BY <1>1 DEF Off
<1> PICK r : r = migrator[m]
  OBVIOUS
<1> PICK step : step = IF SchemaHolds(File(m).statements) THEN "verified" ELSE "failing"
  OBVIOUS
<1> PICK q : q = [r EXCEPT !.step = step]
  OBVIOUS
<1>3. /\ r \in Run /\ RunIsTrue(r) /\ r.step = "execute" /\ r.file \in DOMAIN r.files
  BY <1>1, <1>2, RunHas DEF MigrationInvariant, RunIsTrue
<1>4. migrator' = [migrator EXCEPT ![m] = q]
  BY DEF Verify, Set
<1>5. step \in {"verified", "failing"}
  OBVIOUS
<1>6. q \in Run /\ q.step = step /\ q.file = r.file /\ q.files = r.files /\ q.completed = r.completed
  BY <1>3, <1>5 DEF Run
<1>7. migrator'[m] = q
  BY <1>4 DEF MigrationInvariant, MigrationTypeOK
<1>8. step = "verified" => SchemaHolds(r.files[r.file].statements)
  BY DEF File
<1>9. RunIsTrue(migrator[m])'
  <2>1. \A f : IsCompleted(f)' <=> IsCompleted(f)
    BY <1>1 DEF IsCompleted, EventOf
  <2>2. Loadable(q.files)' /\ \A e \in ledger' : AgreesWith(q.files, e)
    BY <1>1, <1>3, <1>6 DEF RunIsTrue, Loadable
  <2>3. q.file \in DOMAIN q.files /\ \A i \in DOMAIN q.files : IsCompleted(q.files[i])' <=> i < q.file
    BY <1>3, <1>6, <2>1 DEF RunIsTrue
  <2>4. q.step = "verified" => SchemaHolds(q.files[q.file].statements)'
    <3>1. \A x : SchemaHolds(x)' <=> SchemaHolds(x)
      BY <1>1 DEF SchemaHolds, Has
    <3> QED BY <1>6, <1>8, <3>1
  <2>5. \A i \in DOMAIN q.files : q.files[i].name \in q.completed => IsCompleted(q.files[i])'
    BY <1>3, <1>6, <2>1 DEF RunIsTrue
  <2> QED BY <1>5, <1>6, <1>7, <2>2, <2>3, <2>4, <2>5 DEF RunIsTrue, IsCompleted, AgreesWith
<1> QED BY <1>1, <1>2, <1>4, <1>6, <1>7, <1>9, QuietStep

LEMMA CompleteStep ==
    ASSUME MigrationInvariant, NEW m \in Migrators, Complete(m)
    PROVE  MigrationInvariant'
<1>1. migrator[m].step = "verified" /\ UNCHANGED <<tables, holder>>
  BY DEF Complete
<1>2. migrator[m] # Off
  BY <1>1 DEF Off
<1> PICK r : r = migrator[m]
  OBVIOUS
<1> PICK q : q = migrator'[m]
  OBVIOUS
<1>3. /\ r \in Run /\ RunIsTrue(r) /\ r.step = "verified"
      /\ r.file \in Nat \ {0} /\ DOMAIN r.files = 1..Len(r.files) /\ Len(r.files) \in Nat
      /\ \A i \in DOMAIN r.files : r.files[i] \in Files
  BY <1>1, <1>2, RunHas DEF MigrationInvariant
<1>4. /\ r.file \in DOMAIN r.files /\ r.files[r.file] \in Files
      /\ \A i \in DOMAIN r.files : IsCompleted(r.files[i]) <=> i < r.file
      /\ SchemaHolds(r.files[r.file].statements)
  BY <1>3 DEF RunIsTrue
<1>5. ~Done(m) /\ migrator[m].step # "history" /\ File(m) = r.files[r.file]
  BY <1>1, <1>3, <1>4 DEF Done, File
<1>6. Record(m, "completed")
  BY DEF Complete, Record
<1>7. /\ \A e \in ledger' : \E f \in Files, s \in {"started", "completed", "failed"} :
            e = EventOf(f, s)
      /\ OneContent'
      /\ \A e \in ledger' : AgreesWith(r.files, e)
      /\ \A f \in Files : f # r.files[r.file] => (IsCompleted(f)' <=> IsCompleted(f))
      /\ \A f \in Files : IsCompleted(f) => IsCompleted(f)'
      /\ ledger \subseteq ledger'
  BY <1>2, <1>5, <1>6, RecordIs
<1>8. CompletedIsInForce'
  <2> SUFFICES ASSUME NEW f \in Files, IsCompleted(f)', NEW t \in Declared(f) PROVE InForce(t)'
    BY DEF CompletedIsInForce
  <2>1. InForce(t)
    <3>1. CASE f = r.files[r.file]
      BY <1>4, <3>1, VerifiedIsInForce
    <3>2. CASE f # r.files[r.file]
      BY <1>7, <3>2 DEF MigrationInvariant, CompletedIsInForce
    <3> QED BY <3>1, <3>2
  <2> QED BY <1>1, <2>1 DEF InForce
<1>9. CompletedInOrder'
  <2> SUFFICES ASSUME NEW p \in DOMAIN Releases,
                      \A e \in ledger' : AgreesWith(Releases[p], e),
                      NEW i \in DOMAIN Releases[p],
                      IsCompleted(Releases[p][i])', NEW k \in 1..i
               PROVE  IsCompleted(Releases[p][k])'
    BY DEF CompletedInOrder, AgreesWith
  <2>1. k \in DOMAIN Releases[p] /\ Releases[p][i] \in Files /\ Releases[p][k] \in Files
    <3>1. DOMAIN Releases[p] = 1..Len(Releases[p]) /\ Len(Releases[p]) \in Nat
      BY FilesOf
    <3>2. k \in DOMAIN Releases[p]
      BY <3>1
    <3> QED BY <3>2, FilesOf
  <2>2. CASE Releases[p][i] # r.files[r.file]
    <3>1. IsCompleted(Releases[p][i])
      BY <1>7, <2>1, <2>2
    <3>2. IsCompleted(Releases[p][k])
      BY <1>7, <3>1 DEF MigrationInvariant, CompletedInOrder
    <3> QED BY <1>7, <2>1, <3>2
  <2>3. CASE Releases[p][i] = r.files[r.file]
    <3>1. PICK s \in DOMAIN Releases : r.files = Releases[s]
      BY <1>2, RunHas DEF MigrationInvariant
    <3>2. i = r.file /\ Releases[p][k].name = r.files[k].name
      BY <1>4, <2>3, <3>1, ReleasesAppend
    <3>3. CASE k = i
      BY <3>3
    <3>4. CASE k < i
      <4>1. k \in DOMAIN r.files
        BY <1>3, <1>4, <3>2, <3>4
      <4>2. IsCompleted(r.files[k])
        BY <1>4, <3>2, <3>4, <4>1
      <4>3. r.files[k] \in Files /\ \A e \in ledger : AgreesWith(Releases[p], e)
        BY <1>3, <1>7, <4>1
      <4>4. Releases[p][k] = r.files[k]
        BY <2>1, <3>2, <4>2, <4>3, SameName
      <4> QED BY <1>7, <2>1, <4>2, <4>4
    <3> QED BY <3>3, <3>4, <1>3, <3>2
  <2> QED BY <2>2, <2>3
<1>10. /\ migrator' = [migrator EXCEPT ![m] = q] /\ q \in Run
       /\ q.files = r.files /\ q.completed = r.completed
       /\ \/ q.step = "failing" /\ q.file = r.file
          \/ /\ q.step = "next" /\ q.file = r.file + 1
             /\ IsCompleted(r.files[r.file])'
  <2>1. CASE Set(m, "failing")
    <3>1. migrator' = [migrator EXCEPT ![m] = [r EXCEPT !.step = "failing"]]
      BY <2>1 DEF Set
    <3>2. q = [r EXCEPT !.step = "failing"]
      BY <3>1 DEF MigrationInvariant, MigrationTypeOK
    <3> QED BY <1>3, <3>1, <3>2 DEF Run
  <2>2. CASE /\ ledger' = ledger \cup {Event(m, "completed")}
             /\ migrator' = [migrator EXCEPT ![m] =
                    [@ EXCEPT !.step = "next", !.file = migrator[m].file + 1]]
    <3>1. migrator' = [migrator EXCEPT ![m] = Moved(r)]
      BY <2>2 DEF Moved
    <3>2. q = Moved(r)
      BY <3>1 DEF MigrationInvariant, MigrationTypeOK
    <3>3. q \in Run /\ q.files = r.files /\ q.step = "next" /\ q.file = r.file + 1
          /\ q.completed = r.completed
      BY <1>3, <3>2, TwoFields
    <3>4. Event(m, "completed") = EventOf(r.files[r.file], "completed")
      BY <1>5 DEF Event, EventOf
    <3>5. EventOf(r.files[r.file], "completed") \in ledger'
      BY <2>2, <3>4
    <3>6. IsCompleted(r.files[r.file])'
      BY <3>5 DEF IsCompleted, EventOf
    <3> QED BY <3>1, <3>2, <3>3, <3>6
  <2> QED BY <2>1, <2>2 DEF Complete
<1>11. RunIsTrue(migrator[m])'
  <2>1. Loadable(q.files)' /\ \A e \in ledger' : AgreesWith(q.files, e)
    BY <1>3, <1>7, <1>10 DEF RunIsTrue, Loadable
  <2>2. q.step = "failing" => q.file \in DOMAIN q.files
    BY <1>4, <1>10
  <2>3. q.step = "next" =>
          /\ q.file <= Len(q.files) + 1
          /\ \A i \in DOMAIN q.files :
                IsCompleted(q.files[i])' => q.files[i].name \in q.completed \/ i < q.file
          /\ \A i \in DOMAIN q.files : i < q.file => IsCompleted(q.files[i])'
    <3> SUFFICES ASSUME q.step = "next"
                 PROVE  /\ q.file <= Len(q.files) + 1
                        /\ \A i \in DOMAIN q.files : IsCompleted(q.files[i])' => i < q.file
                        /\ \A i \in DOMAIN q.files : i < q.file => IsCompleted(q.files[i])'
      OBVIOUS
    <3>1. q.file = r.file + 1 /\ q.files = r.files /\ IsCompleted(r.files[r.file])'
      BY <1>10
    <3>2. \A i \in DOMAIN r.files : IsCompleted(r.files[i])' <=> i < r.file + 1
      <4> SUFFICES ASSUME NEW i \in DOMAIN r.files
                   PROVE  IsCompleted(r.files[i])' <=> i < r.file + 1
        OBVIOUS
      <4>1. i < r.file + 1 <=> i < r.file \/ i = r.file
        BY <1>3
      <4>2. CASE r.files[i] = r.files[r.file]
        <5>1. i = r.file
          BY <1>2, <1>4, <4>2, NamesAreDistinct DEF MigrationInvariant
        <5> QED BY <3>1, <4>1, <5>1
      <4>3. CASE r.files[i] # r.files[r.file]
        <5>1. IsCompleted(r.files[i])' <=> IsCompleted(r.files[i])
          BY <1>3, <1>7, <4>3
        <5> QED BY <1>4, <4>1, <4>3, <5>1
      <4> QED BY <4>2, <4>3
    <3> QED BY <1>3, <1>4, <3>1, <3>2
  <2>4. \A i \in DOMAIN q.files : q.files[i].name \in q.completed => IsCompleted(q.files[i])'
    BY <1>3, <1>7, <1>10 DEF RunIsTrue
  <2> QED BY <1>10, <2>1, <2>2, <2>3, <2>4 DEF RunIsTrue, IsCompleted, AgreesWith
<1> QED
  <2>1. \A o \in DOMAIN tables' : {"columns", "engine"} \subseteq DOMAIN tables'[o]
    BY <1>1 DEF MigrationInvariant, MigrationTypeOK
  <2>2. q = migrator'[m]
    OBVIOUS
  <2> QED BY <1>1, <1>2, <1>7, <1>8, <1>9, <1>10, <1>11, <2>1, RunStep

----------------------------------------------------------------------------
LEMMA MigrationInductive == MigrationSpec => []MigrationInvariant
<1>1. MigrationInit => MigrationInvariant
  <2> SUFFICES ASSUME MigrationInit PROVE MigrationInvariant
    OBVIOUS
  <2>1. ledger = {} /\ \A m \in Migrators : migrator[m] = Off
    BY DEF MigrationInit
  <2>2. \A f : ~IsCompleted(f)
    BY <2>1 DEF IsCompleted
  <2>3. MigrationTypeOK
    BY <2>1, MigrationAssumption DEF MigrationInit, MigrationTypeOK
  <2> QED BY <2>1, <2>2, <2>3 DEF MigrationInvariant, OneHolder, CompletedIsInForce, OneContent,
                                  CompletedInOrder
<1>2. MigrationInvariant /\ [MigrationNext]_migrationVars => MigrationInvariant'
  <2> SUFFICES ASSUME MigrationInvariant, [MigrationNext]_migrationVars
               PROVE  MigrationInvariant'
    OBVIOUS
  <2>1. CASE UNCHANGED migrationVars
    <3>1. UNCHANGED <<tables, ledger, holder, migrator>>
      BY <2>1 DEF migrationVars
    <3>2. MigrationTypeOK' /\ OneHolder' /\ OneContent'
      BY <3>1 DEF MigrationInvariant, MigrationTypeOK, OneHolder, OneContent
    <3>3. CompletedIsInForce' /\ CompletedInOrder'
      BY <3>1 DEF MigrationInvariant, CompletedIsInForce, CompletedInOrder, IsCompleted, InForce,
                  AgreesWith
    <3>4. ASSUME NEW m \in Migrators, migrator'[m] # Off PROVE RunIsTrue(migrator[m])'
      <4>1. RunIsTrue(migrator[m])
        BY <3>1, <3>4 DEF MigrationInvariant
      <4> QED BY <3>1, <4>1 DEF RunIsTrue, IsCompleted, AgreesWith, Loadable, SchemaHolds, Has
    <3> QED BY <3>2, <3>3, <3>4 DEF MigrationInvariant
  <2>2. ASSUME NEW m \in Migrators,
               \/ \E r \in DOMAIN Releases : Acquire(m, r)
               \/ ReadHistory(m) \/ Skip(m) \/ StartFile(m) \/ Execute(m) \/ Verify(m)
               \/ Complete(m) \/ FailMigration(m) \/ End(m) \/ Die(m)
        PROVE  MigrationInvariant'
    <3>1. CASE \E r \in DOMAIN Releases : Acquire(m, r)
      BY <3>1, AcquireStep
    <3>2. CASE FailMigration(m)
      <4>1. migrator[m].step = "failing" /\ migrator[m] # Off
        BY <3>2 DEF FailMigration, Off
      <4>2. ~Done(m)
        <5>1. RunIsTrue(migrator[m])
          BY <4>1 DEF MigrationInvariant
        <5>2. migrator[m].file \in DOMAIN migrator[m].files
          BY <4>1, <5>1 DEF RunIsTrue
        <5> QED BY <4>1, <5>2, RunHas DEF Done, MigrationInvariant
      <4> QED BY <3>2, <4>1, <4>2, RecordUnlock DEF FailMigration
    <3>3. CASE End(m)
      <4>1. migrator[m] # Off
        BY <3>3 DEF End, Off
      <4> QED BY <3>3, <4>1, QuietUnlock DEF End
    <3>4. CASE Die(m)
      BY <3>4, QuietUnlock DEF Die
    <3> QED BY <2>2, <3>1, <3>2, <3>3, <3>4, ReadHistoryStep, SkipStep, StartFileStep,
               ExecuteStep, VerifyStep, CompleteStep
  <2> QED BY <2>1, <2>2 DEF MigrationNext
<1> QED BY <1>1, <1>2, PTL DEF MigrationSpec

(* The migration ledger tells what is in the store, and a file that was     *)
(* ever begun has one content (migrate.ts, migration-schema.ts:68).         *)
THEOREM TheLedgerIsTrue == MigrationSpec => []LedgerIsTrue
<1>1. MigrationInvariant => LedgerIsTrue
  <2> SUFFICES ASSUME MigrationInvariant PROVE LedgerIsTrue
    OBVIOUS
  <2>1. ASSUME NEW e \in ledger, e.status = "completed"
        PROVE  \A k \in DOMAIN FileOf(e).statements : InForce(FileOf(e).statements[k])
    <3>1. PICK f \in Files, status \in {"started", "completed", "failed"} : e = EventOf(f, status)
      BY DEF MigrationInvariant, MigrationTypeOK
    <3>2. status = "completed"
      BY <2>1, <3>1 DEF EventOf
    <3>3. IsCompleted(f)
      BY <3>1, <3>2 DEF IsCompleted
    <3>4. FileOf(e) = f
      BY <3>1, FileOfEvent
    <3>5. \A k \in DOMAIN f.statements : InForce(f.statements[k])
      BY <3>3, DeclaredAt DEF MigrationInvariant, CompletedIsInForce
    <3> QED BY <3>4, <3>5
  <2> QED BY <2>1 DEF LedgerIsTrue, MigrationInvariant, OneContent
<1> QED BY <1>1, MigrationInductive, PTL

----------------------------------------------------------------------------
(* Deployment                                                               *)
Descriptor == [phase : {"legacy", "attempted", "active", "stopped"}, env : EnvFiles,
               revision : Revisions, last : Revisions]

Preparing == {"prepared", "built", "clear"}
Starting  == {"stored", "migrated", "verified", "started"}

Up   == [step : Preparing \cup {"attempted"} \cup Starting, kind : {"up", "check"}, env : EnvFiles,
         project : Projects, revision : Revisions, image : Images]
Down == [step : {"downed"}, project : Projects, was : Descriptor]

DeploymentTypeOK ==
    /\ env \in [EnvFiles -> Projects] /\ release \in Images
    /\ DOMAIN descriptor = Projects
    /\ \A p \in Projects : descriptor[p] \in {Nothing} \cup Descriptor
    /\ legacy \subseteq Projects
    /\ made \in Revisions /\ DOMAIN secret = Revisions
    /\ DOMAIN volume = Projects /\ \A p \in Projects : "secret" \in DOMAIN volume[p]
    /\ running \in [Projects -> [store : SUBSET Revisions, services : SUBSET Revisions]]
    /\ command \in {NoCommand} \cup Up \cup Down

\* A revision that is in use was generated.
RevisionsAreMade ==
    /\ \A p \in Projects :
          /\ descriptor[p] # Nothing => descriptor[p].revision <= made
          /\ \A r \in running[p].store \cup running[p].services : r <= made
    /\ command \in Up => command.revision <= made

Registered(p) == p \in Deployed \/ p \in legacy

\* A container runs in a project that is registered, over a volume that it or
\* one before it has initialised.
UseIsRegistered ==
    \A p \in Projects :
        /\ running[p] # Stopped => volume[p].secret # {}
        /\ volume[p].secret # {} => Registered(p)

SecretsFit ==
    \A p \in Projects : \A s \in volume[p].secret :
        /\ descriptor[p] # Nothing => secret[descriptor[p].revision] = s
        /\ descriptor[p] = Nothing => secret[LegacyRevision] = s
        /\ \A r \in running[p].store \cup running[p].services : secret[r] = s

CommandFits ==
    /\ command \in Up =>
          /\ \A s \in volume[command.project].secret : secret[command.revision] = s
          /\ command.step \in {"attempted"} \cup Starting =>
                /\ descriptor[command.project] # Nothing
                /\ descriptor[command.project].revision = command.revision
          /\ command.step \in Starting => volume[command.project].secret # {}
    /\ command \in Down => descriptor[command.project] = command.was

ReadersFit == \A o \in opened : o.image >= o.marker

DeploymentInvariant ==
    /\ DeploymentTypeOK /\ RevisionsAreMade /\ UseIsRegistered /\ SecretsFit
    /\ CommandFits /\ ReadersFit
----------------------------------------------------------------------------
\* What resolveDeployment finds: a project is found by its own name when it is
\* registered, and nothing else is.
LEMMA ResolvesRegistered ==
    ASSUME DeploymentTypeOK, NEW e, NEW p \in Projects
    PROVE  /\ \A q \in Projects : Resolves(e, p, q) => q = p
           /\ Registered(p) <=> Resolves(e, p, p)
<1>1. p # "none"
  BY DeploymentAssumption
<1>2. CASE p \in Deployed
  <2>1. Candidates(e, p) = {p}
    BY <1>1, <1>2 DEF Candidates
  <2> QED BY <1>2, <2>1 DEF Resolves, Registered
<1>3. CASE p \notin Deployed
  <2>1. Candidates(e, p) = {}
    BY <1>1, <1>3 DEF Candidates
  <2>2. LegacyCandidates(p) = IF p \in legacy THEN {p} ELSE {}
    BY <1>1, <1>3 DEF LegacyCandidates
  <2> QED BY <1>3, <2>1, <2>2 DEF Resolves, Registered
<1> QED BY <1>2, <1>3

LEMMA ResolvedIsRegistered ==
    ASSUME NEW e, NEW id, NEW p \in Projects, Resolves(e, id, p)
    PROVE  p \in Deployed \/ p \in legacy \ Deployed
BY DEF Resolves, Candidates, LegacyCandidates

\* The registry after an operation has found p in it.
LEMMA AfterResolveFits ==
    ASSUME DeploymentInvariant, NEW e \in EnvFiles, NEW p \in Projects,
           p \in Deployed \/ p \in legacy \ Deployed
    PROVE  /\ DOMAIN AfterResolve(e, p) = Projects
           /\ AfterResolve(e, p)[p] \in Descriptor
           /\ \A q \in Projects : q # p => AfterResolve(e, p)[q] = descriptor[q]
           /\ AfterResolve(e, p)[p].revision <= made
           /\ \A s \in volume[p].secret : secret[AfterResolve(e, p)[p].revision] = s
<1> USE DEF DeploymentInvariant
<1>1. CASE p \in Deployed
  <2>1. AfterResolve(e, p) = descriptor
    BY <1>1 DEF AfterResolve
  <2>2. descriptor[p] # Nothing
    BY <1>1 DEF Deployed
  <2> QED BY <2>1, <2>2 DEF DeploymentTypeOK, RevisionsAreMade, SecretsFit
<1>2. CASE p \notin Deployed
  <2>1. AfterResolve(e, p) = [descriptor EXCEPT ![p] = Adopted(p, e)]
    BY <1>2 DEF AfterResolve
  <2>2. AfterResolve(e, p)[p] = Adopted(p, e)
    BY <2>1 DEF DeploymentTypeOK
  <2>3. descriptor[p] = Nothing
    BY <1>2 DEF Deployed
  <2>4. LegacyRevision \in Revisions /\ LegacyRevision <= made
    BY DeploymentAssumption DEF DeploymentTypeOK, Revisions, LegacyRevision
  <2>5. Adopted(p, e) \in Descriptor /\ Adopted(p, e).revision = LegacyRevision
    <3>1. 0 \in Revisions
      BY <2>4 DEF LegacyRevision
    <3> QED BY <2>4, <3>1 DEF Adopted, Descriptor
  <2> QED BY <2>1, <2>2, <2>3, <2>4, <2>5 DEF DeploymentTypeOK, SecretsFit
<1> QED BY <1>1, <1>2

LEMMA DescriptorIsSomething ==
    ASSUME NEW d \in Descriptor
    PROVE  d # Nothing
<1>1. d.phase # "none"
  BY DEF Descriptor
<1>2. Nothing.phase = "none"
  BY DEF Nothing
<1> QED BY <1>1, <1>2

LEMMA CommandKinds ==
    /\ NoCommand \notin Up /\ NoCommand \notin Down
    /\ \A c \in Up : c.step # "idle" /\ c.step # "downed" /\ c \notin Down
    /\ \A c \in Down : c.step = "downed" /\ c \notin Up
    /\ NoCommand.step = "idle"
<1>1. NoCommand.step = "idle"
  BY DEF NoCommand
<1>2. \A c \in Up : c.step # "idle" /\ c.step # "downed"
  BY DEF Up, Preparing, Starting
<1>3. \A c \in Down : c.step = "downed"
  BY DEF Down
<1> QED BY <1>1, <1>2, <1>3

\* What a step of a command leaves alone.
Kept == UNCHANGED <<env, release, legacy, secret, made>>

\* A step of `up` or `check`.
LEMMA StepOfUp ==
    ASSUME DeploymentInvariant, NEW from, NEW to, Step(from, to),
           from \in Preparing \cup {"attempted"} \cup Starting,
           to \in Preparing \cup {"attempted"} \cup Starting \cup {"idle"}
    PROVE  /\ command \in Up /\ command.step = from
           /\ command' \in {NoCommand} \cup Up
           /\ command' \in Up =>
                 /\ command'.step = to /\ command'.project = command.project
                 /\ command'.revision = command.revision
           /\ to = "idle" => command' = NoCommand
           /\ Kept
<1>1. command.step = from /\ Kept
      /\ command' = IF to = "idle" THEN NoCommand ELSE [command EXCEPT !.step = to]
  BY DEF Step, Kept
<1>2. from # "idle" /\ from # "downed"
  BY DEF Preparing, Starting
<1>3. command \in Up
  BY <1>1, <1>2, CommandKinds DEF DeploymentInvariant, DeploymentTypeOK
<1>4. CASE to = "idle"
  BY <1>1, <1>3, <1>4, CommandKinds
<1>5. CASE to # "idle"
  <2>1. [command EXCEPT !.step = to] \in Up
    BY <1>3, <1>5 DEF Up
  <2>2. /\ [command EXCEPT !.step = to].step = to
        /\ [command EXCEPT !.step = to].project = command.project
        /\ [command EXCEPT !.step = to].revision = command.revision
    BY <1>3 DEF Up
  <2> QED BY <1>1, <1>3, <1>5, <2>1, <2>2
<1> QED BY <1>4, <1>5

\* A step that changes the command only, or leaves it.
LEMMA OnlyCommand ==
    ASSUME DeploymentInvariant, NEW from, NEW to, Step(from, to),
           from \in Preparing \cup {"attempted"} \cup Starting,
           to \in Preparing \cup {"attempted"} \cup Starting \cup {"idle"},
           to \in {"attempted"} \cup Starting => from \in {"attempted"} \cup Starting,
           to \in Starting => from \in Starting,
           UNCHANGED <<descriptor, volume, running, opened>>
    PROVE  DeploymentInvariant'
<1>1. /\ command \in Up /\ command.step = from
      /\ command' \in {NoCommand} \cup Up
      /\ command' \in Up =>
            /\ command'.step = to /\ command'.project = command.project
            /\ command'.revision = command.revision
      /\ Kept
  BY StepOfUp
<1> USE DEF DeploymentInvariant, Kept
<1>2. DeploymentTypeOK'
  BY <1>1 DEF DeploymentTypeOK, Revisions
<1>3. RevisionsAreMade'
  BY <1>1 DEF RevisionsAreMade
<1>4. UseIsRegistered'
  BY <1>1 DEF UseIsRegistered, Registered, Deployed
<1>5. SecretsFit'
  BY <1>1 DEF SecretsFit
<1>6. CommandFits'
  <2>1. command' \notin Down
    BY <1>1, CommandKinds
  <2>2. CASE command' \in Up
    BY <1>1, <2>1, <2>2 DEF CommandFits
  <2> QED BY <2>1, <2>2, <1>1, CommandKinds DEF CommandFits
<1>7. ReadersFit'
  BY DEF ReadersFit
<1> QED BY <1>2, <1>3, <1>4, <1>5, <1>6, <1>7

LEMMA OperatorStep ==
    ASSUME DeploymentInvariant,
           \/ \E e \in EnvFiles, p \in Projects : RenameProject(e, p)
           \/ \E image \in Images : Unpack(image)
    PROVE  DeploymentInvariant'
<1> USE DEF DeploymentInvariant
<1>1. /\ UNCHANGED <<descriptor, legacy, secret, made, volume, running, opened, command>>
      /\ env' \in [EnvFiles -> Projects] /\ release' \in Images
  BY DEF RenameProject, Unpack, DeploymentTypeOK
<1>2. DeploymentTypeOK'
  BY <1>1 DEF DeploymentTypeOK
<1>3. RevisionsAreMade' /\ UseIsRegistered' /\ SecretsFit'
  BY <1>1 DEF RevisionsAreMade, UseIsRegistered, Registered, Deployed, SecretsFit
<1>4. CommandFits' /\ ReadersFit'
  BY <1>1 DEF CommandFits, ReadersFit
<1> QED BY <1>2, <1>3, <1>4

\* The new secret is that of what the revision replaces, and of a volume that
\* is there.
LEMMA InheritedFits ==
    ASSUME DeploymentInvariant, NEW e \in EnvFiles, NEW p \in Projects
    PROVE  \A s \in volume[p].secret : Inherited(e, p) = s
<1>1. CASE Registered(p)
  <2>1. \E q \in Projects : Resolves(e, p, q)
    BY <1>1, ResolvesRegistered DEF DeploymentInvariant
  <2>2. Inherited(e, p) = secret[AfterResolve(e, p)[p].revision]
    BY <2>1 DEF Inherited
  <2>3. \A s \in volume[p].secret : secret[AfterResolve(e, p)[p].revision] = s
    BY <1>1, AfterResolveFits DEF Registered
  <2> QED BY <2>2, <2>3
<1>2. CASE ~Registered(p)
  BY <1>2 DEF DeploymentInvariant, UseIsRegistered
<1> QED BY <1>1, <1>2

LEMMA PrepareStep ==
    ASSUME DeploymentInvariant, NEW e \in EnvFiles, NEW kind \in {"up", "check", "config"},
           Prepare(e, kind)
    PROVE  DeploymentInvariant'
<1> USE DEF DeploymentInvariant
<1> DEFINE p == env[e]
           c == [step |-> "prepared", kind |-> kind, env |-> e, project |-> p,
                 revision |-> made + 1, image |-> release]
<1>1. p \in Projects
  BY DEF DeploymentTypeOK
<1> HIDE DEF p
<1>2. /\ command = NoCommand /\ made < MaxRevisions
      /\ descriptor' = IF LegacyCandidates(p) = {p} THEN AfterResolve(e, p) ELSE descriptor
      /\ made' = made + 1
      /\ secret' = [secret EXCEPT ![made + 1] = Inherited(e, p)]
      /\ command' = IF kind = "config" THEN NoCommand ELSE c
      /\ UNCHANGED <<env, release, legacy, volume, running, opened>>
  BY DEF Prepare, p
<1>3. /\ made \in Nat /\ made + 1 \in Revisions /\ MaxRevisions \in Nat
      /\ \A r \in Revisions : r \in Nat /\ (r <= made => r # made + 1 /\ r <= made + 1)
      /\ LegacyRevision \in Revisions /\ LegacyRevision <= made
  BY <1>2, DeploymentAssumption DEF DeploymentTypeOK, Revisions, LegacyRevision
<1>4. /\ DOMAIN secret' = Revisions /\ secret'[made + 1] = Inherited(e, p)
      /\ \A r \in Revisions : r <= made => secret'[r] = secret[r]
  BY <1>2, <1>3 DEF DeploymentTypeOK
<1>5. /\ DOMAIN descriptor' = Projects
      /\ \A q \in Projects : q # p => descriptor'[q] = descriptor[q]
      /\ \/ descriptor' = descriptor
         \/ /\ descriptor'[p] \in Descriptor /\ descriptor'[p].revision <= made
            /\ \A s \in volume[p].secret : secret[descriptor'[p].revision] = s
  <2>1. CASE LegacyCandidates(p) = {p}
    <3>1. p \in legacy \ Deployed
      BY <2>1 DEF LegacyCandidates
    <3>2. descriptor' = AfterResolve(e, p)
      BY <1>2, <2>1
    <3> QED BY <1>1, <3>1, <3>2, AfterResolveFits
  <2>2. CASE LegacyCandidates(p) # {p}
    BY <1>2, <2>2 DEF DeploymentTypeOK
  <2> QED BY <2>1, <2>2
<1>6. \A q \in Projects : \/ descriptor'[q] = descriptor[q]
                          \/ /\ descriptor'[q] \in Descriptor /\ descriptor'[q].revision <= made
                             /\ \A s \in volume[q].secret : secret[descriptor'[q].revision] = s
  BY <1>5
<1>7. command' \in {NoCommand} \cup Up
      /\ (command' \in Up => command'.project = p /\ command'.revision = made + 1
                             /\ command'.step = "prepared")
  <2>1. kind # "config" => c \in Up
    BY <1>1, <1>3 DEF Up, Preparing, DeploymentTypeOK
  <2>2. c.project = p /\ c.revision = made + 1 /\ c.step = "prepared"
    OBVIOUS
  <2> HIDE DEF c
  <2> QED BY <1>2, <2>1, <2>2, CommandKinds
<1>8. DeploymentTypeOK'
  <2>1. \A q \in Projects : descriptor'[q] \in {Nothing} \cup Descriptor
    BY <1>6 DEF DeploymentTypeOK
  <2> QED BY <1>2, <1>3, <1>4, <1>5, <1>7, <2>1 DEF DeploymentTypeOK
<1>9. RevisionsAreMade'
  <2>1. \A q \in Projects : descriptor'[q] # Nothing =>
           descriptor'[q].revision \in Revisions /\ descriptor'[q].revision <= made
    BY <1>6 DEF DeploymentTypeOK, Descriptor, RevisionsAreMade
  <2>2. \A q \in Projects : \A r \in running[q].store \cup running[q].services :
           r \in Revisions /\ r <= made
    BY DEF DeploymentTypeOK, RevisionsAreMade
  <2> QED BY <1>2, <1>3, <1>7, <2>1, <2>2 DEF RevisionsAreMade
<1>10. UseIsRegistered'
  <2>1. \A q \in Projects : Registered(q) => Registered(q)'
    BY <1>2, <1>6, DescriptorIsSomething DEF Registered, Deployed
  <2> QED BY <1>2, <2>1 DEF UseIsRegistered
<1>11. SecretsFit'
  <2> SUFFICES ASSUME NEW q \in Projects, NEW s \in volume[q].secret
               PROVE  /\ descriptor'[q] # Nothing => secret'[descriptor'[q].revision] = s
                      /\ descriptor'[q] = Nothing => secret'[LegacyRevision] = s
                      /\ \A r \in running[q].store \cup running[q].services : secret'[r] = s
    BY <1>2 DEF SecretsFit
  <2>1. descriptor'[q] # Nothing => secret'[descriptor'[q].revision] = s
    <3> SUFFICES ASSUME descriptor'[q] # Nothing PROVE secret'[descriptor'[q].revision] = s
      OBVIOUS
    <3>1. descriptor'[q].revision \in Revisions /\ descriptor'[q].revision <= made
      BY <1>6 DEF DeploymentTypeOK, Descriptor, RevisionsAreMade
    <3>2. secret[descriptor'[q].revision] = s
      BY <1>6 DEF SecretsFit
    <3> QED BY <1>4, <3>1, <3>2
  <2>2. descriptor'[q] = Nothing => secret'[LegacyRevision] = s
    BY <1>3, <1>4, <1>6, DescriptorIsSomething DEF SecretsFit
  <2>3. \A r \in running[q].store \cup running[q].services : secret'[r] = s
    <3>1. \A r \in running[q].store \cup running[q].services : r \in Revisions /\ r <= made
      BY DEF DeploymentTypeOK, RevisionsAreMade
    <3> QED BY <1>4, <3>1 DEF SecretsFit
  <2> QED BY <2>1, <2>2, <2>3
<1>12. CommandFits'
  <2>1. command' \notin Down
    BY <1>7, CommandKinds
  <2>2. \A s \in volume[p].secret : Inherited(e, p) = s
    BY <1>1, InheritedFits
  <2>3. "prepared" \notin {"attempted"} \cup Starting
    BY DEF Starting
  <2> QED BY <1>2, <1>4, <1>7, <2>1, <2>2, <2>3 DEF CommandFits
<1>13. ReadersFit'
  BY <1>2 DEF ReadersFit
<1> QED BY <1>8, <1>9, <1>10, <1>11, <1>12, <1>13

\* The descriptor of a project is replaced, by one of the same secret.
LEMMA SavedFits ==
    ASSUME DeploymentInvariant, NEW p \in Projects, NEW d \in Descriptor,
           d.revision <= made, \A s \in volume[p].secret : secret[d.revision] = s,
           DOMAIN descriptor' = Projects, descriptor'[p] = d,
           \A q \in Projects : q # p => descriptor'[q] = descriptor[q], Kept, UNCHANGED <<volume, opened>>,
           running' \in [Projects -> [store : SUBSET Revisions, services : SUBSET Revisions]],
           \A q \in Projects : running'[q] \in {running[q], Stopped},
           command' \in {NoCommand} \cup Up \cup Down,
           command' \in Up => command'.revision <= made
    PROVE  /\ DeploymentTypeOK' /\ RevisionsAreMade' /\ UseIsRegistered' /\ SecretsFit' /\ ReadersFit'
<1> USE DEF DeploymentInvariant, Kept
<1>2. d # Nothing
  BY DescriptorIsSomething
<1>3. Stopped.store = {} /\ Stopped.services = {}
  BY DEF Stopped
<1>4. \A q \in Projects : \A r \in running'[q].store \cup running'[q].services :
         r \in running[q].store \cup running[q].services
  BY <1>3
<1>5. DeploymentTypeOK'
  <2>1. \A q \in Projects : descriptor'[q] \in {Nothing} \cup Descriptor
    BY DEF DeploymentTypeOK
  <2> QED BY <2>1 DEF DeploymentTypeOK
<1>6. RevisionsAreMade'
  BY <1>4 DEF RevisionsAreMade
<1>7. UseIsRegistered'
  <2>1. \A q \in Projects : Registered(q) => Registered(q)'
    BY <1>2 DEF Registered, Deployed
  <2> QED BY <2>1 DEF UseIsRegistered
<1>8. SecretsFit'
  <2>1. \A q \in Projects : \A s \in volume[q].secret :
           \A r \in running'[q].store \cup running'[q].services : secret[r] = s
    BY <1>4 DEF SecretsFit
  <2>2. \A q \in Projects : \A s \in volume[q].secret :
           /\ descriptor'[q] # Nothing => secret[descriptor'[q].revision] = s
           /\ descriptor'[q] = Nothing => secret[LegacyRevision] = s
    BY <1>2 DEF SecretsFit
  <2> QED BY <2>1, <2>2 DEF SecretsFit
<1>9. ReadersFit'
  BY DEF ReadersFit
<1> QED BY <1>5, <1>6, <1>7, <1>8, <1>9

LEMMA AttemptStep ==
    ASSUME DeploymentInvariant, RecordAttempt
    PROVE  DeploymentInvariant'
<1> USE DEF DeploymentInvariant
<1> DEFINE p == command.project
<1>1. /\ command \in Up /\ command.step = "clear"
      /\ command' \in {NoCommand} \cup Up
      /\ command' \in Up =>
            /\ command'.step = "attempted" /\ command'.project = command.project
            /\ command'.revision = command.revision
      /\ Kept
  <2>1. Step("clear", "attempted")
    BY DEF RecordAttempt
  <2> QED BY <2>1, StepOfUp DEF Preparing
<1>2. p \in Projects /\ command.env \in EnvFiles /\ command.revision \in Revisions
  BY <1>1 DEF Up
<1>3. command.revision <= made /\ \A s \in volume[p].secret : secret[command.revision] = s
  BY <1>1 DEF RevisionsAreMade, CommandFits
<1> DEFINE last == IF descriptor[p] = Nothing THEN 0 ELSE descriptor[p].last
           d == [phase |-> "attempted", env |-> command.env, revision |-> command.revision,
                 last |-> last]
<1>4. d \in Descriptor /\ d.revision = command.revision
  <2>1. 0 \in Revisions
    BY DeploymentAssumption DEF Revisions, LegacyRevision
  <2>2. last \in Revisions
    BY <1>2, <2>1 DEF DeploymentTypeOK, Descriptor
  <2> HIDE DEF last, p
  <2> QED BY <1>2, <2>2 DEF Descriptor
<1>5. descriptor' = Save(descriptor, p, d) /\ UNCHANGED <<volume, running, opened>>
  BY DEF RecordAttempt, Attempt
<1> HIDE DEF d, p
<1>8. /\ DOMAIN descriptor' = Projects /\ descriptor'[p] = d
      /\ \A q \in Projects : q # p => descriptor'[q] = descriptor[q]
  BY <1>2, <1>5 DEF Save, DeploymentTypeOK
<1>6. /\ DeploymentTypeOK' /\ RevisionsAreMade' /\ UseIsRegistered' /\ SecretsFit' /\ ReadersFit'
  <2>1. running' \in [Projects -> [store : SUBSET Revisions, services : SUBSET Revisions]]
        /\ \A q \in Projects : running'[q] \in {running[q], Stopped}
    BY <1>5 DEF DeploymentTypeOK
  <2> QED BY <1>1, <1>2, <1>3, <1>4, <1>5, <1>8, <2>1, SavedFits
<1>7. CommandFits'
  <2>1. command' \notin Down
    BY <1>1, CommandKinds
  <2>2. d # Nothing
    BY <1>4, DescriptorIsSomething
  <2>3. "attempted" \notin Starting
    BY DEF Starting
  <2> QED BY <1>1, <1>3, <1>4, <1>5, <1>8, <2>1, <2>2, <2>3 DEF CommandFits, Kept, p
<1> QED BY <1>6, <1>7

\* A container of a revision starts, over a volume whose secret is that one's.
LEMMA StartedFits ==
    ASSUME DeploymentInvariant, NEW to \in Starting, Step(command.step, to),
           command.step \in {"attempted"} \cup Starting,
           DOMAIN volume' = Projects, \A q \in Projects : "secret" \in DOMAIN volume'[q],
           \A q \in Projects : q # command.project => volume'[q].secret = volume[q].secret,
           volume'[command.project].secret # {},
           \A s \in volume'[command.project].secret : secret[command.revision] = s,
           volume[command.project].secret # {} =>
               volume'[command.project].secret = volume[command.project].secret,
           running' \in [Projects -> [store : SUBSET Revisions, services : SUBSET Revisions]],
           \A q \in Projects : q # command.project => running'[q] = running[q],
           \A r \in running'[command.project].store \cup running'[command.project].services :
               \/ r \in running[command.project].store \cup running[command.project].services
               \/ r = command.revision,
           UNCHANGED descriptor, ReadersFit'
    PROVE  DeploymentInvariant'
<1> USE DEF DeploymentInvariant
<1> DEFINE p == command.project
<1>1. /\ command \in Up
      /\ command' \in {NoCommand} \cup Up
      /\ command' \in Up =>
            /\ command'.step = to /\ command'.project = command.project
            /\ command'.revision = command.revision
      /\ Kept
  BY StepOfUp
<1>2. p \in Projects /\ command.revision <= made
  BY <1>1 DEF Up, RevisionsAreMade
<1>3. descriptor[p] # Nothing /\ descriptor[p].revision = command.revision
  BY <1>1 DEF CommandFits
<1>4. DeploymentTypeOK'
  BY <1>1 DEF DeploymentTypeOK, Kept
<1>5. RevisionsAreMade'
  <2>1. \A q \in Projects : \A r \in running'[q].store \cup running'[q].services : r <= made
    BY <1>2 DEF RevisionsAreMade
  <2> QED BY <1>1, <1>2, <2>1 DEF RevisionsAreMade, Kept
<1>6. UseIsRegistered'
  <2>1. p \in Deployed
    BY <1>2, <1>3 DEF Deployed
  <2> QED BY <1>1, <2>1 DEF UseIsRegistered, Registered, Deployed, Kept
<1>7. SecretsFit'
  <2> SUFFICES ASSUME NEW q \in Projects, NEW s \in volume'[q].secret
               PROVE  /\ descriptor[q] # Nothing => secret[descriptor[q].revision] = s
                      /\ descriptor[q] = Nothing => secret[LegacyRevision] = s
                      /\ \A r \in running'[q].store \cup running'[q].services : secret[r] = s
    BY <1>1 DEF SecretsFit, Kept
  <2>1. CASE q # p
    BY <2>1 DEF SecretsFit
  <2>2. CASE q = p
    <3>1. secret[command.revision] = s
      BY <2>2
    <3>2. \A r \in running[p].store \cup running[p].services : secret[r] = s
      <4>1. CASE volume[p].secret # {}
        BY <2>2, <4>1, <1>2 DEF SecretsFit
      <4>2. CASE volume[p].secret = {}
        <5>1. running[p] = Stopped
          BY <1>2, <4>2 DEF UseIsRegistered
        <5> QED BY <5>1 DEF Stopped
      <4> QED BY <4>1, <4>2
    <3> QED BY <1>3, <2>2, <3>1, <3>2
  <2> QED BY <2>1, <2>2
<1>8. CommandFits'
  <2>1. command' \notin Down
    BY <1>1, CommandKinds
  <2> QED BY <1>1, <1>3, <2>1 DEF CommandFits, Kept
<1> QED BY <1>4, <1>5, <1>6, <1>7, <1>8

LEMMA StartStoreStep ==
    ASSUME DeploymentInvariant, StartStore
    PROVE  DeploymentInvariant'
<1> DEFINE p == command.project
<1>1. /\ command.step = "attempted" /\ Step("attempted", "stored")
      /\ running' = [running EXCEPT ![p].store = {command.revision}]
      /\ volume' = Initialised(p) /\ UNCHANGED <<descriptor, opened>>
  BY DEF StartStore
<1>2. command \in Up
  BY <1>1, StepOfUp DEF Starting
<1>3. p \in Projects /\ command.revision \in Revisions
      /\ \A s \in volume[p].secret : secret[command.revision] = s
  BY <1>2 DEF Up, DeploymentInvariant, CommandFits
<1> HIDE DEF p
<1>4. /\ DOMAIN volume' = Projects /\ \A q \in Projects : "secret" \in DOMAIN volume'[q]
      /\ \A q \in Projects : q # p => volume'[q].secret = volume[q].secret
      /\ volume'[p].secret # {}
      /\ \A s \in volume'[p].secret : secret[command.revision] = s
      /\ volume[p].secret # {} => volume'[p].secret = volume[p].secret
  <2>1. CASE volume[p].secret = {}
    <3>1. volume' = [volume EXCEPT ![p].secret = {secret[command.revision]}]
      BY <1>1, <2>1 DEF Initialised
    <3> QED BY <1>3, <2>1, <3>1 DEF DeploymentInvariant, DeploymentTypeOK
  <2>2. CASE volume[p].secret # {}
    BY <1>1, <1>3, <2>2 DEF Initialised, DeploymentInvariant, DeploymentTypeOK
  <2> QED BY <2>1, <2>2
<1>5. /\ running' \in [Projects -> [store : SUBSET Revisions, services : SUBSET Revisions]]
      /\ \A q \in Projects : q # p => running'[q] = running[q]
      /\ running'[p].store = {command.revision} /\ running'[p].services = running[p].services
  BY <1>1, <1>3 DEF DeploymentInvariant, DeploymentTypeOK
<1>6. ReadersFit'
  BY <1>1 DEF ReadersFit, DeploymentInvariant
<1>7. "stored" \in Starting
  BY DEF Starting
<1> QED BY <1>1, <1>4, <1>5, <1>6, <1>7, StartedFits DEF p

LEMMA MigrateStep ==
    ASSUME DeploymentInvariant, Migrate
    PROVE  DeploymentInvariant'
<1> DEFINE p == command.project
<1>1. /\ command.step = "stored" /\ Step("stored", "migrated")
      /\ volume' = [volume EXCEPT ![p].migrated = TRUE] /\ UNCHANGED <<descriptor, running, opened>>
  BY DEF Migrate
<1>2. "stored" \in Starting /\ "migrated" \in Starting
  BY DEF Starting
<1>3. command \in Up
  BY <1>1, <1>2, StepOfUp
<1>4. p \in Projects /\ volume[p].secret # {}
      /\ \A s \in volume[p].secret : secret[command.revision] = s
  BY <1>1, <1>2, <1>3 DEF Up, DeploymentInvariant, CommandFits
<1> HIDE DEF p
<1>5. /\ DOMAIN volume' = Projects /\ \A q \in Projects : "secret" \in DOMAIN volume'[q]
      /\ \A q \in Projects : volume'[q].secret = volume[q].secret
  BY <1>1, <1>4 DEF DeploymentInvariant, DeploymentTypeOK
<1>6. ReadersFit'
  BY <1>1 DEF ReadersFit, DeploymentInvariant
<1>7. running' \in [Projects -> [store : SUBSET Revisions, services : SUBSET Revisions]]
  BY <1>1 DEF DeploymentInvariant, DeploymentTypeOK
<1> QED BY <1>1, <1>2, <1>4, <1>5, <1>6, <1>7, StartedFits DEF p

LEMMA StartServicesStep ==
    ASSUME DeploymentInvariant, StartServices
    PROVE  DeploymentInvariant'
<1> DEFINE p == command.project
           to == IF Readable(command.image, volume[p].marker) THEN "started" ELSE "idle"
<1>1. /\ command.step = "verified" /\ Step("verified", to)
      /\ running' = [running EXCEPT ![p].services = {command.revision}]
      /\ Opened(p, command.image) /\ UNCHANGED descriptor
  BY DEF StartServices
<1> USE DEF DeploymentInvariant
<1>2. "verified" \in Starting /\ "started" \in Starting
  BY DEF Starting
<1>3. command \in Up /\ Kept
  BY <1>1, <1>2, StepOfUp
<1>4. p \in Projects /\ volume[p].secret # {} /\ command.revision \in Revisions
      /\ command.revision <= made
      /\ descriptor[p] # Nothing
      /\ \A s \in volume[p].secret : secret[command.revision] = s
  BY <1>1, <1>2, <1>3 DEF Up, CommandFits, RevisionsAreMade
<1> HIDE DEF p
<1>5. /\ DOMAIN volume' = Projects /\ \A q \in Projects : "secret" \in DOMAIN volume'[q]
      /\ \A q \in Projects : volume'[q].secret = volume[q].secret
  <2>1. volume' = volume \/ volume' = [volume EXCEPT ![p].marker = command.image]
    BY <1>1 DEF Opened
  <2>2. CASE volume' = [volume EXCEPT ![p].marker = command.image]
    BY <1>4, <2>2 DEF DeploymentTypeOK
  <2>3. CASE volume' = volume
    BY <2>3 DEF DeploymentTypeOK
  <2> QED BY <2>1, <2>2, <2>3
<1>6. ReadersFit'
  <2>1. opened' = opened
        \/ /\ command.image >= volume[p].marker
           /\ opened' = opened \cup {[image |-> command.image, marker |-> volume[p].marker]}
    BY <1>1 DEF Opened, Readable
  <2> QED BY <2>1 DEF ReadersFit
<1>7. /\ running' \in [Projects -> [store : SUBSET Revisions, services : SUBSET Revisions]]
      /\ \A q \in Projects : q # p => running'[q] = running[q]
      /\ running'[p].store = running[p].store /\ running'[p].services = {command.revision}
  BY <1>1, <1>4 DEF DeploymentTypeOK
<1>8. CASE to = "started"
  BY <1>1, <1>2, <1>4, <1>5, <1>6, <1>7, <1>8, StartedFits DEF p
<1>9. CASE to # "started"
  <2>1. command' = NoCommand
    BY <1>1, <1>2, <1>9, StepOfUp
  <2>2. DeploymentTypeOK'
    BY <1>1, <1>3, <1>5, <1>7, <2>1 DEF DeploymentTypeOK, Kept
  <2>3. RevisionsAreMade'
    <3>1. \A q \in Projects : \A r \in running'[q].store \cup running'[q].services : r <= made
      BY <1>4, <1>7 DEF RevisionsAreMade
    <3> QED BY <1>1, <1>3, <2>1, <3>1, CommandKinds DEF RevisionsAreMade, Kept
  <2>4. UseIsRegistered'
    BY <1>1, <1>3, <1>4, <1>5, <1>7 DEF UseIsRegistered, Registered, Deployed, Kept
  <2>5. SecretsFit'
    <3>1. \A q \in Projects : \A s \in volume[q].secret :
             \A r \in running'[q].store \cup running'[q].services : secret[r] = s
      BY <1>4, <1>7 DEF SecretsFit
    <3> QED BY <1>1, <1>3, <1>5, <3>1 DEF SecretsFit, Kept
  <2>6. CommandFits'
    BY <2>1, CommandKinds DEF CommandFits
  <2> QED BY <1>6, <2>2, <2>3, <2>4, <2>5, <2>6
<1> QED BY <1>8, <1>9

LEMMA ActivateStep ==
    ASSUME DeploymentInvariant, Activate
    PROVE  DeploymentInvariant'
<1> USE DEF DeploymentInvariant
<1> DEFINE p == command.project
           d == [descriptor[p] EXCEPT !.phase = "active", !.last = command.revision]
<1>1. /\ Step("started", "idle")
      /\ descriptor' = Save(descriptor, p, d) /\ UNCHANGED <<volume, running, opened>>
  BY DEF Activate
<1>2. "started" \in Starting
  BY DEF Starting
<1>3. command \in Up /\ command.step = "started" /\ Kept /\ command' = NoCommand
  BY <1>1, <1>2, StepOfUp
<1>4. /\ p \in Projects /\ command.revision \in Revisions
      /\ descriptor[p] \in Descriptor /\ descriptor[p].revision <= made
      /\ \A s \in volume[p].secret : secret[descriptor[p].revision] = s
  BY <1>2, <1>3 DEF Up, CommandFits, DeploymentTypeOK, RevisionsAreMade, SecretsFit
<1>5. d \in Descriptor /\ d.revision = descriptor[p].revision
  <2> HIDE DEF p
  <2> QED BY <1>4 DEF Descriptor
<1> HIDE DEF d, p
<1>10. /\ DOMAIN descriptor' = Projects /\ descriptor'[p] = d
      /\ \A q \in Projects : q # p => descriptor'[q] = descriptor[q]
  BY <1>1, <1>4 DEF Save, DeploymentTypeOK
<1>6. running' \in [Projects -> [store : SUBSET Revisions, services : SUBSET Revisions]]
      /\ \A q \in Projects : running'[q] \in {running[q], Stopped}
  BY <1>1 DEF DeploymentTypeOK
<1>7. /\ DeploymentTypeOK' /\ RevisionsAreMade' /\ UseIsRegistered' /\ SecretsFit' /\ ReadersFit'
  BY <1>1, <1>3, <1>4, <1>5, <1>6, <1>10, CommandKinds, SavedFits
<1>8. CommandFits'
  BY <1>3, CommandKinds DEF CommandFits
<1> QED BY <1>7, <1>8

LEMMA AbortStep ==
    ASSUME DeploymentInvariant, Abort
    PROVE  DeploymentInvariant'
<1> USE DEF DeploymentInvariant
<1>1. /\ Kept /\ UNCHANGED <<descriptor, volume, running, opened>>
      /\ command' = NoCommand
  BY DEF Abort, Step, Kept
<1>2. DeploymentTypeOK'
  BY <1>1 DEF DeploymentTypeOK, Kept
<1>3. RevisionsAreMade' /\ UseIsRegistered' /\ SecretsFit' /\ ReadersFit'
  BY <1>1, CommandKinds
     DEF RevisionsAreMade, UseIsRegistered, Registered, Deployed, SecretsFit, ReadersFit, Kept
<1>4. CommandFits'
  BY <1>1, CommandKinds DEF CommandFits
<1> QED BY <1>2, <1>3, <1>4

LEMMA ResolveStep ==
    ASSUME DeploymentInvariant, NEW e \in EnvFiles, NEW id \in Projects \cup {"none"},
           NEW kind \in {"down", "status"}, Resolve(e, id, kind)
    PROVE  DeploymentInvariant'
<1> USE DEF DeploymentInvariant
<1>1. PICK p \in Projects :
        /\ Resolves(e, id, p)
        /\ descriptor' = AfterResolve(e, p)
        /\ running' = IF kind = "down" THEN [running EXCEPT ![p] = Stopped] ELSE running
        /\ command' = IF kind = "down"
                      THEN [step |-> "downed", project |-> p, was |-> descriptor'[p]] ELSE NoCommand
  BY DEF Resolve
<1>2. Kept /\ UNCHANGED <<volume, opened>>
  BY DEF Resolve, Kept
<1>3. p \in Deployed \/ p \in legacy \ Deployed
  BY <1>1, ResolvedIsRegistered
<1>4. /\ DOMAIN descriptor' = Projects /\ descriptor'[p] \in Descriptor
      /\ \A q \in Projects : q # p => descriptor'[q] = descriptor[q]
      /\ descriptor'[p].revision <= made
      /\ \A s \in volume[p].secret : secret[descriptor'[p].revision] = s
  BY <1>1, <1>3, AfterResolveFits
<1>5. /\ running' \in [Projects -> [store : SUBSET Revisions, services : SUBSET Revisions]]
      /\ \A q \in Projects : running'[q] \in {running[q], Stopped}
  <2>1. Stopped \in [store : SUBSET Revisions, services : SUBSET Revisions]
    BY DEF Stopped
  <2> QED BY <1>1, <2>1 DEF DeploymentTypeOK
<1>6. command' \in {NoCommand} \cup Down /\ (command' \in Down => command'.project = p /\ command'.was = descriptor'[p])
  <2> DEFINE c == [step |-> "downed", project |-> p, was |-> descriptor'[p]]
  <2>1. c \in Down
    BY <1>4 DEF Down
  <2>2. c.project = p /\ c.was = descriptor'[p]
    OBVIOUS
  <2>3. command' = c \/ command' = NoCommand
    BY <1>1
  <2> HIDE DEF c
  <2> QED BY <2>1, <2>2, <2>3, CommandKinds
<1>7. command' \notin Up
  BY <1>6, CommandKinds
<1>9. PICK d : d = descriptor'[p]
  OBVIOUS
<1>10. /\ DeploymentTypeOK' /\ RevisionsAreMade' /\ UseIsRegistered' /\ SecretsFit' /\ ReadersFit'
  BY <1>2, <1>4, <1>5, <1>6, <1>7, <1>9, SavedFits
<1>11. CommandFits'
  BY <1>6, <1>7 DEF CommandFits
<1> QED BY <1>10, <1>11

LEMMA RecordStopStep ==
    ASSUME DeploymentInvariant, RecordStop
    PROVE  DeploymentInvariant'
<1> USE DEF DeploymentInvariant
<1> DEFINE p == command.project
           d == [command.was EXCEPT !.phase = "stopped"]
<1>1. /\ command.step = "downed" /\ command' = NoCommand /\ Kept
      /\ descriptor' = Save(descriptor, p, d) /\ UNCHANGED <<volume, running, opened>>
  BY DEF RecordStop, Step, Kept
<1>2. command \in Down
  BY <1>1, CommandKinds DEF DeploymentTypeOK
<1>3. p \in Projects /\ command.was \in Descriptor /\ descriptor[p] = command.was
  BY <1>2 DEF Down, CommandFits
<1>4. command.was # Nothing
  BY <1>3, DescriptorIsSomething
<1>5. d \in Descriptor /\ d.revision = command.was.revision
  BY <1>3 DEF Descriptor
<1>6. d.revision <= made /\ \A s \in volume[p].secret : secret[d.revision] = s
  BY <1>3, <1>4, <1>5 DEF RevisionsAreMade, SecretsFit
<1> HIDE DEF d, p
<1>10. /\ DOMAIN descriptor' = Projects /\ descriptor'[p] = d
      /\ \A q \in Projects : q # p => descriptor'[q] = descriptor[q]
  BY <1>1, <1>3 DEF Save, DeploymentTypeOK
<1>7. running' \in [Projects -> [store : SUBSET Revisions, services : SUBSET Revisions]]
      /\ \A q \in Projects : running'[q] \in {running[q], Stopped}
  BY <1>1 DEF DeploymentTypeOK
<1>8. /\ DeploymentTypeOK' /\ RevisionsAreMade' /\ UseIsRegistered' /\ SecretsFit' /\ ReadersFit'
  BY <1>1, <1>3, <1>5, <1>6, <1>7, <1>10, CommandKinds, SavedFits
<1>9. CommandFits'
  BY <1>1, CommandKinds DEF CommandFits
<1> QED BY <1>8, <1>9

LEMMA DeploymentInductive ==
    ASSUME DeploymentInvariant, [DeploymentNext]_deploymentVars
    PROVE  DeploymentInvariant'
<1>1. CASE \E e \in EnvFiles, p \in Projects : RenameProject(e, p)
  BY <1>1, OperatorStep
<1>2. CASE \E image \in Images : Unpack(image)
  BY <1>2, OperatorStep
<1>3. ASSUME NEW e \in EnvFiles, NEW kind \in {"up", "check", "config"}, Prepare(e, kind)
      PROVE  DeploymentInvariant'
  BY <1>3, PrepareStep
<1>4. ASSUME NEW e \in EnvFiles, NEW id \in Projects \cup {"none"}, NEW kind \in {"down", "status"},
             Resolve(e, id, kind)
      PROVE  DeploymentInvariant'
  BY <1>4, ResolveStep
<1>5. CASE Build
  BY <1>5, OnlyCommand DEF Build, Preparing, Starting
<1>6. CASE CheckPorts
  <2>1. PICK to \in {"clear", "idle"} : Step("built", to)
    BY <1>6 DEF CheckPorts
  <2>2. UNCHANGED <<descriptor, volume, running, opened>>
    BY <1>6 DEF CheckPorts
  <2> QED BY <2>1, <2>2, OnlyCommand DEF Preparing, Starting
<1>7. CASE RecordAttempt
  BY <1>7, AttemptStep
<1>8. CASE StartStore
  BY <1>8, StartStoreStep
<1>9. CASE Migrate
  BY <1>9, MigrateStep
<1>10. ASSUME NEW sharedReady \in BOOLEAN, Preflight(sharedReady)
       PROVE  DeploymentInvariant'
  <2>1. UNCHANGED <<descriptor, volume, running, opened>>
    BY <1>10 DEF Preflight
  <2>2. \/ Step("migrated", "verified") \/ Step("migrated", "idle") \/ Step("built", "idle")
    BY <1>10 DEF Preflight
  <2> QED BY <2>1, <2>2, OnlyCommand DEF Preparing, Starting
<1>11. CASE StartServices
  BY <1>11, StartServicesStep
<1>12. CASE Activate
  BY <1>12, ActivateStep
<1>13. CASE Abort
  BY <1>13, AbortStep
<1>14. CASE RecordStop
  BY <1>14, RecordStopStep
<1>15. CASE UNCHANGED deploymentVars
  <2> USE <1>15 DEF deploymentVars, DeploymentInvariant
  <2>1. DeploymentTypeOK'
    BY DEF DeploymentTypeOK
  <2>2. RevisionsAreMade' /\ UseIsRegistered' /\ SecretsFit' /\ CommandFits' /\ ReadersFit'
    BY DEF RevisionsAreMade, UseIsRegistered, Registered, Deployed, SecretsFit, CommandFits, ReadersFit
  <2> QED BY <2>1, <2>2
<1> QED BY <1>1, <1>2, <1>3, <1>4, <1>5, <1>6, <1>7, <1>8, <1>9, <1>10, <1>11, <1>12, <1>13,
           <1>14, <1>15 DEF DeploymentNext

LEMMA DeploymentStarts == DeploymentInit => DeploymentInvariant
<1> SUFFICES ASSUME DeploymentInit PROVE DeploymentInvariant
  OBVIOUS
<1>1. LegacyRevision \in Revisions /\ LegacyRevision = 0 /\ 0 \in Revisions
  BY DeploymentAssumption DEF Revisions, LegacyRevision
<1>2. command = NoCommand /\ command \notin Up /\ command \notin Down
  BY CommandKinds DEF DeploymentInit
<1>3. \A p \in Projects : descriptor[p] = Nothing
  BY DEF DeploymentInit
<1>4. \A p \in Projects : volume[p].secret = IF p \in legacy THEN {LegacyRevision} ELSE {}
  BY DEF DeploymentInit
<1>5. \A p \in Projects : running[p] = IF p \in legacy
         THEN [store |-> {LegacyRevision}, services |-> {LegacyRevision}] ELSE Stopped
  BY DEF DeploymentInit
<1>6. Stopped.store = {} /\ Stopped.services = {}
  BY DEF Stopped
<1>7. DeploymentTypeOK
  <2>1. running \in [Projects -> [store : SUBSET Revisions, services : SUBSET Revisions]]
    BY <1>1 DEF DeploymentInit, Stopped
  <2> QED BY <1>1, <2>1 DEF DeploymentInit, DeploymentTypeOK
<1>8. RevisionsAreMade
  BY <1>1, <1>2, <1>3, <1>5, <1>6 DEF DeploymentInit, RevisionsAreMade
<1>9. UseIsRegistered
  BY <1>4, <1>5 DEF UseIsRegistered, Registered
<1>10. SecretsFit
  <2>1. secret[LegacyRevision] = LegacyRevision
    BY <1>1 DEF DeploymentInit
  <2> QED BY <1>3, <1>4, <1>5, <2>1 DEF SecretsFit
<1>11. CommandFits /\ ReadersFit
  BY <1>2 DEF CommandFits, ReadersFit, DeploymentInit
<1> QED BY <1>7, <1>8, <1>9, <1>10, <1>11 DEF DeploymentInvariant

(* Whatever is done to the env files and wherever a command ends, a project *)
(* whose containers run is found by its name, from every env file           *)
(* (deployment-state.mjs, cli.mjs).                                         *)
THEOREM WhatRunsIsFound == DeploymentSpec => []StaysOperable
<1>1. DeploymentInvariant => StaysOperable
  <2> SUFFICES ASSUME DeploymentInvariant, NEW p \in Projects, NEW e \in EnvFiles, running[p] # Stopped
               PROVE  Resolves(e, p, p)
    BY DEF StaysOperable
  <2>1. Registered(p)
    BY DEF DeploymentInvariant, UseIsRegistered
  <2> QED BY <2>1, ResolvesRegistered DEF DeploymentInvariant
<1> QED BY <1>1, DeploymentStarts, DeploymentInductive, PTL DEF DeploymentSpec

(* A recorded or running revision has the secret its project's volumes were *)
(* initialised with, and no image opens a log that is too new for it        *)
(* (compose.mjs, wal-reader-guard.mjs).                                     *)
THEOREM VolumesAreUsedAsMade == DeploymentSpec => []VolumesFit
<1>1. DeploymentInvariant => VolumesFit
  BY DEF DeploymentInvariant, SecretsFit, ReadersFit, VolumesFit
<1> QED BY <1>1, DeploymentStarts, DeploymentInductive, PTL DEF DeploymentSpec

----------------------------------------------------------------------------
(* ComposeConfig                                                            *)
\* A file of mappings is a sequence of them.
InOrder(mappings) == \E n \in Nat : mappings = [k \in 1..n |-> mappings[k]]

\* A target of a file takes no records but those routed to it.
OwnRoutes(targets) ==
    /\ DOMAIN targets \subseteq {Standalone, Shared}
    /\ \A t \in DOMAIN targets :
          "routes" \in DOMAIN targets[t] /\ targets[t].routes \in {{}, {t}}

OwnFilesInv ==
    /\ \A mappings \in ownMappings : InOrder(mappings)
    /\ \A targets \in ownTargets : OwnRoutes(targets)

\* What was generated was accepted as it is, and what runs was loaded.
StageInv ==
    /\ configStage \in {"editing", "refused", "generated", "running"}
    /\ configStage \in {"generated", "running"} => Accepted(setting)
    /\ DOMAIN setting = DOMAIN SettingValues
    /\ setting.snapshots \in {"true", "1", "false"}

DeliveredInv ==
    \A i \in DOMAIN delivered :
        i \in Instances /\ configStage = "running" /\ delivered[i] = Reached(i)

ConfigInvariant == OwnFilesInv /\ StageInv /\ DeliveredInv

\* What is in use is one of the operator's own files or what is generated.
LEMMA FilesInUse ==
  ASSUME OwnFilesInv
  PROVE  InOrder(MappingsInUse) /\ OwnRoutes(TargetsInUse)
<1>1. InOrder(MappingsInUse)
  <2>1. CASE ownMappings = {}
    <3>1. MappingsInUse = GeneratedMappings(setting)
      BY <2>1 DEF MappingsInUse
    <3>2. GeneratedMappings(setting) = [k \in 1..2 |-> GeneratedMappings(setting)[k]]
      BY DEF GeneratedMappings
    <3> QED
      BY <3>1, <3>2 DEF InOrder
  <2>2. CASE ownMappings # {}
    <3>1. MappingsInUse \in ownMappings
      BY <2>2 DEF MappingsInUse
    <3> QED
      BY <3>1 DEF OwnFilesInv
  <2> QED
    BY <2>1, <2>2
<1>2. OwnRoutes(TargetsInUse)
  <2>1. CASE ownTargets = {}
    <3>1. TargetsInUse = GeneratedTargets(setting)
      BY <2>1 DEF TargetsInUse
    <3> QED
      BY <3>1 DEF GeneratedTargets, OwnRoutes, Routes
  <2>2. CASE ownTargets # {}
    <3>1. TargetsInUse \in ownTargets
      BY <2>2 DEF TargetsInUse
    <3> QED
      BY <3>1 DEF OwnFilesInv
  <2> QED
    BY <2>1, <2>2
<1> QED
  BY <1>1, <1>2

\* A nonempty family of subsets of a finite set has a smallest member.
LEMMA SmallestSubset ==
  ASSUME NEW S, IsFiniteSet(S), NEW F \in SUBSET (SUBSET S), F # {}
  PROVE  \E m \in F : \A n \in F : n \subseteq m => n = m
<1>1. IsWellFoundedOn(StrictSubsetOrdering(S), SUBSET S)
  BY FS_StrictSubsetOrderingWellFounded, FS_FiniteSubsetsOfFinite
<1>2. PICK m \in F : \A n \in F : <<n, m>> \notin StrictSubsetOrdering(S)
  BY <1>1, WFMin
<1> QED
  BY <1>2 DEF StrictSubsetOrdering

\* A nonempty set of numbers has a least element.
LEMMA Smallest ==
  ASSUME NEW T \in SUBSET Nat, T # {}
  PROVE  \E x \in T : \A y \in T : x <= y
<1>1. PICK n \in T : TRUE
  OBVIOUS
<1> DEFINE S == 0..n
           F == {0..k : k \in T \cap S}
<1>2. IsFiniteSet(S)
  BY <1>1, FS_Interval
<1>3. 0..n \in F
  BY <1>1
<1>4. F \in SUBSET (SUBSET S)
  BY <1>1
<1>5. PICK m \in F : \A k \in F : k \subseteq m => k = m
  <2> HIDE DEF F, S
  <2> QED BY <1>2, <1>3, <1>4, SmallestSubset
<1>6. PICK x \in T \cap S : m = 0..x
  BY <1>5
<1>7. ASSUME NEW y \in T, y < x PROVE FALSE
  <2>1. 0..y \in F
    BY <1>1, <1>6, <1>7
  <2>2. 0..y \subseteq m
    BY <1>6, <1>7
  <2>3. 0..y = m
    BY <1>5, <2>1, <2>2
  <2>4. x \in 0..x /\ x \notin 0..y
    BY <1>6, <1>7
  <2> QED
    BY <2>3, <2>4, <1>6
<1> QED
  BY <1>6, <1>7


\* The mapping that decides matches, if any does.
LEMMA FirstMatchMatches ==
  ASSUME NEW i, InOrder(MappingsInUse),
         \E k \in DOMAIN MappingsInUse : Matches(MappingsInUse[k], i)
  PROVE  FirstMatch(i) \in DOMAIN MappingsInUse /\ Matches(MappingsInUse[FirstMatch(i)], i)
<1>1. PICK n \in Nat : MappingsInUse = [k \in 1..n |-> MappingsInUse[k]]
  BY DEF InOrder
<1> DEFINE T == {k \in 1..n : Matches(MappingsInUse[k], i)}
<1>2. DOMAIN MappingsInUse = 1..n
  BY <1>1
<1>3. T \in SUBSET Nat /\ T # {}
  BY <1>2
<1>4. PICK x \in T : \A y \in T : x <= y
  <2> HIDE DEF T
  <2> QED
    BY <1>3, Smallest
<1>5. x \in DOMAIN MappingsInUse /\ Matches(MappingsInUse[x], i)
  BY <1>2, <1>4
<1>6. \A j \in 1..x - 1 : ~Matches(MappingsInUse[j], i)
  BY <1>4
<1> QED
  BY <1>5, <1>6 DEF FirstMatch

\* A record of an authority of the stack is routed as generated, if no mapping of
\* the operator's own is in its way.
LEMMA RecordIsRouted ==
  ASSUME OwnFilesInv, Accepted(setting), NEW i \in Instances, ~Diverted(i)
  PROVE  Resolved(i) = Routes(setting)
<1>1. PICK k \in DOMAIN MappingsInUse : MappingsInUse[k].instance = i
  BY DEF Accepted, MappingsMatch
<1>2. \A j \in DOMAIN MappingsInUse :
         /\ MappingsInUse[j].instance # "unnamed"
         /\ MappingsInUse[j].instance = i => MappingsInUse[j] = Mapping(i, Routes(setting))
  BY DEF Diverted
<1>3. Matches(MappingsInUse[k], i)
  BY <1>1, <1>2 DEF Matches, Mapping
<1>4. /\ FirstMatch(i) \in DOMAIN MappingsInUse
      /\ Matches(MappingsInUse[FirstMatch(i)], i)
  BY <1>3, FilesInUse, FirstMatchMatches
<1>5. MappingsInUse[FirstMatch(i)] = Mapping(i, Routes(setting))
  BY <1>2, <1>4 DEF Matches
<1> QED
  BY <1>3, <1>5 DEF Resolved, Mapping

LEMMA RecordIsDelivered ==
  ASSUME OwnFilesInv, Accepted(setting), NEW i \in Instances, ~Diverted(i)
  PROVE  Reached(i) = Routes(setting)
<1>1. Resolved(i) = Routes(setting)
  BY RecordIsRouted
<1>2. IngressTrusted
  BY DEF Accepted, CollectorIsAllowed, IngressTrusted
<1>3. \A t \in Routes(setting) :
         /\ t \in DOMAIN TargetsInUse /\ TargetsInUse[t].enabled
         /\ TargetsInUse[t].routes # {}
  BY DEF Accepted, TargetsMatch, Diverted
<1>4. \A t \in DOMAIN TargetsInUse : TargetsInUse[t].routes \in {{}, {t}}
  BY FilesInUse DEF OwnRoutes
<1>5. \A t \in DOMAIN TargetsInUse :
         TargetsInUse[t].enabled /\ TargetsInUse[t].routes \cap Routes(setting) # {}
           <=> t \in Routes(setting)
  BY <1>3, <1>4
<1> QED
  BY <1>1, <1>2, <1>3, <1>5 DEF Reached

LEMMA DeliversFromInvariant ==
  ASSUME ConfigInvariant
  PROVE  AcceptedConfigurationDelivers
<1>1. ASSUME NEW i \in DOMAIN delivered PROVE delivered[i] = Routes(setting) \/ Diverted(i)
  BY RecordIsDelivered DEF ConfigInvariant, DeliveredInv, StageInv
<1>2. ASSUME configStage = "running", setting.snapshots # "false"
      PROVE  /\ setting.snapshotTarget \in DOMAIN TargetsInUse
             /\ TargetsInUse[setting.snapshotTarget].enabled
             /\ TargetsInUse[setting.snapshotTarget].snapshot
  <2>1. Accepted(setting) /\ Normalised(setting.snapshots)
    BY <1>2 DEF ConfigInvariant, StageInv, Normalised
  <2> QED
    BY <2>1 DEF Accepted, SnapshotsAreWritten
<1> QED
  BY <1>1, <1>2 DEF AcceptedConfigurationDelivers

LEMMA ConfigInitInvariant ==
  ASSUME ConfigInit
  PROVE  ConfigInvariant
<1>1. OwnFilesInv
  BY DEF ConfigInit, OwnFilesInv
<1>2. StageInv
  <2>1. Open.snapshots = "true" /\ Authenticated.snapshots = "true" /\ AttachedAlone.snapshots = "true"
    BY DEF Open, Authenticated, AttachedAlone
  <2>2. DOMAIN Open = DOMAIN SettingValues
    BY DEF Open, SettingValues
  <2>3. DOMAIN Authenticated = DOMAIN Open /\ DOMAIN AttachedAlone = DOMAIN Open
    BY DEF Authenticated, AttachedAlone
  <2> QED
    BY <2>1, <2>2, <2>3 DEF ConfigInit, StageInv
<1>3. DeliveredInv
  BY DEF ConfigInit, DeliveredInv
<1> QED
  BY <1>1, <1>2, <1>3 DEF ConfigInvariant

\* Nothing is delivered while the configuration is edited.
LEMMA NothingDeliveredYet ==
  ASSUME DeliveredInv, configStage # "running"
  PROVE  DOMAIN delivered = {}
BY DEF DeliveredInv

LEMMA EditSettingStep ==
  ASSUME ConfigInvariant, NEW f \in DOMAIN SettingValues, NEW v \in SettingValues[f], EditSetting(f, v)
  PROVE  ConfigInvariant'
<1> USE DEF ConfigInvariant
<1>1. OwnFilesInv' /\ configStage' = "editing" /\ configStage = "editing" /\ delivered' = delivered
  BY DEF EditSetting, Editing, OwnFilesInv
<1>2. setting' = [setting EXCEPT ![f] = v]
  BY DEF EditSetting
<1>3. SettingValues["snapshots"] = {"true", "1", "false"} /\ "snapshots" \in DOMAIN SettingValues
  BY DEF SettingValues
<1>4. DOMAIN setting' = DOMAIN SettingValues /\ setting'.snapshots \in {"true", "1", "false"}
  BY <1>2, <1>3 DEF StageInv
<1>5. StageInv'
  BY <1>1, <1>4 DEF StageInv
<1>6. DeliveredInv'
  BY <1>1, NothingDeliveredYet DEF DeliveredInv
<1> QED
  BY <1>1, <1>5, <1>6

LEMMA InsertedInOrder ==
  ASSUME NEW s, InOrder(s), NEW k \in 1..Len(s) + 1, NEW m
  PROVE  InOrder(InsertAt(s, k, m))
<1>1. PICK n \in Nat : s = [j \in 1..n |-> s[j]]
  BY DEF InOrder
<1> DEFINE S == {s[j] : j \in 1..n} \cup {m}
<1>2. s \in Seq(S) /\ m \in S /\ Len(s) = n
  <2>1. s \in [1..n -> S]
    BY <1>1
  <2> HIDE DEF S
  <2>2. s \in Seq(S)
    BY <2>1
  <2> QED
    BY <1>1, <2>2 DEF S
<1> HIDE DEF S
<1>3. SubSeq(s, 1, k - 1) \in Seq(S) /\ SubSeq(s, k, Len(s)) \in Seq(S) /\ <<m>> \in Seq(S)
  BY <1>2
<1>4. InsertAt(s, k, m) \in Seq(S)
  BY <1>3 DEF InsertAt
<1>5. InsertAt(s, k, m) = [j \in 1..Len(InsertAt(s, k, m)) |-> InsertAt(s, k, m)[j]]
      /\ Len(InsertAt(s, k, m)) \in Nat
  BY <1>4
<1> QED
  BY <1>5 DEF InOrder

LEMMA ChangedInOrder ==
  ASSUME NEW s, InOrder(s), NEW t, NEW k \in DOMAIN s, NEW m, t = [s EXCEPT ![k] = m]
  PROVE  InOrder(t)
BY DEF InOrder

LEMMA EditMappingFileStep ==
  ASSUME ConfigInvariant, EditMappingFile
  PROVE  ConfigInvariant'
<1> USE DEF ConfigInvariant
<1>1. /\ configStage' = "editing" /\ configStage = "editing" /\ delivered' = delivered
      /\ setting' = setting /\ ownTargets' = ownTargets
  BY DEF EditMappingFile, Editing
<1>2. InOrder(MappingsInUse)
  BY FilesInUse
<1>3. PICK file : ownMappings' = {file} /\ InOrder(file)
  <2>1. CASE \E m \in NewMappings, k \in 1..Len(MappingsInUse) + 1 :
                ownMappings' = {InsertAt(MappingsInUse, k, m)}
    BY <2>1, <1>2, InsertedInOrder
  <2>2. CASE \E k \in DOMAIN MappingsInUse :
              \/ ownMappings' = {[MappingsInUse EXCEPT ![k].active = FALSE]}
              \/ ownMappings' = {[MappingsInUse EXCEPT ![k].current = FALSE]}
              \/ ownMappings' = {[MappingsInUse EXCEPT ![k].routes = {Standalone}]}
    <3>1. PICK k \in DOMAIN MappingsInUse :
            \E m : ownMappings' = {[MappingsInUse EXCEPT ![k] = m]}
      BY <2>2
    <3> QED
      BY <3>1, <1>2, ChangedInOrder
  <2> QED
    BY <2>1, <2>2 DEF EditMappingFile
<1>4. OwnFilesInv'
  BY <1>1, <1>3 DEF OwnFilesInv
<1>5. StageInv'
  BY <1>1 DEF StageInv
<1>6. DeliveredInv'
  BY <1>1, NothingDeliveredYet DEF DeliveredInv
<1> QED
  BY <1>4, <1>5, <1>6

LEMMA EditTargetFileStep ==
  ASSUME ConfigInvariant, EditTargetFile
  PROVE  ConfigInvariant'
<1> USE DEF ConfigInvariant
<1>1. /\ configStage' = "editing" /\ configStage = "editing" /\ delivered' = delivered
      /\ setting' = setting /\ ownMappings' = ownMappings
  BY DEF EditTargetFile, Editing
<1>2. OwnRoutes(TargetsInUse)
  BY FilesInUse
<1>3. PICK file : ownTargets' = {file} /\ OwnRoutes(file)
  <2>1. PICK t \in DOMAIN TargetsInUse :
        \/ ownTargets' = {[u \in DOMAIN TargetsInUse \ {t} |-> TargetsInUse[u]]}
        \/ ownTargets' = {[TargetsInUse EXCEPT ![t].enabled = FALSE]}
        \/ ownTargets' = {[TargetsInUse EXCEPT ![t].url = FALSE]}
        \/ ownTargets' = {[TargetsInUse EXCEPT ![t].type = "shadow"]}
        \/ ownTargets' = {[TargetsInUse EXCEPT ![t].layers = "invalid"]}
        \/ ownTargets' = {[TargetsInUse EXCEPT ![t].routes = {}]}
        \/ ownTargets' = {[TargetsInUse EXCEPT ![t].snapshot = ~@]}
    BY DEF EditTargetFile
  <2>2. CASE ownTargets' = {[u \in DOMAIN TargetsInUse \ {t} |-> TargetsInUse[u]]}
    <3>1. OwnRoutes([u \in DOMAIN TargetsInUse \ {t} |-> TargetsInUse[u]])
      BY <1>2 DEF OwnRoutes
    <3> QED
      BY <2>2, <3>1
  <2>3. ASSUME NEW x, ownTargets' = {[TargetsInUse EXCEPT ![t] = x]},
               "routes" \in DOMAIN x, x.routes \in {{}, {t}}
        PROVE  \E file : ownTargets' = {file} /\ OwnRoutes(file)
    <3>1. OwnRoutes([TargetsInUse EXCEPT ![t] = x])
      BY <1>2, <2>1, <2>3 DEF OwnRoutes
    <3> QED
      BY <2>3, <3>1
  <2> DEFINE r == TargetsInUse[t]
  <2>4. "routes" \in DOMAIN r /\ r.routes \in {{}, {t}}
    BY <1>2, <2>1 DEF OwnRoutes
  <2>5. ASSUME NEW f \in {"enabled", "url", "type", "layers", "snapshot"}, NEW v
        PROVE  "routes" \in DOMAIN [r EXCEPT ![f] = v] /\ [r EXCEPT ![f] = v].routes \in {{}, {t}}
    BY <2>4
  <2>6. "routes" \in DOMAIN [r EXCEPT !.routes = {}] /\ [r EXCEPT !.routes = {}].routes \in {{}, {t}}
    BY <2>4
  <2>7. CASE \E f \in {"enabled", "url", "type", "layers", "snapshot"} : \E v :
               ownTargets' = {[TargetsInUse EXCEPT ![t] = [r EXCEPT ![f] = v]]}
    BY <2>3, <2>5, <2>7
  <2>8. CASE ownTargets' = {[TargetsInUse EXCEPT ![t] = [r EXCEPT !.routes = {}]]}
    BY <2>3, <2>6, <2>8
  <2> QED
    BY <2>1, <2>2, <2>7, <2>8
<1>4. OwnFilesInv'
  BY <1>1, <1>3 DEF OwnFilesInv
<1>5. StageInv'
  BY <1>1 DEF StageInv
<1>6. DeliveredInv'
  BY <1>1, NothingDeliveredYet DEF DeliveredInv
<1> QED
  BY <1>4, <1>5, <1>6

\* What a record reaches is decided by the configuration.
LEMMA ReachedUnchanged ==
  ASSUME UNCHANGED <<setting, ownMappings, ownTargets>>, NEW i
  PROVE  Reached(i)' = Reached(i) /\ Accepted(setting)' = Accepted(setting)
<1>1. MappingsInUse' = MappingsInUse /\ TargetsInUse' = TargetsInUse
  BY DEF MappingsInUse, TargetsInUse
<1>2. Resolved(i)' = Resolved(i)
  BY <1>1 DEF Resolved, FirstMatch, Matches
<1>3. Reached(i)' = Reached(i)
  BY <1>1, <1>2 DEF Reached, IngressTrusted
<1>4. MappingsMatch(setting)' = MappingsMatch(setting)
  BY <1>1 DEF MappingsMatch
<1>5. TargetsMatch(setting)' = TargetsMatch(setting) /\ SnapshotsAreWritten(setting)' = SnapshotsAreWritten(setting)
  BY <1>1 DEF TargetsMatch, SnapshotsAreWritten
<1>6. Accepted(setting)' = Accepted(setting)
  BY <1>4, <1>5, setting' = setting DEF Accepted
<1> QED
  BY <1>3, <1>6

LEMMA StackSteps ==
  ASSUME ConfigInvariant,
         \/ Generate \/ Load \/ (\E i \in Instances : Deliver(i))
         \/ UNCHANGED configVars
  PROVE  ConfigInvariant'
<1> USE DEF ConfigInvariant
<1>1. UNCHANGED <<setting, ownMappings, ownTargets>>
  BY DEF Generate, Load, Deliver, configVars
<1>2. OwnFilesInv'
  BY <1>1 DEF OwnFilesInv
<1>3. Accepted(setting)' = Accepted(setting) /\ \A i : Reached(i)' = Reached(i)
  BY <1>1, ReachedUnchanged
<1>4. StageInv'
  BY <1>1, <1>3 DEF Generate, Load, Deliver, configVars, StageInv
<1>5. DeliveredInv'
  <2>1. CASE Generate \/ Load
    BY <2>1, NothingDeliveredYet DEF Generate, Load, DeliveredInv
  <2>2. CASE UNCHANGED configVars
    BY <2>2, <1>3 DEF configVars, DeliveredInv
  <2>3. ASSUME NEW i \in Instances, Deliver(i) PROVE DeliveredInv'
    BY <2>3, <1>3 DEF Deliver, DeliveredInv
  <2> QED
    BY <2>1, <2>2, <2>3
<1> QED
  BY <1>2, <1>4, <1>5

\* A configuration that was accepted and loaded works: every record reaches
\* every target of the deployment, unless a file of the operator's own diverts
\* it, and when the query is to read snapshots, the target it reads them of is
\* loaded, enabled and writes them (catalog.mjs, compose.mjs, source-mapping.ts,
\* target-manager.ts), for every number of edits.
THEOREM AcceptedWorks == ConfigSpec => []AcceptedConfigurationDelivers
<1>1. ConfigInit => ConfigInvariant
  BY ConfigInitInvariant
<1>2. ConfigInvariant /\ [ConfigNext]_configVars => ConfigInvariant'
  BY EditSettingStep, EditMappingFileStep, EditTargetFileStep, StackSteps DEF ConfigNext
<1>3. ConfigInvariant => AcceptedConfigurationDelivers
  BY DeliversFromInvariant
<1> QED
  BY <1>1, <1>2, <1>3, PTL DEF ConfigSpec
----------------------------------------------------------------------------
(* ComposeStack                                                             *)
\* A one-shot that completed has done its work, for good.
OneShotsAreDone ==
    /\ container["wal-init"] = "completed" => owned
    /\ container["telemetry-migrate"] = "completed" => schema

StackInvariant ==
    /\ DOMAIN container = Services
    /\ owned \in BOOLEAN /\ schema \in BOOLEAN
    /\ OneShotsAreDone /\ NothingPremature

LEMMA BundledServices == Bundled \subseteq Services
BY DEF Services

LEMMA StackStarts == Init => StackInvariant
<1> SUFFICES ASSUME Init PROVE StackInvariant
  OBVIOUS
<1>1. \A s \in Services : container[s] = "created"
  BY DEF Init
<1> QED
  BY <1>1, BundledServices
     DEF Init, StackInvariant, OneShotsAreDone, NothingPremature, Runs, Bundled

\* A step that only changes what one service is doing.
LEMMA OneServiceStep ==
    ASSUME StackInvariant, NEW s \in Services, NEW st, Becomes(s, st), UNCHANGED mode,
           owned => owned', schema => schema', owned' \in BOOLEAN, schema' \in BOOLEAN,
           s = "wal-init" /\ st = "completed" => owned',
           s = "telemetry-migrate" /\ st = "completed" => schema',
           s = "telemetry-processor" /\ st \in {"running", "healthy"} => owned /\ schema,
           s = "query-api" /\ st \in {"running", "healthy"} => schema
    PROVE  StackInvariant'
<1>1. DOMAIN container' = Services'
  BY DEF Becomes, StackInvariant, Services
<1>2. \A n \in Services : container'[n] = IF n = s THEN st ELSE container[n]
  BY DEF Becomes, StackInvariant
<1>3. /\ "wal-init" \in Services /\ "telemetry-migrate" \in Services
      /\ "telemetry-processor" \in Services /\ "query-api" \in Services
  BY BundledServices DEF Bundled
<1>4. OneShotsAreDone'
  BY <1>2, <1>3 DEF StackInvariant, OneShotsAreDone
<1>5. NothingPremature'
  BY <1>2, <1>3 DEF StackInvariant, NothingPremature, Runs
<1> QED BY <1>1, <1>4, <1>5 DEF StackInvariant

LEMMA StartStep ==
    ASSUME StackInvariant, NEW s \in Services, Start(s)
    PROVE  StackInvariant'
<1>1. s = "telemetry-processor" => owned /\ schema
  <2> SUFFICES ASSUME s = "telemetry-processor" PROVE owned /\ schema
    OBVIOUS
  <2>1. Service(s) = Processor(mode.tls)
    BY DEF Service
  <2>2. /\ Waits("telemetry-migrate", "completed") \in Service(s).waits
        /\ Waits("wal-init", "completed") \in Service(s).waits
    BY <2>1 DEF Processor
  <2>3. container["telemetry-migrate"] = "completed" /\ container["wal-init"] = "completed"
    BY <2>2 DEF Start, Holds, Waits
  <2> QED BY <2>3 DEF StackInvariant, OneShotsAreDone
<1>2. s = "query-api" => schema
  <2> SUFFICES ASSUME s = "query-api" PROVE schema
    OBVIOUS
  <2>1. Service(s) = QueryApi
    BY DEF Service
  <2>2. Waits("telemetry-migrate", "completed") \in Service(s).waits
    BY <2>1 DEF QueryApi
  <2>3. container["telemetry-migrate"] = "completed"
    BY <2>2 DEF Start, Holds, Waits
  <2> QED BY <2>3 DEF StackInvariant, OneShotsAreDone
<1> QED BY <1>1, <1>2, OneServiceStep DEF Start, StackInvariant

LEMMA RebootStep ==
    ASSUME StackInvariant, Reboot
    PROVE  StackInvariant'
<1>1. DOMAIN container' = Services'
  BY DEF Reboot, Services
<1>2. \A s \in Bundled :
         /\ container'[s] = "completed" => container[s] = "completed"
         /\ Runs(s)' => Runs(s)
  BY BundledServices DEF Reboot, Runs
<1>3. OneShotsAreDone'
  BY <1>2 DEF Reboot, StackInvariant, OneShotsAreDone, Bundled
<1>4. NothingPremature'
  BY <1>2 DEF Reboot, StackInvariant, NothingPremature, Bundled
<1> QED BY <1>1, <1>3, <1>4 DEF Reboot, StackInvariant

LEMMA StackInductive == Spec => []StackInvariant
<1>1. StackInvariant /\ [Next]_vars => StackInvariant'
  <2> SUFFICES ASSUME StackInvariant, [Next]_vars PROVE StackInvariant'
    OBVIOUS
  <2>1. ASSUME NEW s \in Services, Start(s) PROVE StackInvariant'
    BY <2>1, StartStep
  <2>2. ASSUME NEW s \in Services, BecomeHealthy(s) PROVE StackInvariant'
    BY <2>2, OneServiceStep DEF BecomeHealthy, StackInvariant, NothingPremature, Runs
  <2>3. ASSUME NEW s \in Services, RunToEnd(s) PROVE StackInvariant'
    BY <2>3, OneServiceStep DEF RunToEnd, StackInvariant, OneShots
  <2>4. ASSUME NEW s \in Services, Fail(s) PROVE StackInvariant'
    BY <2>4, OneServiceStep DEF Fail, StackInvariant, NothingPremature, OneShots
  <2>5. ASSUME NEW s \in Services, Retry(s) PROVE StackInvariant'
    BY <2>5, OneServiceStep DEF Retry, StackInvariant
  <2>6. CASE Reboot
    BY <2>6, RebootStep
  <2>7. CASE UNCHANGED vars
    BY <2>7 DEF vars, StackInvariant, OneShotsAreDone, NothingPremature, Runs, Services
  <2> QED BY <2>1, <2>2, <2>3, <2>4, <2>5, <2>6, <2>7 DEF Next
<1> QED BY <1>1, StackStarts, PTL DEF Spec

(* The safety half of StackComesUp (compose.mjs: generate): the Processor   *)
(* never runs before the log's volume is its own and the store migrated,    *)
(* nor the query API before the store is, however often containers fail and *)
(* the host restarts.                                                       *)
THEOREM ServicesComeInOrder == Spec => []NothingPremature
<1>1. StackInvariant => NothingPremature
  BY DEF StackInvariant
<1> QED BY <1>1, StackInductive, PTL
==============================================================================
