---------------------- MODULE GenerationCutover_proofs ----------------------
(***************************************************************************)
(* Proofs about GenerationCutover for any generations and bounds.          *)
(***************************************************************************)
EXTENDS GenerationCutover, TLAPS

-----------------------------------------------------------------------------
(* The inductive invariant. *)

Statuses == {Absent, "active", "draining", "retired"}
Rows == [status : Statuses, until : Int, through : Int, observed : Int] \cup {NoRow}
Switches == [from : Generations, to : Generations, revision : Int,
             status : {"prepared", "committed"}]
Registries == [revision : Int, active : Generations]
Switching == {"drain", "activate", "rename", "commit"}

\* The types that the proofs need beside those of TypeOK.
RowsInv ==
    /\ processed \in [Generations -> Int] /\ through \in [Generations -> Int]
    /\ row \in [Generations -> Rows]
    /\ DOMAIN job = Generations
    /\ \A g \in Generations : job[g].live \subseteq Generations

CommandInv ==
    /\ registry \in Registries
    /\ switches \subseteq Switches
    /\ \/ admin = Idle
       \/ /\ admin = [step |-> admin.step, switch |-> admin.switch]
          /\ admin.step \in Switching
       \/ /\ admin = [step |-> admin.step, generation |-> admin.generation]
          /\ admin.step \in {"retire", "done"} /\ admin.generation \in Generations

PageInv ==
    /\ page # NoPage =>
         /\ page = [kind |-> page.kind, generation |-> page.generation, through |-> page.through,
                    expires |-> page.expires, step |-> page.step, found |-> page.found]
         /\ page.generation \in Generations /\ page.expires \in Int /\ page.through \in Int
         /\ page.kind \in {"first", "next"} /\ page.step \in {"metadata", "rows"}
    /\ cursor # NoCursor =>
         /\ cursor = [generation |-> cursor.generation, through |-> cursor.through,
                      expires |-> cursor.expires]
         /\ cursor.generation \in Generations /\ cursor.expires \in Int /\ cursor.through \in Int
    /\ served = [backed |-> served.backed, boundary |-> served.boundary]
    /\ served.boundary \in Int

ShapeInv == TypeOK /\ RowsInv /\ CommandInv /\ PageInv

\* A lease ends at most a lease time from now, and is all that rows and pages
\* offer. What the operator may delete is retired and its lease over.
LeaseInv ==
    /\ \A g \in Generations : lease[g] <= now + LeaseTime
    /\ \A g \in Generations : row[g] # NoRow => row[g].until <= lease[g]
    /\ page # NoPage => page.expires <= lease[page.generation]
    /\ \A g \in approved : life[g] = "retired" /\ lease[g] <= now
    /\ page # NoPage /\ page.step = "rows" /\ ~page.found => page.expires <= now
    /\ served.backed

Waiting == {s \in switches : registry = Previous(s) /\ s.status = "prepared"}

\* A switch of the registry's revision leads away from the generation that the
\* registry names, and each is recorded once. While one waits, that generation is
\* given up and the next one active; otherwise the registry's is.
SwitchInv ==
    /\ \A s \in switches :
         /\ s.from # s.to /\ s.revision <= registry.revision
         /\ s.revision = registry.revision => s \in Waiting
    /\ \A s \in Waiting : life[s.to] = "active" /\ life[s.from] \in {"draining", "retired"}
    /\ Waiting = {} => life[registry.active] = "active"
    /\ \A s, x \in switches : [s EXCEPT !.status = x.status] = x => s = x

\* The administrator works alone, on a switch that waits; what it has drained is
\* no longer shown as active.
AdminInv ==
    /\ admin # Idle => processor = Absent
    /\ admin.step \in {"drain", "activate", "rename"} => admin.switch \in Waiting
    /\ admin.step \in {"activate", "rename"} => row[admin.switch.from].status # "active"
    /\ admin.step = "commit" => registry = Following(admin.switch)

\* Nothing is shown that is not published; a generation that is to take over has
\* all that the log had, and its predecessor gets no more.
ThroughInv ==
    /\ \A g \in Generations : row[g] # NoRow => row[g].through <= through[g]
    /\ served.boundary <= last
    /\ page # NoPage /\ page.kind = "first" => page.through <= last
    /\ \A s \in Waiting : processed[s.from] <= through[s.to]

\* A Query API that has not been restarted reads a generation that shows nothing
\* new, or the one that is about to take over; which has what was shown.
ShownInv ==
    SwitchesDoNotOverlap =>
      /\ \/ query = registry.active
         \/ life[query] \in {"draining", "retired"} /\ row[query].status # "active"
         \/ \E s \in Waiting : query = s.to
      /\ \A s \in Waiting :
           /\ served.boundary <= through[s.to]
           /\ page # NoPage /\ page.kind = "first" => page.through <= through[s.to]

CutoverInv == ShapeInv /\ LeaseInv /\ SwitchInv /\ AdminInv /\ ThroughInv /\ ShownInv

-----------------------------------------------------------------------------
(* The types of the numbers. *)

\* The clock and the log stay within their bounds.
LEMMA TickType == ASSUME CutoverInv, Tick PROVE now' \in 0..MaxTime
<1>1. MaxTime \in Nat /\ now \in 0..MaxTime /\ now < MaxTime /\ now' = now + 1
  BY CutoverAssumption DEF CutoverInv, ShapeInv, TypeOK, Tick
<1> QED BY <1>1

LEMMA IngestType == ASSUME CutoverInv, Ingest PROVE last' \in 0..MaxInputs
<1>1. MaxInputs \in Nat /\ last \in 0..MaxInputs /\ last < MaxInputs /\ last' = last + 1
  BY CutoverAssumption DEF CutoverInv, ShapeInv, TypeOK, Ingest
<1> QED BY <1>1

\* A prolonged lease ends within the bound.
LEMMA Prolonged ==
  ASSUME CutoverInv, NEW g \in Generations
  PROVE  /\ now + LeaseTime \in 0..MaxTime + LeaseTime
         /\ Greater(lease[g], now + LeaseTime) \in 0..MaxTime + LeaseTime
         /\ Greater(now + LeaseTime, lease[g]) \in 0..MaxTime + LeaseTime
         /\ row[g] # NoRow =>
              Greater(Greater(now + LeaseTime, row[g].until), lease[g]) \in 0..MaxTime + LeaseTime
<1>1. /\ MaxTime \in Nat /\ now \in Int /\ 0 <= now /\ now <= MaxTime
      /\ lease[g] \in Int /\ 0 <= lease[g] /\ lease[g] <= MaxTime + LeaseTime
  BY CutoverAssumption DEF CutoverInv, ShapeInv, TypeOK, LeaseTime
<1>2. row[g] # NoRow => row[g].until \in Int /\ row[g].until <= lease[g]
  BY DEF CutoverInv, ShapeInv, RowsInv, LeaseInv, Rows
<1> QED BY <1>1, <1>2 DEF Greater, LeaseTime

\* So do the leases after a refresh, a promotion and a rollback.
LEMMA LeaseType ==
  ASSUME CutoverInv, NEW g \in Generations, Refresh(g)
  PROVE  lease' \in [Generations -> 0..MaxTime + LeaseTime]
<1> DEFINE longer == Greater(lease[g], now + LeaseTime)
           Times  == 0..MaxTime + LeaseTime
<1>1. longer \in Times /\ lease \in [Generations -> Times]
  BY Prolonged DEF CutoverInv, ShapeInv, TypeOK
<1>2. lease' = [lease EXCEPT ![g] = longer] \/ lease' = lease
  BY DEF Refresh
<1> HIDE DEF longer, Times
<1>3. lease' \in [Generations -> Times]
  BY <1>1, <1>2
<1> QED BY <1>3 DEF Times

LEMMA PromoteLease ==
  ASSUME CutoverInv, NEW g \in Generations, Promote(g)
  PROVE  lease' \in [Generations -> 0..MaxTime + LeaseTime]
<1> DEFINE old   == registry.active
           kept  == Greater(Greater(now + LeaseTime, row[old].until), lease[old])
           Times == 0..MaxTime + LeaseTime
<1>1. old \in Generations /\ row[old] # NoRow
  BY DEF Promote, CutoverInv, ShapeInv, TypeOK, NoRow, Absent
<1>2. kept \in Times /\ now + LeaseTime \in Times /\ lease \in [Generations -> Times]
  BY <1>1, Prolonged DEF CutoverInv, ShapeInv, TypeOK
<1>3. lease' = [lease EXCEPT ![old] = kept, ![g] = now + LeaseTime]
  BY <1>1 DEF Promote, CutoverInv, ShapeInv, TypeOK
<1> HIDE DEF old, kept, Times
<1>4. lease' \in [Generations -> Times]
  BY <1>2, <1>3
<1> QED BY <1>4 DEF Times

LEMMA RollbackLease ==
  ASSUME CutoverInv, NEW s \in switches, Rollback(s)
  PROVE  lease' \in [Generations -> 0..MaxTime + LeaseTime]
<1> DEFINE Times == 0..MaxTime + LeaseTime
<1>1. \A g \in Generations : Greater(now + LeaseTime, lease[g]) \in Times /\ lease[g] \in Times
  BY Prolonged DEF CutoverInv, ShapeInv, TypeOK
<1>2. lease' = [g \in Generations |->
                  IF g \in {s.from, s.to} THEN Greater(now + LeaseTime, lease[g]) ELSE lease[g]]
  BY DEF Rollback
<1> HIDE DEF Times
<1>3. lease' \in [Generations -> Times]
  BY <1>1, <1>2
<1> QED BY <1>3 DEF Times

-----------------------------------------------------------------------------
(* One lemma per part, with a step for each action that can disturb it. *)

\* Every step keeps the types. That a lease stays bounded is shown above.
LEMMA TypeStep == ASSUME CutoverInv, [CutoverNext]_cutoverVars PROVE TypeOK'
<1> USE DEF cutoverVars, wal, store, reader, Idle, NoPage,
    NoCursor, NoRow, Absent, LeaseTime, CursorTime, Greater, Lesser, CutoverInv,
    AdminInv, SwitchInv, Waiting, Following, Previous, ShapeInv, TypeOK, RowsInv,
    CommandInv, PageInv, Statuses, Rows, Switches, Registries, Switching
<1>1. CASE Tick
  BY <1>1, TickType DEF Tick
<1>2. ASSUME NEW g \in Generations, StartProcessor(g) PROVE TypeOK'
  BY <1>2 DEF StartProcessor
<1>3. ASSUME NEW g \in Generations, Rebuild(g) PROVE TypeOK'
  <2>1. Refresh(g)
    BY <1>3 DEF Rebuild
  <2>2. lease' \in [Generations -> 0..MaxTime + LeaseTime]
    BY <2>1, LeaseType
  <2> QED BY <1>3, <2>2 DEF Rebuild, Refresh, LeaseExtended, Offline
<1>4. ASSUME NEW g \in Generations, Promote(g) PROVE TypeOK'
  <2>1. lease' \in [Generations -> 0..MaxTime + LeaseTime]
    BY <1>4, PromoteLease
  <2>2. \A x \in switches' : x.status \in {"prepared", "committed"}
    BY <1>4 DEF Promote
  <2>3. life' \in [Generations -> {Absent, "active", "draining", "retired"}]
    BY <1>4 DEF Promote
  <2>4. UNCHANGED <<now, last, processor, processed, through, query, registry, deleted, approved>>
    BY <1>4 DEF Promote
  <2> QED BY <2>1, <2>2, <2>3, <2>4
<1>5. ASSUME NEW g \in Generations, Retire(g) PROVE TypeOK'
  BY <1>5 DEF Retire, Offline, Draining
<1>6. ASSUME NEW g \in Generations, GcDryRun(g) PROVE TypeOK'
  BY <1>6 DEF GcDryRun, Offline
<1>7. ASSUME NEW g \in Generations, Delete(g) PROVE TypeOK'
  BY <1>7 DEF Delete
<1>8. CASE StopProcessor
  BY <1>8 DEF StopProcessor
<1>9. CASE Ingest
  BY <1>9, IngestType DEF Ingest
<1>10. CASE Dispose
  BY <1>10 DEF Dispose, Writable
<1>11. CASE Publish
  <2>1. processor \in Generations /\ Refresh(processor)
    BY <1>11 DEF Publish
  <2>2. lease' \in [Generations -> 0..MaxTime + LeaseTime]
    BY <2>1, LeaseType
  <2> QED BY <1>11, <2>2 DEF Publish, Refresh, LeaseExtended
<1>12. ASSUME NEW s \in switches, Rollback(s) PROVE TypeOK'
  <2>1. lease' \in [Generations -> 0..MaxTime + LeaseTime]
    BY <1>12, RollbackLease
  <2>2. \A x \in switches' : x.status \in {"prepared", "committed"}
    BY <1>12 DEF Rollback
  <2>3. life' \in [Generations -> {Absent, "active", "draining", "retired"}]
    BY <1>12 DEF Rollback
  <2>4. UNCHANGED <<now, last, processor, processed, through, query, registry, deleted, approved>>
    BY <1>12 DEF Rollback
  <2> QED BY <2>1, <2>2, <2>3, <2>4
<1>13. CASE PublishDrained
  <2>1. admin.switch.from \in Generations /\ Refresh(admin.switch.from)
    BY <1>13 DEF PublishDrained, PublishLifecycle
  <2>2. lease' \in [Generations -> 0..MaxTime + LeaseTime]
    BY <2>1, LeaseType
  <2> QED BY <1>13, <2>2 DEF PublishDrained, PublishLifecycle, Refresh, LeaseExtended
<1>14. CASE PublishActivated
  <2>1. admin.switch.to \in Generations /\ Refresh(admin.switch.to)
    BY <1>14 DEF PublishActivated, PublishLifecycle
  <2>2. lease' \in [Generations -> 0..MaxTime + LeaseTime]
    BY <2>1, LeaseType
  <2> QED BY <1>14, <2>2 DEF PublishActivated, PublishLifecycle, Refresh, LeaseExtended
<1>15. CASE Rename
  BY <1>15 DEF Rename, Following, RegistryUnchanged, Previous
<1>16. CASE Commit
  BY <1>16 DEF Commit
<1>17. CASE PublishRetired
  <2>1. admin.generation \in Generations /\ Refresh(admin.generation)
    BY <1>17 DEF PublishRetired, PublishLifecycle
  <2>2. lease' \in [Generations -> 0..MaxTime + LeaseTime]
    BY <2>1, LeaseType
  <2> QED BY <1>17, <2>2 DEF PublishRetired, PublishLifecycle, Refresh, LeaseExtended
<1>18. CASE RestartQuery
  BY <1>18 DEF RestartQuery
<1>19. CASE \/ UNCHANGED cutoverVars \/ EndCommand \/ FirstPage \/ NextPage \/ ReadRows \/ AnswerPage
         \/ \E s \in switches : Resume(s)
  BY <1>19 DEF Resume, Offline, Following, RegistryUnchanged, Previous, EndCommand,
     FirstPage, BeginPage, Serves, NextPage, ReadRows, AnswerPage, StillReadable
<1> QED BY <1>1, <1>2, <1>3, <1>4, <1>5, <1>6, <1>7, <1>8, <1>9, <1>10, <1>11, <1>12,
    <1>13, <1>14, <1>15, <1>16, <1>17, <1>18, <1>19 DEF CutoverNext

\* What the stores and the contracts say has its shape.
LEMMA RowsStep == ASSUME CutoverInv, [CutoverNext]_cutoverVars PROVE RowsInv'
<1> USE DEF cutoverVars, wal, store, reader, Idle, NoPage,
    NoCursor, NoRow, Absent, LeaseTime, CursorTime, Greater, Lesser, CutoverInv,
    AdminInv, SwitchInv, Waiting, Following, Previous, ShapeInv, TypeOK, RowsInv,
    CommandInv, PageInv, Statuses, Rows, Switches, Registries, Switching
<1>1. ASSUME NEW g \in Generations, Rebuild(g) PROVE RowsInv'
  BY <1>1 DEF Rebuild, Refresh, LeaseExtended, Offline
<1>2. ASSUME NEW g \in Generations, Delete(g) PROVE RowsInv'
  BY <1>2 DEF Delete
<1>3. CASE Dispose
  BY <1>3 DEF Dispose, Writable
<1>4. CASE Publish
  BY <1>4 DEF Publish, Refresh, LeaseExtended
<1>5. CASE PublishDrained
  BY <1>5 DEF PublishDrained, PublishLifecycle, Refresh, LeaseExtended
<1>6. CASE PublishActivated
  BY <1>6 DEF PublishActivated, PublishLifecycle, Refresh, LeaseExtended
<1>7. CASE PublishRetired
  BY <1>7 DEF PublishRetired, PublishLifecycle, Refresh, LeaseExtended
<1>8. CASE \/ UNCHANGED cutoverVars \/ Tick \/ StopProcessor \/ Ingest \/ Rename \/ Commit
         \/ EndCommand \/ RestartQuery \/ FirstPage \/ NextPage \/ ReadRows \/ AnswerPage
         \/ \E g \in Generations : StartProcessor(g) \/ Promote(g) \/ Retire(g) \/ GcDryRun(g)
         \/ \E s \in switches : Resume(s) \/ Rollback(s)
  BY <1>8 DEF Tick, StartProcessor, Promote, Switchable, Offline, FullCoverage,
     Serves, Promotable, Retire, Draining, GcDryRun, StopProcessor, Ingest, Resume,
     Following, RegistryUnchanged, Previous, Rollback, CaughtUp, Rename, Commit,
     EndCommand, RestartQuery, FirstPage, BeginPage, NextPage, ReadRows, AnswerPage,
     StillReadable
<1> QED BY <1>1, <1>2, <1>3, <1>4, <1>5, <1>6, <1>7, <1>8 DEF CutoverNext

\* Commands, switches and the registry have theirs.
LEMMA CommandStep == ASSUME CutoverInv, [CutoverNext]_cutoverVars PROVE CommandInv'
<1> USE DEF cutoverVars, wal, store, reader, Idle, NoPage,
    NoCursor, NoRow, Absent, LeaseTime, CursorTime, Greater, Lesser, CutoverInv,
    AdminInv, SwitchInv, Waiting, Following, Previous, ShapeInv, TypeOK, RowsInv,
    CommandInv, PageInv, Statuses, Rows, Switches, Registries, Switching
<1>1. ASSUME NEW g \in Generations, Promote(g) PROVE CommandInv'
  BY <1>1 DEF Promote, Switchable, Offline, FullCoverage, Serves, Promotable
<1>2. ASSUME NEW g \in Generations, Retire(g) PROVE CommandInv'
  BY <1>2 DEF Retire, Offline, Draining
<1>3. ASSUME NEW s \in switches, Resume(s) PROVE CommandInv'
  BY <1>3 DEF Resume, Offline, Following, RegistryUnchanged, Previous
<1>4. ASSUME NEW s \in switches, Rollback(s) PROVE CommandInv'
  BY <1>4 DEF Rollback, Switchable, Offline, CaughtUp, Serves, Following
<1>5. CASE PublishDrained
  BY <1>5 DEF PublishDrained, PublishLifecycle, Refresh, LeaseExtended
<1>6. CASE PublishActivated
  BY <1>6 DEF PublishActivated, PublishLifecycle, Refresh, LeaseExtended
<1>7. CASE Rename
  <2>1. admin.switch \in Switches /\ registry' = Following(admin.switch) /\ UNCHANGED switches
    BY <1>7 DEF Rename
  <2>2. registry' \in Registries
    BY <2>1
  <2>3. admin' = [step |-> admin'.step, switch |-> admin'.switch] /\ admin'.step = "commit"
    BY <1>7 DEF Rename
  <2> QED BY <2>1, <2>2, <2>3
<1>8. CASE Commit
  BY <1>8 DEF Commit
<1>9. CASE PublishRetired
  BY <1>9 DEF PublishRetired, PublishLifecycle, Refresh, LeaseExtended
<1>10. CASE EndCommand
  BY <1>10 DEF EndCommand
<1>11. CASE \/ UNCHANGED cutoverVars \/ Tick \/ StopProcessor \/ Ingest \/ Dispose \/ Publish
         \/ RestartQuery \/ FirstPage \/ NextPage \/ ReadRows \/ AnswerPage
         \/ \E g \in Generations : StartProcessor(g) \/ Rebuild(g) \/ GcDryRun(g) \/ Delete(g)
  BY <1>11 DEF Tick, StartProcessor, Rebuild, Refresh, LeaseExtended, Offline,
     GcDryRun, Delete, StopProcessor, Ingest, Dispose, Writable, Publish,
     RestartQuery, FirstPage, BeginPage, Serves, NextPage, ReadRows, AnswerPage,
     StillReadable
<1> QED BY <1>1, <1>2, <1>3, <1>4, <1>5, <1>6, <1>7, <1>8, <1>9, <1>10, <1>11 DEF
    CutoverNext

\* Pages and cursors have theirs.
LEMMA PageStep == ASSUME CutoverInv, [CutoverNext]_cutoverVars PROVE PageInv'
<1> USE DEF cutoverVars, wal, store, reader, Idle, NoPage,
    NoCursor, NoRow, Absent, LeaseTime, CursorTime, Greater, Lesser, CutoverInv,
    ShapeInv, TypeOK, RowsInv, CommandInv, PageInv, Statuses, Rows, Switches,
    Registries, Switching
<1>1. CASE RestartQuery
  BY <1>1 DEF RestartQuery
<1>2. CASE FirstPage
  BY <1>2 DEF FirstPage, BeginPage, Serves
<1>3. CASE NextPage
  BY <1>3 DEF NextPage, BeginPage, Serves
<1>4. CASE ReadRows
  BY <1>4 DEF ReadRows
<1>5. CASE AnswerPage
  BY <1>5 DEF AnswerPage, StillReadable
<1>6. CASE \/ UNCHANGED cutoverVars \/ Tick \/ StopProcessor \/ Ingest \/ Dispose \/ Publish
         \/ PublishDrained \/ PublishActivated \/ Rename \/ Commit \/ PublishRetired
         \/ EndCommand
         \/ \E g \in Generations :
              \/ StartProcessor(g) \/ Rebuild(g) \/ Promote(g) \/ Retire(g)
              \/ GcDryRun(g) \/ Delete(g)
         \/ \E s \in switches : Resume(s) \/ Rollback(s)
  BY <1>6 DEF Tick, StartProcessor, Rebuild, Refresh, LeaseExtended, Offline,
     Promote, Switchable, FullCoverage, Serves, Promotable, Retire, Draining,
     GcDryRun, Delete, StopProcessor, Ingest, Dispose, Writable, Publish, Resume,
     Following, RegistryUnchanged, Previous, Rollback, CaughtUp, PublishDrained,
     PublishLifecycle, PublishActivated, Rename, Commit, PublishRetired, EndCommand
<1> QED BY <1>1, <1>2, <1>3, <1>4, <1>5, <1>6 DEF CutoverNext

\* Leases only grow, except by time, and a retired one not at all; so whoever was
\* offered a page until some time finds the data until then.
LEMMA LeaseStep == ASSUME CutoverInv, [CutoverNext]_cutoverVars PROVE LeaseInv'
<1> USE DEF cutoverVars, wal, store, reader, Idle, NoPage,
    NoCursor, NoRow, Absent, LeaseTime, CursorTime, Greater, Lesser, LeaseInv,
    CutoverInv, AdminInv, SwitchInv, Waiting, Following, Previous, ShapeInv, TypeOK,
    RowsInv, CommandInv, PageInv, Statuses, Rows, Switches, Registries, Switching
<1>1. CASE Tick
  BY <1>1 DEF Tick
<1>2. ASSUME NEW g \in Generations, Rebuild(g) PROVE LeaseInv'
  BY <1>2 DEF Rebuild, Refresh, LeaseExtended, Offline
<1>3. ASSUME NEW g \in Generations, Promote(g) PROVE LeaseInv'
  <2> DEFINE old == registry.active
             kept == Greater(Greater(now + LeaseTime, row[old].until), lease[old])
  <2>1. /\ old \in Generations /\ old # g /\ row[old] # NoRow
        /\ life[old] # "retired" /\ life[g] # "retired"
    BY <1>3 DEF Promote, Promotable
  <2>2. lease' = [lease EXCEPT ![old] = kept, ![g] = now + LeaseTime]
    BY <1>3 DEF Promote
  <2>3. /\ life' = [life EXCEPT ![old] = "draining", ![g] = "active"]
        /\ UNCHANGED <<now, row, page, approved, served>>
    BY <1>3 DEF Promote
  <2>4. kept \in Int /\ lease[old] <= kept /\ kept <= now + LeaseTime
    BY <2>1
  <2> HIDE DEF old, kept
  <2>5. \A h \in Generations : lease[h] <= lease'[h] /\ lease'[h] <= now + LeaseTime
    BY <2>1, <2>2, <2>4
  <2>6. \A h \in approved : life'[h] = "retired" /\ lease'[h] = lease[h]
    BY <2>1, <2>2, <2>3
  <2>7. lease' \in [Generations -> Int]
    BY <2>1, <2>2, <2>4
  <2>8. \A h \in Generations : row'[h] # NoRow => row'[h].until <= lease'[h]
    <3> SUFFICES ASSUME NEW h \in Generations, row[h] # NoRow PROVE row[h].until <= lease'[h]
      BY <2>3
    <3>1. row[h].until \in Int /\ row[h].until <= lease[h] /\ lease[h] \in Int /\ lease'[h] \in Int
      BY <2>7
    <3> QED BY <2>5, <3>1
  <2>9. page' # NoPage => page'.expires <= lease'[page'.generation]
    <3> SUFFICES ASSUME page # NoPage PROVE page.expires <= lease'[page.generation]
      BY <2>3
    <3>1. page.generation \in Generations /\ page.expires \in Int
          /\ page.expires <= lease[page.generation]
          /\ lease[page.generation] \in Int /\ lease'[page.generation] \in Int
      BY <2>7
    <3> QED BY <2>5, <3>1
  <2>10. \A h \in approved' : life'[h] = "retired" /\ lease'[h] <= now'
    BY <2>3, <2>6
  <2>11. \A h \in Generations : lease'[h] <= now' + LeaseTime
    BY <2>3, <2>5
  <2> QED BY <2>3, <2>8, <2>9, <2>10, <2>11
<1>4. ASSUME NEW g \in Generations, Retire(g) PROVE LeaseInv'
  BY <1>4 DEF Retire, Offline, Draining
<1>5. ASSUME NEW g \in Generations, GcDryRun(g) PROVE LeaseInv'
  BY <1>5 DEF GcDryRun, Offline
<1>6. ASSUME NEW g \in Generations, Delete(g) PROVE LeaseInv'
  BY <1>6 DEF Delete
<1>7. CASE Publish
  BY <1>7 DEF Publish, Refresh, LeaseExtended
<1>8. ASSUME NEW s \in switches, Rollback(s) PROVE LeaseInv'
  BY <1>8 DEF Rollback, Switchable, Offline, CaughtUp, Serves, Following
<1>9. CASE PublishDrained
  BY <1>9 DEF PublishDrained, PublishLifecycle, Refresh, LeaseExtended
<1>10. CASE PublishActivated
  BY <1>10 DEF PublishActivated, PublishLifecycle, Refresh, LeaseExtended
<1>11. CASE PublishRetired
  BY <1>11 DEF PublishRetired, PublishLifecycle, Refresh, LeaseExtended
<1>12. CASE RestartQuery
  BY <1>12 DEF RestartQuery
<1>13. CASE FirstPage
  BY <1>13 DEF FirstPage, BeginPage, Serves
<1>14. CASE NextPage
  BY <1>14 DEF NextPage, BeginPage, Serves
<1>15. CASE ReadRows
  <2>1. /\ page' = [page EXCEPT !.step = "rows", !.found = page.generation \notin deleted]
        /\ UNCHANGED <<lease, now, life, row, approved, deleted, served>>
    BY <1>15 DEF ReadRows
  <2>2. page' # NoPage /\ page'.expires = page.expires /\ page'.generation = page.generation
    BY <1>15, <2>1 DEF ReadRows
  <2>3. page'.found <=> page.generation \notin deleted
    BY <1>15, <2>1, Zenon DEF ReadRows
  <2>4. ~page'.found => page.expires <= now
    BY <1>15, <2>3 DEF ReadRows
  <2>5. page # NoPage /\ page.expires <= lease[page.generation]
    BY <1>15 DEF ReadRows
  <2>6. page'.expires <= lease'[page'.generation] /\ (~page'.found => page'.expires <= now')
    BY <2>1, <2>2, <2>4, <2>5
  <2> QED BY <2>1, <2>6
<1>16. CASE AnswerPage
  BY <1>16 DEF AnswerPage, StillReadable
<1>17. CASE \/ UNCHANGED cutoverVars \/ StopProcessor \/ Ingest \/ Dispose \/ Rename \/ Commit
         \/ EndCommand
         \/ \E g \in Generations : StartProcessor(g)
         \/ \E s \in switches : Resume(s)
  BY <1>17 DEF StartProcessor, StopProcessor, Ingest, Dispose, Writable, Resume,
     Offline, Following, RegistryUnchanged, Previous, Rename, Commit, EndCommand
<1> QED BY <1>1, <1>2, <1>3, <1>4, <1>5, <1>6, <1>7, <1>8, <1>9, <1>10, <1>11, <1>12,
    <1>13, <1>14, <1>15, <1>16, <1>17 DEF CutoverNext

\* The switches and the registry stay in step.
LEMMA SwitchStep == ASSUME CutoverInv, [CutoverNext]_cutoverVars PROVE SwitchInv'
<1> USE DEF cutoverVars, wal, store, reader, Idle, NoPage,
    NoCursor, NoRow, Absent, LeaseTime, CursorTime, Greater, Lesser, CutoverInv,
    AdminInv, SwitchInv, Waiting, Following, Previous, ShapeInv, TypeOK, RowsInv,
    CommandInv, PageInv, Statuses, Rows, Switches, Registries, Switching
<1>1. ASSUME NEW g \in Generations, Rebuild(g) PROVE SwitchInv'
  BY <1>1 DEF Rebuild, Refresh, LeaseExtended, Offline
<1>2. ASSUME NEW g \in Generations, Promote(g) PROVE SwitchInv'
  BY <1>2 DEF Promote, Switchable, Offline, FullCoverage, Serves, Promotable
<1>3. ASSUME NEW g \in Generations, Retire(g) PROVE SwitchInv'
  BY <1>3 DEF Retire, Offline, Draining
<1>4. CASE Publish
  BY <1>4 DEF Publish, Refresh, LeaseExtended
<1>5. ASSUME NEW s \in switches, Rollback(s) PROVE SwitchInv'
  BY <1>5 DEF Rollback, Switchable, Offline, CaughtUp, Serves, Following
<1>6. CASE PublishDrained
  BY <1>6 DEF PublishDrained, PublishLifecycle, Refresh, LeaseExtended
<1>7. CASE PublishActivated
  BY <1>7 DEF PublishActivated, PublishLifecycle, Refresh, LeaseExtended
<1>8. CASE Rename
  BY <1>8 DEF Rename, Following, RegistryUnchanged, Previous
<1>9. CASE Commit
  BY <1>9 DEF Commit
<1>10. CASE PublishRetired
  BY <1>10 DEF PublishRetired, PublishLifecycle, Refresh, LeaseExtended
<1>11. CASE \/ UNCHANGED cutoverVars \/ Tick \/ StopProcessor \/ Ingest \/ Dispose \/ EndCommand
         \/ RestartQuery \/ FirstPage \/ NextPage \/ ReadRows \/ AnswerPage
         \/ \E g \in Generations : StartProcessor(g) \/ GcDryRun(g) \/ Delete(g)
         \/ \E s \in switches : Resume(s)
  BY <1>11 DEF Tick, StartProcessor, GcDryRun, Offline, Delete, StopProcessor,
     Ingest, Dispose, Writable, Resume, Following, RegistryUnchanged, Previous,
     EndCommand, RestartQuery, FirstPage, BeginPage, Serves, NextPage, ReadRows,
     AnswerPage, StillReadable
<1> QED BY <1>1, <1>2, <1>3, <1>4, <1>5, <1>6, <1>7, <1>8, <1>9, <1>10, <1>11 DEF
    CutoverNext

\* A command finds at each step what its earlier steps left.
LEMMA AdminStep == ASSUME CutoverInv, [CutoverNext]_cutoverVars PROVE AdminInv'
<1> USE DEF cutoverVars, wal, store, reader, Idle, NoPage,
    NoCursor, NoRow, Absent, LeaseTime, CursorTime, Greater, Lesser, CutoverInv,
    AdminInv, SwitchInv, Waiting, Following, Previous, ShapeInv, TypeOK, RowsInv,
    CommandInv, PageInv, Statuses, Rows, Switches, Registries, Switching
<1>1. ASSUME NEW g \in Generations, StartProcessor(g) PROVE AdminInv'
  BY <1>1 DEF StartProcessor
<1>2. ASSUME NEW g \in Generations, Rebuild(g) PROVE AdminInv'
  BY <1>2 DEF Rebuild, Refresh, LeaseExtended, Offline
<1>3. ASSUME NEW g \in Generations, Promote(g) PROVE AdminInv'
  BY <1>3 DEF Promote, Switchable, Offline, FullCoverage, Serves, Promotable
<1>4. ASSUME NEW g \in Generations, Retire(g) PROVE AdminInv'
  BY <1>4 DEF Retire, Offline, Draining
<1>5. ASSUME NEW g \in Generations, Delete(g) PROVE AdminInv'
  BY <1>5 DEF Delete
<1>6. CASE StopProcessor
  BY <1>6 DEF StopProcessor
<1>7. CASE Publish
  BY <1>7 DEF Publish, Refresh, LeaseExtended
<1>8. ASSUME NEW s \in switches, Resume(s) PROVE AdminInv'
  BY <1>8 DEF Resume, Offline, Following, RegistryUnchanged, Previous
<1>9. ASSUME NEW s \in switches, Rollback(s) PROVE AdminInv'
  BY <1>9 DEF Rollback, Switchable, Offline, CaughtUp, Serves, Following
<1>10. CASE PublishDrained
  BY <1>10 DEF PublishDrained, PublishLifecycle, Refresh, LeaseExtended
<1>11. CASE PublishActivated
  BY <1>11 DEF PublishActivated, PublishLifecycle, Refresh, LeaseExtended
<1>12. CASE Rename
  BY <1>12 DEF Rename, Following, RegistryUnchanged, Previous
<1>13. CASE Commit
  BY <1>13 DEF Commit
<1>14. CASE PublishRetired
  BY <1>14 DEF PublishRetired, PublishLifecycle, Refresh, LeaseExtended
<1>15. CASE EndCommand
  BY <1>15 DEF EndCommand
<1>16. CASE \/ UNCHANGED cutoverVars \/ Tick \/ Ingest \/ Dispose \/ RestartQuery \/ FirstPage
         \/ NextPage \/ ReadRows \/ AnswerPage
         \/ \E g \in Generations : GcDryRun(g)
  BY <1>16 DEF Tick, GcDryRun, Offline, Ingest, Dispose, Writable, RestartQuery,
     FirstPage, BeginPage, Serves, NextPage, ReadRows, AnswerPage, StillReadable
<1> QED BY <1>1, <1>2, <1>3, <1>4, <1>5, <1>6, <1>7, <1>8, <1>9, <1>10, <1>11, <1>12,
    <1>13, <1>14, <1>15, <1>16 DEF CutoverNext

\* Publication only advances, and a drained generation is written no more.
LEMMA ThroughStep == ASSUME CutoverInv, [CutoverNext]_cutoverVars PROVE ThroughInv'
<1> USE DEF cutoverVars, wal, store, reader, Idle, NoPage,
    NoCursor, NoRow, Absent, LeaseTime, CursorTime, Greater, Lesser, ThroughInv,
    CutoverInv, AdminInv, SwitchInv, Waiting, Following, Previous, ShapeInv, TypeOK,
    RowsInv, CommandInv, PageInv, Statuses, Rows, Switches, Registries, Switching
<1>1. ASSUME NEW g \in Generations, Rebuild(g) PROVE ThroughInv'
  BY <1>1 DEF Rebuild, Refresh, LeaseExtended, Offline
<1>2. ASSUME NEW g \in Generations, Promote(g) PROVE ThroughInv'
  BY <1>2 DEF Promote, Switchable, Offline, FullCoverage, Serves, Promotable
<1>3. ASSUME NEW g \in Generations, Delete(g) PROVE ThroughInv'
  BY <1>3 DEF Delete
<1>4. CASE Ingest
  BY <1>4 DEF Ingest
<1>5. CASE Dispose
  BY <1>5 DEF Dispose, Writable
<1>6. CASE Publish
  BY <1>6 DEF Publish, Refresh, LeaseExtended
<1>7. ASSUME NEW s \in switches, Rollback(s) PROVE ThroughInv'
  BY <1>7 DEF Rollback, Switchable, Offline, CaughtUp, Serves, Following
<1>8. CASE PublishDrained
  BY <1>8 DEF PublishDrained, PublishLifecycle, Refresh, LeaseExtended
<1>9. CASE PublishActivated
  BY <1>9 DEF PublishActivated, PublishLifecycle, Refresh, LeaseExtended
<1>10. CASE Rename
  BY <1>10 DEF Rename, Following, RegistryUnchanged, Previous
<1>11. CASE Commit
  BY <1>11 DEF Commit
<1>12. CASE PublishRetired
  BY <1>12 DEF PublishRetired, PublishLifecycle, Refresh, LeaseExtended
<1>13. CASE RestartQuery
  BY <1>13 DEF RestartQuery
<1>14. CASE FirstPage
  BY <1>14 DEF FirstPage, BeginPage, Serves
<1>15. CASE NextPage
  BY <1>15 DEF NextPage, BeginPage, Serves
<1>16. CASE ReadRows
  BY <1>16 DEF ReadRows
<1>17. CASE AnswerPage
  BY <1>17 DEF AnswerPage, StillReadable
<1>18. CASE \/ UNCHANGED cutoverVars \/ Tick \/ StopProcessor \/ EndCommand
         \/ \E g \in Generations : StartProcessor(g) \/ Retire(g) \/ GcDryRun(g)
         \/ \E s \in switches : Resume(s)
  BY <1>18 DEF Tick, StartProcessor, Retire, Offline, Draining, GcDryRun,
     StopProcessor, Resume, Following, RegistryUnchanged, Previous, EndCommand
<1> QED BY <1>1, <1>2, <1>3, <1>4, <1>5, <1>6, <1>7, <1>8, <1>9, <1>10, <1>11, <1>12,
    <1>13, <1>14, <1>15, <1>16, <1>17, <1>18 DEF CutoverNext

\* A rollback may give a stale reader its generation back: then that is the one
\* that takes over. After the rename the only switch that waited is done.
LEMMA ShownStep == ASSUME CutoverInv, [CutoverNext]_cutoverVars PROVE ShownInv'
<1> USE DEF cutoverVars, wal, store, reader, Idle, NoPage,
    NoCursor, NoRow, Absent, LeaseTime, CursorTime, Greater, Lesser, ThroughInv,
    ShownInv, SwitchesDoNotOverlap, CutoverInv, AdminInv, SwitchInv, Waiting,
    Following, Previous, ShapeInv, TypeOK, RowsInv, CommandInv, PageInv, Statuses,
    Rows, Switches, Registries, Switching
<1>1. ASSUME NEW g \in Generations, Rebuild(g) PROVE ShownInv'
  BY <1>1 DEF Rebuild, Refresh, LeaseExtended, Offline
<1>2. ASSUME NEW g \in Generations, Promote(g) PROVE ShownInv'
  BY <1>2 DEF Promote, Switchable, Offline, FullCoverage, Serves, Promotable
<1>3. ASSUME NEW g \in Generations, Retire(g) PROVE ShownInv'
  BY <1>3 DEF Retire, Offline, Draining
<1>4. ASSUME NEW g \in Generations, Delete(g) PROVE ShownInv'
  BY <1>4 DEF Delete
<1>5. CASE Dispose
  BY <1>5 DEF Dispose, Writable
<1>6. CASE Publish
  BY <1>6 DEF Publish, Refresh, LeaseExtended
<1>7. ASSUME NEW s \in switches, Rollback(s) PROVE ShownInv'
  <2> DEFINE back == [from |-> s.to, to |-> s.from, revision |-> registry.revision,
                      status |-> "prepared"]
  <2> SUFFICES ASSUME SwitchesDoNotOverlap' PROVE ShownInv'
    OBVIOUS
  <2>1. /\ switches' = switches \cup {back} /\ back \notin switches
        /\ back.revision = registry.revision /\ registry = Following(s)
        /\ life' = [life EXCEPT ![s.to] = "draining", ![s.from] = "active"]
        /\ UNCHANGED <<last, through, registry, row, query, page, served>>
    BY <1>7 DEF Rollback, Switchable, Offline
  <2>2. Waiting = {}
    BY <2>1
  <2>3. Waiting' = {back}
    BY <2>1, <2>2
  <2>4. SwitchesDoNotOverlap
    BY <2>1
  <2>5. through[s.from] = last
    BY <1>7 DEF Rollback, CaughtUp
  <2>6. query = registry.active
           \/ (life[query] \in {"draining", "retired"} /\ row[query].status # "active")
    BY <2>2, <2>4
  <2>7. query = registry.active \/ query = s.from
           \/ (life'[query] \in {"draining", "retired"} /\ row[query].status # "active")
    BY <2>1, <2>6
  <2>8. back.to = s.from
    OBVIOUS
  <2>9. /\ served.boundary <= last
        /\ page # NoPage /\ page.kind = "first" => page.through <= last
    OBVIOUS
  <2>10. \A x \in Waiting' :
           /\ served'.boundary <= through'[x.to]
           /\ page' # NoPage /\ page'.kind = "first" => page'.through <= through'[x.to]
    BY <2>1, <2>3, <2>5, <2>8, <2>9
  <2>11. \/ query' = registry'.active
         \/ life'[query'] \in {"draining", "retired"} /\ row'[query'].status # "active"
         \/ \E x \in Waiting' : query' = x.to
    BY <2>1, <2>3, <2>7, <2>8
  <2> QED BY <2>10, <2>11
<1>8. CASE PublishDrained
  BY <1>8 DEF PublishDrained, PublishLifecycle, Refresh, LeaseExtended
<1>9. CASE PublishActivated
  BY <1>9 DEF PublishActivated, PublishLifecycle, Refresh, LeaseExtended
<1>10. CASE Rename
  <2> DEFINE s == admin.switch
  <2> SUFFICES ASSUME SwitchesDoNotOverlap' PROVE ShownInv'
    OBVIOUS
  <2>1. /\ s \in Waiting /\ registry' = Following(s) /\ row[s.from].status # "active"
        /\ UNCHANGED <<switches, life, row, query, through, page, served>>
    BY <1>10 DEF Rename
  <2>2. Waiting' = {}
    BY <2>1
  <2>3. SwitchesDoNotOverlap /\ Waiting = {s}
    BY <2>1
  <2>4. /\ life[s.from] \in {"draining", "retired"}
        /\ registry.active = s.from /\ registry'.active = s.to
    BY <2>1
  <2>5. query = s.from \/ query = s.to
           \/ (life[query] \in {"draining", "retired"} /\ row[query].status # "active")
    BY <2>3, <2>4
  <2> HIDE DEF s
  <2> QED BY <2>1, <2>2, <2>4, <2>5
<1>11. CASE Commit
  <2> DEFINE s == admin.switch
             t == [s EXCEPT !.status = "committed"]
  <2> SUFFICES ASSUME SwitchesDoNotOverlap' PROVE ShownInv'
    OBVIOUS
  <2>1. /\ s \in switches /\ registry = Following(s)
        /\ switches' = (switches \ {s}) \cup {t}
        /\ UNCHANGED <<life, row, query, through, page, served, registry>>
    BY <1>11 DEF Commit
  <2>2. /\ s.revision = t.revision /\ t.status = "committed" /\ s.revision # registry.revision
        /\ [s EXCEPT !.status = t.status] = t
    BY <2>1
  <2> HIDE DEF s, t
  <2>3. \A x \in switches : x.revision = s.revision => x = s
    <3> SUFFICES ASSUME NEW x \in switches, x.revision = s.revision, x # s PROVE FALSE
      OBVIOUS
    <3>1. x \in switches' /\ t \in switches'
      BY <2>1
    <3>2. x = t
      BY <2>2, <3>1
    <3> QED BY <2>1, <2>2, <3>2
  <2>4. SwitchesDoNotOverlap
    BY <2>1, <2>2, <2>3
  <2>5. Waiting' = Waiting
    BY <2>1, <2>2
  <2> QED BY <2>1, <2>4, <2>5
<1>12. CASE PublishRetired
  BY <1>12 DEF PublishRetired, PublishLifecycle, Refresh, LeaseExtended
<1>13. CASE RestartQuery
  BY <1>13 DEF RestartQuery
<1>14. CASE FirstPage
  BY <1>14 DEF FirstPage, BeginPage, Serves
<1>15. CASE NextPage
  BY <1>15 DEF NextPage, BeginPage, Serves
<1>16. CASE ReadRows
  BY <1>16 DEF ReadRows
<1>17. CASE AnswerPage
  BY <1>17 DEF AnswerPage, StillReadable
<1>18. CASE \/ UNCHANGED cutoverVars \/ Tick \/ StopProcessor \/ Ingest \/ EndCommand
         \/ \E g \in Generations : StartProcessor(g) \/ GcDryRun(g)
         \/ \E s \in switches : Resume(s)
  BY <1>18 DEF Tick, StartProcessor, GcDryRun, Offline, StopProcessor, Ingest,
     Resume, Following, RegistryUnchanged, Previous, EndCommand
<1> QED BY <1>1, <1>2, <1>3, <1>4, <1>5, <1>6, <1>7, <1>8, <1>9, <1>10, <1>11, <1>12,
    <1>13, <1>14, <1>15, <1>16, <1>17, <1>18 DEF CutoverNext

-----------------------------------------------------------------------------
(* The theorems. *)

\* The parts are inductive together.
LEMMA Invariance == CutoverSpec => []CutoverInv
<1> USE CutoverAssumption
<1>1. CutoverInit => CutoverInv
  <2> USE DEF CutoverInit, cutoverVars, wal, store, reader, Idle, NoPage, NoCursor,
      NoRow, Absent, LeaseTime, CursorTime, Greater, Lesser
  <2> SUFFICES ASSUME CutoverInit PROVE CutoverInv
    OBVIOUS
  <2>1. TypeOK
    <3>1. LeaseTime \in 0..MaxTime + LeaseTime /\ 0 \in 0..MaxTime + LeaseTime
      OBVIOUS
    <3> HIDE DEF LeaseTime
    <3> QED BY <3>1 DEF TypeOK
  <2>2. RowsInv
    BY DEF RowsInv, Rows, Statuses
  <2>3. CommandInv
    <3>1. registry \in Registries /\ admin = Idle /\ switches = {}
      BY DEF Registries
    <3> QED BY <3>1 DEF CommandInv
  <2>4. PageInv
    BY DEF PageInv
  <2>5. LeaseInv
    BY DEF LeaseInv
  <2>6. SwitchInv /\ AdminInv
    <3>1. switches = {} /\ admin = Idle /\ life[registry.active] = "active" /\ Waiting = {}
      BY DEF Waiting
    <3> QED BY <3>1 DEF SwitchInv, AdminInv
  <2>7. ThroughInv /\ ShownInv
    BY DEF ThroughInv, ShownInv, Waiting
  <2> QED BY <2>1, <2>2, <2>3, <2>4, <2>5, <2>6, <2>7 DEF CutoverInv, ShapeInv
<1>2. CutoverInv /\ [CutoverNext]_cutoverVars => CutoverInv'
  BY TypeStep, RowsStep, CommandStep, PageStep, LeaseStep, SwitchStep, AdminStep,
     ThroughStep, ShownStep DEF CutoverInv, ShapeInv
<1> QED BY <1>1, <1>2, PTL DEF CutoverSpec

\* No page is answered from data that was deleted while it was read, whatever is
\* retired and collected beside it; and when no switch waits to be resumed, the
\* generation that the registry names is active.
THEOREM Served == CutoverSpec => []ReadersAreServed
<1>1. CutoverInv => ReadersAreServed
  <2> SUFFICES ASSUME CutoverInv, NoSwitchWaits PROVE Waiting = {}
    BY DEF CutoverInv, ShapeInv, LeaseInv, SwitchInv, ReadersAreServed,
       PagesAreBacked, RegistryNamesActive
  <2> QED BY DEF NoSwitchWaits, Waiting
<1> QED BY <1>1, Invariance, PTL

\* When the registry moves, by a promotion, a rollback or the resumption of one
\* that was interrupted, the generation it moves to has all that a first page of
\* any generation ever showed, restarted or not: as long as no switch is started
\* while another one waits.
THEOREM Kept == CutoverSpec => CutoverLosesNothing
<1>1. CutoverInv /\ [CutoverNext]_cutoverVars => [KeepsWhatWasShown]_cutoverVars
  <2> SUFFICES ASSUME CutoverInv, CutoverNext, SwitchesDoNotOverlap, registry' # registry
               PROVE  through[registry'.active] >= served.boundary
    BY DEF KeepsWhatWasShown
  <2>1. Rename
    BY DEF CutoverNext, Tick, StartProcessor, Rebuild, Promote, Retire, GcDryRun,
       Delete, StopProcessor, Ingest, Dispose, Publish, Resume, Rollback,
       PublishDrained, PublishActivated, PublishRetired, PublishLifecycle, Commit,
       EndCommand, RestartQuery, FirstPage, NextPage, BeginPage, ReadRows, AnswerPage
  <2>2. admin.switch \in Waiting /\ registry'.active = admin.switch.to
    BY <2>1 DEF Rename, Following, CutoverInv, AdminInv
  <2>3. served.boundary <= through[admin.switch.to]
    BY <2>2 DEF CutoverInv, ShownInv
  <2>4. through[admin.switch.to] \in Int /\ served.boundary \in Int
    BY <2>2 DEF CutoverInv, ShapeInv, RowsInv, PageInv, CommandInv, Switches, Waiting
  <2> QED BY <2>2, <2>3, <2>4
<1> QED BY <1>1, Invariance, PTL DEF CutoverSpec, CutoverLosesNothing

=============================================================================
