-------------------------- MODULE SchedulerProofs --------------------------
(***************************************************************************)
(* Proofs about Scheduler.  IndInv is inductive: reload steps other than   *)
(* the locked one leave the jobs and the schedule alone, the locked one    *)
(* leaves the jobs alone, and a job step leaves the schedule alone.        *)
(***************************************************************************)
EXTENDS Scheduler, FiniteSetTheorems, TLAPS

\* The metadata is always one of the contents of its history.
LEMMA MetaType ==
  ASSUME TypeOK
  PROVE  Meta \in Metadata /\ Meta.enabled \in BOOLEAN /\ Meta.loads \in LoadTables
<1>1. history \in Seq(Metadata) /\ at \in 1..Len(history)
  BY HistoryAssumption DEF TypeOK
<1>2. Meta \in Metadata BY <1>1, SMTT(30) DEF Meta
<1> QED BY <1>2 DEF Metadata

\* The records the reload steps store are reload records.
LEMMA ReloadTypes ==
  /\ Resting \in ReloadRecords /\ Resting.pc = "idle"
  /\ [Resting EXCEPT !.pc = "exited"] \in ReloadRecords
  /\ \A e \in BOOLEAN :
       LET r == [Resting EXCEPT !.pc = "sources", !.enabled = e]
       IN  r \in ReloadRecords /\ r.pc = "sources"
BY ZenonT(30) DEF Resting, ReloadRecords, Fingerprints

\* Parts of the invariant that only speak of the schedule and the jobs.
LEMMA ScheduleFrame ==
  ASSUME IndInv, UNCHANGED <<schedVars, busy, running, jobs, wg>>
  PROVE  /\ OwnersHoldTheGuard' /\ RowsOnlyInRuns' /\ LoadsRegistered'
         /\ (wg = Cardinality(Counted))' /\ NoOverlap' /\ EntriesAccounted'
         /\ ShownRunningTruthful'
<1>1. Counted' = Counted BY DEF Counted
<1> QED BY <1>1
  DEF IndInv, schedVars, OwnersHoldTheGuard, RowsOnlyInRuns, LoadsRegistered,
      NoOverlap, EntriesAccounted, ShownRunningTruthful, Known, EntryOf

\* One actor's reload record changes, and the phase with it.
LEMMA ReloadFrame ==
  ASSUME IndInv, NEW a \in Actors, NEW r \in ReloadRecords, SetReload(a, r),
         r.pc = "apply" => r.list \in LoadTables,
         phase' \in {"start", "up", "term", "stopping", "aborting", "stopped", "exit"},
         a = "main" => (r.pc # "idle" => phase' = "start"),
         a # "main" => phase' = phase,
         swept => phase' = "stopped",
         orphans' \in {orphans, {}},
         UNCHANGED <<metaVars, schedVars, busy, running, jobs, wg, swept>>
  PROVE  IndInv'
<1>1. /\ reload' \in [Actors -> ReloadRecords] /\ reload'[a] = r
      /\ \A b \in Actors : b # a => reload'[b] = reload[b]
  BY DEF IndInv, TypeOK, SetReload
<1>2. TypeOK' BY <1>1, ZenonT(30) DEF IndInv, TypeOK, metaVars, schedVars
<1>3. MainReloadsAtStart'
  BY <1>1 DEF IndInv, MainReloadsAtStart, Actors
<1>4. SweptIsLast' /\ NoRunningRowAfterSweep'
  BY DEF IndInv, SweptIsLast, NoRunningRowAfterSweep
<1> QED BY <1>2, <1>3, <1>4, ScheduleFrame DEF IndInv

\* Only the phase changes, to one that a reload by main cannot be in.
LEMMA PhaseFrame ==
  ASSUME IndInv, UNCHANGED <<metaVars, reload, schedVars, jobVars, swept>>,
         phase' \in {"up", "term", "stopping", "aborting", "stopped", "exit"},
         reload["main"].pc = "idle", ~swept
  PROVE  IndInv'
<1>1. TypeOK' BY DEF IndInv, TypeOK, metaVars, schedVars, jobVars
<1>2. MainReloadsAtStart' /\ SweptIsLast' /\ NoRunningRowAfterSweep'
  BY DEF IndInv, MainReloadsAtStart, SweptIsLast, NoRunningRowAfterSweep, jobVars
<1> QED BY <1>1, <1>2, ScheduleFrame DEF IndInv, jobVars

\* An edit of the metadata touches nothing of the process.
LEMMA EditPreserves ==
  ASSUME IndInv, EditMetadata
  PROVE  IndInv'
<1>1. TypeOK'
  BY HistoryAssumption DEF IndInv, TypeOK, EditMetadata, schedVars, jobVars
<1>2. MainReloadsAtStart' /\ SweptIsLast' /\ NoRunningRowAfterSweep'
  BY DEF IndInv, MainReloadsAtStart, SweptIsLast, NoRunningRowAfterSweep,
         EditMetadata, jobVars
<1> QED BY <1>1, <1>2, ScheduleFrame DEF IndInv, EditMetadata, jobVars

\* The startup's sweep and its failure.
LEMMA LoadPreserves ==
  ASSUME IndInv, LoadAbortOrphans \/ LoadError
  PROVE  IndInv'
<1>1. CASE LoadAbortOrphans
  <2> DEFINE r == [Resting EXCEPT !.pc = "sources", !.enabled = Meta.enabled]
  <2>1. r \in ReloadRecords /\ r.pc = "sources"
    BY MetaType, ReloadTypes, ZenonT(30) DEF IndInv
  <2>2. phase = "start" /\ phase' = phase /\ SetReload("main", r)
    BY <1>1 DEF LoadAbortOrphans
  <2>3. ~swept BY <2>2 DEF IndInv, SweptIsLast
  <2>4. phase' \in {"start", "up", "term", "stopping", "aborting", "stopped", "exit"}
    BY <2>2
  <2> HIDE DEF r
  <2> QED BY <1>1, <2>1, <2>2, <2>3, <2>4, ReloadFrame DEF LoadAbortOrphans, Actors
<1>2. CASE LoadError
  BY <1>2, PhaseFrame DEF LoadError, IndInv, SweptIsLast
<1> QED BY <1>1, <1>2

\* A reload step that reads, checks, lists, fails or ends the loop.
LEMMA ReloadReadPreserves ==
  ASSUME IndInv, NEW a \in Actors,
         \/ ReloadSources(a) \/ ReloadFingerprint(a) \/ ReloadCheck(a)
         \/ ReloadList(a) \/ ReloadError(a) \/ LoopExit(a)
  PROVE  IndInv'
<1> DEFINE Phases == {"start", "up", "term", "stopping", "aborting", "stopped", "exit"}
<1>1. reload[a] \in ReloadRecords /\ phase \in Phases BY DEF IndInv, TypeOK
<1>2. a = "main" /\ reload[a].pc # "idle" => phase = "start" /\ ~swept
  BY DEF IndInv, MainReloadsAtStart, SweptIsLast
<1>3. swept => phase = "stopped" BY DEF IndInv, SweptIsLast
<1>4. CASE ReloadSources(a)
  <2> DEFINE r == [Resting EXCEPT !.pc = "sources", !.enabled = Meta.enabled]
  <2>1. r \in ReloadRecords /\ r.pc = "sources"
    BY MetaType, ReloadTypes, ZenonT(30) DEF IndInv
  <2>2. SetReload(a, r) /\ a # "main" /\ phase' = phase
    BY <1>4 DEF ReloadSources, Loops
  <2> HIDE DEF r
  <2> QED BY <1>1, <1>3, <1>4, <2>1, <2>2, ReloadFrame, SMTT(30) DEF ReloadSources, jobVars
<1>5. CASE ReloadFingerprint(a)
  <2> DEFINE r == [reload[a] EXCEPT !.pc = "check",
                     !.seen = <<reload[a].enabled, Meta.loads>>]
  <2>1. <<reload[a].enabled, Meta.loads>> \in Fingerprints
    BY <1>1, MetaType DEF IndInv, ReloadRecords, Fingerprints
  <2>2. r \in ReloadRecords /\ r.pc = "check" BY <1>1, <2>1, ZenonT(30) DEF ReloadRecords
  <2>3. SetReload(a, r) /\ phase' = phase /\ reload[a].pc = "sources"
    BY <1>5 DEF ReloadFingerprint
  <2> HIDE DEF r
  <2> QED BY <1>1, <1>2, <1>3, <1>5, <2>2, <2>3, ReloadFrame
    DEF ReloadFingerprint, jobVars
<1>6. CASE ReloadCheck(a)
  <2>1. CASE SetReload(a, Resting) /\ phase' = PhaseAfter(a)
    <3>1. phase' \in Phases /\ (a # "main" => phase' = phase)
      BY <1>1, <2>1 DEF PhaseAfter
    <3>2. swept => phase' = "stopped"
      BY <1>2, <1>3, <1>6, <2>1 DEF PhaseAfter, ReloadCheck
    <3> QED BY <1>6, <2>1, <3>1, <3>2, ReloadTypes, ReloadFrame, ZenonT(30)
      DEF ReloadCheck, jobVars
  <2>2. CASE SetReload(a, [reload[a] EXCEPT !.pc = "list"]) /\ UNCHANGED phase
    <3> DEFINE r == [reload[a] EXCEPT !.pc = "list"]
    <3>1. r \in ReloadRecords /\ r.pc = "list" BY <1>1 DEF ReloadRecords
    <3>2. SetReload(a, r) /\ phase' = phase /\ reload[a].pc = "check"
      BY <1>6, <2>2 DEF ReloadCheck
    <3> HIDE DEF r
    <3> QED BY <1>1, <1>2, <1>3, <1>6, <3>1, <3>2, ReloadFrame
      DEF ReloadCheck, jobVars
  <2> QED BY <1>6, <2>1, <2>2 DEF ReloadCheck
<1>7. CASE ReloadList(a)
  <2> DEFINE r == [reload[a] EXCEPT !.pc = "apply", !.list = EnabledLoads(Meta)]
  <2>1. EnabledLoads(Meta) \in LoadTables
    BY MetaType DEF IndInv, EnabledLoads, LoadTables
  <2>2. r \in ReloadRecords /\ r.pc = "apply" /\ r.list \in LoadTables
    BY <1>1, <2>1, ZenonT(30) DEF ReloadRecords
  <2>3. SetReload(a, r) /\ phase' = phase /\ reload[a].pc = "list"
    BY <1>7 DEF ReloadList
  <2> HIDE DEF r
  <2> QED BY <1>1, <1>2, <1>3, <1>7, <2>2, <2>3, ReloadFrame
    DEF ReloadList, jobVars
<1>8. CASE ReloadError(a)
  <2>1. phase' \in Phases /\ (a # "main" => phase' = phase)
    BY <1>1, <1>8 DEF ReloadError
  <2>2. swept => phase' = "stopped"
    BY <1>2, <1>3, <1>8 DEF ReloadError
  <2> QED BY <1>8, <2>1, <2>2, ReloadTypes, ReloadFrame, ZenonT(30) DEF ReloadError, jobVars
<1>9. CASE LoopExit(a)
  <2> DEFINE r == [Resting EXCEPT !.pc = "exited"]
  <2>1. r \in ReloadRecords /\ r.pc = "exited" BY ReloadTypes, ZenonT(30) DEF Resting
  <2>2. SetReload(a, r) /\ a # "main" /\ phase' = phase
    BY <1>9 DEF LoopExit, Loops
  <2> HIDE DEF r
  <2> QED BY <1>1, <1>3, <1>9, <2>1, <2>2, ReloadFrame, SMTT(30) DEF LoopExit, jobVars
<1> QED BY <1>4, <1>5, <1>6, <1>7, <1>8, <1>9

\* The locked part of Reload keeps one known entry per load, and registers
\* every load it schedules.
LEMMA ReloadApplyPreserves ==
  ASSUME IndInv, NEW a \in Actors, ReloadApply(a)
  PROVE  IndInv'
<1> DEFINE want == reload[a].list
<1>1. /\ want \in LoadTables /\ reload[a] \in ReloadRecords
      /\ reload[a].pc = "apply"
  BY DEF IndInv, TypeOK, ReloadApply
<1>2. /\ scheduled' = [l \in Loads |-> Applied(want, l)]
      /\ entries' = (entries \ Stale(want)) \cup
                      {<<l, added[l] + 1>> : l \in {m \in Loads : Adds(want, m)}}
      /\ added' = [l \in Loads |-> IF Adds(want, l) THEN added[l] + 1 ELSE added[l]]
      /\ registry' = [l \in Loads |-> Registered(want, l)]
      /\ busy' = busy
      /\ fingerprint' = reload[a].seen
      /\ reload' = [reload EXCEPT ![a] = Resting]
      /\ phase' = PhaseAfter(a)
      /\ UNCHANGED <<history, at, running, jobs, wg, orphans, swept>>
  BY SMTT(30) DEF ReloadApply, ShownRunning, NewFingerprint, SetReload, metaVars
<1> HIDE DEF want
<1>3. /\ reload' \in [Actors -> ReloadRecords] /\ reload'[a].pc = "idle"
      /\ \A b \in Actors : b # a => reload'[b] = reload[b]
  BY <1>2, ReloadTypes, ZenonT(30) DEF IndInv, TypeOK
<1>4. \A l \in Loads : scheduled'[l] \in [cfg : Configs \cup {Absent}, entry : Nat]
  BY <1>1, <1>2 DEF IndInv, TypeOK, LoadTables, Applied, NotScheduled
<1>5. \A l \in Loads : registry'[l] \in Configs \cup {Absent}
  BY <1>1, <1>2 DEF IndInv, TypeOK, LoadTables, Registered
<1>6. phase' \in {"start", "up", "term", "stopping", "aborting", "stopped", "exit"}
  BY <1>2 DEF IndInv, TypeOK, PhaseAfter
<1>7. entries' \in SUBSET (Loads \X Nat)
  BY <1>2 DEF IndInv, TypeOK
<1>8. reload[a].seen \in Fingerprints BY <1>1 DEF ReloadRecords
<1>9. TypeOK'
  <2>1. scheduled' \in [Loads -> [cfg : Configs \cup {Absent}, entry : Nat]]
    BY <1>2, <1>4
  <2>2. registry' \in LoadTables BY <1>2, <1>5 DEF LoadTables
  <2>3. added' \in [Loads -> Nat] BY <1>2 DEF IndInv, TypeOK
  <2>4. \A b \in Actors : reload'[b].pc = "apply" => reload'[b].list \in LoadTables
    BY <1>3 DEF IndInv, TypeOK
  <2> QED BY <1>2, <1>3, <1>6, <1>7, <1>8, <2>1, <2>2, <2>3, <2>4, SMTT(30) DEF IndInv, TypeOK
<1>10. MainReloadsAtStart'
  BY <1>2, <1>3 DEF IndInv, MainReloadsAtStart, PhaseAfter, Actors
<1>11. SweptIsLast' /\ NoRunningRowAfterSweep'
  BY <1>1, <1>2 DEF IndInv, SweptIsLast, NoRunningRowAfterSweep,
                    MainReloadsAtStart, PhaseAfter
<1>12. /\ OwnersHoldTheGuard' /\ RowsOnlyInRuns' /\ NoOverlap'
       /\ ShownRunningTruthful' /\ (wg = Cardinality(Counted))'
  <2>1. Counted' = Counted BY <1>2 DEF Counted
  <2>2. OwnersHoldTheGuard' /\ RowsOnlyInRuns' /\ NoOverlap'
    BY <1>2 DEF IndInv, OwnersHoldTheGuard, RowsOnlyInRuns, NoOverlap
  <2>3. ShownRunningTruthful' BY <1>2 DEF IndInv, ShownRunningTruthful
  <2> QED BY <1>2, <2>1, <2>2, <2>3 DEF IndInv
<1>13. LoadsRegistered'
  <2>1. \A l \in Loads : registry[l] # Absent => registry'[l] # Absent
    BY <1>2 DEF Registered
  <2>2. \A l \in Loads : Known(l)' => registry'[l] # Absent
    BY <1>2, SMTT(30) DEF IndInv, LoadsRegistered, Known, Registered, Applied, NotScheduled,
                Removes, Keeps, Adds
  <2> QED BY <1>2, <2>1, <2>2 DEF IndInv, LoadsRegistered
<1>14. EntriesAccounted'
  <2> SUFFICES ASSUME NEW e \in entries'
               PROVE  Known(e[1])' /\ e = EntryOf(e[1])'
    BY DEF EntriesAccounted
  <2>1. CASE e \in entries \ Stale(want)
    <3>1. e[1] \in Loads BY <2>1 DEF IndInv, TypeOK
    <3>2. Known(e[1]) /\ e = EntryOf(e[1])
      BY <2>1 DEF IndInv, EntriesAccounted
    <3>3. ~Removes(want, e[1]) /\ ~Replaces(want, e[1])
      BY <2>1, <3>1, <3>2 DEF Stale
    <3>4. Keeps(want, e[1]) BY <3>2, <3>3 DEF Removes, Replaces, Keeps
    <3>5. scheduled'[e[1]] = [cfg |-> want[e[1]], entry |-> scheduled[e[1]].entry]
      BY <1>2, <3>1, <3>3, <3>4 DEF Applied
    <3> QED BY <3>2, <3>4, <3>5 DEF Known, EntryOf, Keeps
  <2>2. CASE e \in {<<l, added[l] + 1>> : l \in {m \in Loads : Adds(want, m)}}
    <3>1. PICK l \in Loads : Adds(want, l) /\ e = <<l, added[l] + 1>> BY <2>2
    <3>2. ~Removes(want, l) /\ ~Keeps(want, l)
      BY <3>1 DEF Adds, Removes, Keeps, Replaces
    <3>3. scheduled'[l] = [cfg |-> want[l], entry |-> added[l] + 1]
      BY <1>2, <3>1, <3>2 DEF Applied
    <3> QED BY <3>1, <3>3 DEF Known, EntryOf, Adds
  <2> QED BY <1>2, <2>1, <2>2
<1> QED BY <1>9, <1>10, <1>11, <1>12, <1>13, <1>14 DEF IndInv

\* The jobs the wait group counts form a finite set.
LEMMA CountedFinite == IsFiniteSet(Counted) /\ Cardinality(Counted) \in Nat
<1>1. Counted \in SUBSET Jobs BY DEF Counted
<1>2. IsFiniteSet(Counted) BY <1>1, JobsAssumption, FS_Subset
<1> QED BY <1>2, FS_CardinalityType

\* A step of one job: what is left alone, and what has to be shown.
LEMMA JobFrame ==
  ASSUME IndInv, NEW j \in Jobs, NEW r \in JobRecords, SetJob(j, r),
         UNCHANGED <<phase, metaVars, reload, schedVars, swept>>,
         busy' \in SUBSET Loads, running' \in SUBSET Loads,
         orphans' \in SUBSET Loads, wg' \in Nat,
         swept => orphans' = orphans /\ ~r.row,
         r.row => r.pc = "run",
         r.pc # "free" => r.load \in Loads /\ registry[r.load] # Absent,
         OwnersHoldTheGuard', NoOverlap', ShownRunningTruthful',
         (wg = Cardinality(Counted))'
  PROVE  IndInv'
<1>1. /\ jobs' \in [Jobs -> JobRecords] /\ jobs'[j] = r
      /\ \A i \in Jobs : i # j => jobs'[i] = jobs[i]
  BY DEF SetJob, IndInv, TypeOK
<1>2. TypeOK' BY <1>1 DEF IndInv, TypeOK, metaVars, schedVars
<1>3. MainReloadsAtStart' /\ SweptIsLast'
  BY DEF IndInv, MainReloadsAtStart, SweptIsLast
<1>4. RowsOnlyInRuns' BY <1>1 DEF IndInv, RowsOnlyInRuns
<1>5. LoadsRegistered' BY <1>1 DEF IndInv, LoadsRegistered, schedVars, Known
<1>6. EntriesAccounted' BY DEF IndInv, EntriesAccounted, schedVars, Known, EntryOf
<1>7. NoRunningRowAfterSweep' BY <1>1 DEF IndInv, NoRunningRowAfterSweep
<1> QED BY <1>2, <1>3, <1>4, <1>5, <1>6, <1>7 DEF IndInv

\* A firing carries the load of a live entry, which is registered.
LEMMA FirePreserves ==
  ASSUME IndInv, NEW j \in Jobs, Fire(j)
  PROVE  IndInv'
<1>1. PICK e \in entries : SetJob(j, [FreeJob EXCEPT !.pc = "fired", !.load = e[1]])
  BY ZenonT(30) DEF Fire
<1> DEFINE r == [FreeJob EXCEPT !.pc = "fired", !.load = e[1]]
<1>2. e[1] \in Loads /\ registry[e[1]] # Absent
  BY DEF IndInv, TypeOK, EntriesAccounted, LoadsRegistered
<1>3. r \in JobRecords /\ r.pc = "fired" /\ r.load = e[1] /\ ~r.row
  BY <1>2, ZenonT(30) DEF FreeJob, JobRecords
<1>4. /\ SetJob(j, r) /\ jobs[j].pc = "free"
      /\ UNCHANGED <<phase, metaVars, reload, schedVars, busy, running, wg, orphans, swept>>
  BY <1>1 DEF Fire
<1> HIDE DEF r
<1>5. jobs'[j] = r /\ \A i \in Jobs : i # j => jobs'[i] = jobs[i]
  BY <1>4 DEF SetJob, IndInv, TypeOK
<1>6. OwnersHoldTheGuard' /\ NoOverlap'
  BY <1>3, <1>4, <1>5 DEF IndInv, OwnersHoldTheGuard, NoOverlap, Owning
<1>7. ShownRunningTruthful'
  BY <1>3, <1>4, <1>5 DEF IndInv, ShownRunningTruthful
<1>8. (wg = Cardinality(Counted))'
  <2>1. Counted' = Counted BY <1>3, <1>4, <1>5 DEF Counted
  <2> QED BY <2>1, <1>4 DEF IndInv
<1>9. busy' \in SUBSET Loads /\ running' \in SUBSET Loads /\ orphans' \in SUBSET Loads /\ wg' \in Nat
  BY <1>4 DEF IndInv, TypeOK
<1> QED BY <1>2, <1>3, <1>4, <1>6, <1>7, <1>8, <1>9, JobFrame, SMTT(30)

\* A job is claimed only when no other job owns its load.
LEMMA ClaimPreserves ==
  ASSUME IndInv, NEW j \in Jobs, Claim(j)
  PROVE  IndInv'
<1>1. /\ jobs[j] \in JobRecords /\ jobs[j].pc = "fired"
      /\ jobs[j].load \in Loads /\ registry[jobs[j].load] # Absent /\ ~jobs[j].row
  BY DEF IndInv, TypeOK, LoadsRegistered, RowsOnlyInRuns, Claim
<1>2. UNCHANGED <<phase, metaVars, reload, schedVars, busy, wg, orphans, swept>>
  BY DEF Claim
<1>3. busy' \in SUBSET Loads /\ orphans' \in SUBSET Loads /\ wg' \in Nat
  BY <1>2 DEF IndInv, TypeOK
<1>4. CASE /\ MayRun(jobs[j].load)
           /\ running' = running \cup {jobs[j].load}
           /\ SetJob(j, [jobs[j] EXCEPT !.pc = "claimed"])
  <2> DEFINE r == [jobs[j] EXCEPT !.pc = "claimed"]
  <2>1. r \in JobRecords /\ r.pc = "claimed" /\ r.load = jobs[j].load /\ ~r.row
    BY <1>1 DEF JobRecords
  <2>2. SetJob(j, r) BY <1>4
  <2> HIDE DEF r
  <2>3. jobs'[j] = r /\ \A i \in Jobs : i # j => jobs'[i] = jobs[i]
    BY <2>2 DEF SetJob, IndInv, TypeOK
  <2>4. jobs[j].load \notin running BY <1>4 DEF MayRun
  <2>5. OwnersHoldTheGuard'
    BY <1>4, <2>1, <2>3 DEF IndInv, OwnersHoldTheGuard, Owning
  <2>6. NoOverlap'
    <3>1. \A i \in Jobs : jobs[i].pc \in Owning => jobs[i].load # r.load
      BY <2>1, <2>4 DEF IndInv, OwnersHoldTheGuard
    <3> QED BY <2>1, <2>3, <3>1 DEF IndInv, NoOverlap
  <2>7. ShownRunningTruthful'
    BY <1>1, <1>2, <2>1, <2>3 DEF IndInv, ShownRunningTruthful
  <2>8. (wg = Cardinality(Counted))'
    <3>1. Counted' = Counted BY <1>1, <2>1, <2>3 DEF Counted
    <3> QED BY <3>1, <1>2 DEF IndInv
  <2>9. running' \in SUBSET Loads BY <1>1, <1>4, SMTT(30) DEF IndInv, TypeOK
  <2> QED BY <1>1, <1>2, <1>3, <2>1, <2>2, <2>5, <2>6, <2>7, <2>8, <2>9, JobFrame
<1>5. CASE SetJob(j, FreeJob) /\ UNCHANGED running
  <2>1. FreeJob \in JobRecords /\ FreeJob.pc = "free" /\ ~FreeJob.row
    BY DEF FreeJob, JobRecords
  <2>2. jobs'[j] = FreeJob /\ \A i \in Jobs : i # j => jobs'[i] = jobs[i]
    BY <1>5 DEF SetJob, IndInv, TypeOK
  <2>3. OwnersHoldTheGuard' /\ NoOverlap'
    BY <1>5, <2>1, <2>2, SMTT(30) DEF IndInv, OwnersHoldTheGuard, NoOverlap, Owning
  <2>4. ShownRunningTruthful'
    <3>1. \A i \in Jobs : /\ jobs'[i].pc = "run" <=> jobs[i].pc = "run"
                          /\ jobs'[i].pc = "run" => jobs'[i].load = jobs[i].load
      BY <1>1, <2>1, <2>2
    <3>2. busy' = busy BY <1>2
    <3> QED BY <3>1, <3>2 DEF IndInv, ShownRunningTruthful
  <2>5. (wg = Cardinality(Counted))'
    <3>1. Counted' = Counted BY <1>1, <2>1, <2>2 DEF Counted
    <3> QED BY <3>1, <1>2 DEF IndInv
  <2>6. running' \in SUBSET Loads BY <1>5 DEF IndInv, TypeOK
  <2> QED BY <1>2, <1>3, <1>5, <2>1, <2>3, <2>4, <2>5, <2>6, JobFrame
<1> QED BY <1>4, <1>5 DEF Claim

\* A move of one job within the owning states keeps the guard.
LEMMA OwnerMoves ==
  ASSUME IndInv, NEW j \in Jobs, NEW r \in JobRecords, SetJob(j, r),
         jobs[j].pc \in Owning, r.pc \in Owning, r.load = jobs[j].load,
         UNCHANGED running
  PROVE  OwnersHoldTheGuard' /\ NoOverlap'
<1>1. jobs'[j] = r /\ \A i \in Jobs : i # j => jobs'[i] = jobs[i]
  BY DEF SetJob, IndInv, TypeOK
<1> QED BY <1>1 DEF IndInv, OwnersHoldTheGuard, NoOverlap

\* The wait group counts the job from the step before Execute.
LEMMA WgAddPreserves ==
  ASSUME IndInv, NEW j \in Jobs, WgAdd(j)
  PROVE  IndInv'
<1> DEFINE r == [jobs[j] EXCEPT !.pc = "execute"]
<1>1. /\ jobs[j] \in JobRecords /\ jobs[j].pc = "claimed"
      /\ jobs[j].load \in Loads /\ registry[jobs[j].load] # Absent /\ ~jobs[j].row
  BY DEF IndInv, TypeOK, LoadsRegistered, RowsOnlyInRuns, WgAdd
<1>2. r \in JobRecords /\ r.pc = "execute" /\ r.load = jobs[j].load /\ ~r.row
  BY <1>1 DEF JobRecords
<1>3. /\ SetJob(j, r) /\ wg' = wg + 1
      /\ UNCHANGED <<phase, metaVars, reload, schedVars, busy, running, orphans, swept>>
  BY DEF WgAdd
<1> HIDE DEF r
<1>4. jobs'[j] = r /\ \A i \in Jobs : i # j => jobs'[i] = jobs[i]
  BY <1>3 DEF SetJob, IndInv, TypeOK
<1>5. OwnersHoldTheGuard' /\ NoOverlap'
  BY <1>1, <1>2, <1>3, OwnerMoves DEF Owning
<1>6. ShownRunningTruthful'
  BY <1>1, <1>2, <1>3, <1>4 DEF IndInv, ShownRunningTruthful
<1>7. (wg = Cardinality(Counted))'
  <2>1. Counted' = Counted \cup {j} /\ j \notin Counted
    BY <1>1, <1>2, <1>4 DEF Counted
  <2>2. Cardinality(Counted \cup {j}) = Cardinality(Counted) + 1
    BY <2>1, CountedFinite, FS_AddElement
  <2> QED BY <1>3, <2>1, <2>2 DEF IndInv
<1>8. /\ busy' \in SUBSET Loads /\ running' \in SUBSET Loads
      /\ orphans' \in SUBSET Loads /\ wg' \in Nat
  BY <1>3 DEF IndInv, TypeOK
<1> QED BY <1>1, <1>2, <1>3, <1>5, <1>6, <1>7, <1>8, JobFrame

\* A row is inserted only while the context is live, so never after the sweep.
LEMMA ExecuteStartPreserves ==
  ASSUME IndInv, NEW j \in Jobs, ExecuteStart(j)
  PROVE  IndInv'
<1>1. /\ jobs[j] \in JobRecords /\ jobs[j].pc = "execute"
      /\ jobs[j].load \in Loads /\ registry[jobs[j].load] # Absent /\ ~jobs[j].row
  BY DEF IndInv, TypeOK, LoadsRegistered, RowsOnlyInRuns, ExecuteStart
<1>2. UNCHANGED <<phase, metaVars, reload, schedVars, running, wg, swept>>
  BY DEF ExecuteStart
<1>3. swept => Cancelled BY DEF IndInv, SweptIsLast, Cancelled
<1>4. running' \in SUBSET Loads /\ wg' \in Nat BY <1>2 DEF IndInv, TypeOK
<1>5. CASE /\ ~Cancelled /\ UNCHANGED orphans
           /\ SetJob(j, [jobs[j] EXCEPT !.pc = "run", !.row = TRUE])
           /\ busy' = IF registry[jobs[j].load] # Absent
                      THEN busy \cup {jobs[j].load} ELSE busy
  <2> DEFINE r == [jobs[j] EXCEPT !.pc = "run", !.row = TRUE]
  <2>1. r \in JobRecords /\ r.pc = "run" /\ r.load = jobs[j].load
    BY <1>1, ZenonT(30) DEF JobRecords
  <2>2. SetJob(j, r) /\ busy' = busy \cup {jobs[j].load} BY <1>1, <1>5
  <2> HIDE DEF r
  <2>3. jobs'[j] = r /\ \A i \in Jobs : i # j => jobs'[i] = jobs[i]
    BY <2>2 DEF SetJob, IndInv, TypeOK
  <2>4. OwnersHoldTheGuard' /\ NoOverlap'
    BY <1>1, <1>2, <2>1, <2>2, OwnerMoves DEF Owning
  <2>5. ShownRunningTruthful'
    BY <1>1, <2>1, <2>2, <2>3 DEF IndInv, ShownRunningTruthful
  <2>6. (wg = Cardinality(Counted))'
    <3>1. Counted' = Counted BY <1>1, <2>1, <2>3 DEF Counted
    <3> QED BY <3>1, <1>2 DEF IndInv
  <2>7. busy' \in SUBSET Loads /\ orphans' \in SUBSET Loads
    BY <1>1, <1>5, <2>2 DEF IndInv, TypeOK
  <2> QED BY <1>1, <1>2, <1>3, <1>4, <1>5, <2>1, <2>2, <2>4, <2>5, <2>6, <2>7, JobFrame
<1>6. CASE /\ SetJob(j, [jobs[j] EXCEPT !.pc = "release"])
           /\ \/ UNCHANGED orphans
              \/ ~Cancelled /\ orphans' = orphans \cup {jobs[j].load}
           /\ UNCHANGED busy
  <2> DEFINE r == [jobs[j] EXCEPT !.pc = "release"]
  <2>1. r \in JobRecords /\ r.pc = "release" /\ r.load = jobs[j].load /\ ~r.row
    BY <1>1 DEF JobRecords
  <2>2. SetJob(j, r) BY <1>6
  <2> HIDE DEF r
  <2>3. jobs'[j] = r /\ \A i \in Jobs : i # j => jobs'[i] = jobs[i]
    BY <2>2 DEF SetJob, IndInv, TypeOK
  <2>4. OwnersHoldTheGuard' /\ NoOverlap'
    BY <1>1, <1>2, <2>1, <2>2, OwnerMoves DEF Owning
  <2>5. ShownRunningTruthful'
    BY <1>1, <1>6, <2>1, <2>3 DEF IndInv, ShownRunningTruthful
  <2>6. (wg = Cardinality(Counted))'
    <3>1. Counted' = Counted BY <1>1, <2>1, <2>3 DEF Counted
    <3> QED BY <3>1, <1>2 DEF IndInv
  <2>7. busy' \in SUBSET Loads /\ orphans' \in SUBSET Loads
    BY <1>1, <1>6, SMTT(30) DEF IndInv, TypeOK
  <2> QED BY <1>1, <1>2, <1>3, <1>4, <1>6, <2>1, <2>2, <2>4, <2>5, <2>6, <2>7, JobFrame
<1> QED BY <1>5, <1>6 DEF ExecuteStart

\* No other run holds the mark that the end of a run clears.
LEMMA ExecuteEndPreserves ==
  ASSUME IndInv, NEW j \in Jobs, ExecuteEnd(j)
  PROVE  IndInv'
<1> DEFINE r == [jobs[j] EXCEPT !.pc = "release", !.row = FALSE]
<1>1. /\ jobs[j] \in JobRecords /\ jobs[j].pc = "run"
      /\ jobs[j].load \in Loads /\ registry[jobs[j].load] # Absent
  BY DEF IndInv, TypeOK, LoadsRegistered, ExecuteEnd
<1>2. r \in JobRecords /\ r.pc = "release" /\ r.load = jobs[j].load /\ ~r.row
  BY <1>1, ZenonT(30) DEF JobRecords
<1>3. /\ SetJob(j, r) /\ busy' = busy \ {jobs[j].load}
      /\ \/ UNCHANGED orphans
         \/ orphans' = IF jobs[j].row THEN orphans \cup {jobs[j].load} ELSE orphans
      /\ UNCHANGED <<phase, metaVars, reload, schedVars, running, wg, swept>>
  BY DEF ExecuteEnd
<1> HIDE DEF r
<1>4. jobs'[j] = r /\ \A i \in Jobs : i # j => jobs'[i] = jobs[i]
  BY <1>3 DEF SetJob, IndInv, TypeOK
<1>5. OwnersHoldTheGuard' /\ NoOverlap'
  BY <1>1, <1>2, <1>3, OwnerMoves DEF Owning
<1>6. ShownRunningTruthful'
  <2>1. \A i \in Jobs : i # j /\ jobs[i].pc = "run" => jobs[i].load # jobs[j].load
    BY <1>1 DEF IndInv, NoOverlap, Owning
  <2>2. \A i \in Jobs : /\ jobs'[i].pc = "run" <=> i # j /\ jobs[i].pc = "run"
                        /\ jobs'[i].pc = "run" => jobs'[i].load = jobs[i].load
    BY <1>1, <1>2, <1>4
  <2>3. busy = {jobs[i].load : i \in {k \in Jobs : jobs[k].pc = "run"}}
    BY DEF IndInv, ShownRunningTruthful
  <2>4. busy' = busy \ {jobs[j].load} BY <1>3
  <2> QED BY <2>1, <2>2, <2>3, <2>4 DEF ShownRunningTruthful
<1>7. (wg = Cardinality(Counted))'
  <2>1. Counted' = Counted BY <1>1, <1>2, <1>4, SMTT(30) DEF Counted
  <2> QED BY <2>1, <1>3 DEF IndInv
<1>8. /\ busy' \in SUBSET Loads /\ running' \in SUBSET Loads
      /\ orphans' \in SUBSET Loads /\ wg' \in Nat
  BY <1>1, <1>3 DEF IndInv, TypeOK
<1>9. swept => orphans' = orphans
  BY <1>3 DEF IndInv, NoRunningRowAfterSweep
<1> QED BY <1>1, <1>2, <1>3, <1>5, <1>6, <1>7, <1>8, <1>9, JobFrame

\* The guard is dropped by its only owner.
LEMMA ReleasePreserves ==
  ASSUME IndInv, NEW j \in Jobs, Release(j)
  PROVE  IndInv'
<1> DEFINE r == [jobs[j] EXCEPT !.pc = "done"]
<1>1. /\ jobs[j] \in JobRecords /\ jobs[j].pc = "release"
      /\ jobs[j].load \in Loads /\ registry[jobs[j].load] # Absent /\ ~jobs[j].row
  BY DEF IndInv, TypeOK, LoadsRegistered, RowsOnlyInRuns, Release
<1>2. r \in JobRecords /\ r.pc = "done" /\ r.load = jobs[j].load /\ ~r.row
  BY <1>1 DEF JobRecords
<1>3. /\ SetJob(j, r) /\ running' = running \ {jobs[j].load}
      /\ UNCHANGED <<phase, metaVars, reload, schedVars, busy, wg, orphans, swept>>
  BY DEF Release
<1> HIDE DEF r
<1>4. jobs'[j] = r /\ \A i \in Jobs : i # j => jobs'[i] = jobs[i]
  BY <1>3 DEF SetJob, IndInv, TypeOK
<1>5. OwnersHoldTheGuard'
  <2>1. \A i \in Jobs : i # j /\ jobs[i].pc \in Owning => jobs[i].load # jobs[j].load
    BY <1>1 DEF IndInv, NoOverlap, Owning
  <2> QED BY <1>2, <1>3, <1>4, <2>1 DEF IndInv, OwnersHoldTheGuard, Owning
<1>6. NoOverlap' BY <1>2, <1>4, SMTT(30) DEF IndInv, NoOverlap, Owning
<1>7. ShownRunningTruthful'
  BY <1>1, <1>2, <1>3, <1>4 DEF IndInv, ShownRunningTruthful
<1>8. (wg = Cardinality(Counted))'
  <2>1. Counted' = Counted BY <1>1, <1>2, <1>4 DEF Counted
  <2> QED BY <2>1, <1>3 DEF IndInv
<1>9. /\ busy' \in SUBSET Loads /\ running' \in SUBSET Loads
      /\ orphans' \in SUBSET Loads /\ wg' \in Nat
  BY <1>3 DEF IndInv, TypeOK
<1> QED BY <1>1, <1>2, <1>3, <1>5, <1>6, <1>7, <1>8, <1>9, JobFrame

\* The wait group loses the job it counted.
LEMMA WgDonePreserves ==
  ASSUME IndInv, NEW j \in Jobs, WgDone(j)
  PROVE  IndInv'
<1>1. FreeJob \in JobRecords /\ FreeJob.pc = "free" /\ ~FreeJob.row
  BY DEF FreeJob, JobRecords
<1>2. /\ SetJob(j, FreeJob) /\ wg' = wg - 1 /\ jobs[j].pc = "done"
      /\ UNCHANGED <<phase, metaVars, reload, schedVars, busy, running, orphans, swept>>
  BY DEF WgDone
<1>3. jobs'[j] = FreeJob /\ \A i \in Jobs : i # j => jobs'[i] = jobs[i]
  BY <1>2, SMTT(30) DEF SetJob, IndInv, TypeOK
<1>4. OwnersHoldTheGuard' /\ NoOverlap'
  BY <1>1, <1>2, <1>3 DEF IndInv, OwnersHoldTheGuard, NoOverlap, Owning
<1>5. ShownRunningTruthful'
  BY <1>1, <1>2, <1>3 DEF IndInv, ShownRunningTruthful
<1>6. Counted' = Counted \ {j} /\ j \in Counted
  BY <1>1, <1>2, <1>3 DEF Counted
<1>7. Cardinality(Counted \ {j}) = Cardinality(Counted) - 1 /\ IsFiniteSet(Counted \ {j})
  BY <1>6, CountedFinite, FS_RemoveElement
<1>8. (wg = Cardinality(Counted))' BY <1>2, <1>6, <1>7 DEF IndInv
<1>9. wg' \in Nat BY <1>6, <1>7, <1>8, FS_CardinalityType
<1>10. busy' \in SUBSET Loads /\ running' \in SUBSET Loads /\ orphans' \in SUBSET Loads
  BY <1>2 DEF IndInv, TypeOK
<1> QED BY <1>1, <1>2, <1>4, <1>5, <1>8, <1>9, <1>10, JobFrame

\* The sweep closes every row; the context has been cancelled before it.
LEMMA StopAbortPreserves ==
  ASSUME IndInv, StopAbort
  PROVE  IndInv'
<1>1. /\ phase = "aborting" /\ phase' = "stopped"
      /\ UNCHANGED <<metaVars, reload, schedVars, busy, running, wg>>
  BY DEF StopAbort
<1>2. reload["main"].pc = "idle" /\ ~swept
  BY <1>1 DEF IndInv, MainReloadsAtStart, SweptIsLast
<1>3. CASE UNCHANGED <<orphans, jobs, swept>>
  BY <1>1, <1>2, <1>3, PhaseFrame DEF jobVars
<1>4. CASE /\ orphans' = {} /\ swept' = TRUE
           /\ jobs' = [j \in Jobs |-> [jobs[j] EXCEPT !.row = FALSE]]
  <2>1. \A j \in Jobs : jobs[j] \in JobRecords BY DEF IndInv, TypeOK
  <2>2. \A j \in Jobs : /\ jobs'[j] \in JobRecords /\ ~jobs'[j].row
                        /\ jobs'[j].pc = jobs[j].pc /\ jobs'[j].load = jobs[j].load
    BY <1>4, <2>1, ZenonT(30) DEF JobRecords
  <2>3. jobs' \in [Jobs -> JobRecords] BY <1>4, <2>2
  <2>4. TypeOK' BY <1>1, <1>4, <2>3 DEF IndInv, TypeOK, metaVars, schedVars
  <2>5. /\ MainReloadsAtStart' /\ SweptIsLast' /\ NoRunningRowAfterSweep'
        /\ RowsOnlyInRuns'
    BY <1>1, <1>2, <1>4, <2>2
    DEF MainReloadsAtStart, SweptIsLast, NoRunningRowAfterSweep, RowsOnlyInRuns
  <2>6. OwnersHoldTheGuard' /\ NoOverlap' /\ ShownRunningTruthful'
    BY <1>1, <2>2 DEF IndInv, OwnersHoldTheGuard, NoOverlap, ShownRunningTruthful
  <2>7. LoadsRegistered' /\ EntriesAccounted'
    BY <1>1, <2>2 DEF IndInv, LoadsRegistered, EntriesAccounted, Known, EntryOf, schedVars
  <2>8. (wg = Cardinality(Counted))'
    <3>1. Counted' = Counted BY <2>2 DEF Counted
    <3> QED BY <3>1, <1>1 DEF IndInv
  <2> QED BY <2>4, <2>5, <2>6, <2>7, <2>8 DEF IndInv
<1> QED BY <1>3, <1>4, ZenonT(30) DEF StopAbort

\* Termination, the wait for the loops and the wait for the runs.
LEMMA PhasePreserves ==
  ASSUME IndInv, Terminate \/ StopCancel \/ StopDrained \/ StopTimeout
  PROVE  IndInv'
<1>1. /\ phase \in {"up", "term", "stopping"}
      /\ phase' \in {"term", "stopping", "aborting"}
      /\ UNCHANGED <<metaVars, reload, schedVars, jobVars, swept>>
  BY DEF Terminate, StopCancel, StopDrained, StopTimeout
<1>2. reload["main"].pc = "idle" /\ ~swept
  BY <1>1 DEF IndInv, MainReloadsAtStart, SweptIsLast
<1> QED BY <1>1, <1>2, PhaseFrame

\* A new process satisfies the invariant.
LEMMA InitEstablishes == Init => IndInv
<1> SUFFICES ASSUME Init PROVE IndInv OBVIOUS
<1>1. FreeJob \in JobRecords /\ FreeJob.pc = "free" /\ ~FreeJob.row
  BY DEF FreeJob, JobRecords
<1>2. NotScheduled \in [cfg : Configs \cup {Absent}, entry : Nat] /\ NotScheduled.cfg = Absent
  BY DEF NotScheduled
<1>3. \A h \in Histories : 1 \in 1..Len(h)
  BY HistoryAssumption, SMTT(30)
<1>4. TypeOK
  BY <1>1, <1>2, <1>3, ReloadTypes, ZenonT(30) DEF Init, TypeOK, LoadTables, Fingerprints
<1>5. /\ MainReloadsAtStart /\ OwnersHoldTheGuard /\ SweptIsLast /\ RowsOnlyInRuns
      /\ NoOverlap /\ EntriesAccounted /\ NoRunningRowAfterSweep
  BY <1>1, ReloadTypes, ZenonT(30)
  DEF Init, MainReloadsAtStart, OwnersHoldTheGuard, SweptIsLast, RowsOnlyInRuns,
      NoOverlap, EntriesAccounted, NoRunningRowAfterSweep, Owning, Actors
<1>6. LoadsRegistered /\ ShownRunningTruthful
  BY <1>1, <1>2 DEF Init, LoadsRegistered, ShownRunningTruthful, Known
<1>7. wg = Cardinality(Counted)
  <2>1. Counted = {} BY <1>1 DEF Init, Counted
  <2> QED BY <2>1, FS_EmptySet DEF Init
<1> QED BY <1>4, <1>5, <1>6, <1>7 DEF IndInv

\* Every step of the scheduler keeps the invariant.
LEMMA StepPreserves == IndInv /\ [Next]_vars => IndInv'
<1> SUFFICES ASSUME IndInv, [Next]_vars PROVE IndInv' OBVIOUS
<1>1. CASE EditMetadata BY <1>1, EditPreserves
<1>2. CASE LoadAbortOrphans \/ LoadError BY <1>2, LoadPreserves
<1>3. CASE Terminate \/ StopCancel \/ StopDrained \/ StopTimeout BY <1>3, PhasePreserves
<1>4. CASE StopAbort BY <1>4, StopAbortPreserves
<1>5. ASSUME NEW a \in Actors,
             ReloadSources(a) \/ ReloadStep(a) \/ ReloadError(a) \/ LoopExit(a)
      PROVE  IndInv'
  BY <1>5, ReloadReadPreserves, ReloadApplyPreserves DEF ReloadStep
<1>6. ASSUME NEW j \in Jobs, Fire(j) \/ JobStep(j)
      PROVE  IndInv'
  BY <1>6, FirePreserves, ClaimPreserves, WgAddPreserves, ExecuteStartPreserves, SMTT(30),
     ExecuteEndPreserves, ReleasePreserves, WgDonePreserves DEF JobStep
<1>7. CASE UNCHANGED vars
  <2>1. TypeOK' BY <1>7, SMTT(30) DEF IndInv, TypeOK, vars, metaVars, schedVars, jobVars
  <2>2. MainReloadsAtStart' /\ SweptIsLast' /\ NoRunningRowAfterSweep'
    BY <1>7 DEF IndInv, MainReloadsAtStart, SweptIsLast, NoRunningRowAfterSweep,
                vars, jobVars
  <2> QED BY <1>7, <2>1, <2>2, ScheduleFrame, SMTT(30) DEF IndInv, vars, jobVars
<1> QED BY <1>1, <1>2, <1>3, <1>4, <1>5, <1>6, <1>7 DEF Next, StopStep

\* The inductive invariant holds of every behaviour of the scheduler, for any
\* sets of loads, row contents and edit histories and any finite set of jobs.
THEOREM Invariance == Spec => []IndInv
BY InitEstablishes, StepPreserves, PTL DEF Spec

\* Rule 5: two goroutines never run the same load at once.
THEOREM NoOverlapTheorem == Spec => []NoOverlap
<1>1. IndInv => NoOverlap BY DEF IndInv
<1> QED BY Invariance, <1>1, PTL

\* The cron library holds no entry the scheduler does not know.
THEOREM EntriesTheorem == Spec => []EntriesAccounted
<1>1. IndInv => EntriesAccounted BY DEF IndInv
<1> QED BY Invariance, <1>1, PTL

\* No row is or becomes "running" once Stop has swept the run history.
THEOREM SweepTheorem == Spec => []NoRunningRowAfterSweep
<1>1. IndInv => NoRunningRowAfterSweep BY DEF IndInv
<1> QED BY Invariance, <1>1, PTL

\* The status endpoint shows exactly the loads whose run is in progress.
THEOREM ShownTheorem == Spec => []ShownRunningTruthful
<1>1. IndInv => ShownRunningTruthful BY DEF IndInv
<1> QED BY Invariance, <1>1, PTL

\* When Stop goes on because the wait group is empty, no run is in progress.
THEOREM DrainTheorem == Spec => DrainedMeansIdle
<1>1. IndInv /\ StopDrained => \A j \in Jobs : jobs[j].pc # "run"
  <2> SUFFICES ASSUME IndInv, StopDrained PROVE \A j \in Jobs : jobs[j].pc # "run"
    OBVIOUS
  <2>1. Cardinality(Counted) = 0 BY DEF IndInv, StopDrained
  <2>2. Counted = {} BY <2>1, CountedFinite, FS_EmptySet
  <2> QED BY <2>2 DEF Counted
<1>2. IndInv /\ [Next]_vars =>
        [StopDrained => \A j \in Jobs : jobs[j].pc # "run"]_vars
  BY <1>1
<1> QED BY Invariance, <1>2, PTL DEF Spec, DrainedMeansIdle

(***************************************************************************)
(* What a stored fingerprint vouches for.  ReloadInv is inductive relative *)
(* to IndInv.                                                              *)
(***************************************************************************)
\* The contents of the history, up to the current one.
LEMMA ContentType ==
  ASSUME TypeOK
  PROVE  /\ at \in Nat /\ at \in 1..Len(history) /\ Len(history) \in Nat
         /\ \A i \in 1..at : i \in 1..Len(history) /\ history[i] \in Metadata
<1>1. history \in Seq(Metadata) /\ at \in 1..Len(history)
  BY HistoryAssumption DEF TypeOK
<1>2. Len(history) \in Nat BY <1>1
<1>3. \A i \in 1..at : i \in 1..Len(history) BY <1>1, <1>2
<1> QED BY <1>1, <1>2, <1>3

\* An actor that does not move has read what it had read.
LEMMA ReadsStay ==
  ASSUME NEW a \in Actors, Reads(a), UNCHANGED metaVars, reload'[a] = reload[a]
  PROVE  Reads(a)'
<1>1. history' = history /\ at' = at BY DEF metaVars
<1>2. /\ \A i : ReadSources(a, i) => ReadSources(a, i)'
      /\ \A i, k : ReadTables(a, i, k) => ReadTables(a, i, k)'
      /\ \A m : Current(m) => Current(m)'
  BY <1>1 DEF ReadSources, ReadTables, Current
<1>3. \A m : (EnabledLoads(history[m]))' = EnabledLoads(history[m]) BY <1>1 DEF EnabledLoads
<1> QED BY <1>1, <1>2, <1>3 DEF Reads

\* A resting actor has read nothing.
LEMMA RestingReads ==
  ASSUME NEW a \in Actors, reload'[a].pc \in {"idle", "exited"}
  PROVE  Reads(a)'
BY DEF Reads

\* An edit comes inside a reload only in a racing history.
LEMMA EditReads ==
  ASSUME IndInv, ReadsInOrder, EditMetadata
  PROVE  ReadsInOrder'
<1>1. /\ at \in Nat /\ at' = at + 1 /\ history' = history /\ reload' = reload
  BY ContentType DEF IndInv, EditMetadata
<1>2. 1..at \in SUBSET (1..at') BY <1>1
<1> SUFFICES ASSUME NEW a \in Actors PROVE Reads(a)'
  BY DEF ReadsInOrder
<1>3. CASE reload[a].pc \in {"idle", "exited"}
  BY <1>1, <1>3, RestingReads
<1>4. CASE history \in Racing
  <2>1. Reads(a) BY DEF ReadsInOrder
  <2> QED BY <1>1, <1>2, <1>4, <2>1 DEF Reads, ReadSources, ReadTables, Current
<1> QED BY <1>3, <1>4 DEF EditMetadata

\* One actor moves on in Reload.
LEMMA MoveReads ==
  ASSUME IndInv, ReadsInOrder, NEW a \in Actors, NEW r, SetReload(a, r), UNCHANGED metaVars,
         reload'[a] = r => Reads(a)'
  PROVE  ReadsInOrder'
<1>1. reload'[a] = r /\ \A b \in Actors : b # a => reload'[b] = reload[b]
  BY DEF SetReload, IndInv, TypeOK
<1> QED BY <1>1, ReadsStay DEF ReadsInOrder

\* The steps of Reload that read, and those that give up.
LEMMA StepReads ==
  ASSUME IndInv, ReadsInOrder, NEW a \in Actors,
         \/ (LoadAbortOrphans /\ a = "main") \/ ReloadSources(a) \/ ReloadFingerprint(a)
         \/ ReloadCheck(a) \/ ReloadList(a) \/ ReloadApply(a) \/ ReloadError(a) \/ LoopExit(a)
  PROVE  ReadsInOrder'
<1>1. at \in 1..at /\ at \in Nat /\ Reads(a) /\ reload[a] \in ReloadRecords
  BY ContentType DEF IndInv, TypeOK, ReadsInOrder
<1>2. UNCHANGED metaVars
  BY DEF LoadAbortOrphans, ReloadSources, ReloadFingerprint, ReloadCheck, ReloadList,
         ReloadApply, ReloadError, LoopExit
<1>3. CASE (LoadAbortOrphans /\ a = "main") \/ ReloadSources(a)
  <2> DEFINE r == [Resting EXCEPT !.pc = "sources", !.enabled = Meta.enabled]
  <2>1. r.pc = "sources" /\ r.enabled = Meta.enabled BY DEF Resting
  <2>2. SetReload(a, r) BY <1>3 DEF LoadAbortOrphans, ReloadSources
  <2> HIDE DEF r
  <2>3. ASSUME reload'[a] = r PROVE Reads(a)'
    <3>1. ReadSources(a, at)' BY <1>2, <2>1, <2>3 DEF ReadSources, Current, Meta, metaVars
    <3> QED BY <1>1, <1>2, <2>1, <2>3, <3>1 DEF Reads, metaVars
  <2> QED BY <1>2, <2>2, <2>3, MoveReads
<1>4. CASE ReloadFingerprint(a)
  <2> DEFINE r == [reload[a] EXCEPT !.pc = "check", !.seen = <<reload[a].enabled, Meta.loads>>]
  <2>1. r.pc = "check" /\ r.seen = <<reload[a].enabled, Meta.loads>>
    BY <1>1 DEF ReloadRecords
  <2>2. SetReload(a, r) /\ reload[a].pc = "sources" BY <1>4 DEF ReloadFingerprint
  <2> HIDE DEF r
  <2>3. PICK i \in 1..at : ReadSources(a, i) BY <1>1, <2>2 DEF Reads
  <2>4. ASSUME reload'[a] = r PROVE Reads(a)'
    <3>1. ReadTables(a, i, at)'
      <4>1. history' = history /\ at' = at /\ reload'[a].seen = <<history[i].enabled, history[at].loads>>
        BY <1>2, <2>1, <2>3, <2>4 DEF ReadSources, Meta, metaVars
      <4>2. i <= at /\ Current(i) BY <1>1, <2>3 DEF ReadSources
      <4> QED BY <4>1, <4>2 DEF ReadTables, Current
    <3> QED BY <1>1, <1>2, <2>1, <2>4, <3>1 DEF Reads, metaVars
  <2> QED BY <1>2, <2>2, <2>4, MoveReads
<1>5. ASSUME SetReload(a, Resting) PROVE ReadsInOrder'
  <2>1. Resting.pc = "idle" BY DEF Resting
  <2> QED BY <1>2, <1>5, <2>1, RestingReads, MoveReads
<1>6. CASE ReloadCheck(a) /\ reload[a].seen # fingerprint
  <2> DEFINE r == [reload[a] EXCEPT !.pc = "list"]
  <2>1. r.pc = "list" /\ r.seen = reload[a].seen BY <1>1 DEF ReloadRecords
  <2>2. SetReload(a, r) /\ reload[a].pc = "check" BY <1>6 DEF ReloadCheck
  <2> HIDE DEF r
  <2>3. PICK i, k \in 1..at : ReadTables(a, i, k) BY <1>1, <2>2 DEF Reads
  <2>4. ASSUME reload'[a] = r PROVE Reads(a)'
    <3>1. history' = history /\ at' = at /\ reload'[a].seen = reload[a].seen
      BY <1>2, <2>1, <2>4 DEF metaVars
    <3>2. ReadTables(a, i, k)' BY <2>3, <3>1 DEF ReadTables, Current
    <3> QED BY <2>1, <2>4, <3>1, <3>2 DEF Reads
  <2> QED BY <1>2, <2>2, <2>4, MoveReads
<1>7. CASE ReloadList(a)
  <2> DEFINE r == [reload[a] EXCEPT !.pc = "apply", !.list = EnabledLoads(Meta)]
  <2>1. r.pc = "apply" /\ r.list = EnabledLoads(Meta) /\ r.seen = reload[a].seen
    BY <1>1, ZenonT(30) DEF ReloadRecords
  <2>2. SetReload(a, r) /\ reload[a].pc = "list" BY <1>7 DEF ReloadList
  <2> HIDE DEF r
  <2>3. PICK i, k \in 1..at : ReadTables(a, i, k) BY <1>1, <2>2 DEF Reads
  <2>4. ASSUME reload'[a] = r PROVE Reads(a)'
    <3>1. ReadTables(a, i, k)'
      <4>1. history' = history /\ at' = at /\ reload'[a].seen = reload[a].seen
        BY <1>2, <2>1, <2>4 DEF metaVars
      <4> QED BY <2>3, <4>1 DEF ReadTables, Current
    <3>2. k <= at /\ Current(at)' /\ reload'[a].list = EnabledLoads(history[at])'
      <4>1. history' = history /\ at' = at BY <1>2 DEF metaVars
      <4>2. k <= at /\ Current(at) BY <1>1, <2>3 DEF Current
      <4>3. reload'[a].list = EnabledLoads(history[at])' BY <2>1, <2>4, <4>1 DEF EnabledLoads, Meta
      <4> QED BY <4>1, <4>2, <4>3 DEF Current
    <3> QED BY <1>1, <1>2, <2>1, <2>4, <3>1, <3>2 DEF Reads, metaVars
  <2> QED BY <1>2, <2>2, <2>4, MoveReads
<1>8. CASE LoopExit(a)
  <2> DEFINE r == [Resting EXCEPT !.pc = "exited"]
  <2>1. r.pc = "exited" BY DEF Resting
  <2>2. SetReload(a, r) BY <1>8 DEF LoopExit
  <2> HIDE DEF r
  <2> QED BY <1>2, <2>1, <2>2, RestingReads, MoveReads
<1> QED BY <1>3, <1>4, <1>5, <1>6, <1>7, <1>8 DEF ReloadCheck, ReloadApply, ReloadError

\* While the schedule stays, an edit does not change what it rests on.
LEMMA ScheduleStays ==
  ASSUME IndInv, EntryOrBroken, FollowsLaterContent, UNCHANGED <<history, schedVars>>,
         at' = at \/ at' = at + 1
  PROVE  EntryOrBroken' /\ FollowsLaterContent'
<1>1. at \in Nat BY ContentType DEF IndInv
<1>2. 1..at \in SUBSET (1..at') /\ \A i \in 1..at : i..at \in SUBSET (i..at') BY <1>1
<1>3. /\ history' = history /\ scheduled' = scheduled /\ entries' = entries
      /\ fingerprint' = fingerprint
  BY DEF schedVars
<1>4. EntryOrBroken'
  <2> SUFFICES ASSUME NEW l \in Loads, Known(l) PROVE Intact(l)'
    BY <1>3 DEF EntryOrBroken, Intact, Known
  <2>1. Intact(l) BY DEF EntryOrBroken
  <2>2. PICK i \in 1..at :
          /\ HasCron(history, i, l, scheduled[l].cfg.cron)
          /\ EntryOf(l) \in entries \/ \E k \in i..at : Broken(history, k, l)
    BY <2>1 DEF Intact
  <2>3. /\ HasCron(history, i, l, scheduled[l].cfg.cron)' /\ EntryOf(l)' = EntryOf(l)
        /\ \A k : Broken(history, k, l) => Broken(history, k, l)'
    BY <1>3, <2>2 DEF HasCron, RowAt, Broken, EntryOf
  <2>4. scheduled[l].cfg.cron \in ValidCrons BY <2>1 DEF Intact
  <2> QED BY <1>2, <1>3, <2>2, <2>3, <2>4 DEF Intact
<1>5. FollowsLaterContent'
  <2>1. ASSUME NEW m, Follows(EnabledLoads(history[m])) PROVE Follows(EnabledLoads(history[m]))'
    BY <1>3, <2>1 DEF Follows, FollowsRow, EntryOf, EnabledLoads
  <2> QED BY <1>2, <1>3, <2>1 DEF FollowsLaterContent
<1> QED BY <1>4, <1>5

\* The locked part of Reload, with the rows `want`, as far as the schedule goes.
Applying(want) ==
  /\ scheduled' = [m \in Loads |-> Applied(want, m)]
  /\ entries' = (entries \ Stale(want)) \cup
                  {<<m, added[m] + 1>> : m \in {n \in Loads : Adds(want, n)}}

\* A load whose expression stays keeps its entry.
LEMMA KeepsLoad ==
  ASSUME NEW want, Applying(want), NEW l \in Loads, Keeps(want, l)
  PROVE  /\ scheduled'[l].cfg = want[l] /\ EntryOf(l)' = EntryOf(l)
         /\ EntryOf(l) \in entries => EntryOf(l) \in entries'
<1>1. ~Removes(want, l) /\ ~Replaces(want, l) BY DEF Removes, Keeps, Replaces
<1>2. \A m \in Loads : EntryOf(m) = EntryOf(l) => m = l BY DEF EntryOf
<1>3. EntryOf(l) \notin Stale(want) BY <1>1, <1>2 DEF Stale
<1>4. scheduled'[l] = [cfg |-> want[l], entry |-> scheduled[l].entry]
  BY <1>1 DEF Applying, Applied
<1>5. PICK c, n : c = want[l] /\ n = scheduled[l].entry OBVIOUS
<1>6. scheduled'[l] = [cfg |-> c, entry |-> n] BY <1>4, <1>5
<1>7. scheduled'[l].cfg = c /\ scheduled'[l].entry = n BY <1>6
<1> QED BY <1>3, <1>5, <1>7 DEF Applying, EntryOf

\* A load that is added or rescheduled gets a new entry.
LEMMA AddsLoad ==
  ASSUME NEW want, Applying(want), NEW l \in Loads, Adds(want, l)
  PROVE  scheduled'[l].cfg = want[l] /\ EntryOf(l)' \in entries'
<1>1. ~Removes(want, l) /\ ~Keeps(want, l) BY DEF Removes, Keeps, Adds, Replaces
<1>2. scheduled'[l] = [cfg |-> want[l], entry |-> added[l] + 1]
  BY <1>1 DEF Applying, Applied
<1>3. scheduled'[l].cfg = want[l] /\ scheduled'[l].entry = added[l] + 1 BY <1>2
<1>4. <<l, added[l] + 1>> \in entries' BY DEF Applying
<1> QED BY <1>3, <1>4 DEF EntryOf

\* A load that is neither kept nor added is left without an entry.
LEMMA DropsLoad ==
  ASSUME IndInv, NEW want, Applying(want), NEW l \in Loads, ~Keeps(want, l), ~Adds(want, l)
  PROVE  /\ Known(l)' => scheduled'[l] = scheduled[l] /\ ~Removes(want, l)
         /\ \A e \in entries' : e[1] # l
<1>1. scheduled'[l] = IF Removes(want, l) THEN NotScheduled ELSE scheduled[l]
  BY DEF Applying, Applied
<1>2. ASSUME NEW e \in entries' PROVE e[1] # l
  <2>1. CASE e \in {<<m, added[m] + 1>> : m \in {n \in Loads : Adds(want, n)}}
    <3>1. PICK m \in Loads : Adds(want, m) /\ e = <<m, added[m] + 1>> BY <2>1
    <3> QED BY <3>1
  <2>2. CASE e \in entries /\ e \notin Stale(want) /\ e[1] = l
    <3>1. Known(l) /\ e = EntryOf(l) BY <2>2 DEF IndInv, EntriesAccounted
    <3>2. Removes(want, l) \/ Replaces(want, l)
      BY <3>1 DEF Removes, Keeps, Replaces
    <3> QED BY <2>2, <3>1, <3>2 DEF Stale
  <2> QED BY <2>1, <2>2 DEF Applying
<1>3. scheduled'[l] = NotScheduled => ~Known(l)' BY DEF Known, NotScheduled
<1> QED BY <1>1, <1>2, <1>3

\* The rows listed from content m leave the schedule as content m asks.
LEMMA ApplyLoad ==
  ASSUME IndInv, Orderly, EntryOrBroken, NEW a \in Actors, ReloadApply(a), NEW l \in Loads,
         NEW m \in 1..at, Current(m), reload[a].list = EnabledLoads(history[m]),
         NEW row, row = EnabledLoads(history[m])[l]
  PROVE  FollowsRow(row, l)' /\ Intact(l)'
<1> DEFINE want == reload[a].list
<1>0. Applying(want) BY DEF ReloadApply, Applying
<1>1. want[l] = row OBVIOUS
<1>2. row # Absent => RowAt(history, m, l) = row
  BY DEF EnabledLoads, RowAt
<1> HIDE DEF want
<1>3. /\ at \in Nat /\ m \in 1..Len(history) /\ at \in 1..Len(history)
      /\ \A i \in 1..at : i \in 1..Len(history)
  BY ContentType DEF IndInv
<1>4. history' = history /\ at' = at BY DEF ReloadApply, metaVars
<1>5. ASSUME row # Absent, row.cron \in ValidCrons, scheduled'[l].cfg = row,
             EntryOf(l)' \in entries'
      PROVE  FollowsRow(row, l)' /\ Intact(l)'
  <2>1. HasCron(history, m, l, row.cron)' BY <1>2, <1>4, <1>5 DEF HasCron, RowAt
  <2> QED BY <1>4, <1>5, <2>1 DEF FollowsRow, Intact
<1>6. CASE Keeps(want, l)
  <2>1. /\ scheduled'[l].cfg = row /\ EntryOf(l)' = EntryOf(l)
        /\ EntryOf(l) \in entries => EntryOf(l) \in entries'
    BY <1>0, <1>1, <1>6, KeepsLoad
  <2>2. Known(l) /\ row # Absent /\ row.cron = scheduled[l].cfg.cron
    BY <1>1, <1>6 DEF Keeps
  <2>3. Intact(l) BY DEF EntryOrBroken
  <2>4. row.cron \in ValidCrons BY <2>2, <2>3 DEF Intact
  <2>5. PICK i \in 1..at :
          /\ HasCron(history, i, l, row.cron)
          /\ EntryOf(l) \in entries \/ \E k \in i..at : Broken(history, k, l)
    BY <2>2, <2>3 DEF Intact
  <2>6. HasCron(history, m, l, row.cron) BY <1>2, <2>2 DEF HasCron
  <2>7. EntryOf(l) \in entries
    <3> SUFFICES ASSUME NEW k \in i..at, Broken(history, k, l) PROVE FALSE
      BY <2>5
    <3>1. k \in 1..Len(history) /\ i \in 1..Len(history) /\ i <= k /\ k <= at BY <1>3
    <3>2. CASE history \in Racing BY <3>1, <3>2 DEF Orderly, OneWay
    <3>3. CASE history \notin Racing
      <4>1. m = at /\ NoRepair(history) BY <3>3 DEF Current, Orderly
      <4> QED BY <1>3, <2>4, <2>5, <2>6, <3>1, <4>1 DEF NoRepair
    <3> QED BY <3>2, <3>3
  <2> QED BY <1>5, <2>1, <2>2, <2>4, <2>7
<1>7. CASE Adds(want, l)
  <2>1. scheduled'[l].cfg = row /\ EntryOf(l)' \in entries' BY <1>0, <1>1, <1>7, AddsLoad
  <2> QED BY <1>1, <1>5, <1>7, <2>1 DEF Adds
<1>8. CASE ~Keeps(want, l) /\ ~Adds(want, l)
  <2>1. /\ Known(l)' => scheduled'[l] = scheduled[l] /\ ~Removes(want, l)
        /\ \A e \in entries' : e[1] # l
    BY <1>0, <1>8, DropsLoad
  <2>2. ~(row # Absent /\ row.cron \in ValidCrons)
    BY <1>1, <1>8 DEF Keeps, Adds, Replaces
  <2>3. FollowsRow(row, l)' BY <2>1, <2>2 DEF FollowsRow
  <2>4. ASSUME Known(l)' PROVE Intact(l)'
    <3>1. scheduled'[l] = scheduled[l] /\ ~Removes(want, l) BY <2>1, <2>4
    <3>2. Known(l) /\ row # Absent /\ row.cron \notin ValidCrons
      BY <1>1, <2>2, <2>4, <3>1 DEF Known, Removes
    <3>3. Broken(history, m, l) BY <1>2, <3>2 DEF Broken
    <3>4. m = at BY <1>3, <3>3 DEF Orderly, OneWay, Current
    <3>5. Intact(l) BY DEF EntryOrBroken
    <3>6. scheduled[l].cfg.cron \in ValidCrons BY <3>2, <3>5 DEF Intact
    <3>7. PICK i \in 1..at : HasCron(history, i, l, scheduled[l].cfg.cron)
      BY <3>2, <3>5 DEF Intact
    <3>8. m \in i..at BY <1>3, <3>4
    <3>9. HasCron(history, i, l, scheduled[l].cfg.cron)' /\ Broken(history, m, l)'
      BY <1>4, <3>1, <3>3, <3>7 DEF HasCron, RowAt, Broken
    <3> QED BY <1>4, <3>1, <3>6, <3>8, <3>9 DEF Intact
  <2> QED BY <2>3, <2>4 DEF Intact
<1> QED BY <1>6, <1>7, <1>8

\* The locked part of Reload brings the schedule in line with the rows listed.
LEMMA ApplyFollows ==
  ASSUME IndInv, Orderly, ReadsInOrder, EntryOrBroken, NEW a \in Actors, ReloadApply(a)
  PROVE  EntryOrBroken' /\ FollowsLaterContent'
<1>1. reload[a].pc = "apply" /\ fingerprint' = reload[a].seen /\ UNCHANGED metaVars
  BY DEF ReloadApply, NewFingerprint
<1>2. PICK i, k, m \in 1..at :
        /\ ReadTables(a, i, k) /\ k <= m /\ Current(m)
        /\ reload[a].list = EnabledLoads(history[m])
  BY <1>1 DEF ReadsInOrder, Reads
<1>3. PICK rows : rows = EnabledLoads(history[m]) OBVIOUS
<1>4. ASSUME NEW l \in Loads PROVE FollowsRow(rows[l], l)' /\ Intact(l)'
  <2>1. PICK row : row = EnabledLoads(history[m])[l] OBVIOUS
  <2>2. FollowsRow(row, l)' /\ Intact(l)' BY <1>2, <2>1, ApplyLoad
  <2>3. row = rows[l] BY <1>3, <2>1
  <2> QED BY <2>2, <2>3 DEF FollowsRow
<1>5. (EnabledLoads(history[m]))' = rows BY <1>1, <1>3 DEF EnabledLoads, metaVars
<1>6. Follows(EnabledLoads(history[m]))' BY <1>4, <1>5 DEF Follows
<1>7. FollowsLaterContent'
  BY <1>1, <1>2, <1>6 DEF FollowsLaterContent, ReadTables, Current, metaVars
<1> QED BY <1>4, <1>7 DEF EntryOrBroken

\* Steps that neither read for a reload nor apply it.
LEMMA OtherSteps ==
  ASSUME IndInv, ReadsInOrder, EntryOrBroken, FollowsLaterContent,
         UNCHANGED <<metaVars, reload, schedVars>>
  PROVE  ReadsInOrder' /\ EntryOrBroken' /\ FollowsLaterContent'
<1>1. ReadsInOrder' BY ReadsStay DEF ReadsInOrder
<1> QED BY <1>1, ScheduleStays DEF metaVars

LEMMA ReloadInit == Init => ReloadInv
<1> SUFFICES ASSUME Init PROVE ReloadInv OBVIOUS
<1>1. \A a \in Actors : reload[a].pc = "idle" BY DEF Init, Resting
<1>2. \A l \in Loads : ~Known(l) BY DEF Init, Known, NotScheduled
<1> QED BY <1>1, <1>2
  DEF Init, ReloadInv, ReadsInOrder, Reads, EntryOrBroken, Intact, FollowsLaterContent

\* Every step of the scheduler preserves ReloadInv.
LEMMA ReloadStepPreserves ==
  ASSUME IndInv, ReloadInv, [Next]_vars
  PROVE  ReloadInv'
<1>0. history' = history
  BY DEF Next, vars, metaVars, EditMetadata, LoadAbortOrphans, LoadError, Terminate, StopStep,
         StopCancel, StopDrained, StopTimeout, StopAbort, ReloadSources, ReloadStep,
         ReloadFingerprint, ReloadCheck, ReloadList, ReloadApply, ReloadError, LoopExit,
         Fire, JobStep, Claim, WgAdd, ExecuteStart, ExecuteEnd, Release, WgDone
<1> SUFFICES ASSUME Orderly PROVE ReadsInOrder' /\ EntryOrBroken' /\ FollowsLaterContent'
  BY <1>0 DEF ReloadInv, Orderly
<1>1. ReadsInOrder /\ EntryOrBroken /\ FollowsLaterContent BY DEF ReloadInv
<1>2. CASE EditMetadata
  <2>1. UNCHANGED <<history, schedVars>> /\ at' = at + 1 BY <1>2 DEF EditMetadata
  <2> QED BY <1>1, <1>2, <2>1, EditReads, ScheduleStays
<1>3. CASE LoadAbortOrphans
  <2>1. "main" \in Actors BY DEF Actors
  <2>2. UNCHANGED <<history, schedVars>> /\ at' = at BY <1>3 DEF LoadAbortOrphans, metaVars
  <2> QED BY <1>1, <1>3, <2>1, <2>2, StepReads, ScheduleStays
<1>4. ASSUME NEW a \in Actors,
             ReloadSources(a) \/ ReloadStep(a) \/ ReloadError(a) \/ LoopExit(a)
      PROVE  ReadsInOrder' /\ EntryOrBroken' /\ FollowsLaterContent'
  <2>1. ReadsInOrder' BY <1>1, <1>4, StepReads DEF ReloadStep
  <2>2. CASE ReloadApply(a) BY <1>1, <2>1, <2>2, ApplyFollows
  <2>3. CASE ~ReloadApply(a)
    <3>1. UNCHANGED <<history, schedVars>> /\ at' = at
      BY <1>4, <2>3 DEF ReloadSources, ReloadStep, ReloadFingerprint, ReloadCheck, ReloadList,
                        ReloadError, LoopExit, metaVars
    <3> QED BY <1>1, <2>1, <3>1, ScheduleStays
  <2> QED BY <2>2, <2>3
<1>5. ASSUME NEW j \in Jobs, Fire(j) \/ JobStep(j)
      PROVE  UNCHANGED <<metaVars, reload, schedVars>>
  BY <1>5 DEF Fire, JobStep, Claim, WgAdd, ExecuteStart, ExecuteEnd, Release, WgDone
<1>6. CASE LoadError \/ Terminate \/ StopStep \/ UNCHANGED vars
  <2>1. UNCHANGED <<metaVars, reload, schedVars>>
    BY <1>6 DEF LoadError, Terminate, StopStep, StopCancel, StopDrained, StopTimeout,
                StopAbort, vars
  <2> QED BY <1>1, <2>1, OtherSteps
<1> QED BY <1>1, <1>2, <1>3, <1>4, <1>5, <1>6, OtherSteps DEF Next

\* A fingerprint that is current was read from contents whose tables have not
\* changed since, so the rows listed later are the current ones.
LEMMA Vouches ==
  ASSUME IndInv, ReloadInv
  PROVE  FingerprintVouches
<1> SUFFICES ASSUME Orderly, fingerprint = <<Meta.enabled, Meta.loads>> PROVE Converged
  BY DEF FingerprintVouches
<1>1. fingerprint # <<>> OBVIOUS
<1>2. PICK i, k, m \in 1..at :
        /\ i <= k /\ k <= m /\ (history \in Racing \/ (i = m /\ k = m))
        /\ fingerprint = <<history[i].enabled, history[k].loads>>
        /\ Follows(EnabledLoads(history[m]))
  BY <1>1 DEF ReloadInv, FollowsLaterContent
<1>3. /\ at \in Nat /\ at \in 1..Len(history)
      /\ \A n \in 1..at : n \in 1..Len(history) /\ history[n] \in Metadata
  BY ContentType DEF IndInv
<1>4. history[i].enabled = history[at].enabled /\ history[k].loads = history[at].loads
  BY <1>2 DEF Meta
<1>5. history[m].enabled = history[at].enabled /\ history[m].loads = history[at].loads
  <2>1. CASE history \in Racing
    <3>1. OneWay(history) BY <2>1 DEF Orderly
    <3>2. /\ i \in 1..Len(history) /\ k \in 1..Len(history) /\ m \in 1..Len(history)
          /\ i <= m /\ k <= m /\ m <= at
      BY <1>2, <1>3
    <3> QED BY <1>3, <1>4, <3>1, <3>2 DEF OneWay
  <2> QED BY <1>2, <1>4, <2>1
<1> QED BY <1>2, <1>5 DEF Converged, Meta, EnabledLoads

\* Reload's early return skips nothing: under a stored fingerprint that is
\* current, the schedule is the one the metadata asks for.
THEOREM FingerprintTheorem == Spec => []FingerprintVouches
<1>1. Init => IndInv /\ ReloadInv BY InitEstablishes, ReloadInit
<1>2. IndInv /\ ReloadInv /\ [Next]_vars => (IndInv /\ ReloadInv)'
  BY StepPreserves, ReloadStepPreserves
<1>3. IndInv /\ ReloadInv => FingerprintVouches BY Vouches
<1> QED BY <1>1, <1>2, <1>3, PTL DEF Spec
=============================================================================
