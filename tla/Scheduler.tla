----------------------------- MODULE Scheduler -----------------------------
(***************************************************************************)
(* The scheduler: reconciliation of cron entries with the metadata by the  *)
(* SIGHUP loop and the poll loop of the reload coordinator, the overlap    *)
(* guard of trigger, and the shutdown sequence of the loader process.      *)
(*                                                                         *)
(* The metadata takes the successive values of a history, one per          *)
(* committed edit.  The fingerprint is the content of the source and load  *)
(* tables (the code hashes it), read one table at a time.  A run is        *)
(* reduced to its history row and its mark in the run state registry; what *)
(* happens between the two is module DeltaLoad.                            *)
(***************************************************************************)
EXTENDS Integers, Sequences, FiniteSets

CONSTANTS Loads,      \* load ids
          Configs,    \* load rows: records with a field cron
          Absent,     \* a load that does not exist or is disabled
          ValidCrons, \* cron expressions AddFunc accepts
          Histories,  \* sequences of metadata contents
          Racing,     \* those of them whose edits may land inside a Reload
          Jobs        \* bound: goroutines the cron library has running at once

LoadTables == [Loads -> Configs \cup {Absent}]
Metadata == [enabled : BOOLEAN, loads : LoadTables]
Fingerprints == {<<>>} \cup (BOOLEAN \X LoadTables)

ASSUME AbsentAssumption == Absent \notin Configs
ASSUME JobsAssumption == IsFiniteSet(Jobs)
ASSUME HistoryAssumption ==
  /\ Histories # {}
  /\ \A h \in Histories : h # <<>> /\ h \in Seq(Metadata)

Loops  == {"sighup", "poll"}         \* goroutines of reload.Coordinator
Actors == Loops \cup {"main"}        \* main reloads once, in Load

VARIABLES
  phase,       \* the process: "start", "up", "term", "stopping", "aborting",
               \* "stopped", or "exit" when the startup failed
  history, at, \* the metadata is history[at]
  reload,      \* reload[a]: where actor a is inside Reload, and what it read
  scheduled,   \* Scheduler.scheduled: the load's row and its cron entry
  fingerprint, \* Scheduler.fingerprint; <<>> before the first reload
  entries,     \* entries of the cron library: <<load, number>>
  added,       \* AddFunc calls that succeeded, per load
  registry,    \* runstate.Registry: the row last registered for the load
  busy,        \* loads the registry shows as currently running
  running,     \* Scheduler.running
  jobs,        \* goroutines started by the cron library
  wg,          \* the counter of Scheduler.wg
  orphans,     \* loads with a row left "running" by a run that is over
  swept        \* AbortRunningRuns has succeeded during Stop

metaVars == <<history, at>>
schedVars == <<scheduled, fingerprint, entries, added, registry>>
jobVars == <<busy, running, jobs, wg, orphans>>
vars == <<phase, metaVars, reload, schedVars, jobVars, swept>>

NotScheduled == [cfg |-> Absent, entry |-> 0]
FreeJob == [pc |-> "free", load |-> Absent, row |-> FALSE]
Resting == [pc |-> "idle", enabled |-> FALSE, seen |-> <<>>, list |-> <<>>]
Meta == history[at]

ReloadRecords ==
  [pc : {"idle", "sources", "check", "list", "apply", "exited"},
   enabled : BOOLEAN, seen : Fingerprints, list : {<<>>} \cup LoadTables]
JobRecords ==
  [pc : {"free", "fired", "claimed", "execute", "run", "release", "done"},
   load : Loads \cup {Absent}, row : BOOLEAN]

TypeOK ==
  /\ phase \in {"start", "up", "term", "stopping", "aborting", "stopped", "exit"}
  /\ history \in Histories /\ at \in 1..Len(history)
  /\ reload \in [Actors -> ReloadRecords]
  /\ \A a \in Actors : reload[a].pc = "apply" => reload[a].list \in LoadTables
  /\ scheduled \in [Loads -> [cfg : Configs \cup {Absent}, entry : Nat]]
  /\ fingerprint \in Fingerprints
  /\ entries \in SUBSET (Loads \X Nat)
  /\ added \in [Loads -> Nat]
  /\ registry \in LoadTables
  /\ busy \in SUBSET Loads /\ running \in SUBSET Loads
  /\ jobs \in [Jobs -> JobRecords]
  /\ wg \in Nat
  /\ orphans \in SUBSET Loads
  /\ swept \in BOOLEAN

Init ==
  /\ phase = "start"
  /\ history \in Histories /\ at = 1
  /\ reload = [a \in Actors |-> Resting]
  /\ scheduled = [l \in Loads |-> NotScheduled]
  /\ fingerprint = <<>>
  /\ entries = {} /\ added = [l \in Loads |-> 0]
  /\ registry = [l \in Loads |-> Absent]
  /\ busy = {} /\ running = {}
  /\ jobs = [j \in Jobs |-> FreeJob]
  /\ wg = 0
  /\ orphans \in SUBSET Loads     \* rows an earlier process left "running"
  /\ swept = FALSE

EditMetadata ==
  /\ at < Len(history)
  /\ history \in Racing \/ \A a \in Actors : reload[a].pc \in {"idle", "exited"}
  /\ at' = at + 1
  /\ UNCHANGED <<phase, history, reload, schedVars, jobVars, swept>>

(***************************************************************************)
(* Reload.                                                                 *)
(***************************************************************************)
SetReload(a, r) == reload' = [reload EXCEPT ![a] = r]

\* Load: the startup abort of orphaned rows, then Reload by main.
LoadAbortOrphans ==
  /\ phase = "start" /\ reload["main"].pc = "idle"
  /\ orphans' = {}
  /\ SetReload("main", [Resting EXCEPT !.pc = "sources", !.enabled = Meta.enabled])
  /\ UNCHANGED <<phase, metaVars, schedVars, busy, running, jobs, wg, swept>>

LoadError ==
  /\ phase = "start" /\ reload["main"].pc = "idle"
  /\ phase' = "exit"
  /\ UNCHANGED <<metaVars, reload, schedVars, jobVars, swept>>

\* A loop takes a signal or a tick; it may still do so while stopCh is closed
\* (select picks among the ready cases).  The first query reads the sources.
ReloadSources(a) ==
  /\ a \in Loops /\ phase \in {"up", "term"} /\ reload[a].pc = "idle"
  /\ SetReload(a, [Resting EXCEPT !.pc = "sources", !.enabled = Meta.enabled])
  /\ UNCHANGED <<phase, metaVars, schedVars, jobVars, swept>>

\* The second query of MetadataFingerprint reads the loads.
ReloadFingerprint(a) ==
  /\ reload[a].pc = "sources"
  /\ SetReload(a, [reload[a] EXCEPT !.pc = "check",
                     !.seen = <<reload[a].enabled, Meta.loads>>])
  /\ UNCHANGED <<phase, metaVars, schedVars, jobVars, swept>>

\* After Load, main starts the cron loop and the coordinator.
PhaseAfter(a) == IF a = "main" THEN "up" ELSE phase

ReloadCheck(a) ==
  /\ reload[a].pc = "check"
  /\ IF reload[a].seen = fingerprint
     THEN SetReload(a, Resting) /\ phase' = PhaseAfter(a)
     ELSE SetReload(a, [reload[a] EXCEPT !.pc = "list"]) /\ UNCHANGED phase
  /\ UNCHANGED <<metaVars, schedVars, jobVars, swept>>

\* ListEnabledLoads: enabled loads of an enabled source, in one query.
EnabledLoads(m) ==
  [l \in Loads |-> IF m.enabled THEN m.loads[l] ELSE Absent]

ReloadList(a) ==
  /\ reload[a].pc = "list"
  /\ SetReload(a, [reload[a] EXCEPT !.pc = "apply", !.list = EnabledLoads(Meta)])
  /\ UNCHANGED <<phase, metaVars, schedVars, jobVars, swept>>

\* The locked part of Reload, with the listed rows `want`.
Known(l)         == scheduled[l].cfg # Absent
Removes(want, l) == Known(l) /\ want[l] = Absent
Keeps(want, l)   == Known(l) /\ want[l] # Absent /\ scheduled[l].cfg.cron = want[l].cron
Replaces(want, l) == Known(l) /\ want[l] # Absent /\ scheduled[l].cfg.cron # want[l].cron
Adds(want, l)    ==
  /\ ~Known(l) \/ Replaces(want, l)
  /\ want[l] # Absent /\ want[l].cron \in ValidCrons

EntryOf(l) == <<l, scheduled[l].entry>>
Stale_KeepsReplaced(want) == {EntryOf(l) : l \in {m \in Loads : Removes(want, m)}}
Stale(want) ==
  {EntryOf(l) : l \in {m \in Loads : Removes(want, m) \/ Replaces(want, m)}}

Applied(want, l) ==
  IF Removes(want, l) THEN NotScheduled
  ELSE IF Keeps(want, l) THEN [cfg |-> want[l], entry |-> scheduled[l].entry]
  ELSE IF Adds(want, l) THEN [cfg |-> want[l], entry |-> added[l] + 1]
  ELSE scheduled[l]       \* an invalid expression: logged, nothing stored

Registered(want, l) == IF want[l] # Absent THEN want[l] ELSE registry[l]

ShownRunning_Reset(want) == busy \ {l \in Loads : want[l] # Absent}
ShownRunning(want) == busy      \* Register keeps CurrentlyRunning

\* The fingerprint read before the rows were listed, not a newer one.
NewFingerprint_Reread(a) == <<Meta.enabled, Meta.loads>>
NewFingerprint(a) == reload[a].seen

ReloadApply(a) ==
  /\ reload[a].pc = "apply"
  /\ LET want == reload[a].list IN
       /\ scheduled' = [l \in Loads |-> Applied(want, l)]
       /\ entries' = (entries \ Stale(want)) \cup
                       {<<l, added[l] + 1>> : l \in {m \in Loads : Adds(want, m)}}
       /\ added' = [l \in Loads |-> IF Adds(want, l) THEN added[l] + 1 ELSE added[l]]
       /\ registry' = [l \in Loads |-> Registered(want, l)]
       /\ busy' = ShownRunning(want)
  /\ fingerprint' = NewFingerprint(a)
  /\ SetReload(a, Resting)
  /\ phase' = PhaseAfter(a)
  /\ UNCHANGED <<metaVars, running, jobs, wg, orphans, swept>>

\* A query fails: a loop waits for its next turn, main exits.
ReloadError(a) ==
  /\ reload[a].pc \in {"sources", "list"}
  /\ SetReload(a, Resting)
  /\ phase' = IF a = "main" THEN "exit" ELSE phase
  /\ UNCHANGED <<metaVars, schedVars, jobVars, swept>>

(***************************************************************************)
(* trigger, one goroutine per firing.                                      *)
(***************************************************************************)
SetJob(j, r) == jobs' = [jobs EXCEPT ![j] = r]

Fire(j) ==
  /\ phase \in {"up", "term"} /\ jobs[j].pc = "free"
  /\ \E e \in entries : SetJob(j, [FreeJob EXCEPT !.pc = "fired", !.load = e[1]])
  /\ UNCHANGED <<phase, metaVars, reload, schedVars, busy, running, wg, orphans, swept>>

\* The locked part of trigger: gone, already running, or claimed.
MayRun_Unguarded(l) == Known(l)
MayRun(l) == Known(l) /\ l \notin running

Claim(j) ==
  /\ jobs[j].pc = "fired"
  /\ IF MayRun(jobs[j].load)
     THEN /\ running' = running \cup {jobs[j].load}
          /\ SetJob(j, [jobs[j] EXCEPT !.pc = "claimed"])
     ELSE SetJob(j, FreeJob) /\ UNCHANGED running
  /\ UNCHANGED <<phase, metaVars, reload, schedVars, busy, wg, orphans, swept>>

WgAdd_Missing(j) ==
  /\ jobs[j].pc = "claimed"
  /\ SetJob(j, [jobs[j] EXCEPT !.pc = "execute"])
  /\ UNCHANGED <<phase, metaVars, reload, schedVars, busy, running, wg, orphans, swept>>
WgAdd(j) ==
  /\ jobs[j].pc = "claimed"
  /\ wg' = wg + 1
  /\ SetJob(j, [jobs[j] EXCEPT !.pc = "execute"])
  /\ UNCHANGED <<phase, metaVars, reload, schedVars, busy, running, orphans, swept>>

\* runCtx; Stop cancels it.
Cancelled_Never == FALSE
Cancelled == phase \in {"stopping", "aborting", "stopped"}

\* Execute inserts a "running" row and marks the load, or returns early; an
\* insert whose reply is lost leaves the row behind.
ExecuteStart(j) ==
  /\ jobs[j].pc = "execute"
  /\ \/ /\ ~Cancelled
        /\ SetJob(j, [jobs[j] EXCEPT !.pc = "run", !.row = TRUE])
        /\ busy' = IF registry[jobs[j].load] # Absent
                   THEN busy \cup {jobs[j].load} ELSE busy
        /\ UNCHANGED orphans
     \/ /\ SetJob(j, [jobs[j] EXCEPT !.pc = "release"])
        /\ \/ UNCHANGED orphans
           \/ ~Cancelled /\ orphans' = orphans \cup {jobs[j].load}
        /\ UNCHANGED busy
  /\ UNCHANGED <<phase, metaVars, reload, schedVars, running, wg, swept>>

\* Execute closes its row, or fails to and leaves it "running".
ExecuteEnd(j) ==
  /\ jobs[j].pc = "run"
  /\ SetJob(j, [jobs[j] EXCEPT !.pc = "release", !.row = FALSE])
  /\ busy' = busy \ {jobs[j].load}
  /\ \/ ~Cancelled /\ UNCHANGED orphans
     \/ orphans' = IF jobs[j].row THEN orphans \cup {jobs[j].load} ELSE orphans
  /\ UNCHANGED <<phase, metaVars, reload, schedVars, running, wg, swept>>

\* The deferred function: the guard is dropped before the wait group.
Release(j) ==
  /\ jobs[j].pc = "release"
  /\ running' = running \ {jobs[j].load}
  /\ SetJob(j, [jobs[j] EXCEPT !.pc = "done"])
  /\ UNCHANGED <<phase, metaVars, reload, schedVars, busy, wg, orphans, swept>>

WgDone(j) ==
  /\ jobs[j].pc = "done"
  /\ wg' = wg - 1
  /\ SetJob(j, FreeJob)
  /\ UNCHANGED <<phase, metaVars, reload, schedVars, busy, running, orphans, swept>>

(***************************************************************************)
(* Shutdown: main stops the coordinator, then the scheduler.               *)
(***************************************************************************)
Terminate ==
  /\ phase = "up"
  /\ phase' = "term"
  /\ UNCHANGED <<metaVars, reload, schedVars, jobVars, swept>>

LoopExit(a) ==
  /\ a \in Loops /\ phase = "term" /\ reload[a].pc = "idle"
  /\ SetReload(a, [Resting EXCEPT !.pc = "exited"])
  /\ UNCHANGED <<phase, metaVars, schedVars, jobVars, swept>>

\* The coordinator's wait is over; cron.Stop and runCancel.
StopCancel ==
  /\ phase = "term" /\ \A a \in Loops : reload[a].pc = "exited"
  /\ phase' = "stopping"
  /\ UNCHANGED <<metaVars, reload, schedVars, jobVars, swept>>

\* wg.Wait has returned.
StopDrained ==
  /\ phase = "stopping" /\ wg = 0
  /\ phase' = "aborting"
  /\ UNCHANGED <<metaVars, reload, schedVars, jobVars, swept>>

\* The shutdown timeout has passed first.
StopTimeout_Missing == FALSE /\ UNCHANGED vars
StopTimeout ==
  /\ phase = "stopping" /\ wg > 0
  /\ phase' = "aborting"
  /\ UNCHANGED <<metaVars, reload, schedVars, jobVars, swept>>

StopAbort ==
  /\ phase = "aborting"
  /\ phase' = "stopped"
  /\ \/ /\ orphans' = {} /\ swept' = TRUE
        /\ jobs' = [j \in Jobs |-> [jobs[j] EXCEPT !.row = FALSE]]
     \/ UNCHANGED <<orphans, jobs, swept>>
  /\ UNCHANGED <<metaVars, reload, schedVars, busy, running, wg>>

ReloadStep(a) ==
  \/ ReloadFingerprint(a) \/ ReloadCheck(a) \/ ReloadList(a) \/ ReloadApply(a)
JobStep(j) ==
  \/ Claim(j) \/ WgAdd(j) \/ ExecuteStart(j) \/ ExecuteEnd(j)
  \/ Release(j) \/ WgDone(j)
StopStep == StopCancel \/ StopDrained \/ StopTimeout \/ StopAbort

Next ==
  \/ EditMetadata \/ LoadAbortOrphans \/ LoadError \/ Terminate \/ StopStep
  \/ \E a \in Actors : ReloadSources(a) \/ ReloadStep(a) \/ ReloadError(a) \/ LoopExit(a)
  \/ \E j \in Jobs : Fire(j) \/ JobStep(j)

Spec == Init /\ [][Next]_vars

(***************************************************************************)
(* Fairness.  A goroutine that can run does; the poll ticker keeps firing; *)
(* a metadata query that is retried for ever does not fail for ever; and   *)
(* select, which picks at random among ready cases, does not pass over the *)
(* closed stopCh for ever.                                                 *)
(***************************************************************************)
SchedFairness ==
  /\ WF_vars(ReloadSources("poll"))
  /\ \A a \in Loops : /\ SF_vars(ReloadFingerprint(a)) /\ WF_vars(ReloadCheck(a))
                       /\ SF_vars(ReloadList(a)) /\ WF_vars(ReloadApply(a))
                       /\ SF_vars(LoopExit(a))
  /\ WF_vars(StopStep)
FairSpec == Spec /\ SchedFairness

-----------------------------------------------------------------------------
Owning == {"claimed", "execute", "run", "release"}

\* Rule 5: two goroutines never run the same load at once, through every
\* removal, re-registration and reschedule of the load between their firings.
NoOverlap ==
  \A i, j \in Jobs :
    jobs[i].pc \in Owning /\ jobs[j].pc \in Owning /\ jobs[i].load = jobs[j].load
    => i = j

\* The cron library holds no entry but the one the scheduler knows for each
\* scheduled load: a rescheduled load does not fire twice per tick, and a
\* removed load does not keep firing.
EntriesAccounted ==
  \A e \in entries : Known(e[1]) /\ e = EntryOf(e[1])

\* Once Stop has aborted the running rows, no row is or becomes "running",
\* though goroutines that fired or claimed late may still be executing.
NoRunningRowAfterSweep ==
  swept => orphans = {} /\ \A j \in Jobs : ~jobs[j].row

\* The status endpoint shows a load as running exactly while Execute is
\* between MarkRunning and MarkFinished, whatever reloads happen meanwhile.
ShownRunningTruthful ==
  busy = {jobs[j].load : j \in {i \in Jobs : jobs[i].pc = "run"}}

\* When the wait group lets Stop go on before the timeout, no run is between
\* the start and the end of its row.
DrainedMeansIdle ==
  [][StopDrained => \A j \in Jobs : jobs[j].pc # "run"]_vars

\* The parts of the inductive invariant behind the properties above.
Counted == {j \in Jobs : jobs[j].pc \in {"execute", "run", "release", "done"}}

MainReloadsAtStart == reload["main"].pc # "idle" => phase = "start"
OwnersHoldTheGuard == \A j \in Jobs : jobs[j].pc \in Owning => jobs[j].load \in running
SweptIsLast == swept => phase = "stopped"
RowsOnlyInRuns == \A j \in Jobs : jobs[j].row => jobs[j].pc = "run"
LoadsRegistered ==
  /\ \A l \in Loads : Known(l) => registry[l] # Absent
  /\ \A j \in Jobs : jobs[j].pc # "free" =>
       jobs[j].load \in Loads /\ registry[jobs[j].load] # Absent

\* The inductive invariant: the overlap guard, the cron entries, the wait
\* group, the registry and the run rows agree with the goroutines.
IndInv ==
  /\ TypeOK /\ MainReloadsAtStart /\ OwnersHoldTheGuard /\ SweptIsLast
  /\ RowsOnlyInRuns /\ LoadsRegistered /\ wg = Cardinality(Counted)
  /\ NoOverlap /\ EntriesAccounted /\ NoRunningRowAfterSweep /\ ShownRunningTruthful

\* The schedule is the one for the rows `want`: a live entry with the row of
\* every load whose expression is valid, and none for any other load.
FollowsRow(row, l) ==
  IF row # Absent /\ row.cron \in ValidCrons
  THEN scheduled[l].cfg = row /\ EntryOf(l) \in entries
  ELSE \A e \in entries : e[1] # l
Follows(want) == \A l \in Loads : FollowsRow(want[l], l)

\* The schedule reflects the metadata.
Converged == Follows(EnabledLoads(Meta))

\* Reloads converge on the desired state: once the metadata stays as it is,
\* the schedule of a process that stays up reflects it and keeps doing so.
Convergence == <>[](phase = "up" => Converged)

(***************************************************************************)
(* What a stored fingerprint vouches for.                                  *)
(***************************************************************************)
RowAt(h, i, l) == h[i].loads[l]
Broken(h, i, l) == RowAt(h, i, l) # Absent /\ RowAt(h, i, l).cron \notin ValidCrons
HasCron(h, i, l, c) == RowAt(h, i, l) # Absent /\ RowAt(h, i, l).cron = c

\* An invalid expression is never replaced by one the load had before it.
NoRepair(h) ==
  \A l \in Loads, c \in ValidCrons, i, j, k \in 1..Len(h) :
    i <= j /\ j <= k /\ Broken(h, j, l) => ~(HasCron(h, i, l, c) /\ HasCron(h, k, l, c))

\* Neither table returns to a content it had before, and no expression is
\* invalid.  (A source disabled and enabled again around ListEnabledLoads is
\* missed under a fingerprint that is current.)
OneWay(h) ==
  /\ \A i, j, k \in 1..Len(h) : i <= j /\ j <= k =>
       /\ h[i].enabled = h[k].enabled => h[j].enabled = h[k].enabled
       /\ h[i].loads = h[k].loads => h[j].loads = h[k].loads
  /\ \A l \in Loads, i \in 1..Len(h) : ~Broken(h, i, l)

\* Edits that wait for reloads to end may do anything but repair an
\* expression; edits that land inside a reload go one way.
Orderly == IF history \in Racing THEN OneWay(history) ELSE NoRepair(history)

\* Reloads converge on the desired state whenever the edits are orderly: by
\* polls and signals that race the edits and each other, through queries that
\* fail, and past the early return on an unchanged fingerprint.
OrderlyConvergence == <>[](phase = "up" => Converged \/ ~Orderly)

\* The early return of Reload is sound: when the stored fingerprint is the one
\* MetadataFingerprint would compute now, the schedule already is what the
\* metadata asks for, although the two tables and the rows were read by three
\* queries with edits and another reload between them.
FingerprintVouches ==
  fingerprint = <<Meta.enabled, Meta.loads>> => Converged \/ ~Orderly

\* What is read outside an edit's way is read from the current content.
Current(i) == history \in Racing \/ i = at
ReadSources(a, i) == Current(i) /\ reload[a].enabled = history[i].enabled
ReadTables(a, i, k) ==
  /\ i <= k /\ Current(i) /\ Current(k)
  /\ reload[a].seen = <<history[i].enabled, history[k].loads>>

\* What actor a, inside Reload, has read comes from contents in their order.
Reads(a) ==
  /\ reload[a].pc = "sources" => \E i \in 1..at : ReadSources(a, i)
  /\ reload[a].pc \in {"check", "list"} => \E i, k \in 1..at : ReadTables(a, i, k)
  /\ reload[a].pc = "apply" => \E i, k, m \in 1..at :
       /\ ReadTables(a, i, k) /\ k <= m /\ Current(m)
       /\ reload[a].list = EnabledLoads(history[m])
ReadsInOrder == \A a \in Actors : Reads(a)

\* A registered load has an entry, unless its expression was broken since.
Intact(l) ==
  Known(l) =>
    /\ scheduled[l].cfg.cron \in ValidCrons
    /\ \E i \in 1..at :
         /\ HasCron(history, i, l, scheduled[l].cfg.cron)
         /\ EntryOf(l) \in entries \/ \E k \in i..at : Broken(history, k, l)
EntryOrBroken == \A l \in Loads : Intact(l)

\* The schedule is the one for a content read after those of its fingerprint.
FollowsLaterContent ==
  fingerprint # <<>> => \E i, k, m \in 1..at :
    /\ i <= k /\ k <= m /\ (history \in Racing \/ (i = m /\ k = m))
    /\ fingerprint = <<history[i].enabled, history[k].loads>>
    /\ Follows(EnabledLoads(history[m]))

\* With IndInv, the inductive invariant behind FingerprintVouches.
ReloadInv == Orderly => ReadsInOrder /\ EntryOrBroken /\ FollowsLaterContent
=============================================================================
