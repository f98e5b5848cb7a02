--------------------------- MODULE ProcessProofs ---------------------------
(***************************************************************************)
(* Proofs about Process: the composition keeps what its parts promise.     *)
(* Every step of the process is a step of the pool or leaves it alone, so  *)
(* the pool's theorems hold inside the process; every step but the start   *)
(* of the loops is a step of the scheduler.  What is new is the tie        *)
(* between a run's place in Execute and its place in the pool.             *)
(***************************************************************************)
EXTENDS Process, SchedulerProofs

PoolProofs == INSTANCE SourcePoolProofs WITH
  Sources <- {Source}, Runs <- Jobs, Params <- {Params},
  Sweepers <- Loops \cup {"close"}, LeakySources <- {}

\* The constants of the process are constants of the pool.
LEMMA PoolConstants == PoolProofs!DistinctAssumption
BY PoolAssumption DEF PoolProofs!DistinctAssumption

\* The pool that the process is made of is the pool of the theorems.
LEMMA SamePool ==
  /\ Pool!Init = PoolProofs!Init
  /\ Pool!IndInv = PoolProofs!IndInv
  /\ Pool!LeaseIsGood = PoolProofs!LeaseIsGood
  /\ Pool!Next = PoolProofs!Next
  /\ Pool!vars = PoolProofs!vars
<1>1. Pool!Init = PoolProofs!Init
  BY DEF Pool!Init, PoolProofs!Init, Pool!EmptyEntry, PoolProofs!EmptyEntry, Pool!OutClient,
         PoolProofs!OutClient, Pool!NotSweeping, PoolProofs!NotSweeping, Pool!NotProbing,
         PoolProofs!NotProbing
<1>2. Pool!IndInv = PoolProofs!IndInv
  BY DEF Pool!IndInv, PoolProofs!IndInv, Pool!TypeOK, PoolProofs!TypeOK, Pool!Entries,
         PoolProofs!Entries, Pool!Clients, PoolProofs!Clients, Pool!Handles, PoolProofs!Handles,
         Pool!ClientShape, PoolProofs!ClientShape, Pool!MutexHeld, PoolProofs!MutexHeld,
         Pool!SlotsHoldOpen, PoolProofs!SlotsHoldOpen
<1>3. Pool!LeaseIsGood = PoolProofs!LeaseIsGood
  BY DEF Pool!LeaseIsGood, PoolProofs!LeaseIsGood
<1>4. Pool!vars = PoolProofs!vars
  BY DEF Pool!vars, PoolProofs!vars
<1>5. Pool!Next = PoolProofs!Next
  BY DEF Pool!Next, PoolProofs!Next, Pool!RunStep, PoolProofs!RunStep, Pool!SweepStep,
         PoolProofs!SweepStep, Pool!ProbeStep, PoolProofs!ProbeStep,
         Pool!Lookup, PoolProofs!Lookup, Pool!Acquire, PoolProofs!Acquire, Pool!OpenOk,
         PoolProofs!OpenOk, Pool!OpenFail, PoolProofs!OpenFail, Pool!Release, PoolProofs!Release,
         Pool!Age, PoolProofs!Age, Pool!SweepBegin, PoolProofs!SweepBegin, Pool!SweepClose,
         PoolProofs!SweepClose, Pool!SweepEnd, PoolProofs!SweepEnd, Pool!ProbeBegin,
         PoolProofs!ProbeBegin, Pool!ProbeLock, PoolProofs!ProbeLock, Pool!ProbeUnlock,
         PoolProofs!ProbeUnlock, Pool!ProbeEnd, PoolProofs!ProbeEnd,
         Pool!EmptyEntry, PoolProofs!EmptyEntry, Pool!OutClient, PoolProofs!OutClient,
         Pool!NotProbing, PoolProofs!NotProbing, Pool!Closed, PoolProofs!Closed,
         Pool!Reusable, PoolProofs!Reusable, Pool!Kept, PoolProofs!Kept, Pool!Timed,
         PoolProofs!Timed, Pool!OpenConns, PoolProofs!OpenConns, Pool!SweepTodo,
         PoolProofs!SweepTodo, Pool!SweepMayClose, PoolProofs!SweepMayClose
<1> QED BY <1>1, <1>2, <1>3, <1>4, <1>5

\* It stays so from state to state.
LEMMA SamePoolAfter == Pool!IndInv' <=> PoolProofs!IndInv'
<1>1. Pool!IndInv <=> PoolProofs!IndInv
  BY SamePool
<1> QED BY <1>1, PTL

(***************************************************************************)
(* The process and the pool.                                               *)
(***************************************************************************)
\* Every step of the process that touches the pool is one of the pool's.
LEMMA ProcessStepIsPoolStep ==
  ASSUME [ProcNext]_procVars
  PROVE  [Pool!Next]_(Pool!vars)
<1>1. UNCHANGED poolVars => UNCHANGED Pool!vars
  BY DEF poolVars, Pool!vars
<1>2. CASE UNCHANGED procVars
  BY <1>1, <1>2 DEF procVars
<1>3. CASE MainStep \/ MainStartFails \/ MainSignalled
  <2>1. CASE MainClosesSessions
    <3>1. Pool!SweepBegin("close") \/ Pool!SweepEnd("close") => Pool!Next
      BY DEF Pool!Next, Pool!SweepStep
    <3> QED BY <1>1, <2>1, <3>1 DEF MainClosesSessions
  <2>2. CASE ~MainClosesSessions
    BY <1>1, <1>3, <2>2 DEF MainStep, MainLoads, MainStartsLoops, MainServes, MainStopsScheduler,
       MainStopsHousekeeper, MainStopsHealth, MainClosesLog, MainStartFails, MainSignalled
  <2> QED BY <2>1, <2>2
<1>4. ASSUME NEW j \in Jobs, JobFires(j) \/ JobAcquires(j) \/ JobEnds(j) \/ JobProceeds(j)
      PROVE  [Pool!Next]_(Pool!vars)
  <2>1. \/ Pool!Lookup(j, Source, Params) \/ Pool!Acquire(j) \/ Pool!OpenOk(j) \/ Pool!OpenFail(j)
        \/ \E invalidate \in BOOLEAN : Pool!Release(j, invalidate)
        \/ UNCHANGED poolVars
    BY <1>4 DEF JobFires, JobAcquires, JobEnds, JobProceeds, JobOther, JobRefused, JobAsks, JobOpens,
       JobCannotOpen, JobStarts, JobGivesBack, JobReleases
  <2> QED BY <1>1, <2>1 DEF Pool!Next, Pool!RunStep
<1>5. ASSUME NEW a \in Active, LoopProceeds(a) \/ LoopExits(a)
      PROVE  [Pool!Next]_(Pool!vars)
  <2>1. Pool!SweepBegin(a) \/ UNCHANGED poolVars
    BY <1>5 DEF LoopProceeds, LoopReloads, LoopStep, LoopSweeps, LoopExits
  <2>2. a \in Loops
    BY ActiveAssumption
  <2> QED BY <1>1, <2>1, <2>2 DEF Pool!Next, Pool!SweepStep
<1>6. ASSUME NEW w \in Sweepers, Sweeping(w) PROVE Pool!Next
  BY <1>6 DEF Sweeping, Sweepers, Pool!Next, Pool!SweepStep
<1>7. ASSUME NEW q \in Probes, ReadyzBegins(q) \/ ReadyzStep(q) PROVE Pool!Next
  BY <1>7 DEF ReadyzBegins, ReadyzStep, Pool!Next, Pool!ProbeStep
<1>8. CASE EditMetadata /\ UNCHANGED <<mainVars, poolVars>>
  BY <1>1, <1>8
<1> QED BY <1>2, <1>3, <1>4, <1>5, <1>6, <1>7, <1>8 DEF ProcNext

\* The process implements the pool: whatever the scheduler, the reload loops,
\* /readyz, a failed startup and the shutdown do to it is what the pool allows,
\* so that everything proved about the pool holds inside the process.
THEOREM PoolTheorem == ProcSpec => PoolProofs!Spec
<1>1. ProcInit => PoolProofs!Init
  BY SamePool DEF ProcInit
<1>2. [ProcNext]_procVars => [PoolProofs!Next]_(PoolProofs!vars)
  BY ProcessStepIsPoolStep, SamePool DEF Pool!vars, PoolProofs!vars
<1> QED BY <1>1, <1>2, PTL DEF ProcSpec, PoolProofs!Spec

(***************************************************************************)
(* The process and the scheduler.                                          *)
(***************************************************************************)
\* The loops that are not configured count as exited from the start.
LEMMA StartsLoopsPreserves ==
  ASSUME IndInv, MainStartsLoops
  PROVE  IndInv'
<1> DEFINE gone == [Resting EXCEPT !.pc = "exited"]
<1>0. gone \in ReloadRecords /\ gone.pc = "exited"
  BY ReloadTypes, ZenonT(30) DEF Resting
<1>r. reload' = [a \in Actors |-> IF a \in Loops \ Active THEN gone ELSE reload[a]]
  BY DEF MainStartsLoops
<1> HIDE DEF gone
<1>1. /\ reload' \in [Actors -> ReloadRecords] /\ reload'["main"] = reload["main"]
      /\ \A a \in Actors : reload'[a] = reload[a] \/ reload'[a].pc = "exited"
  BY <1>0, <1>r, SMTT(30) DEF IndInv, TypeOK, Actors, Loops
<1>2. UNCHANGED <<phase, metaVars, schedVars, jobVars, swept>>
  BY DEF MainStartsLoops
<1>3. TypeOK'
  BY <1>1, <1>2 DEF IndInv, TypeOK, metaVars, schedVars, jobVars
<1>4. MainReloadsAtStart' /\ SweptIsLast' /\ NoRunningRowAfterSweep'
  BY <1>1, <1>2 DEF IndInv, MainReloadsAtStart, SweptIsLast, NoRunningRowAfterSweep, jobVars
<1> QED BY <1>2, <1>3, <1>4, ScheduleFrame DEF IndInv, jobVars

\* A loop that is not started reads nothing.
LEMMA StartsLoopsReads ==
  ASSUME IndInv, ReloadInv, MainStartsLoops
  PROVE  ReloadInv'
<1> DEFINE gone == [Resting EXCEPT !.pc = "exited"]
<1>0. gone.pc = "exited" BY DEF Resting
<1>r. reload' = [a \in Actors |-> IF a \in Loops \ Active THEN gone ELSE reload[a]]
  BY DEF MainStartsLoops
<1> HIDE DEF gone
<1>1. \A a \in Actors : reload'[a] = reload[a] \/ reload'[a].pc = "exited"
  BY <1>0, <1>r, ZenonT(30)
<1>2. UNCHANGED <<history, schedVars>> /\ at' = at /\ UNCHANGED metaVars
  BY DEF MainStartsLoops, metaVars
<1> SUFFICES ASSUME Orderly PROVE ReadsInOrder' /\ EntryOrBroken' /\ FollowsLaterContent'
  BY <1>2 DEF ReloadInv, Orderly
<1>3. ReadsInOrder /\ EntryOrBroken /\ FollowsLaterContent BY DEF ReloadInv
<1>4. ReadsInOrder' BY <1>1, <1>2, <1>3, ReadsStay, RestingReads DEF ReadsInOrder
<1> QED BY <1>2, <1>3, <1>4, ScheduleStays

\* A run that Obtain turns away leaves as one whose row could not be inserted.
LEMMA ReturnsEarlyIsStart ==
  ASSUME NEW j \in Jobs, ReturnsEarly(j)
  PROVE  ExecuteStart(j)
BY DEF ReturnsEarly, ExecuteStart

\* Every step but the start of the loops is a step of the scheduler.
LEMMA ProcessStepIsSchedulerStep ==
  ASSUME [ProcNext]_procVars
  PROVE  [Next]_vars \/ MainStartsLoops
<1>1. CASE UNCHANGED procVars
  BY <1>1 DEF procVars
<1>2. CASE MainStep \/ MainStartFails \/ MainSignalled
  <2>1. CASE MainLoads
    BY <2>1 DEF MainLoads, Next, Actors
  <2>2. CASE MainStopsScheduler \/ MainSignalled
    BY <2>2 DEF MainStopsScheduler, MainSignalled, Next
  <2> QED BY <1>2, <2>1, <2>2 DEF MainStep, MainServes, MainStopsHousekeeper, MainStopsHealth,
             MainClosesLog, MainClosesSessions, MainStartFails
<1>3. ASSUME NEW j \in Jobs, JobFires(j) \/ JobAcquires(j) \/ JobEnds(j) \/ JobProceeds(j)
      PROVE  [Next]_vars
  <2>1. Fire(j) \/ JobStep(j) \/ UNCHANGED vars
    BY <1>3, ReturnsEarlyIsStart
       DEF JobFires, JobAcquires, JobEnds, JobProceeds, JobOther, JobRefused, JobAsks, JobOpens,
           JobCannotOpen, JobStarts, JobGivesBack, JobReleases, JobStep
  <2> QED BY <2>1 DEF Next
<1>4. ASSUME NEW a \in Active, LoopProceeds(a) \/ LoopExits(a)
      PROVE  [Next]_vars
  <2>1. ReloadSources(a) \/ ReloadStep(a) \/ ReloadError(a) \/ LoopExit(a) \/ UNCHANGED vars
    BY <1>4 DEF LoopProceeds, LoopReloads, LoopStep, LoopSweeps, LoopExits
  <2>2. a \in Actors
    BY ActiveAssumption DEF Actors
  <2> QED BY <2>1, <2>2 DEF Next
<1>5. ASSUME NEW w \in Sweepers, Sweeping(w) PROVE UNCHANGED vars
  BY <1>5 DEF Sweeping
<1>6. ASSUME NEW q \in Probes, ReadyzBegins(q) \/ ReadyzStep(q) PROVE UNCHANGED vars
  BY <1>6 DEF ReadyzBegins, ReadyzStep
<1>7. CASE EditMetadata /\ UNCHANGED <<mainVars, poolVars>>
  BY <1>7 DEF Next
<1> QED BY <1>1, <1>2, <1>3, <1>4, <1>5, <1>6, <1>7 DEF ProcNext

(***************************************************************************)
(* Runs and leases.                                                        *)
(***************************************************************************)
\* The runs stay where they are.
LEMMA NoRunMoves ==
  ASSUME ProcInv, UNCHANGED <<pooled, client>>, \A j \in Jobs : jobs'[j].pc = jobs[j].pc
  PROVE  LeasesFollowRuns'
BY DEF ProcInv, LeasesFollowRuns

\* One run moves in Execute, from place to place, or in the pool.
LEMMA OneRunMoves ==
  ASSUME ProcInv, NEW j \in Jobs, pooled' = pooled,
         \A i \in Jobs : i # j => jobs'[i] = jobs[i] /\ client'[i] = client[i],
         client'[j].pc \in {"wait", "opening"} => jobs'[j].pc = "execute",
         client'[j].pc = "leased" => jobs'[j].pc \in {"execute", "run", "release"},
         pooled /\ jobs'[j].pc = "run" => client'[j].pc = "leased",
         ~pooled => client'[j].pc = "out"
  PROVE  LeasesFollowRuns'
BY DEF ProcInv, LeasesFollowRuns

\* A step that stores a run's record in the table of jobs.
LEMMA JobMoves ==
  ASSUME IndInv, NEW j \in Jobs, NEW r, SetJob(j, r)
  PROVE  jobs'[j] = r /\ \A i \in Jobs : i # j => jobs'[i] = jobs[i]
BY DEF IndInv, TypeOK, SetJob

\* A run that is not in the pool, or holds a lease, moves in Execute.
LEMMA MovesInExecute ==
  ASSUME ProcInv, NEW j \in Jobs, NEW r, SetJob(j, r), UNCHANGED <<pooled, client>>,
         client[j].pc = "out" \/ (client[j].pc = "leased" /\ r.pc \in {"run", "release"}),
         pooled /\ r.pc = "run" => client[j].pc = "leased"
  PROVE  LeasesFollowRuns'
<1>1. jobs'[j] = r /\ \A i \in Jobs : i # j => jobs'[i] = jobs[i]
  BY JobMoves DEF ProcInv
<1>2. ~pooled => client[j].pc = "out"
  BY DEF ProcInv, LeasesFollowRuns
<1> QED BY <1>1, <1>2, OneRunMoves

\* A step of the pool that stores a run's record in the table of clients.
LEMMA ClientMoves ==
  ASSUME Pool!IndInv, NEW j \in Jobs, NEW r, client' = [client EXCEPT ![j] = r]
  PROVE  client'[j] = r /\ \A i \in Jobs : i # j => client'[i] = client[i]
BY DEF Pool!IndInv, Pool!TypeOK

\* Outside Obtain and release a run is not in the pool, or holds a lease.
LEMMA PlaceInPool ==
  ASSUME ProcInv, NEW j \in Jobs
  PROVE  /\ jobs[j].pc \in {"free", "fired", "claimed", "done"} => client[j].pc = "out"
         /\ jobs[j].pc \in {"run", "release"} => client[j].pc \in {"out", "leased"}
         /\ jobs[j].pc = "run" /\ pooled => client[j].pc = "leased"
<1>1. client[j].pc \in {"out", "wait", "opening", "leased"}
  BY DEF ProcInv, Pool!IndInv, Pool!TypeOK, Pool!Clients
<1> QED BY <1>1 DEF ProcInv, LeasesFollowRuns

\* A run's own steps in Execute, outside the pool.
LEMMA ExecuteStepsKeep ==
  ASSUME ProcInv, NEW j \in Jobs,
         \/ JobFires(j) \/ JobOther(j) \/ JobRefused(j) \/ JobStarts(j) \/ JobEnds(j) \/ JobReleases(j)
  PROVE  LeasesFollowRuns'
<1>1. IndInv /\ UNCHANGED <<pooled, client>>
  BY DEF ProcInv, JobFires, JobOther, JobRefused, JobStarts, JobEnds, JobReleases, mainVars, poolVars
<1>2. jobs[j] \in JobRecords
  BY <1>1 DEF IndInv, TypeOK
<1>3. ASSUME NEW p PROVE [jobs[j] EXCEPT !.pc = p].pc = p
  BY <1>2 DEF JobRecords
<1>4. CASE JobFires(j)
  <2>1. PICK e \in entries : SetJob(j, [FreeJob EXCEPT !.pc = "fired", !.load = e[1]])
    BY <1>4 DEF JobFires, Fire
  <2>2. [FreeJob EXCEPT !.pc = "fired", !.load = e[1]].pc = "fired"
    BY DEF FreeJob
  <2>3. jobs[j].pc = "free"
    BY <1>4 DEF JobFires, Fire
  <2> QED BY <1>1, <2>1, <2>2, <2>3, PlaceInPool, MovesInExecute
<1>5. CASE Claim(j)
  <2>1. jobs[j].pc = "fired" /\ FreeJob.pc = "free"
    BY <1>5 DEF Claim, FreeJob
  <2>2. SetJob(j, [jobs[j] EXCEPT !.pc = "claimed"]) \/ SetJob(j, FreeJob)
    BY <1>5 DEF Claim
  <2> QED BY <1>1, <1>3, <2>1, <2>2, PlaceInPool, MovesInExecute
<1>6. CASE WgAdd(j)
  <2>1. jobs[j].pc = "claimed" /\ SetJob(j, [jobs[j] EXCEPT !.pc = "execute"])
    BY <1>6 DEF WgAdd
  <2> QED BY <1>1, <1>3, <2>1, PlaceInPool, MovesInExecute
<1>7. CASE WgDone(j)
  <2>1. jobs[j].pc = "done" /\ SetJob(j, FreeJob) /\ FreeJob.pc = "free"
    BY <1>7 DEF WgDone, FreeJob
  <2> QED BY <1>1, <2>1, PlaceInPool, MovesInExecute
<1>8. CASE JobRefused(j)
  <2>1. client[j].pc = "out" /\ SetJob(j, [jobs[j] EXCEPT !.pc = "release"])
    BY <1>8 DEF JobRefused, ReturnsEarly
  <2> QED BY <1>1, <1>3, <2>1, MovesInExecute
<1>9. CASE JobStarts(j)
  <2>1. \/ SetJob(j, [jobs[j] EXCEPT !.pc = "run", !.row = TRUE])
        \/ SetJob(j, [jobs[j] EXCEPT !.pc = "release"])
    BY <1>9 DEF JobStarts, ExecuteStart
  <2>2. [jobs[j] EXCEPT !.pc = "run", !.row = TRUE].pc = "run"
    BY <1>2 DEF JobRecords
  <2>3. client[j].pc = "leased" \/ (client[j].pc = "out" /\ ~pooled)
    BY <1>9 DEF JobStarts, ProcInv, LeasesFollowRuns
  <2> QED BY <1>1, <1>3, <2>1, <2>2, <2>3, MovesInExecute
<1>10. CASE JobEnds(j)
  <2>1. jobs[j].pc = "run" /\ SetJob(j, [jobs[j] EXCEPT !.pc = "release", !.row = FALSE])
    BY <1>10 DEF JobEnds, ExecuteEnd
  <2>2. [jobs[j] EXCEPT !.pc = "release", !.row = FALSE].pc = "release"
    BY <1>2 DEF JobRecords
  <2> QED BY <1>1, <2>1, <2>2, PlaceInPool, MovesInExecute
<1>11. CASE JobReleases(j)
  <2>1. client[j].pc = "out" /\ SetJob(j, [jobs[j] EXCEPT !.pc = "done"])
    BY <1>11 DEF JobReleases, Release
  <2> QED BY <1>1, <1>3, <2>1, MovesInExecute
<1> QED BY <1>4, <1>5, <1>6, <1>7, <1>8, <1>9, <1>10, <1>11 DEF JobOther

\* A run's steps in the pool: Obtain before its row, release after it.
LEMMA PoolStepsKeep ==
  ASSUME ProcInv, NEW j \in Jobs,
         JobAsks(j) \/ JobAcquires(j) \/ JobOpens(j) \/ JobCannotOpen(j) \/ JobGivesBack(j)
  PROVE  LeasesFollowRuns'
<1>1. pooled' = pooled /\ Pool!IndInv /\ IndInv
  BY DEF ProcInv, JobAsks, JobAcquires, JobOpens, JobCannotOpen, JobGivesBack, mainVars
<1>2. Pool!OutClient.pc = "out"
  BY DEF Pool!OutClient
<1>3. ASSUME NEW r, client' = [client EXCEPT ![j] = r], UNCHANGED vars, pooled,
             \/ r.pc \in {"wait", "opening", "leased"} /\ jobs[j].pc = "execute"
             \/ r.pc = "out" /\ jobs[j].pc = "release"
      PROVE  LeasesFollowRuns'
  <2>1. client'[j] = r /\ \A i \in Jobs : i # j => client'[i] = client[i]
    BY <1>1, <1>3, ClientMoves
  <2>2. jobs' = jobs
    BY <1>3 DEF vars, jobVars
  <2> QED BY <1>1, <1>3, <2>1, <2>2, OneRunMoves
<1>4. client[j].pc # "out" => pooled
  BY DEF ProcInv, LeasesFollowRuns
<1>5. client[j].pc \in {"wait", "opening"} => jobs[j].pc = "execute"
  BY DEF ProcInv, LeasesFollowRuns
<1>6. CASE JobAsks(j)
  <2> DEFINE r == [pc |-> "wait", source |-> Source, params |-> Params, conn |-> NoConn]
  <2>1. client' = [client EXCEPT ![j] = r] /\ r.pc = "wait"
    BY <1>6 DEF JobAsks, Pool!Lookup
  <2> QED BY <1>3, <1>6, <2>1 DEF JobAsks
<1>7. CASE JobAcquires(j)
  <2> DEFINE r(p, c) == [pc |-> p, source |-> client[j].source,
                         params |-> client[j].params, conn |-> c]
  <2>0. \A p, c : r(p, c).pc = p
    OBVIOUS
  <2>1. \E p \in {"opening", "leased"} : \E c : client' = [client EXCEPT ![j] = r(p, c)]
    BY <1>7 DEF JobAcquires, Pool!Acquire
  <2>2. client[j].pc = "wait" /\ UNCHANGED vars
    BY <1>7 DEF JobAcquires, Pool!Acquire
  <2> HIDE DEF r
  <2> QED BY <1>3, <1>4, <1>5, <2>0, <2>1, <2>2
<1>8. CASE JobOpens(j)
  <2> DEFINE r(c) == [pc |-> "leased", source |-> client[j].source,
                      params |-> client[j].params, conn |-> c]
  <2>0. \A c : r(c).pc = "leased"
    OBVIOUS
  <2>1. \E c : client' = [client EXCEPT ![j] = r(c)]
    BY <1>8 DEF JobOpens, Pool!OpenOk
  <2>2. client[j].pc = "opening" /\ UNCHANGED vars
    BY <1>8 DEF JobOpens, Pool!OpenOk
  <2> HIDE DEF r
  <2> QED BY <1>3, <1>4, <1>5, <2>0, <2>1, <2>2
<1>9. CASE JobCannotOpen(j)
  <2>1. client' = [client EXCEPT ![j] = Pool!OutClient]
    BY <1>9 DEF JobCannotOpen, Pool!OpenFail
  <2>2. client'[j].pc = "out" /\ \A i \in Jobs : i # j => client'[i] = client[i]
    BY <1>1, <1>2, <2>1, ClientMoves
  <2>3. PICK r : SetJob(j, r) /\ r = [jobs[j] EXCEPT !.pc = "release"]
    BY <1>9 DEF JobCannotOpen, ReturnsEarly
  <2>4. jobs'[j] = r /\ \A i \in Jobs : i # j => jobs'[i] = jobs[i]
    BY <1>1, <2>3, JobMoves
  <2>5. jobs[j] \in JobRecords
    BY <1>1 DEF IndInv, TypeOK
  <2>6. r.pc = "release"
    BY <2>3, <2>5 DEF JobRecords
  <2> QED BY <1>1, <2>2, <2>4, <2>6, OneRunMoves
<1>10. CASE JobGivesBack(j)
  <2>1. client' = [client EXCEPT ![j] = Pool!OutClient] /\ client[j].pc = "leased"
    BY <1>10 DEF JobGivesBack, Pool!Release
  <2> QED BY <1>2, <1>3, <1>4, <1>10, <2>1 DEF JobGivesBack
<1> QED BY <1>6, <1>7, <1>8, <1>9, <1>10

\* Main, the loops, the sweeps and the probes move no run; the abort of open
\* rows at shutdown changes rows only.
LEMMA OthersKeep ==
  ASSUME ProcInv, ProcNext,
         ~ \E j \in Jobs : JobFires(j) \/ JobAcquires(j) \/ JobEnds(j) \/ JobProceeds(j)
  PROVE  LeasesFollowRuns'
<1>1. UNCHANGED vars => UNCHANGED jobs
  BY DEF vars, jobVars
<1>2. UNCHANGED <<poolVars>> => UNCHANGED client
  BY DEF poolVars
<1>3. \A a : ReloadStep(a) \/ ReloadError(a) \/ ReloadSources(a) \/ LoopExit(a) => UNCHANGED jobs
  BY DEF ReloadStep, ReloadFingerprint, ReloadCheck, ReloadList, ReloadApply, ReloadError,
         ReloadSources, LoopExit, jobVars
<1>4. CASE StopAbort /\ MainStopsScheduler
  <2>1. pooled' = pooled /\ UNCHANGED client
    BY <1>2, <1>4 DEF MainStopsScheduler
  <2>2. \A j \in Jobs : jobs[j] \in JobRecords
    BY DEF ProcInv, IndInv, TypeOK
  <2>3. \A j \in Jobs : [jobs[j] EXCEPT !.row = FALSE].pc = jobs[j].pc
    BY <2>2 DEF JobRecords
  <2>4. jobs' = jobs \/ jobs' = [j \in Jobs |-> [jobs[j] EXCEPT !.row = FALSE]]
    BY <1>4 DEF StopAbort
  <2>5. \A j \in Jobs : jobs'[j].pc = jobs[j].pc
    BY <2>3, <2>4
  <2> QED BY <2>1, <2>5, NoRunMoves
<1>5. CASE MainStep /\ ~(StopAbort /\ MainStopsScheduler)
  <2>1. CASE MainLoads \/ MainStartsLoops
    BY <1>2, <1>3, <2>1, NoRunMoves DEF MainLoads, MainStartsLoops, LoadAbortOrphans, LoadError, jobVars
  <2>2. CASE MainStopsScheduler
    BY <1>2, <1>5, <2>2, NoRunMoves
       DEF MainStopsScheduler, StopStep, StopCancel, StopDrained, StopTimeout, jobVars
  <2>3. CASE MainClosesSessions
    <3>1. Pool!SweepBegin("close") \/ Pool!SweepEnd("close") => UNCHANGED client
      BY DEF Pool!SweepBegin, Pool!SweepEnd
    <3> QED BY <1>1, <1>2, <2>3, <3>1, NoRunMoves DEF MainClosesSessions
  <2>4. CASE MainServes \/ MainStopsHousekeeper \/ MainStopsHealth \/ MainClosesLog
    BY <1>1, <1>2, <2>4, NoRunMoves DEF MainServes, MainStopsHousekeeper, MainStopsHealth, MainClosesLog
  <2> QED BY <1>5, <2>1, <2>2, <2>3, <2>4 DEF MainStep
<1>6. CASE MainStartFails \/ MainSignalled
  BY <1>1, <1>2, <1>6, NoRunMoves DEF MainStartFails, MainSignalled, Terminate, jobVars
<1>7. CASE EditMetadata /\ UNCHANGED <<mainVars, poolVars>>
  BY <1>2, <1>7, NoRunMoves DEF EditMetadata, jobVars, mainVars
<1>8. ASSUME NEW a \in Active, LoopProceeds(a) \/ LoopExits(a) PROVE LeasesFollowRuns'
  <2>1. Pool!SweepBegin(a) => UNCHANGED client
    BY DEF Pool!SweepBegin
  <2> QED BY <1>1, <1>2, <1>3, <1>8, <2>1, NoRunMoves
          DEF LoopProceeds, LoopReloads, LoopStep, LoopSweeps, LoopExits, mainVars
<1>9. ASSUME NEW w \in Sweepers, Sweeping(w) PROVE LeasesFollowRuns'
  <2>1. UNCHANGED client
    BY <1>9 DEF Sweeping, Pool!SweepClose, Pool!SweepEnd
  <2> QED BY <1>1, <1>9, <2>1, NoRunMoves DEF Sweeping, mainVars
<1>10. ASSUME NEW q \in Probes, ReadyzBegins(q) \/ ReadyzStep(q) PROVE LeasesFollowRuns'
  <2>1. UNCHANGED client
    BY <1>10 DEF ReadyzBegins, ReadyzStep, Pool!ProbeBegin, Pool!ProbeLock, Pool!ProbeUnlock,
             Pool!ProbeEnd
  <2> QED BY <1>1, <1>10, <2>1, NoRunMoves DEF ReadyzBegins, ReadyzStep, mainVars
<1> QED BY <1>4, <1>5, <1>6, <1>7, <1>8, <1>9, <1>10 DEF ProcNext

(***************************************************************************)
(* What the process keeps.                                                 *)
(***************************************************************************)
\* A step of the process keeps the invariants of both parts and the tie between
\* them.
LEMMA ProcStep ==
  ASSUME ProcInv, [ProcNext]_procVars
  PROVE  ProcInv'
<1>1. IndInv'
  BY StepPreserves, StartsLoopsPreserves, ProcessStepIsSchedulerStep DEF ProcInv
<1>2. Pool!IndInv'
  <2>1. PoolProofs!IndInv /\ [PoolProofs!Next]_(PoolProofs!vars)
    BY ProcessStepIsPoolStep, SamePool DEF ProcInv, Pool!vars, PoolProofs!vars
  <2>2. PoolProofs!IndInv'
    BY <2>1, PoolConstants, PoolProofs!StepInv
  <2> QED BY <2>2, SamePoolAfter
<1>3. LeasesFollowRuns'
  <2>1. CASE UNCHANGED procVars
    BY <2>1, NoRunMoves DEF procVars, vars, jobVars, mainVars, poolVars
  <2>2. ASSUME NEW j \in Jobs, JobFires(j) \/ JobAcquires(j) \/ JobEnds(j) \/ JobProceeds(j)
        PROVE  LeasesFollowRuns'
    BY <2>2, ExecuteStepsKeep, PoolStepsKeep DEF JobProceeds
  <2> QED BY <2>1, <2>2, OthersKeep
<1> QED BY <1>1, <1>2, <1>3 DEF ProcInv

\* ProcInv holds always: the invariants of the scheduler and of the pool, and a
\* run that is between Acquire and Release has its place in the pool.
THEOREM ProcInvariance == ProcSpec => []ProcInv
<1>1. ProcInit => ProcInv
  <2> SUFFICES ASSUME ProcInit PROVE ProcInv
    OBVIOUS
  <2>1. IndInv
    BY InitEstablishes DEF ProcInit
  <2>2. Pool!IndInv
    BY PoolConstants, SamePool, PoolProofs!InitInv DEF ProcInit
  <2>3. \A j \in Jobs : client[j].pc = "out" /\ jobs[j].pc = "free"
    BY DEF ProcInit, Init, FreeJob, Pool!Init, Pool!OutClient
  <2> QED BY <2>1, <2>2, <2>3 DEF ProcInv, LeasesFollowRuns
<1> QED BY <1>1, ProcStep, PTL DEF ProcSpec

\* A run between the start and the end of its row reads over a connection that
\* no reload, probe, failed startup or shutdown closes under it.
THEOREM ConnectionTheorem == ProcSpec => []RunsKeepTheirConnection
<1>1. ProcInv => RunsKeepTheirConnection
  <2> SUFFICES ASSUME ProcInv, pooled, NEW j \in Jobs, jobs[j].pc = "run"
               PROVE  client[j].pc = "leased" /\ conns[client[j].conn].state = "open"
    BY DEF RunsKeepTheirConnection
  <2>1. client[j].pc = "leased"
    BY DEF ProcInv, LeasesFollowRuns
  <2>2. Pool!LeaseIsGood
    BY PoolConstants, SamePool, PoolProofs!LeaseFacts DEF ProcInv
  <2>3. conns[client[j].conn] = [state |-> "open", params |-> client[j].params]
    BY <2>1, <2>2, Zenon DEF Pool!LeaseIsGood
  <2> QED BY <2>1, <2>3
<1> QED BY <1>1, ProcInvariance, PTL

\* The scheduler's safety holds in the whole process, with runs that wait for
\* their source, startups that fail halfway, and loops that are not started.
THEOREM ProcSchedulerTheorem ==
  ProcSpec => [](NoOverlap /\ EntriesAccounted /\ NoRunningRowAfterSweep /\ ShownRunningTruthful)
<1>1. ProcInv => NoOverlap /\ EntriesAccounted /\ NoRunningRowAfterSweep /\ ShownRunningTruthful
  BY DEF ProcInv, IndInv
<1> QED BY <1>1, ProcInvariance, PTL

\* When Stop of the process goes on because the wait group is empty, no run is
\* between the start and the end of its row, also with runs that wait for a source.
THEOREM ProcDrainTheorem == ProcSpec => DrainedMeansIdle
<1>1. ASSUME IndInv, StopDrained PROVE \A j \in Jobs : jobs[j].pc # "run"
  <2>1. Cardinality(Counted) = 0 BY <1>1 DEF IndInv, StopDrained
  <2>2. Counted = {} BY <1>1, <2>1, CountedFinite, FS_EmptySet
  <2> QED BY <2>2 DEF Counted
<1>2. ProcInv => [StopDrained => \A j \in Jobs : jobs[j].pc # "run"]_vars
  BY <1>1 DEF ProcInv
<1> QED BY <1>2, ProcInvariance, PTL DEF DrainedMeansIdle

\* With sources that close what they cannot ping, no connection of the process is
\* open outside the slot of the pool that can close it.
THEOREM ProcNoLeakTheorem == ProcSpec => []Pool!NoLeak
<1>1. Pool!NoLeak <=> PoolProofs!NoLeak
  BY DEF Pool!NoLeak, PoolProofs!NoLeak, Pool!OpenConns, PoolProofs!OpenConns
<1> QED BY <1>1, PoolTheorem, PoolConstants, PoolProofs!NoLeakTheorem, PTL

\* A reload's InvalidateAll and main's Close reach every connection that was open
\* when they began, whatever runs and probes do meanwhile.
THEOREM ProcSweepTheorem == ProcSpec => []Pool!SweepReachesAll
<1>1. Pool!SweepReachesAll <=> PoolProofs!SweepReachesAll
  BY DEF Pool!SweepReachesAll, PoolProofs!SweepReachesAll
<1> QED BY <1>1, PoolTheorem, PoolConstants, PoolProofs!SweepTheorem, PTL

\* The process keeps the promise of SourceSession to its runs: each is given an
\* open connection of its own, with the parameters it asked for.
THEOREM ProcSessionTheorem == ProcSpec => PoolProofs!ImplementsSession
BY PoolTheorem, PoolConstants, PoolProofs!SessionTheorem, PTL

\* No mutex of the pool is forgotten or held by someone who waits, on any path of
\* the process: a run or a reload that waits for a slot waits for its user alone.
THEOREM ProcHoldersTheorem == ProcSpec => []Pool!HoldersLetGo
<1>1. Pool!HoldersLetGo <=> PoolProofs!HoldersLetGo
  BY DEF Pool!HoldersLetGo, PoolProofs!HoldersLetGo, Pool!HeldByItsUser, PoolProofs!HeldByItsUser
<1> QED BY <1>1, PoolTheorem, PoolConstants, PoolProofs!HoldersTheorem, PTL

\* In the whole process too, a fingerprint that is current vouches for the
\* schedule, with loops that are not started and reloads that invalidate sources.
THEOREM ProcFingerprintTheorem == ProcSpec => []FingerprintVouches
<1>1. ProcInit => ReloadInv
  BY ReloadInit DEF ProcInit
<1>2. ProcInv /\ ReloadInv /\ [ProcNext]_procVars => ReloadInv'
  BY ReloadStepPreserves, StartsLoopsReads, ProcessStepIsSchedulerStep DEF ProcInv
<1>3. ProcInv /\ ReloadInv => FingerprintVouches
  BY Vouches DEF ProcInv
<1> QED BY <1>1, <1>2, <1>3, ProcInvariance, PTL DEF ProcSpec
=============================================================================
