------------------------------ MODULE Process ------------------------------
(***************************************************************************)
(* The loader process: main's startup and shutdown around the scheduler,   *)
(* the source sessions, the health server and the reload loops.            *)
(*                                                                         *)
(* Scheduler is extended with the connections its runs hold.  With the     *)
(* pool enabled, a run holds the mutex of its source's slot from Obtain    *)
(* to the end of Execute; each Reload of a loop, whatever it found, ends   *)
(* with InvalidateAll; /readyz calls PingAll; and main, whichever way it   *)
(* returns, ends with the pool's Close.  None of these waits has a         *)
(* timeout.  The housekeeper and the log handler are their own modules;    *)
(* here their stops are waits that end by a timer.                         *)
(***************************************************************************)
EXTENDS Scheduler

CONSTANTS Source,      \* the source all loads read
          Params,      \* its resolved parameters
          NoParams, Conns, NoConn,
          Probes,      \* requests to /readyz
          Nobody,
          Active,      \* reload loops the configuration starts
          Sessions     \* source sessions the configuration chooses: "pool", "ephemeral"

ASSUME ActiveAssumption == Active \subseteq Loops
ASSUME PoolAssumption ==
  /\ Params # NoParams /\ NoConn \notin Conns
  /\ Nobody \notin Jobs \cup Probes /\ Jobs \cap Probes = {}

VARIABLES
  stage,    \* where main is
  pooled,   \* whether sessions is the pool
  started,  \* the health server listens and the reload loops have been started
  hook,     \* loops that are past Primary.Reload and before After
  slots, ent, lock, client, conns, sweep, probe  \* see SourcePool

Pool == INSTANCE SourcePool WITH
  Sources <- {Source}, Runs <- Jobs, Params <- {Params},
  Sweepers <- Loops \cup {"close"}, LeakySources <- {}

poolVars == <<slots, ent, lock, client, conns, sweep, probe>>
mainVars == <<stage, pooled, started, hook>>
procVars == <<vars, mainVars, poolVars>>

ProcInit ==
  /\ Init /\ Pool!Init
  /\ stage = "load" /\ started = FALSE /\ hook = {}
  /\ pooled \in {s = "pool" : s \in Sessions}

(***************************************************************************)
(* The startup.                                                            *)
(***************************************************************************)
\* sch.Load and sch.Start; an error makes main return.
MainLoads ==
  /\ stage = "load"
  /\ \/ LoadAbortOrphans \/ LoadError
     \/ ReloadStep("main") \/ ReloadError("main")
  /\ stage' = CASE phase' = "up" -> "health"
                [] phase' = "exit" -> "closeSessions"
                [] OTHER -> "load"
  /\ UNCHANGED <<pooled, started, hook, poolVars>>

\* The health server listens, and the coordinator starts the loops it is
\* configured for.
MainStartsLoops ==
  /\ stage = "health"
  /\ stage' = "housekeeping" /\ started' = TRUE
  /\ reload' = [a \in Actors |-> IF a \in Loops \ Active
                                 THEN [Resting EXCEPT !.pc = "exited"] ELSE reload[a]]
  /\ UNCHANGED <<phase, metaVars, schedVars, jobVars, swept, pooled, hook, poolVars>>

MainServes ==
  /\ stage = "housekeeping"
  /\ stage' = "serving"
  /\ UNCHANGED <<vars, pooled, started, hook, poolVars>>

\* The health server or the housekeeper does not start: main returns at once,
\* with the scheduler and, in the second case, the loops running.
MainStartFails ==
  /\ stage \in {"health", "housekeeping"}
  /\ stage' = "closeSessions"
  /\ UNCHANGED <<vars, pooled, started, hook, poolVars>>

(***************************************************************************)
(* The runs.  Execute obtains its source before it starts its row, and     *)
(* the deferred release gives it back after the row is closed.             *)
(***************************************************************************)
\* ResolveParams or Obtain fails: Execute returns without a row.
ReturnsEarly(j) ==
  /\ jobs[j].pc = "execute"
  /\ SetJob(j, [jobs[j] EXCEPT !.pc = "release"])
  /\ UNCHANGED <<phase, metaVars, reload, schedVars, busy, running, wg, orphans, swept>>

JobRefused(j) ==
  /\ client[j].pc = "out" /\ ReturnsEarly(j)
  /\ UNCHANGED <<mainVars, poolVars>>

JobAsks(j) ==
  /\ pooled /\ jobs[j].pc = "execute"
  /\ Pool!Lookup(j, Source, Params)
  /\ UNCHANGED <<vars, mainVars>>

JobAcquires(j) == Pool!Acquire(j) /\ UNCHANGED <<vars, mainVars>>
JobOpens(j) == Pool!OpenOk(j) /\ UNCHANGED <<vars, mainVars>>
JobCannotOpen(j) == Pool!OpenFail(j) /\ ReturnsEarly(j) /\ UNCHANGED mainVars

\* GetWatermark and StartRun; an ephemeral session has opened its own source.
JobStarts(j) ==
  /\ pooled => client[j].pc = "leased"
  /\ ExecuteStart(j)
  /\ UNCHANGED <<mainVars, poolVars>>

JobEnds(j) == ExecuteEnd(j) /\ UNCHANGED <<mainVars, poolVars>>

\* The deferred release.
JobGivesBack(j) ==
  /\ jobs[j].pc = "release"
  /\ \E invalidate \in BOOLEAN : Pool!Release(j, invalidate)
  /\ UNCHANGED <<vars, mainVars>>

JobReleases(j) == client[j].pc = "out" /\ Release(j) /\ UNCHANGED <<mainVars, poolVars>>

JobOther(j) ==
  /\ Claim(j) \/ WgAdd(j) \/ WgDone(j)
  /\ UNCHANGED <<mainVars, poolVars>>

JobFires(j) == Fire(j) /\ UNCHANGED <<mainVars, poolVars>>

(***************************************************************************)
(* The reload loops.  Fanout runs its hooks whether or not Reload failed   *)
(* and whether or not it found a change.                                   *)
(***************************************************************************)
Between(a) == a \notin hook /\ ~sweep[a].on

LoopReloads(a) ==
  /\ a \in Active /\ started /\ Between(a)
  /\ ReloadSources(a)
  /\ UNCHANGED <<mainVars, poolVars>>

Hooked(a) == pooled

LoopStep(a) ==
  /\ a \in Active
  /\ ReloadStep(a) \/ ReloadError(a)
  /\ hook' = IF reload'[a].pc = "idle" /\ Hooked(a) THEN hook \cup {a} ELSE hook
  /\ UNCHANGED <<stage, pooled, started, poolVars>>

LoopSweeps(a) ==
  /\ a \in hook
  /\ Pool!SweepBegin(a) /\ hook' = hook \ {a}
  /\ UNCHANGED <<vars, stage, pooled, started>>

Sweeping(w) ==
  /\ \/ Pool!SweepClose(w, Source)
     \/ w \in Loops /\ Pool!SweepEnd(w)
  /\ UNCHANGED <<vars, mainVars>>

LoopExits(a) ==
  /\ a \in Active /\ Between(a)
  /\ LoopExit(a)
  /\ UNCHANGED <<mainVars, poolVars>>

(***************************************************************************)
(* /readyz.                                                                *)
(***************************************************************************)
ReadyzBegins(q) ==
  /\ started /\ pooled
  /\ Pool!ProbeBegin(q)
  /\ UNCHANGED <<vars, mainVars>>

ReadyzStep(q) ==
  /\ Pool!ProbeLock(q, Source) \/ Pool!ProbeUnlock(q) \/ Pool!ProbeEnd(q)
  /\ UNCHANGED <<vars, mainVars>>

(***************************************************************************)
(* The shutdown.                                                           *)
(***************************************************************************)
MainSignalled ==
  /\ stage = "serving"
  /\ Terminate /\ stage' = "stopReload"
  /\ UNCHANGED <<pooled, started, hook, poolVars>>

\* reloader.Stop, which waits for the loops, then sch.Stop.
MainStopsScheduler ==
  /\ stage = "stopReload"
  /\ StopStep
  /\ stage' = IF phase' = "stopped" THEN "stopHousekeeper" ELSE stage
  /\ UNCHANGED <<pooled, started, hook, poolVars>>

\* The wait for the housekeeper ends with its sweep or after 30 seconds.
MainStopsHousekeeper ==
  /\ stage = "stopHousekeeper"
  /\ stage' = "stopHealth"
  /\ UNCHANGED <<vars, pooled, started, hook, poolVars>>

\* Shutdown waits for requests in flight, for 5 seconds.
MainStopsHealth ==
  /\ stage = "stopHealth"
  /\ \/ started /\ started' = FALSE /\ UNCHANGED stage
     \/ ~started /\ stage' = "stopLog" /\ UNCHANGED started
  /\ UNCHANGED <<vars, pooled, hook, poolVars>>

MainClosesLog ==
  /\ stage = "stopLog"
  /\ stage' = "closeSessions"
  /\ UNCHANGED <<vars, pooled, started, hook, poolVars>>

\* The deferred calls: sessions.Close, then the sink's.
MainClosesSessions ==
  \/ /\ stage = "closeSessions" /\ pooled
     /\ Pool!SweepBegin("close") /\ stage' = "closing"
     /\ UNCHANGED <<vars, pooled, started, hook>>
  \/ /\ stage = "closeSessions" /\ ~pooled
     /\ stage' = "exited"
     /\ UNCHANGED <<vars, pooled, started, hook, poolVars>>
  \/ /\ stage = "closing"
     /\ Pool!SweepEnd("close") /\ stage' = "exited"
     /\ UNCHANGED <<vars, pooled, started, hook>>

MainStep ==
  \/ MainLoads \/ MainStartsLoops \/ MainServes \/ MainStopsScheduler
  \/ MainStopsHousekeeper \/ MainStopsHealth \/ MainClosesLog \/ MainClosesSessions
JobProceeds(j) ==
  \/ JobOther(j) \/ JobRefused(j) \/ JobAsks(j) \/ JobOpens(j) \/ JobCannotOpen(j)
  \/ JobStarts(j) \/ JobGivesBack(j) \/ JobReleases(j)
LoopProceeds(a) == LoopReloads(a) \/ LoopStep(a) \/ LoopSweeps(a)
Sweepers == Loops \cup {"close"}

ProcNext ==
  /\ stage # "exited"
  /\ \/ MainStep \/ MainStartFails \/ MainSignalled
     \/ EditMetadata /\ UNCHANGED <<mainVars, poolVars>>
     \/ \E j \in Jobs : JobFires(j) \/ JobAcquires(j) \/ JobEnds(j) \/ JobProceeds(j)
     \/ \E a \in Active : LoopProceeds(a) \/ LoopExits(a)
     \/ \E w \in Sweepers : Sweeping(w)
     \/ \E q \in Probes : ReadyzBegins(q) \/ ReadyzStep(q)

(***************************************************************************)
(* Fairness.  Main, the loops and the goroutines of runs proceed where     *)
(* they are not blocked; select does not pass over the closed stopCh for   *)
(* ever; a Go mutex does not starve a waiter; calls to the databases and   *)
(* pings return.  A run that holds a slot may read its source for as long  *)
(* as it likes until its context is cancelled; then it returns.  Without   *)
(* the pool a run need never return.                                       *)
(***************************************************************************)
Step(A) == stage # "exited" /\ A

Fairness ==
  /\ WF_procVars(Step(MainStep))
  /\ \A a \in Active : WF_procVars(Step(LoopProceeds(a))) /\ SF_procVars(Step(LoopExits(a)))
  /\ \A w \in Active \cup {"close"} : SF_procVars(Step(Sweeping(w)))
  /\ \A q \in Probes : SF_procVars(Step(ReadyzStep(q)))
  /\ \A j \in Jobs :
       /\ WF_procVars(Step(JobProceeds(j))) /\ SF_procVars(Step(JobAcquires(j)))
       /\ WF_procVars(Step(pooled /\ Cancelled /\ JobEnds(j)))

ProcSpec == ProcInit /\ [][ProcNext]_procVars /\ Fairness

\* Runs that hold a slot come to an end by themselves as well.
RunsReturn == \A j \in Jobs : WF_procVars(Step(pooled /\ JobEnds(j)))

-----------------------------------------------------------------------------
\* A run between the start and the end of its row reads over a connection that
\* stays open through every reload, probe, failed startup and shutdown, until
\* the process is gone.
RunsKeepTheirConnection ==
  pooled => \A j \in Jobs : jobs[j].pc = "run" =>
    client[j].pc = "leased" /\ conns[client[j].conn].state = "open"

\* The inductive invariant: the scheduler's, the pool's, and how a run's place in
\* Execute goes with its place in Obtain.
LeasesFollowRuns ==
  \A j \in Jobs :
    /\ client[j].pc \in {"wait", "opening"} => jobs[j].pc = "execute"
    /\ client[j].pc = "leased" => jobs[j].pc \in {"execute", "run", "release"}
    /\ pooled /\ jobs[j].pc = "run" => client[j].pc = "leased"
    /\ ~pooled => client[j].pc = "out"

ProcInv == IndInv /\ Pool!IndInv /\ LeasesFollowRuns

Leaving == stage \notin {"load", "health", "housekeeping", "serving"}

\* Once main is on its way out, by a signal or by a failed startup, the process
\* exits: with the pool as long as runs end, and without it although a run hangs,
\* by the timeout of the scheduler's Stop.
ProcessExits == Leaving ~> stage = "exited"

\* docs/02-architecture.md on SIGTERM during a long run: it "finishes or is
\* marked `aborted` within `LOADER_SHUTDOWN_TIMEOUT_SEC`", so that the scheduler
\* stops although no run comes to an end by itself.
SigtermStopsScheduler == stage = "stopReload" ~> stage # "stopReload"

\* Nobody waits for a slot for ever: neither a run in Obtain nor /readyz in
\* PingAll.
WaitsEnd ==
  /\ \A j \in Jobs : client[j].pc = "wait" ~> (client[j].pc # "wait" \/ stage = "exited")
  /\ \A q \in Probes : probe[q].pc # "idle" ~> (probe[q].pc = "idle" \/ stage = "exited")
=============================================================================
