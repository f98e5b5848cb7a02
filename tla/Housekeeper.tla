---------------------------- MODULE Housekeeper ----------------------------
(***************************************************************************)
(* Housekeeper: sweeps that delete old rows of meta_log_entries and of     *)
(* meta_load_runs in batches, while the loader writes new ones.            *)
(*                                                                         *)
(* The cron library starts every tick in a goroutine of its own, and       *)
(* RunNow may be called at any time, so executions overlap; the running    *)
(* flag lets one of them through.  A row carries the day it was written;   *)
(* a sweep computes its cutoff once per table and then deletes batch by    *)
(* batch with pauses in between, during which days may pass.               *)
(***************************************************************************)
EXTENDS Integers, FiniteSets

CONSTANTS LogRows, RunRows,  \* rows that may ever be written
          Ticks,             \* executions started by cron
          Callers,           \* executions started by RunNow, with a context
          Configs,           \* housekeeping.Config: log and run retention, batch
          DefaultBatch,
          LastDay            \* bound of the clock

Executions == Ticks \cup Callers
Days == 0..LastDay
Unwritten == -1

ASSUME HousekeeperAssumption ==
  /\ LastDay \in Nat /\ DefaultBatch \in Nat \ {0}
  /\ Configs \subseteq [log : Int, run : Int, batch : Int]
  /\ Ticks \cap Callers = {}
  /\ IsFiniteSet(LogRows) /\ IsFiniteSet(RunRows)

VARIABLES
  day,       \* the clock
  cfg,       \* Housekeeper.cfg, with the batch size New gives it
  logs,      \* meta_log_entries: the day of each row
  runs,      \* meta_load_runs: the day of each row, and its status
  gone,      \* rows that have been deleted
  running,   \* Housekeeper.running
  exec,      \* where each execution is, and the cutoff of the table it is at
  cancelled, \* callers whose context is done
  stop       \* main: not yet, waiting for cron's context, or past the wait

vars == <<day, cfg, logs, runs, gone, running, exec, cancelled, stop>>

Out == [pc |-> "out", cutoff |-> Unwritten]

TypeOK ==
  /\ day \in Days
  /\ cfg \in [log : Int, run : Int, batch : Nat \ {0}]
  /\ logs \in [LogRows -> Days \cup {Unwritten}]
  /\ runs \in [RunRows -> [day : Days \cup {Unwritten}, terminal : BOOLEAN]]
  /\ gone \in SUBSET (LogRows \cup RunRows)
  /\ running \in BOOLEAN
  /\ exec \in [Executions -> [pc : {"out", "fired", "logs", "runs", "end"}, cutoff : Int]]
  /\ cancelled \in SUBSET Callers
  /\ stop \in {"no", "wait", "drained", "timeout"}

\* New and pruneInBatches replace a batch size that is not positive.
BatchOf(c) == IF c.batch <= 0 THEN DefaultBatch ELSE c.batch

Init ==
  /\ day = 0
  /\ \E c \in Configs : cfg = [c EXCEPT !.batch = BatchOf(c)]
  /\ logs = [i \in LogRows |-> Unwritten]
  /\ runs = [r \in RunRows |-> [day |-> Unwritten, terminal |-> FALSE]]
  /\ gone = {}
  /\ running = FALSE
  /\ exec = [e \in Executions |-> Out]
  /\ cancelled = {}
  /\ stop = "no"

Up == stop \in {"no", "wait"}

(***************************************************************************)
(* The rest of the loader: days pass, entries are logged, runs start and   *)
(* reach a terminal status.                                                *)
(***************************************************************************)
DayPasses ==
  /\ Up /\ day < LastDay
  /\ day' = day + 1
  /\ UNCHANGED <<cfg, logs, runs, gone, running, exec, cancelled, stop>>

LogWritten(i) ==
  /\ Up /\ logs[i] = Unwritten
  /\ logs' = [logs EXCEPT ![i] = day]
  /\ UNCHANGED <<day, cfg, runs, gone, running, exec, cancelled, stop>>

RunStarted(r) ==
  /\ Up /\ runs[r].day = Unwritten
  /\ runs' = [runs EXCEPT ![r] = [day |-> day, terminal |-> FALSE]]
  /\ UNCHANGED <<day, cfg, logs, gone, running, exec, cancelled, stop>>

RunFinished(r) ==
  /\ Up /\ runs[r].day # Unwritten /\ ~runs[r].terminal
  /\ runs' = [runs EXCEPT ![r] = [day |-> runs[r].day, terminal |-> TRUE]]
  /\ UNCHANGED <<day, cfg, logs, gone, running, exec, cancelled, stop>>

(***************************************************************************)
(* execute.                                                                *)
(***************************************************************************)
\* A tick of cron, until Stop; a call of RunNow, whenever it comes.
Fire(e) ==
  /\ exec[e].pc = "out" /\ Up
  /\ (e \in Ticks => stop = "no") /\ e \notin cancelled
  /\ exec' = [exec EXCEPT ![e] = [pc |-> "fired", cutoff |-> Unwritten]]
  /\ UNCHANGED <<day, cfg, logs, runs, gone, running, cancelled, stop>>

Cancel(e) ==
  /\ e \in Callers \ cancelled /\ Up
  /\ cancelled' = cancelled \cup {e}
  /\ UNCHANGED <<day, cfg, logs, runs, gone, running, exec, stop>>

\* What an execution does next: a table whose retention is positive, with the
\* cutoff of this moment, or nothing.
AtRuns ==
  IF cfg.run > 0 THEN [pc |-> "runs", cutoff |-> day - cfg.run]
                 ELSE [pc |-> "end", cutoff |-> Unwritten]
AtLogs ==
  IF cfg.log > 0 THEN [pc |-> "logs", cutoff |-> day - cfg.log] ELSE AtRuns

\* The locked check of the running flag.
MayStart_Unguarded == TRUE
MayStart == ~running

Start(e) ==
  /\ exec[e].pc = "fired" /\ Up
  /\ IF MayStart
     THEN running' = TRUE /\ exec' = [exec EXCEPT ![e] = AtLogs]
     ELSE exec' = [exec EXCEPT ![e] = Out] /\ UNCHANGED running
  /\ UNCHANGED <<day, cfg, logs, runs, gone, cancelled, stop>>

\* What one DELETE TOP may delete.
PrunableLogs(cutoff) ==
  {i \in LogRows \ gone : logs[i] # Unwritten /\ logs[i] < cutoff}
PrunableRuns_AnyStatus(cutoff) ==
  {r \in RunRows \ gone : runs[r].day # Unwritten /\ runs[r].day < cutoff}
PrunableRuns(cutoff) ==
  {r \in RunRows \ gone : runs[r].day # Unwritten /\ runs[r].day < cutoff /\ runs[r].terminal}
Prunable(x) == IF x.pc = "logs" THEN PrunableLogs(x.cutoff) ELSE PrunableRuns(x.cutoff)

\* The number of rows a DELETE removed shows that it was the last one.
LastBatch_OffByOne(n) == n <= cfg.batch
LastBatch(n) == n < cfg.batch

\* After a table, whether it was pruned or failed, comes the next one.
After(x) == IF x.pc = "logs" THEN AtRuns ELSE [pc |-> "end", cutoff |-> Unwritten]

Prune(e) ==
  /\ exec[e].pc \in {"logs", "runs"} /\ e \notin cancelled /\ Up
  /\ \E batch \in SUBSET Prunable(exec[e]) :
       /\ \/ batch = Prunable(exec[e]) /\ Cardinality(batch) <= cfg.batch
          \/ Cardinality(batch) = cfg.batch
       /\ gone' = gone \cup batch
       /\ exec' = [exec EXCEPT ![e] = IF LastBatch(Cardinality(batch))
                                      THEN After(exec[e]) ELSE exec[e]]
  /\ UNCHANGED <<day, cfg, logs, runs, running, cancelled, stop>>

\* The DELETE fails, or the context is done; the error is logged.
PruneFails(e) ==
  /\ exec[e].pc \in {"logs", "runs"} /\ Up
  /\ exec' = [exec EXCEPT ![e] = After(exec[e])]
  /\ UNCHANGED <<day, cfg, logs, runs, gone, running, cancelled, stop>>

\* The deferred function.
End_KeepsFlag(e) ==
  /\ exec[e].pc = "end" /\ Up
  /\ exec' = [exec EXCEPT ![e] = Out]
  /\ UNCHANGED <<day, cfg, logs, runs, gone, running, cancelled, stop>>
End(e) ==
  /\ exec[e].pc = "end" /\ Up
  /\ running' = FALSE
  /\ exec' = [exec EXCEPT ![e] = Out]
  /\ UNCHANGED <<day, cfg, logs, runs, gone, cancelled, stop>>

(***************************************************************************)
(* Stop, and main's wait for the ticks in flight or for 30 seconds.        *)
(***************************************************************************)
Stop ==
  /\ stop = "no"
  /\ stop' = "wait"
  /\ UNCHANGED <<day, cfg, logs, runs, gone, running, exec, cancelled>>

Drained == \A e \in Ticks : exec[e].pc = "out"

StopDrained ==
  /\ stop = "wait" /\ Drained
  /\ stop' = "drained"
  /\ UNCHANGED <<day, cfg, logs, runs, gone, running, exec, cancelled>>

StopTimeout_Missing == FALSE /\ UNCHANGED vars
StopTimeout ==
  /\ stop = "wait" /\ ~Drained
  /\ stop' = "timeout"
  /\ UNCHANGED <<day, cfg, logs, runs, gone, running, exec, cancelled>>

Next ==
  \/ DayPasses \/ Stop \/ StopDrained \/ StopTimeout
  \/ \E i \in LogRows : LogWritten(i)
  \/ \E r \in RunRows : RunStarted(r) \/ RunFinished(r)
  \/ \E e \in Executions :
       Fire(e) \/ Cancel(e) \/ Start(e) \/ Prune(e) \/ PruneFails(e) \/ End(e)

Spec == Init /\ [][Next]_vars

(***************************************************************************)
(* Fairness.  Cron keeps ticking, goroutines that are not blocked proceed, *)
(* and the timer of main fires.  Nothing is assumed of a DELETE.           *)
(***************************************************************************)
Proceeds ==
  /\ \A e \in Executions : WF_vars(Start(e) \/ End(e))
  /\ WF_vars(StopDrained \/ StopTimeout)
FairSpec == Spec /\ Proceeds /\ \A e \in Ticks : WF_vars(Fire(e))

\* A DELETE returns, and one that is retried for ever does not fail for ever.
DatabaseAnswers ==
  \A e \in Executions :
    /\ WF_vars(Prune(e) \/ PruneFails(e))
    /\ SF_vars(exec[e].pc = "logs" /\ Prune(e)) /\ SF_vars(exec[e].pc = "runs" /\ Prune(e))

-----------------------------------------------------------------------------
Sweeping == {e \in Executions : exec[e].pc \in {"logs", "runs", "end"}}

\* At most one execution is between the check of the running flag and its reset,
\* and the flag says so: ticks and calls of RunNow never prune side by side.
SingleSweep ==
  /\ running <=> Sweeping # {}
  /\ \A e, f \in Sweeping : e = f

\* The inductive invariant: an execution prunes a table only if its retention is
\* enabled, and its cutoff was never later than what the retention allows now.
CutoffInv ==
  \A e \in Executions :
    /\ exec[e].pc = "logs" => cfg.log > 0 /\ exec[e].cutoff <= day - cfg.log
    /\ exec[e].pc = "runs" => cfg.run > 0 /\ exec[e].cutoff <= day - cfg.run
IndInv == TypeOK /\ SingleSweep /\ CutoffInv

\* A row is deleted only if its table's retention is enabled and the row is older
\* than that retention at the moment of the delete, and a load run only if it has
\* a terminal status: stuck runs stay visible.
OnlyExpiredGo ==
  [][\A x \in gone' \ gone :
       \/ /\ x \in LogRows /\ cfg.log > 0
          /\ logs[x] # Unwritten /\ day - logs[x] > cfg.log
       \/ /\ x \in RunRows /\ cfg.run > 0 /\ runs[x].terminal
          /\ runs[x].day # Unwritten /\ day - runs[x].day > cfg.run]_vars

\* A sweep leaves a table it has pruned without error only when nothing older
\* than its cutoff is left in it, whatever the number of rows and the batch size.
SweptClean ==
  [][\A e \in Executions :
       Prune(e) /\ exec'[e].pc # exec[e].pc => Prunable(exec[e]) \subseteq gone']_vars

\* Main gets past the housekeeper although a DELETE never returns.
StopReturns == stop = "wait" ~> ~Up

\* With a database that answers, rows past their retention are deleted although
\* ticks are skipped, a table fails, or a caller gives up in the middle.
ExpiredRowsGo ==
  DatabaseAnswers =>
    /\ \A i \in LogRows :
         (cfg.log > 0 /\ logs[i] # Unwritten /\ day - logs[i] > cfg.log)
           ~> (i \in gone \/ stop # "no")
    /\ \A r \in RunRows :
         (cfg.run > 0 /\ runs[r].terminal /\ day - runs[r].day > cfg.run)
           ~> (r \in gone \/ stop # "no")
=============================================================================
