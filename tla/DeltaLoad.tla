----------------------------- MODULE DeltaLoad -----------------------------
(***************************************************************************)
(* One delta load, end to end: the runner's Execute, the windowed read of  *)
(* a SQL source, the append to the sink, the stored watermark, the run     *)
(* history row and the in-memory run state, with crashes, restarts and the *)
(* scheduler's shutdown around it.                                         *)
(*                                                                         *)
(* The overlap guard (module Scheduler) lets one run of a load exist at a  *)
(* time, so the run in flight is a single record.  Every call to a         *)
(* database may succeed, fail without effect, or fail after taking effect  *)
(* (the reply is lost); a call made on a cancelled context fails.          *)
(* Watermark values are naturals; 0 is the empty string of the code (no    *)
(* stored watermark, or MAX over an empty table).                          *)
(***************************************************************************)
EXTENDS Integers, FiniteSets

CONSTANTS Rows,      \* rows the source table may ever hold
          Wm,        \* Wm[r]: the row's value in the watermark column
          BatchSize, \* rows per handler call
          MaxRuns    \* bound on the runs recorded in meta_load_runs

ASSUME WmAssumption == Wm \in [Rows -> Nat \ {0}]
ASSUME BoundAssumption == BatchSize \in Nat \ {0} /\ MaxRuns \in Nat

VARIABLES
  proc,    \* the process: "down", "up", "stopping" (context cancelled), "stopped"
  pc,      \* where the run in flight is inside Execute; "idle": no run
  run,     \* its locals: run row, watermarks, rows still to be written
  src,     \* rows now in the source table
  arrival, \* how each row arrived relative to the bounds already used
  sink,    \* sink[r]: the runs that wrote row r into the target table
  wm,      \* meta_watermarks.value
  floor,   \* history: the value the last first-run initialisation stored
  runs,    \* meta_load_runs
  nruns,   \* rows ever inserted into meta_load_runs
  state    \* the load's entry of the run state registry

vars == <<proc, pc, run, src, arrival, sink, wm, floor, runs, nruns, state>>
envVars == <<src, arrival, floor>>
dbVars  == <<sink, wm, runs, nruns>>

RunIds   == 1..MaxRuns
Statuses == {"running", "success", "failed", "aborted"}
Terminal == Statuses \ {"running"}
NoRun    == [id |-> 0, cur |-> 0, upper |-> 0, init |-> FALSE,
             todo |-> {}, batch |-> {}]
NoRow    == [status |-> "none", start |-> 0, end |-> 0]

TypeOK ==
  /\ proc \in {"down", "up", "stopping", "stopped"}
  /\ pc \in {"idle", "obtain", "getwm", "start", "read", "query", "stream",
             "writing", "upsert", "finish", "fail"}
  /\ run \in [id : Nat, cur : Nat, upper : Nat, init : BOOLEAN,
              todo : SUBSET Rows, batch : SUBSET Rows]
  /\ src \in SUBSET Rows
  /\ arrival \in [Rows -> {"none", "due", "tied", "late"}]
  /\ sink \in [Rows -> SUBSET RunIds]
  /\ wm \in Nat /\ floor \in Nat
  /\ runs \in [RunIds -> [status : Statuses \cup {"none"}, start : Nat, end : Nat]]
  /\ nruns \in 0..MaxRuns
  /\ state \in [run : Nat, last : Statuses \cup {"none"}]

Init ==
  /\ proc = "down" /\ pc = "idle" /\ run = NoRun
  /\ src = {} /\ arrival = [r \in Rows |-> "none"]
  /\ sink = [r \in Rows |-> {}]
  /\ wm = 0 /\ floor = 0
  /\ runs = [n \in RunIds |-> NoRow] /\ nruns = 0
  /\ state = [run |-> 0, last |-> "none"]

(***************************************************************************)
(* The context of a run: cancelled by Scheduler.Stop, after which every    *)
(* call that takes it returns an error.                                    *)
(***************************************************************************)
CtxDone_Ignored == FALSE
CtxDone == proc # "up"

(***************************************************************************)
(* The source table.  A row that appears with a value at or below a bound  *)
(* a run has already used is "tied" or "late"; a row above every bound is  *)
(* "due".  A statement in progress may or may not see a row inserted into, *)
(* or deleted from, its window.                                            *)
(***************************************************************************)
Bounds == {wm, run.cur, run.upper}

ArrivalClass(r) ==
  IF \E b \in Bounds : Wm[r] < b THEN "late"
  ELSE IF Wm[r] \in Bounds THEN "tied"
  ELSE "due"

InWindow(r) == run.cur < Wm[r] /\ Wm[r] <= run.upper

SourceInsert(r) ==
  /\ arrival[r] = "none"
  /\ src' = src \cup {r}
  /\ arrival' = [arrival EXCEPT ![r] = ArrivalClass(r)]
  /\ \/ UNCHANGED run
     \/ /\ pc \in {"stream", "writing"} /\ InWindow(r)
        /\ run' = [run EXCEPT !.todo = @ \cup {r}]
  /\ UNCHANGED <<proc, pc, floor, dbVars, state>>

SourceDelete(r) ==
  /\ r \in src
  /\ src' = src \ {r}
  /\ \/ UNCHANGED run
     \/ /\ pc \in {"stream", "writing"} /\ r \in run.todo
        /\ run' = [run EXCEPT !.todo = @ \ {r}]
  /\ UNCHANGED <<proc, pc, arrival, floor, dbVars, state>>

(***************************************************************************)
(* Execute, up to the insertion of the run row.  An error in any of these  *)
(* calls returns before a run row or a run state exists.                   *)
(***************************************************************************)
Trigger ==
  /\ proc = "up" /\ pc = "idle" /\ nruns < MaxRuns
  /\ pc' = "obtain"
  /\ UNCHANGED <<proc, run, envVars, dbVars, state>>

\* The lease is given back by the deferred release: module SourcePool.
ReturnEarly ==
  /\ pc \in {"obtain", "getwm", "start"}
  /\ pc' = "idle" /\ run' = NoRun
  /\ UNCHANGED <<proc, envVars, dbVars, state>>

\* Obtain may succeed on a cancelled context: a Modbus open ignores it.
Obtain ==
  /\ pc = "obtain"
  /\ pc' = "getwm"
  /\ UNCHANGED <<proc, run, envVars, dbVars, state>>

GetWatermark ==
  /\ pc = "getwm" /\ ~CtxDone
  /\ run' = [run EXCEPT !.cur = wm]
  /\ pc' = "start"
  /\ UNCHANGED <<proc, envVars, dbVars, state>>

InsertRunRow ==
  /\ nruns' = nruns + 1
  /\ runs' = [runs EXCEPT ![nruns'] =
                [status |-> "running", start |-> run.cur, end |-> 0]]

\* StartRun and MarkRunning, or a StartRun whose reply is lost.
StartRun ==
  /\ pc = "start" /\ ~CtxDone /\ nruns < MaxRuns
  /\ InsertRunRow
  /\ \/ /\ run' = [run EXCEPT !.id = nruns']
        /\ state' = [run |-> nruns', last |-> "running"]
        /\ pc' = "read"
     \/ /\ run' = NoRun /\ pc' = "idle"
        /\ UNCHANGED state
  /\ UNCHANGED <<proc, envVars, sink, wm>>

(***************************************************************************)
(* The source's Read.                                                      *)
(***************************************************************************)
\* currentMaxWatermark: MAX over the table, 0 when it is empty.
IsMaxWm(w) ==
  /\ \A r \in src : Wm[r] <= w
  /\ IF src = {} THEN w = 0 ELSE w \in {Wm[r] : r \in src}
MaxWms == {w \in {0} \cup {Wm[r] : r \in src} : IsMaxWm(w)}

\* The upsert condition of Execute, evaluated when Read has returned.
AfterRead(r) ==
  IF r.upper # 0 /\ (r.init \/ r.upper # r.cur) THEN "upsert" ELSE "finish"

\* First run: MAX is the new watermark and nothing is read.
ReadInit ==
  /\ pc = "read" /\ ~CtxDone /\ run.cur = 0
  /\ \E w \in MaxWms : run' = [run EXCEPT !.upper = w, !.init = TRUE]
  /\ pc' = AfterRead(run')
  /\ UNCHANGED <<proc, envVars, dbVars, state>>

\* Otherwise the upper bound is taken before the rows are read.
ReadUpper ==
  /\ pc = "read" /\ ~CtxDone /\ run.cur # 0
  /\ \E w \in MaxWms : run' = [run EXCEPT !.upper = w]
  /\ pc' = "query"
  /\ UNCHANGED <<proc, envVars, dbVars, state>>

Window_Exclusive(r) == run.cur < Wm[r] /\ Wm[r] < run.upper
Window_Inclusive(r) == run.cur <= Wm[r] /\ Wm[r] <= run.upper
Window(r) == InWindow(r)

Query ==
  /\ pc = "query" /\ ~CtxDone
  /\ run' = [run EXCEPT !.todo = {r \in src : Window(r)}]
  /\ pc' = "stream"
  /\ UNCHANGED <<proc, envVars, dbVars, state>>

\* ORDER BY the watermark column: a batch is a lowest full slice of the rest.
IsBatch(b) ==
  /\ b \subseteq run.todo
  /\ \A r \in b, q \in run.todo \ b : Wm[r] <= Wm[q]
  /\ \/ Cardinality(b) = BatchSize
     \/ Cardinality(b) \in 1..BatchSize /\ b = run.todo

BatchBegin ==
  /\ pc = "stream" /\ ~CtxDone
  /\ \E b \in SUBSET run.todo :
       /\ IsBatch(b)
       /\ run' = [run EXCEPT !.batch = b, !.todo = @ \ b]
  /\ pc' = "writing"
  /\ UNCHANGED <<proc, envVars, dbVars, state>>

Written == [r \in Rows |-> IF r \in run.batch THEN sink[r] \cup {run.id} ELSE sink[r]]

\* The bulk copy is not bound to the run's context and may land after the
\* cancellation.  An error, before or after the rows land, fails the read.
BatchLand ==
  /\ pc = "writing"
  /\ run' = [run EXCEPT !.batch = {}]
  /\ \/ sink' = Written /\ pc' = "stream"
     \/ sink' = Written /\ pc' = "fail"
     \/ UNCHANGED sink /\ pc' = "fail"
  /\ UNCHANGED <<proc, envVars, wm, runs, nruns, state>>

ReadDone ==
  /\ pc = "stream" /\ run.todo = {}
  /\ pc' = AfterRead(run)
  /\ UNCHANGED <<proc, run, envVars, dbVars, state>>

\* Any error of Read, first-batch EnsureTable included.
ReadError ==
  /\ pc \in {"read", "query", "stream"}
  /\ pc' = "fail"
  /\ UNCHANGED <<proc, run, envVars, dbVars, state>>

(***************************************************************************)
(* Execute, after Read.                                                    *)
(***************************************************************************)
UpsertWatermark_Detached ==
  /\ pc = "upsert"
  /\ \/ /\ wm' = run.upper
        /\ floor' = IF run.init THEN run.upper ELSE floor
        /\ pc' \in {"finish", "fail"}
     \/ /\ pc' = "fail" /\ UNCHANGED <<wm, floor>>
  /\ UNCHANGED <<proc, run, src, arrival, sink, runs, nruns, state>>
UpsertWatermark ==
  /\ pc = "upsert"
  /\ \/ /\ ~CtxDone
        /\ wm' = run.upper
        /\ floor' = IF run.init THEN run.upper ELSE floor
        /\ pc' \in {"finish", "fail"}
     \/ /\ pc' = "fail" /\ UNCHANGED <<wm, floor>>
  /\ UNCHANGED <<proc, run, src, arrival, sink, runs, nruns, state>>

CloseRunRow(status, end) ==
  runs' = [runs EXCEPT ![run.id] =
             [status |-> status, start |-> @.start, end |-> end]]

ReportedStatus_Unchecked(saved) == "success"
ReportedStatus(saved) == IF saved THEN "success" ELSE "failed"

\* FinishRun("success"): only a confirmed save is reported as a success.
Finish ==
  /\ pc = "finish"
  /\ \E saved \in BOOLEAN :
       /\ \/ ~CtxDone /\ CloseRunRow("success", run.upper)
          \/ ~saved /\ UNCHANGED runs
       /\ state' = [state EXCEPT !.last = ReportedStatus(saved)]
  /\ pc' = "idle" /\ run' = NoRun
  /\ UNCHANGED <<proc, envVars, sink, wm, nruns>>

\* FinishRun("failed"), whose own error is ignored, and MarkFinished.
Fail ==
  /\ pc = "fail"
  /\ \/ ~CtxDone /\ CloseRunRow("failed", run.cur)
     \/ UNCHANGED runs
  /\ state' = [state EXCEPT !.last = "failed"]
  /\ pc' = "idle" /\ run' = NoRun
  /\ UNCHANGED <<proc, envVars, sink, wm, nruns>>

(***************************************************************************)
(* The process around the run, and the operator.                           *)
(***************************************************************************)
AbortRunningRuns ==
  runs' = [n \in RunIds |-> IF runs[n].status = "running"
                            THEN [runs[n] EXCEPT !.status = "aborted"]
                            ELSE runs[n]]

\* Scheduler.Load at startup; the process exits again when a later step of
\* the startup fails.
Restart ==
  /\ proc = "down"
  /\ AbortRunningRuns
  /\ proc' \in {"up", "down"}
  /\ UNCHANGED <<pc, run, envVars, sink, wm, nruns, state>>

StopBegin ==
  /\ proc = "up"
  /\ proc' = "stopping"
  /\ UNCHANGED <<pc, run, envVars, dbVars, state>>

\* The wait for the run in flight has ended, by its return or by the timeout.
StopAbort ==
  /\ proc = "stopping"
  /\ AbortRunningRuns \/ UNCHANGED runs
  /\ proc' = "stopped"
  /\ UNCHANGED <<pc, run, envVars, sink, wm, nruns, state>>

\* Exit after a shutdown, or a crash at any point.
Exit ==
  /\ proc # "down"
  /\ proc' = "down" /\ pc' = "idle" /\ run' = NoRun
  /\ state' = [run |-> 0, last |-> "none"]
  /\ UNCHANGED <<envVars, dbVars>>

\* After a reset the next run initialises again.
ResetWatermark ==
  /\ wm' = 0
  /\ UNCHANGED <<proc, pc, run, envVars, sink, runs, nruns, state>>

Next ==
  \/ \E r \in Rows : SourceInsert(r) \/ SourceDelete(r)
  \/ Trigger \/ Obtain \/ GetWatermark \/ StartRun \/ ReturnEarly
  \/ ReadInit \/ ReadUpper \/ Query \/ BatchBegin \/ BatchLand
  \/ ReadDone \/ ReadError
  \/ UpsertWatermark \/ Finish \/ Fail
  \/ Restart \/ StopBegin \/ StopAbort \/ Exit \/ ResetWatermark

Spec == Init /\ [][Next]_vars

-----------------------------------------------------------------------------
\* No row is lost: a row of the source at or below the stored watermark has
\* been written to the sink, unless the first-run initialisation skipped it
\* or it arrived at or below a bound a run had already used.  Execute may
\* store a watermark only after the whole window up to it has landed, through
\* every failure, lost reply, crash, cancellation and reset.
NoLoss ==
  \A r \in src :
    /\ floor < Wm[r] /\ Wm[r] <= wm
    /\ arrival[r] = "due"
    => sink[r] # {}

\* No two runs recorded as successful wrote the same row: every duplicate in
\* the sink comes from a run whose history row shows that it did not finish.
DuplicatesOnlyFromFailures ==
  \A r \in Rows : \A m, n \in RunIds :
    /\ m \in sink[r] /\ n \in sink[r]
    /\ runs[m].status = "success" /\ runs[n].status = "success"
    => m = n

\* The run state served by the status endpoint reports success only for a run
\* whose history row has been saved as a success.
ReportedSuccessDurable ==
  state.last = "success" => runs[state.run].status = "success"

\* A run row that has reached success, failed or aborted never changes again:
\* a run that outlives the shutdown timeout cannot overwrite the "aborted"
\* that Stop has recorded for it.
TerminalIsFinal ==
  [][\A n \in RunIds : runs[n].status \in Terminal => runs'[n] = runs[n]]_vars

\* Only a run whose history row says it may be at work touches what other runs
\* rest on: the watermark is moved by a run recorded as running (or cleared by a
\* reset), and a row reaches the sink from a run recorded as running, or as
\* aborted by a Stop that timed out and whose process has not exited yet.  A
\* run never moves the watermark after Stop or a restart has aborted it, and
\* never writes after it was reported finished or its process has gone.
OnlyLiveRunsWrite ==
  [][/\ wm' \notin {wm, 0} => run.id \in RunIds /\ runs[run.id].status = "running"
     /\ \A r \in Rows : \A n \in sink'[r] \ sink[r] :
          \/ runs[n].status = "running"
          \/ runs[n].status = "aborted" /\ proc = "stopped"]_vars

-----------------------------------------------------------------------------
(* The inductive invariant behind NoLoss and DuplicatesOnlyFromFailures.   *)

Counted(r) == arrival[r] = "due"
Loaded(r)  == \E n \in sink[r] : runs[n].status = "success"
InRun      == pc \notin {"idle", "obtain", "getwm", "start"}

\* What the control state says of the run's locals, its row and its entry in
\* the registry.
RunControl ==
  /\ pc \in {"idle", "obtain", "getwm"} => run = NoRun
  /\ pc = "start" => run = [NoRun EXCEPT !.cur = run.cur]
  /\ pc = "read" => run = [NoRun EXCEPT !.cur = run.cur, !.id = run.id]
  /\ pc \in {"query", "stream", "writing"} => run.cur # 0 /\ ~run.init
  /\ pc \in {"query", "upsert", "finish"} => run.todo = {}
  /\ pc # "writing" => run.batch = {}
  /\ pc = "upsert" => run.upper # 0 /\ (run.init <=> run.cur = 0)
  /\ InRun => /\ run.id = nruns /\ nruns # 0
              /\ state = [run |-> run.id, last |-> "running"]
              /\ \/ runs[run.id].status = "running"
                 \/ runs[run.id].status = "aborted" /\ proc = "stopped"
  /\ proc = "down" => pc = "idle"
  /\ state.last = "success" =>
       state.run \in RunIds /\ runs[state.run].status = "success"

\* Rows not yet used: of the run history, and of the source.
Untouched ==
  /\ \A n \in RunIds : n > nruns =>
       runs[n].status = "none" /\ \A r \in Rows : n \notin sink[r]
  /\ \A r \in Rows : arrival[r] = "none" =>
       r \notin src /\ sink[r] = {} /\ r \notin run.todo \cup run.batch

\* Up to the run's lower bound everything has landed, and inside its window
\* everything has landed or is still held by the run.
NothingSkipped ==
  /\ \A r \in src : Counted(r) /\ floor < Wm[r] /\ Wm[r] <= run.cur
       => sink[r] # {}
  /\ pc \in {"stream", "writing", "upsert"} /\ ~run.init =>
       \A r \in src : Counted(r) /\ InWindow(r)
         => r \in run.todo \cup run.batch \/ sink[r] # {}

\* Rows of successful runs lie at or below every lower bound in use, and the
\* run in flight holds or wrote only rows above its own.
NothingRepeated ==
  /\ \A r \in src : Loaded(r) =>
       /\ wm # 0 => Wm[r] <= wm
       /\ run.cur # 0 => Wm[r] <= run.cur
       /\ pc \in {"query", "stream", "writing", "upsert"} => Wm[r] <= run.upper
  /\ \A r \in Rows :
       r \in run.todo \cup run.batch \/ run.id \in sink[r]
         => InWindow(r) /\ ~Loaded(r)
  /\ pc = "finish" /\ wm # 0 =>
       \A r \in src : run.id \in sink[r] => Wm[r] <= wm

\* The inductive invariant: a run never holds or skips a row that its bounds
\* do not allow, in every state of Execute and of the process around it.
IndInv ==
  /\ TypeOK /\ RunControl /\ Untouched
  /\ NothingSkipped /\ NothingRepeated
  /\ NoLoss /\ DuplicatesOnlyFromFailures
=============================================================================
