# Verification of data-loader

TLA+ models of the `data-loader` service, the TLC runs that check them on small
instances, and TLAPS proofs of their main properties for instances of any size.

The loader moves rows from SQL Server and PostgreSQL tables and from Modbus and
OPC UA devices into a SQL Server sink. Sources, loads, cron expressions,
watermarks and the run history live in a metadata database that operators and a
seeder edit while the loader runs.

## 1. Inventory

| Part | State it keeps | Operations | Who calls it |
| --- | --- | --- | --- |
| Runner (`internal/pipeline/runner.go`) | the locals of one `Execute` | `Execute`: lease a source, read the watermark, insert a run row, read and write batches, commit a replace, store the watermark, close the row | Scheduler, one goroutine per firing |
| Replace session (`pipeline/replace.go`, `sink/replace.go`) | staging table, live table, flags of the session | `prepareExisting`, `ensureFirstBatch`, `commit`, `abort` | Runner |
| Sink (`internal/sink/mssql.go`) | target tables | `EnsureTable`, `WriteBatch`, `Truncate` | Runner |
| SQL sources (`sources/sqlserver`, `sources/postgres`) | a connection | `Open`, `Read` (first-run seeding or a windowed query), `Close` | Runner, through the sessions |
| Telemetry sources (`sources/modbus`, `sources/opcua`) | a connection, its mutex | `Open`, `Read` (one poll of all tags) | Runner, through the sessions |
| Source sessions (`pipeline/pool.go`, `pipeline/session.go`) | per source: a connection, its fingerprint, age and last use, a mutex held for the lease | `Obtain`, release, `Invalidate`, `InvalidateAll`, `PingAll`, `Close` | Runner, reload, health, main |
| Metadata repository (`internal/metadata`) | `meta_*` tables | watermark, run row, fingerprint and pruning queries | Runner, Scheduler, Housekeeper, log handler |
| Scheduler (`internal/scheduler`) | scheduled loads and their cron entries, the running set, the last fingerprint, a wait group | `Load`, `Reload`, `trigger`, `Stop` | main, reload loops, the cron library |
| Reload coordinator (`internal/reload`) | two goroutines, a stop channel | SIGHUP loop, poll loop, `Stop`; `Fanout` also empties the pool | main |
| Run state registry (`internal/runstate`) | last outcome per load | `Register`, `MarkRunning`, `MarkFinished`, `Snapshot` | Scheduler, Runner, health |
| Log handler (`internal/logging/dbhandler.go`) | a bounded channel, a closed flag, a dropped counter, a worker | `Handle`, `Close`, worker | everyone |
| Housekeeper (`internal/housekeeping`) | a cron entry, a running flag | `Start`, tick, `RunNow`, `Stop` | main, the cron library |
| Health server (`internal/health`) | none of its own | `/healthz`, `/readyz`, `/status` | orchestrator |
| Seeder (`internal/seed`, `cmd/seed`) | none of its own | `Apply`: upsert sources and loads, replace tags | operator |
| Migrations (`internal/migrate`) | schema version | `Up`, `Down`, baseline | operator |
| Process (`cmd/loader/main.go`) | the order of start and stop | `runServer` | the orchestrator |
| Configuration, identifiers, metrics | none that changes | parsing, quoting, counters | everyone |

### Interactions

- The cron library starts one goroutine per firing; the goroutines, the two
  reload loops and `Stop` share the scheduler's mutex, running set and wait group.
- A run holds one context for all its calls. `Scheduler.Stop` cancels it, so
  every later database call of the run fails, its own bookkeeping included.
- Runs, reloads, the readiness probe and the final `Close` share the pool's
  per-source mutex, which a run holds from `Obtain` until its release.
- The run row, the watermark and the sink table live in databases that share no
  transaction: each call may fail, or take effect and lose its reply.

### What is hard here

- **Failure between two writes.** Rows, watermark and run row are written by
  separate calls; correctness rests on their order.
- **A moving source.** Rows are inserted and deleted between the `MAX` query, the
  window query and the fetches, with values equal to or below a bound in use.
- **Reconciliation under edits.** The fingerprint is read by several queries
  before the loads are listed; edits and the other reload loop fall in between.
- **Shutdown.** Firings, reloads, runs that ignore their context and the final
  sweep of run rows interleave, with a timeout racing the drain.
- **Locks held for long.** A pooled connection is locked for a whole run.
- **A channel closed under its senders** in the log handler.
- **Failures turned into data.** A poll of a device reports failures as rows, so the
  run succeeds and the pool keeps a broken connection.
- **Positions instead of names.** OPC UA results, registers and batches of deletes are
  matched by position or by count.

### What correct means, per part

- Runner with a SQL source: no row is skipped below the watermark; successful
  runs do not load a row twice; a success that is shown is durable; a closed run
  row is final.
- Replace session: readers of the live table see all of the old or all of the
  new rows; a failed run leaves the old ones.
- Scheduler: no overlap, one live cron entry per load, convergence to the
  metadata, no row left `running` after the shutdown's sweep, bounded shutdown.
- Sessions: a connection is used by one lease at a time, is closed once, and is
  not reused after an invalidation or a failed read.
- Log handler: an accepted record is written once and in order; `Close` drains.
- Housekeeper: never two prunes at once, a running row is never pruned.
- Telemetry: one row per tag and poll, values decoded and attributed to their tag.
- Seeder: what the file says wins, what it does not say stays, and repeating a seed
  settles.
- Process: runs keep their connections until they end, nobody waits for ever, and the
  process exits.

## 2. Modules, runs and proofs at a glance

| Part | Modules | Runs | Proofs |
| --- | --- | --- | --- |
| Delta loads: rows, watermark, run history | `DeltaLoad` | `runner` | `DeltaLoadProofs` |
| Replace loads | `ReplaceRun` implements `AtomicReplace` | `runner` | `ReplaceRunProofs` |
| Scheduling and reload | `Scheduler` | `scheduler`, `reload_repair` | `SchedulerProofs` |
| Pooled connections | `SourcePool` implements `SourceSession` | `source_pool` | `SourcePoolProofs` |
| Startup and shutdown of the process | `Process` extends `Scheduler` and instantiates `SourcePool` | `shutdown`, `shutdown_blocked` | `ProcessProofs` |
| Log handler | `LogHandler` | `log_tables`, `log_panic` | `LogProofs` |
| Housekeeping | `Housekeeper` | `log_tables` | `LogProofs` |
| Telemetry and seeding | `Telemetry` extends `Seeder`, `ModbusDecode` and `OpcUaRead`, which use `Lists` | `telemetry`, `modbus_byte_order`, `device_returns`, `seed_twice` | `PointProofs`, `TelemetryProofs` |

A module `MCx` instantiates the module `x` for TLC. `MCRunner` has the two kinds of load,
`MCLogTables` the two users of the log table: a behaviour is about one of the two
(`mode`, `part`), and the variables of the other rest. An operator whose name has an
underscore (`Window_Exclusive`) is a deliberately wrong variant of the operator before
the underscore; substituting it must break the property it is listed with in
`PROJECT.json`.

## 3. Modules and the code

### DeltaLoad: one delta load, end to end

| State | Code |
| --- | --- |
| `pc`, `run` | the program point and the locals of `Runner.Execute` |
| `src`, `arrival` | the source table; how each row arrived relative to the bounds then in use (history) |
| `sink` | the target table: which runs wrote each row |
| `wm`, `runs`, `nruns` | `meta_watermarks` and `meta_load_runs` |
| `state` | the load's entry of the run state registry |
| `proc` | up, stopping (context cancelled), stopped (rows swept), down |
| `floor` | the value the last first-run initialisation stored (history) |

One run exists at a time, which is what `NoOverlap` of `Scheduler` guarantees. The
actions follow `Execute`: `Trigger`, `Obtain`, `GetWatermark`, `StartRun`, then either
`ReadInit` (first run: remember the maximum, read nothing) or `ReadUpper`, `Query`,
`BatchBegin`, `BatchLand`, `ReadDone`; then `UpsertWatermark`, `Finish` or `Fail`.
Every database call may succeed, fail without effect, or take effect and lose its
reply. `StopBegin`, `StopAbort`, `Exit` and `Restart` are the process around the run;
`ResetWatermark` is the operator's. The environment inserts and deletes source rows
at any time, also during a read, which may or may not see them.

### Scheduler: cron entries, overlap guard, reload, shutdown

| State | Code |
| --- | --- |
| `scheduled`, `entries`, `added` | `s.scheduled`; the entries the cron library holds; how many it ever accepted per load |
| `running`, `wg`, `jobs` | `s.running`, `s.wg`; one goroutine per firing and where it is in `trigger` |
| `registry`, `busy` | the run state registry: the row last registered; whether it shows the load as running |
| `fingerprint`, `reload` | `s.fingerprint`; where each caller of `Reload` is and what it has read |
| `history`, `at` | the contents that the metadata goes through, and the current one |
| `phase`, `swept`, `orphans` | the order of `runServer` and `Stop`; whether the run rows have been swept; rows left running by runs that are over |

`Reload` is five steps, because the fingerprint takes several queries and the list of
loads another: `ReloadSources`, `ReloadFingerprint`, `ReloadCheck`, `ReloadList`, and
`ReloadApply` under the mutex. The SIGHUP loop and the poll loop are two actors that
run it; `main` runs it once at start. `Claim`, `WgAdd`, `ExecuteStart`, `ExecuteEnd`,
`Release` and `WgDone` are `trigger`: `wg.Add` comes after the mutex is released, so
a claimed run is not yet counted. `StopCancel`, `StopDrained` or `StopTimeout`, and
`StopAbort` are `Stop`.

### SourcePool and SourceSession: pooled connections

`SourceSession` is what a run is promised: it asks with parameters, is granted a
connection that nobody else has and that is not closed, or is refused, and releases
it. `SourcePool` has the slots of `pool.go` with their mutex, connection, parameters
and age, the runs in `Obtain` and in their lease, sweeps (`InvalidateAll`, from a
reload or from `Close`) and readiness probes (`PingAll`). Waiting for a mutex is a
state of its own. `Open` fails with or without leaving a handle behind:
`LeakySources` are the sources whose `Open` assigns the connection only after the
ping. `ImplementsSession` maps the clients and connections to the session's.

### LogHandler: the mirror of log records

`Handle` is three steps (base handler, closed check, send), `Close` is three (swap of
the flag, close of the channel, wait for the worker or the timer), and the worker
receives and writes. A send on a closed channel ends the process (`Panic`).
`accepted` and `written` are histories.

### ReplaceRun and AtomicReplace: replace loads

`AtomicReplace` is what readers are promised: the target goes in one step from the
rows of one run to all the rows of a later one. `ReplaceRun` has the three tables,
each `Absent` or the first `n` batches of a run, and one step for each statement of
`BeginReplace`, `CommitReplace` and `AbortReplace`; the swap is one transaction and
one step. Every statement may fail, or take effect and lose its reply. `atomic` tells
whether the sink is an `AtomicReplacer`; if not, the session truncates the target
before it reads, and readers are promised nothing.

### Process: startup and shutdown

`Process` adds to `Scheduler` the connections its runs hold, by an instance of
`SourcePool` with one source, and the program counter of `runServer` (`stage`). A job of
`Scheduler` between `Claim` and `Release` goes through `Obtain` of the pool before its run
row is started (`JobAsks`, `JobAcquires`, `JobOpens`) and gives its slot back after the
row is closed (`JobGivesBack`). A reload loop that has finished `Primary.Reload`, with or
without an error, still has to run `InvalidateAll` (`hook`, `LoopSweeps`), and exits only
between reloads. `/readyz` takes the same mutexes. `main` stops the reload loops, the
scheduler, the housekeeper, the health server and the log handler in this order, and the
deferred `Close` of the sessions comes last, also after a failed startup
(`MainStartFails`), where nothing else is stopped. With `Sessions` = `"ephemeral"` a run
has a connection of its own and the pool is not used.

### Housekeeper: retention

| State | Code |
| --- | --- |
| `cfg`, `running`, `exec` | `h.cfg` with the batch size of `New`; `h.running`; where each call of `execute` is, with the cutoff it computed |
| `logs`, `runs`, `gone` | `meta_log_entries` and `meta_load_runs` by the day of each row; rows deleted |
| `day` | the clock, in days |
| `cancelled`, `stop` | contexts of callers of `RunNow`; `main`'s wait for the cron library |

`Fire` starts a tick or a `RunNow`, `Start` is the locked check, `Prune` one `DELETE TOP`
of `pruneInBatches`, `PruneFails` an error or a context that is done, after which the
next table is swept all the same, and `End` the deferred reset of the flag.

### Telemetry, ModbusDecode, OpcUaRead, Seeder: devices and their points

`Seeder` has the four tables of metadata by name. `Apply` is one transaction and so one
step: it computes the new tables (`upsertSource`, `upsertLoad`, `SeedLoad`) or fails and
changes nothing. Rows are created and saved as the mapper does it: a create stores the
column default for a field at its zero value, a save stores the field. Operators switch
and delete loads and sources in between.

`ModbusDecode` is `readRegisters`, `decodeNumeric` and `swapWords` as operators, over bytes
that are digits below `Base`, on the registers that the client library returns
(`ReadRegisters`: told by `SetEncoding`, it takes the first byte of a word as the low one
for a tag in little byte order). An integer becomes a float64 (`Float64`): exact up to
`Exact`, which is 2^53 in the code, and beyond it the nearest value that is represented,
the even one of two. Scaling is symbolic: a value is the raw number, scale and offset.
The reference is `Layout`: how a device lays a value out in its registers when byte order
means the order of the two bytes of a register and word order that of the registers, so
that the four combinations are ABCD, CDAB, BADC and DCBA. `OpcUaRead` is the matching of
nodes and results. `Lists` has the loops over slices that these modules share, as the
recursive functions they compute: a filter (`Picked`), a counter (`Counter`) and a row per
element (`Map`).

`Telemetry` is a run of either source: it obtains a connection, reuses the pooled one or
opens one, lists the enabled points, reads the tags one by one (`SetupFails`,
`RequestFails`, `BitAnswers`, `RegistersAnswer`) or all nodes in one request
(`OpcAnswers`, `OpcRequestFails`), and hands over one batch (`Emit`). A device fails and
comes back at any time (`GoesDown`, `ComesBack`). Its connection is dead from then on, as
the clients do not reconnect, and only a sweep, age or an error that `Read` returns drops
it. `held` is what the device held, for the properties.

## 4. Runs

| Run | Instance | What it shows |
| --- | --- | --- |
| `runner` | delta: three rows, two with equal watermark values, batches of one, three runs, symmetry of the two equal rows; replace: three runs of up to two batches, with and without an `AtomicReplacer` | `NoLoss`, `DuplicatesOnlyFromFailures`, `ReportedSuccessDurable`, `TerminalIsFinal` and `OnlyLiveRunsWrite` hold through failures, lost replies, crashes, shutdowns and resets; so do `ImplementsAtomicReplace`, `SuccessPublished` and `NothingInTheWay` |
| `scheduler` | busy histories: two loads, two firings, two histories of edits, reloads by the poll loop; quiet histories: every two edits of one load's expression, its other columns, its presence and its source, both reload loops, nothing fires | no overlap, no stray cron entry, no running row after the sweep, a truthful registry, `DrainedMeansIdle`; `FingerprintVouches`: a reload that finds its fingerprint stored may skip the rest; `OrderlyConvergence` |
| `source_pool` | two sources, two runs, two parameter values, three connections, a sweep, a probe; sources whose `Open` may lose its handle; symmetry | leases are exclusive, open and current; nothing leaks; a sweep misses nothing; who holds a mutex is on the way to releasing it (`HoldersLetGo`); the session is implemented |
| `log_tables` | handler: two goroutines with two records each, a buffer of two, two callers of `Close`; housekeeper: two log rows, one run row, a tick that fires again and again, a `RunNow`, three days, batches of one, two and the default | order and completeness of what is written, and the order of each goroutine's records; `Handle` and `Close` return although the database never answers; one sweep at a time; only expired and finished rows go, and they do go; `main` gets past a hanging delete |
| `shutdown` | one load, which may be deleted, one goroutine that fires again and again, the poll loop, one connection, one request to `/readyz`; with and without the pool | `RunsKeepTheirConnection`, `WaitsEnd`, `ProcessExits` |
| `telemetry` | one Modbus load, one OPC UA load; the seed files of `MCTelemetry` | `OneRowPerPoint`, `DecodedRight`, `OpcAligned`, `OutageShows`, `FileWins`, `SeedSettles`, `OperatorsChoiceStays` |
| `reload_repair`, `log_panic`, `shutdown_blocked`, `modbus_byte_order`, `device_returns`, `seed_twice` | as above | counterexamples, section 7 |

### Bounds

- *Three runs* in `runner`: one that leaves something behind, one that meets it, and one
  that shows whether the second got over it.
- *Three rows with one tie* in `runner`: a row below a bound, two on it, and with
  batches of one a failure can fall between the two.
- *Two firings and two loads* in `scheduler`: overlap, and a second load that a reload
  must leave alone. The busy histories reschedule, remove, re-register and break a load.
  The second goroutine fires only while the first one is there, as the two are alike.
  *Two edits* of a quiet history: an intermediate content that a reload may have read in
  part. Firings and the second reload loop do not meet in this run; the theorems of
  section 6 are about any number of both.
- *Three connections* in `source_pool`: one in use, one being replaced, one leaked.
- *A buffer of two with four records* in `log_tables`: the buffer fills and overflows.
- *One goroutine, one loop and one probe* in `shutdown`: each pair that can wait for the
  other is there, and the safety of more runs and sweeps is that of `source_pool` and
  `scheduler`. Everything that blocks blocks on the one slot.
- *Two rows and batches of one, two and five* in `log_tables`: a table larger than a
  batch, as large, and smaller; *three days*: a row written, expired, and a cutoff that is
  a day old when it is used.
- *Files* in `telemetry`: every type with one tag in the four orders (`int64` in the two
  with the low word first, `uint64` and `float64` in the one of them with big byte
  order), with the default number of words and, for types of up to two registers, with
  too few and too many (`Shapes`), and files with several tags, absent fields, a name
  given twice, tags left alone, a malformed node id and files that are refused. A byte
  has `Base` = 2 values, which keeps every place and the sign of up to 64-bit values and
  lets TLC enumerate *all* values of a type; with `Exact` = 32 most 64-bit values are
  beyond what a float64 holds exactly, and are rounded up, down and to even. A behaviour
  of this run is about one of the two loads, and after a file of `Shapes` only polls
  follow (`OneAtATime`): the loads share nothing but the table of sources.

No safety property depends on these bounds: the proofs of section 6 are for every value of
the constants. In particular `DecodedRight` holds for bytes of any even base, so for 256,
for any `Exact`, so for 2^53, and the properties of the seeder for files of any length.

### What the properties leave out

- `NoLoss` is about rows that arrive above every bound in use. A row that arrives
  later with a value at or below such a bound is not loaded: the window is
  `(last, upper]`, and the next one starts above `upper`. Rows below the value stored
  by a first run are not loaded either, by design.
- `OrderlyConvergence` and `FingerprintVouches` leave out an invalid expression that is
  repaired to what was there before (`NoRepair`; `reload_repair`). Edits land inside a `Reload` only
  if neither table returns to an earlier content and no expression is invalid (`OneWay`);
  the others land between reloads. Both exclusions are needed: a reload that applies an
  older list after a newer one can remove the entry of a valid expression just as a
  repair does, and a table that returns to an earlier content gives an old fingerprint a
  new meaning.
- `OnlyLiveRunsWrite` lets a run whose row says aborted still write the batch it is in
  while the process that has swept its row is about to exit. After a restart no row of an
  earlier process is written, as the process that would write it is gone.
- `NoLeak` and `SweepReachesAll` are about the handles that an `Open` has returned. A
  SQL Server `Open` whose ping fails loses its handle (section 7); the model has these
  lost handles, and the properties say that they take no others with them.
- `DecodedRight` says nothing of the value of a tag in little byte order, which the code
  gets wrong (`modbus_byte_order`, section 7). It and `DecodedInEveryOrder` leave out a tag
  that asks for more words than its type takes, low word first: `swapWords` turns all of
  them around, and the value is the neighbours'. An integer beyond 2^53 is right but for
  the rounding, as ADR-0007 says ("64-bit integers above 2^53 lose precision").
- `FileWins` asks for the flags and the columns with defaults of a source or load only
  from the second application on, and never for a tag or node that is switched off or
  has scale 0; `SeedSettles` starts with the second application (`seed_twice`, section 7).
- `OpcAligned` says that a result with a status other than OK gives no value. Its quality
  is good unless the status is exactly `Bad` or `Uncertain`; a specific bad code such as
  `BadNodeIdUnknown` gives a row of good quality with the status as its text.

## 5. Fairness

Safety runs assume none. The liveness runs assume:

- `Scheduler`: a goroutine that can run does; the poll ticker keeps firing; a metadata
  query that is retried for ever does not fail for ever; `select` does not pass over
  the closed stop channel for ever. Nothing is assumed of runs: they may hang.
- `Process`: the same, and: `main` goes on where it is not blocked; a Go mutex does not
  starve a waiter (its starvation mode hands it over after a millisecond), hence strong
  fairness of the steps that lock a slot; opens and pings return; a run that holds a
  slot returns once its context is cancelled. `shutdown` assumes in addition that such a
  run ends by itself at some time, `shutdown_blocked` does not. Nothing is assumed of
  runs without the pool, so there the timeout of `Stop` has to do its work.
- `Housekeeper`: cron keeps ticking, goroutines go on and `main`'s timer fires; nothing is
  assumed of a delete. `ExpiredRowsGo` adds that deletes return and do not fail for ever.
- `LogHandler`: goroutines in `Handle` and `Close` go on and the timer fires; nothing is
  assumed of the worker. `AcceptedIsWritten` adds that the writer answers.

## 6. Proofs

Every invariant and every action property that a run checks is also a theorem; what stays
with TLC alone is liveness. The inductive invariants contain the type invariants, and the
runs do not list them: being proved, they add nothing there. Those of `DeltaLoad`,
`Scheduler` (`ReloadInv` too), `SourcePool` and `Telemetry` can be checked with the
configurations of their runs by adding them as an `INVARIANT`.

Each proof module has one lemma per action (`<Action>Preserves` or `<Action>Inv`) and
lemmas on the effect of shared helpers; `Invariance` combines them, and the listed
properties follow from the invariant.

**`DeltaLoadProofs`**, from `WmAssumption` (a row's watermark is a positive number) and
`BoundAssumption`. `NoLoss` alone is not inductive: storing the upper bound is safe only
because every row of the window has landed, which depends on what the run still holds.
`IndInv` adds what the control state says of the run's locals (`RunControl`), that run
rows and source rows not yet used are untouched (`Untouched`), that each row of the
window has landed or is held (`NothingSkipped`), and that rows of successful runs lie at
or below every lower bound in use (`NothingRepeated`). Theorems: `Invariance`,
`NoLossTheorem`, `NoRepeatTheorem`, `ReportedTheorem`, and two for action properties.
`TerminalTheorem`: a closed row is never changed, because a run that outlives the sweep
has a cancelled context. `LiveRunsTheorem`: the same context keeps such a run from the
watermark, and `RunControl` ties the step that writes to the row of its run.

**`SchedulerProofs`**, from a finite set of goroutines (`JobsAssumption`), `Absent` not
being a configuration (`AbsentAssumption`) and histories being sequences of contents
(`HistoryAssumption`). `NoOverlap` needs `OwnersHoldTheGuard`: a goroutine past `Claim`
has its load in `running`. `NoRunningRowAfterSweep` needs `SweptIsLast` and
`RowsOnlyInRuns`: the context is cancelled before the sweep, so no new row can appear.
`DrainedMeansIdle` needs `wg = Cardinality(Counted)`: the counter is the number of
goroutines between `WgAdd` and `WgDone`. Theorems: `Invariance`, `NoOverlapTheorem`,
`EntriesTheorem`, `SweepTheorem`, `ShownTheorem`, `DrainTheorem`, and
`FingerprintTheorem`, the safety core of `OrderlyConvergence`: liveness needs that a
reload which returns early, because the fingerprint is the stored one, leaves nothing
undone. Its
invariant `ReloadInv` has three parts. `ReadsInOrder`: a reload reads the sources, the
loads and the list at contents that follow each other, so what it lists is never older
than the fingerprint it will store. `EntryOrBroken`: a registered load has its entry, or
its expression was broken after that entry's content. `FollowsLaterContent`: the schedule
is what some content asks for that is as new as the stored fingerprint. If the fingerprint
is that of the current metadata, then by `OneWay` or because nothing changed since, that
content is the current one (`Vouches`).

**`SourcePoolProofs`**, from the distinctness of the markers (`DistinctAssumption`).
`IndInv` says what each place in `Obtain` holds (`ClientShape`), that whoever is past the
lock is its owner (`MutexHeld`), and that a slot's connection is open and no other
slot's (`SlotsHoldOpen`). Theorems: `Invariance`, `LeaseTheorem`, and three that build on
them. `SessionTheorem` is the refinement: initial states map to initial states and
`SessionStep` maps each step to a step of `SourceSession` or to a stutter. `NoLeakTheorem`
and `SweepTheorem` are proved together (`SweepInv`), because a sweep can miss a connection
only if one is open outside its slot: a sweep in progress still has every slot to visit
that holds a connection it found open (`SweepCovers`), and every open connection is in a
slot, or was lost by its `Open` (`NoLeak`). `HoldersTheorem` is what `WaitsEnd` rests on
besides fairness: every way out of `Obtain`, of a lease and of a probe unlocks what it
locked, and nobody asks for a second mutex while holding one.

**`ProcessProofs`**, from the assumptions of its parts, `ActiveAssumption` and
`PoolAssumption`. `PoolTheorem` shows that the composition implements the pool: each step
of the process is a step of `SourcePool` or leaves it alone, so the pool's theorems hold
inside the process (`ProcNoLeakTheorem`, `ProcSweepTheorem`, `ProcSessionTheorem`,
`ProcHoldersTheorem`). The
process is not a refinement of `Scheduler` step by step, as it starts its loops later or
not at all; its actions preserve the scheduler's invariant all the same
(`ProcSchedulerTheorem`, `ProcDrainTheorem`, `ProcFingerprintTheorem`).
`RunsKeepTheirConnection` relates the two:
`LeasesFollowRuns` says where a run in `Execute` may be in `Obtain` and that with the pool
every run that has a row holds a lease, and the pool's invariant says that what is leased
is open. `ProcInv` is the conjunction of the three. Theorems: the above, `ProcInvariance`,
`ConnectionTheorem`.

**`LogProofs`** has the two parts that change the table of log entries. The handler's part
is from a positive buffer (`BufferAssumption`). `AcceptedInOrder` has two halves: what is
accepted is what is written, in the worker's hand and in the channel, in this order
(`HandedOn`), and each goroutine's records are accepted in the order of its calls, none
twice (`AsLogged`), for which `LoggedSoFar` compares them with the record it is at.
`DrainedIsComplete` follows from `HandedOn` once the worker that is done has left a closed
and empty channel, and a `Close` that drained has seen the worker done (`DoneInv`). Theorems: `LogInvariance`,
`InOrderTheorem`, `DrainedTheorem`. The housekeeper's part is from `HousekeeperAssumption`
(finite tables, a positive default batch). A cutoff is computed once and used for many
batches; `CutoffInv` says that it never becomes later than what the retention allows,
because the clock does not go back. With `SingleSweep` it gives `OnlyExpiredTheorem`;
`SweptCleanTheorem` is a counting argument: a batch that is not full was all there was.
Theorems: `Invariance`, `SingleSweepTheorem`, `OnlyExpiredTheorem`, `SweptCleanTheorem`.

**`ReplaceRunProofs`**, from `ReplaceAssumption`. `ReplaceInv` says at each statement which of
the three tables exist and whose batches they hold: until the swap the target is an
earlier run's and staging has exactly what was sent (`AtomicInv`); the fallback writes to
a target it has emptied (`LegacyInv`); a status is written once (`StatusInv`). Theorems:
`Invariance`, `SuccessTheorem`, `NothingInTheWayTheorem`, and `ImplementsTheorem`, the
refinement: only the swap and the rename change what readers see, by the invariant to all
the rows of the run, and every other step is a stutter of `AtomicReplace`.

**`PointProofs`**, from `BaseAssumption` (a byte has an even number of values, so that it
has a sign bit), `ExactAssumption` (it is positive) and `FilesAssumption` (a seed file has
the fields and types that the YAML decoder gives it; nothing is assumed of what they
contain). The loops of the code are
recursive functions here, and the library's induction theorems take an operator as a
parameter, which no installed prover can instantiate. The proofs go by the *set* of the
turns at which the claim holds instead: `LeastNat` takes from the library that a set of
numbers has a least element, `TurnByTurn` is induction over such a set, and each loop has a
lemma that gives its values turn by turn.
- `DecodeReads`: what the client and `readRegisters` make of the words of a device, for
  every type and both word orders. For a tag in big byte order it is the value that
  `Layout` put there. For one in little byte order it is the value of a device that sends
  the high byte first and the words in the opposite order (`AsRead`), which is the precise
  statement behind `modbus_byte_order`. The argument is that of positional numbers: the
  digits of a value read from either end give the value back. `Float64Near` bounds the
  rounding: none up to `Exact`, one part in `Exact` beyond.
- `SeedKept`, `SettledStays`, `EditSeeds`: `SeedInv` is preserved. `FileWins` and
  `SeedSettles` are about the last file applied and how often it has been since (`last`,
  `again`) and are not inductive: what a second application does depends on what the first
  one left. `Written` says that the tables agree with the file wherever a first
  application already writes it, for names given twice by their last entry; `Settled`
  adds the zero values, which only the second application stores.

**`TelemetryProofs`** builds on it. `TeleInv` adds to `SeedInv` what a run has read so far
(`PollShape`: rows, points and what the device held go side by side, each row has the name
of its point, and a batch that is handed over is complete), `DecodedRight` and `OpcAligned`.
`AlignedTheorem` rests on `CounterIsRank`: the code counts the responses it has consumed,
and the counter at a node is the node's rank among the nodes whose id could be parsed,
also when malformed ones are in between. `OutageShows` and `OperatorsChoiceStays` are action
properties: the first follows because a row of good quality needs an answer and a broken
connection gives none until it is dropped, the second because only a file that mentions a
switch writes it. Theorems: `TeleInvariance`, `RowsTheorem`, `DecodedTheorem`,
`AlignedTheorem`, `FileWinsTheorem`, `SettlesTheorem`, `ChoiceTheorem`, `OutageTheorem`.

**Only model-checked**: the liveness properties (`OrderlyConvergence`, `ProcessExits`,
`WaitsEnd`, `LoggingReturns`, `AcceptedIsWritten`, `StopReturns`, `ExpiredRowsGo`), which
rest on fairness and so on `ENABLED`, which the prover does not cover; and the
counterexamples of section 7.

## 7. Findings

| Run | The code | What is written |
| --- | --- | --- |
| `reload_repair` | `Reload` removes an entry before `AddFunc` rejects the new expression and keeps the old row (`scheduler.go:128`); repairing the expression to what it was looks like no change, and no entry is added. | `docs/02-architecture.md:32`: schedule reloads "converge on the desired state" |
| `log_panic` | `Handle` checks the flag and then sends (`dbhandler.go:109`, `113`); `Close` may close the channel in between. | `dbhandler.go:154`: "Logging after Close still reaches the base" |
| `shutdown_blocked` | `reloader.Stop` (`main.go:181`) waits for a loop that may be in `InvalidateAll`, waiting for the slot of a run whose context only the following `sch.Stop` cancels: the shutdown timeout does not start before the run ends by itself. | `docs/02-architecture.md:1296`: "run finishes or is marked `aborted` within `LOADER_SHUTDOWN_TIMEOUT_SEC`" |
| `modbus_byte_order` | `SetEncoding` (`modbus/source.go:146`) makes the client exchange the bytes of each word of a tag in little byte order, and `decodeNumeric` reads the buffer in little-endian order once more: one register comes out with its bytes exchanged, several as if the device sent high bytes first and the words the other way round. | `docs/01-project-requirements.md:272`: "Decode with byte and word order, then apply `value = raw * scale + offset`." |
| `device_returns` | With the pool on, a poll over a dead connection stores bad rows and returns no error, so `release` keeps the connection (`runner.go:86`, `pool.go:99`) and later polls get it although the device answers again, until its maximum age or the next reload. | `docs/02-architecture.md:1022`: "the loader recovers on the first tick after the device returns, without restart"; ADR-0021 has the pooled entry invalidated after a failed `Read`, which this `Read` is not |
| `seed_twice` | Create stores the column default for a zero value (`seed.go:164`, `218`, `220`): a load that the file switches off is created switched on and switched off by the second application; a tag or node is created anew each time and stays on. | `docs/02-architecture.md:32`: "Seeding and schedule reloads converge on the desired state and are safe to repeat." |

Noted while modelling, and visible in the models, without a run of their own:

- A first run on an empty table succeeds and stores no watermark (`runner.go:205`), so the
  next run is a first run again and skips the rows inserted in between, although
  `docs/01-project-requirements.md:192` says "Load only rows that are new since the last
  successful run".
- `Open` of SQL Server assigns `s.db` after the ping (`sqlserver/source.go:50`), so a failed
  ping leaves a handle that `Close` does not reach (`LeakySources`).
- The tags of a load are replaced only if the file has tags for it (`seed.go:84`); a file
  that drops them all leaves the old ones.
- An OPC UA result with a specific bad status, such as `BadNodeIdUnknown`, becomes a row of
  quality good (`opcua/source.go:237`; `qualityFromStatus` knows `Bad` and `Uncertain`
  alone) with the status as its text, although
  `ADR/0007-telemetry-sources-forced-append-and-a-narrow-schema.md:24` says "Failed reads
  become `quality = bad` rows with the error in `value_text`."
- A tag whose unit or encoding is refused is in the batch but not in the number of rows
  read (`modbus/source.go:143`).

Further: a failed run may have moved the watermark (`runner.go:231`) or replaced the target; a cancelled
replace leaves its staging table until the next run (`runner.go:128`); a source that
cannot be opened leaves no run row (`runner.go:82`); the watermark moves back when the
newest source rows are deleted (`runner.go:205`); a source disabled and enabled again
around `ListEnabledLoads` is missed under a current fingerprint (`scheduler.go:173`).

## 8. Not modelled

- Migrations: a sequence of calls to an external library, before anything else runs.
- Append loads of SQL sources keep no state between runs. Two replace loads with one
  target share its staging table; the models have one load per target.
- Floating-point arithmetic beyond the rounding of integers: a float is its bits, and
  scaling keeps the raw value, scale and offset; the result may or may not be finite.
- The conversions of single OPC UA types, the parsing of YAML and the seeder's report.
- Column types, value conversion, quoting of names, DSNs, the text of watermarks and
  the building of log entries: data that no property here tells apart.
- Time: timeouts, ages and tickers are steps that may happen, without durations.
- The health server's handlers, configuration, the registry of source kinds and the
  metrics keep no state that changes over time.
