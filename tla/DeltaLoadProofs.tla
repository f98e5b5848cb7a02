-------------------------- MODULE DeltaLoadProofs --------------------------
(***************************************************************************)
(* Proofs about DeltaLoad.  IndInv is inductive: one lemma per operation,  *)
(* each with one step per part of the invariant.  NoLoss alone is not      *)
(* inductive: moving the watermark is safe only because the run holds or   *)
(* has written all of its window (NothingSkipped), and closing a run as a  *)
(* success only because its window lies above everything successful runs   *)
(* have written (NothingRepeated).                                         *)
(***************************************************************************)
EXTENDS DeltaLoad, TLAPS

\* A new source row is counted only above every bound in use.
LEMMA SourceInsertPreserves ==
  ASSUME IndInv, NEW r \in Rows, SourceInsert(r)
  PROVE  IndInv'
<1> USE WmAssumption, BoundAssumption DEF IndInv, TypeOK, NoRun, RunIds, Statuses
<1>1. /\ arrival[r] = "none" /\ src' = src \cup {r}
      /\ UNCHANGED <<proc, pc, floor, sink, wm, runs, nruns, state>>
  BY DEF SourceInsert, dbVars
<1>2. /\ run' \in [id : Nat, cur : Nat, upper : Nat, init : BOOLEAN,
                    todo : SUBSET Rows, batch : SUBSET Rows]
      /\ run'.id = run.id /\ run'.cur = run.cur /\ run'.upper = run.upper
      /\ run'.init = run.init /\ run'.batch = run.batch
      /\ \/ run' = run
         \/ /\ pc \in {"stream", "writing"} /\ InWindow(r)
            /\ run'.todo = run.todo \cup {r}
  <2>1. CASE run' = run  BY <2>1
  <2>2. CASE /\ pc \in {"stream", "writing"} /\ InWindow(r)
             /\ run' = [run EXCEPT !.todo = run.todo \cup {r}]
    BY <2>2, ZenonT(30)
  <2> QED BY <2>1, <2>2 DEF SourceInsert
<1>3. /\ arrival' \in [Rows -> {"none", "due", "tied", "late"}]
      /\ \A q \in Rows : q # r => arrival'[q] = arrival[q]
      /\ arrival'[r] # "none"
      /\ Counted(r)' => Wm[r] > wm /\ Wm[r] > run.cur /\ Wm[r] > run.upper
  <2>1. ArrivalClass(r) \in {"due", "tied", "late"}
    BY DEF ArrivalClass
  <2>2. ArrivalClass(r) = "due"
          => Wm[r] > wm /\ Wm[r] > run.cur /\ Wm[r] > run.upper
    BY DEF ArrivalClass, Bounds
  <2> QED BY <2>1, <2>2 DEF SourceInsert, Counted
<1>4. TypeOK' BY <1>1, <1>2, <1>3, SMTT(30)
<1>5. RunControl' BY <1>1, <1>2 DEF RunControl, InRun
<1>6. Untouched' BY <1>1, <1>2, <1>3 DEF Untouched
<1>7. NothingSkipped'
  BY <1>1, <1>2, <1>3 DEF NothingSkipped, Counted, InWindow
<1>8. NothingRepeated'
  BY <1>1, <1>2, SMTT(30) DEF NothingRepeated, Loaded, InWindow, Untouched
<1>9. NoLoss' BY <1>1, <1>3 DEF NoLoss, Counted
<1>10. DuplicatesOnlyFromFailures' BY <1>1, SMTT(30) DEF DuplicatesOnlyFromFailures
<1> QED BY <1>4, <1>5, <1>6, <1>7, <1>8, <1>9, <1>10, ZenonT(30)

\* A deleted source row leaves the window, never the sink.
LEMMA SourceDeletePreserves ==
  ASSUME IndInv, NEW r \in Rows, SourceDelete(r)
  PROVE  IndInv'
<1> USE WmAssumption, BoundAssumption DEF IndInv, TypeOK, NoRun, RunIds, Statuses
<1>1. /\ src' = src \ {r}
      /\ UNCHANGED <<proc, pc, arrival, floor, sink, wm, runs, nruns, state>>
  BY DEF SourceDelete, dbVars
<1>2. /\ run' \in [id : Nat, cur : Nat, upper : Nat, init : BOOLEAN,
                    todo : SUBSET Rows, batch : SUBSET Rows]
      /\ run'.id = run.id /\ run'.cur = run.cur /\ run'.upper = run.upper
      /\ run'.init = run.init /\ run'.batch = run.batch
      /\ \/ run' = run
         \/ pc \in {"stream", "writing"} /\ run'.todo = run.todo \ {r}
  <2>1. CASE run' = run  BY <2>1
  <2>2. CASE /\ pc \in {"stream", "writing"}
             /\ run' = [run EXCEPT !.todo = run.todo \ {r}]
    BY <2>2, ZenonT(30)
  <2> QED BY <2>1, <2>2 DEF SourceDelete
<1>3. TypeOK' BY <1>1, <1>2, SMTT(30)
<1>4. RunControl' BY <1>1, <1>2 DEF RunControl, InRun
<1>5. Untouched' BY <1>1, <1>2 DEF Untouched
<1>6. NothingSkipped'
  BY <1>1, <1>2 DEF NothingSkipped, Counted, InWindow
<1>7. NothingRepeated'
  BY <1>1, <1>2 DEF NothingRepeated, Loaded, InWindow
<1>8. NoLoss' BY <1>1 DEF NoLoss
<1>9. DuplicatesOnlyFromFailures' BY <1>1, ZenonT(30) DEF DuplicatesOnlyFromFailures
<1> QED BY <1>3, <1>4, <1>5, <1>6, <1>7, <1>8, <1>9, ZenonT(30)

\* Run identifiers are positive naturals.
LEMMA RunIdsAreNat == RunIds \in SUBSET (Nat \ {0})
BY BoundAssumption DEF RunIds

\* The row of the run in flight is a row of the history.
LEMMA RunIdInRange ==
  ASSUME IndInv, InRun
  PROVE  run.id \in RunIds /\ runs[run.id].status \in {"running", "aborted"}
BY BoundAssumption DEF IndInv, TypeOK, RunControl, RunIds

\* AbortRunningRuns changes running rows to aborted and nothing else.
LEMMA AbortEffect ==
  ASSUME TypeOK, AbortRunningRuns
  PROVE  /\ runs' \in [RunIds -> [status : Statuses \cup {"none"}, start : Nat, end : Nat]]
         /\ \A n \in RunIds :
              \/ runs[n].status = "running" /\ runs'[n].status = "aborted"
              \/ runs[n].status # "running" /\ runs'[n] = runs[n]
<1>1. \A n \in RunIds : runs[n] \in [status : Statuses \cup {"none"}, start : Nat, end : Nat]
  BY DEF TypeOK
<1>2. \A n \in RunIds : [runs[n] EXCEPT !.status = "aborted"]
        \in [status : Statuses \cup {"none"}, start : Nat, end : Nat]
  BY <1>1 DEF Statuses
<1>3. \A n \in RunIds : [runs[n] EXCEPT !.status = "aborted"].status = "aborted"
  BY <1>1
<1> QED BY <1>1, <1>2, <1>3 DEF AbortRunningRuns

\* Closing the run's row as success or failed touches that row only.
LEMMA CloseEffect ==
  ASSUME IndInv, InRun, NEW s \in {"success", "failed"}, NEW e \in Nat, CloseRunRow(s, e)
  PROVE  /\ runs' \in [RunIds -> [status : Statuses \cup {"none"}, start : Nat, end : Nat]]
         /\ runs'[run.id].status = s
         /\ \A n \in RunIds : n # run.id => runs'[n] = runs[n]
<1>1. run.id \in RunIds BY RunIdInRange
<1>2. runs[run.id].start \in Nat BY <1>1 DEF IndInv, TypeOK
<1>3. [status |-> s, start |-> runs[run.id].start, end |-> e]
        \in [status : Statuses \cup {"none"}, start : Nat, end : Nat]
  BY <1>2 DEF Statuses
<1> QED BY <1>1, <1>3 DEF CloseRunRow, IndInv, TypeOK

\* StartRun uses a fresh row; when its reply is lost the row stays behind.
LEMMA StartRunPreserves ==
  ASSUME IndInv, StartRun
  PROVE  IndInv'
<1> USE WmAssumption, BoundAssumption, RunIdsAreNat
    DEF IndInv, TypeOK, NoRun, Statuses
<1>1. /\ pc = "start" /\ nruns < MaxRuns /\ nruns' = nruns + 1
      /\ nruns' \in RunIds /\ nruns' \in 0..MaxRuns
      /\ UNCHANGED <<proc, src, arrival, floor, sink, wm>>
      /\ proc = "up"
  BY BoundAssumption DEF StartRun, InsertRunRow, envVars, CtxDone, RunIds
<1>2. run = [NoRun EXCEPT !.cur = run.cur] /\ runs[nruns'].status = "none"
      /\ \A r \in Rows : nruns' \notin sink[r]
  BY <1>1 DEF RunControl, Untouched
<1>3. /\ runs' \in [RunIds -> [status : Statuses \cup {"none"}, start : Nat, end : Nat]]
      /\ runs'[nruns'].status = "running"
      /\ \A n \in RunIds : n # nruns' => runs'[n] = runs[n]
  BY <1>1 DEF StartRun, InsertRunRow
<1>4. /\ run' \in [id : Nat, cur : Nat, upper : Nat, init : BOOLEAN,
                   todo : SUBSET Rows, batch : SUBSET Rows]
      /\ state' \in [run : Nat, last : Statuses \cup {"none"}]
  <2>1. nruns' \in Nat BY <1>1
  <2>2. CASE run' = [run EXCEPT !.id = nruns']
             /\ state' = [run |-> nruns', last |-> "running"]
    BY <2>1, <2>2
  <2>3. CASE run' = NoRun /\ UNCHANGED state  BY <2>3
  <2> QED BY <2>2, <2>3 DEF StartRun
<1>5. /\ run'.upper = 0 /\ run'.init = FALSE /\ run'.todo = {} /\ run'.batch = {}
      /\ \/ /\ pc' = "read" /\ run' = [NoRun EXCEPT !.cur = run.cur, !.id = nruns']
            /\ run'.id = nruns' /\ run'.cur = run.cur
            /\ state' = [run |-> nruns', last |-> "running"]
         \/ pc' = "idle" /\ run' = NoRun /\ UNCHANGED state
  BY <1>1, <1>2, ZenonT(30) DEF StartRun
<1>6. TypeOK' BY <1>1, <1>3, <1>4, <1>5
<1>7. RunControl'
  <2>1. CASE pc' = "read"
    <3>1. /\ run' = [NoRun EXCEPT !.cur = run'.cur, !.id = run'.id]
          /\ run'.id = nruns' /\ nruns' # 0
          /\ state' = [run |-> run'.id, last |-> "running"]
          /\ runs'[run'.id].status = "running"
      BY <1>1, <1>3, <1>5, <2>1, ZenonT(30)
    <3> QED BY <1>1, <1>5, <2>1, <3>1 DEF RunControl, InRun
  <2>2. CASE pc' = "idle"  BY <1>1, <1>2, <1>3, <1>5, <2>2 DEF RunControl, InRun
  <2> QED BY <1>5, <2>1, <2>2
<1>8. Untouched'
  <2>1. \A n \in RunIds : n > nruns' => n > nruns /\ n # nruns'  BY <1>1
  <2> QED BY <1>1, <1>3, <1>5, <2>1 DEF Untouched
<1>9. NothingSkipped' BY <1>1, <1>5 DEF NothingSkipped, Counted
<1>10. \A r \in Rows : Loaded(r)' => Loaded(r)
  BY <1>1, <1>2, <1>3 DEF Loaded
<1>11. NothingRepeated' BY <1>1, <1>2, <1>5, <1>10 DEF NothingRepeated, InWindow
<1>12. NoLoss' BY <1>1 DEF NoLoss
<1>13. DuplicatesOnlyFromFailures'
  BY <1>1, <1>2, <1>3, ZenonT(30) DEF DuplicatesOnlyFromFailures
<1> QED BY <1>6, <1>7, <1>8, <1>9, <1>11, <1>12, <1>13

\* A first run takes MAX as its bound and holds no rows.
LEMMA ReadInitPreserves ==
  ASSUME IndInv, ReadInit
  PROVE  IndInv'
<1> USE WmAssumption, BoundAssumption, RunIdsAreNat
    DEF IndInv, TypeOK, NoRun, Statuses
<1>1. /\ pc = "read" /\ run.cur = 0
      /\ UNCHANGED <<proc, src, arrival, floor, sink, wm, runs, nruns, state>>
  BY DEF ReadInit, envVars, dbVars
<1>2. PICK w \in MaxWms : run' = [run EXCEPT !.upper = w, !.init = TRUE]
  BY ZenonT(30) DEF ReadInit
<1>3. w \in Nat /\ \A r \in src : Wm[r] <= w
  BY DEF MaxWms, IsMaxWm
<1>4. run = [NoRun EXCEPT !.cur = run.cur, !.id = run.id] /\ run.upper = 0
  BY <1>1, ZenonT(30) DEF RunControl
<1>5. /\ run' \in [id : Nat, cur : Nat, upper : Nat, init : BOOLEAN,
                   todo : SUBSET Rows, batch : SUBSET Rows]
      /\ run'.id = run.id /\ run'.cur = 0 /\ run'.upper = w /\ run'.init = TRUE
      /\ run'.todo = {} /\ run'.batch = {}
  BY <1>1, <1>2, <1>3, <1>4, ZenonT(30)
<1>6. pc' \in {"upsert", "finish"} /\ (pc' = "upsert" => w # 0)
  BY <1>5 DEF ReadInit, AfterRead
<1>7. TypeOK' BY <1>1, <1>5, <1>6
<1>8. RunControl' BY <1>1, <1>5, <1>6 DEF RunControl, InRun
<1>9. Untouched' BY <1>1, <1>5 DEF Untouched
<1>10. NothingSkipped' BY <1>1, <1>5 DEF NothingSkipped
<1>11. \A r \in Rows : run.id \notin sink[r]
  BY <1>1, <1>4 DEF NothingRepeated, InWindow
<1>12. NothingRepeated'
  BY <1>1, <1>3, <1>5, <1>11 DEF NothingRepeated, Loaded
<1>13. NoLoss' BY <1>1 DEF NoLoss
<1>14. DuplicatesOnlyFromFailures' BY <1>1 DEF DuplicatesOnlyFromFailures
<1> QED BY <1>7, <1>8, <1>9, <1>10, <1>12, <1>13, <1>14

\* The upper bound covers every row already in the source.
LEMMA ReadUpperPreserves ==
  ASSUME IndInv, ReadUpper
  PROVE  IndInv'
<1> USE WmAssumption, BoundAssumption, RunIdsAreNat
    DEF IndInv, TypeOK, NoRun, Statuses
<1>1. /\ pc = "read" /\ run.cur # 0 /\ pc' = "query"
      /\ UNCHANGED <<proc, src, arrival, floor, sink, wm, runs, nruns, state>>
  BY DEF ReadUpper, envVars, dbVars
<1>2. PICK w \in MaxWms : run' = [run EXCEPT !.upper = w]
  BY DEF ReadUpper
<1>3. w \in Nat /\ \A r \in src : Wm[r] <= w
  BY DEF MaxWms, IsMaxWm
<1>4. run = [NoRun EXCEPT !.cur = run.cur, !.id = run.id] /\ run.upper = 0
  BY <1>1, ZenonT(30) DEF RunControl
<1>5. /\ run' \in [id : Nat, cur : Nat, upper : Nat, init : BOOLEAN,
                   todo : SUBSET Rows, batch : SUBSET Rows]
      /\ run'.id = run.id /\ run'.cur = run.cur /\ run'.upper = w
      /\ run'.init = FALSE /\ run'.todo = {} /\ run'.batch = {}
  BY <1>2, <1>3, <1>4, ZenonT(30)
<1>6. TypeOK' BY <1>1, <1>5
<1>7. RunControl' BY <1>1, <1>5 DEF RunControl, InRun
<1>8. Untouched' BY <1>1, <1>5 DEF Untouched
<1>9. NothingSkipped' BY <1>1, <1>5 DEF NothingSkipped, Counted
<1>10. \A r \in Rows : run.id \notin sink[r]
  BY <1>1, <1>4 DEF NothingRepeated, InWindow
<1>11. NothingRepeated'
  BY <1>1, <1>3, <1>5, <1>10 DEF NothingRepeated, Loaded
<1>12. NoLoss' BY <1>1 DEF NoLoss
<1>13. DuplicatesOnlyFromFailures' BY <1>1 DEF DuplicatesOnlyFromFailures
<1> QED BY <1>6, <1>7, <1>8, <1>9, <1>11, <1>12, <1>13

\* A batch only moves rows from the rest of the window to the write.
LEMMA BatchBeginPreserves ==
  ASSUME IndInv, BatchBegin
  PROVE  IndInv'
<1> USE WmAssumption, BoundAssumption, RunIdsAreNat
    DEF IndInv, TypeOK, NoRun, Statuses
<1>1. /\ pc = "stream" /\ pc' = "writing" /\ run.batch = {}
      /\ UNCHANGED <<proc, src, arrival, floor, sink, wm, runs, nruns, state>>
  BY DEF BatchBegin, envVars, dbVars, RunControl
<1>2. PICK b \in SUBSET run.todo :
        run' = [run EXCEPT !.batch = b, !.todo = run.todo \ b]
  BY ZenonT(30) DEF BatchBegin
<1>3. /\ run' \in [id : Nat, cur : Nat, upper : Nat, init : BOOLEAN,
                   todo : SUBSET Rows, batch : SUBSET Rows]
      /\ run'.id = run.id /\ run'.cur = run.cur /\ run'.upper = run.upper
      /\ run'.init = run.init
      /\ run'.todo \cup run'.batch = run.todo \cup run.batch
  BY <1>1, <1>2, ZenonT(30)
<1>4. TypeOK' BY <1>1, <1>3
<1>5. RunControl' BY <1>1, <1>3 DEF RunControl, InRun
<1>6. Untouched' BY <1>1, <1>3 DEF Untouched
<1>7. NothingSkipped' BY <1>1, <1>3 DEF NothingSkipped, Counted, InWindow
<1>8. NothingRepeated' BY <1>1, <1>3 DEF NothingRepeated, Loaded, InWindow
<1>9. NoLoss' BY <1>1 DEF NoLoss
<1>10. DuplicatesOnlyFromFailures' BY <1>1 DEF DuplicatesOnlyFromFailures
<1> QED BY <1>4, <1>5, <1>6, <1>7, <1>8, <1>9, <1>10

\* Rows leave the run only into the sink, or with the read failing.
LEMMA BatchLandPreserves ==
  ASSUME IndInv, BatchLand
  PROVE  IndInv'
<1> USE WmAssumption, BoundAssumption, RunIdsAreNat
    DEF IndInv, TypeOK, NoRun, Statuses
<1>1. /\ pc = "writing" /\ pc' \in {"stream", "fail"}
      /\ pc' = "stream" => sink' = Written
      /\ UNCHANGED <<proc, src, arrival, floor, wm, runs, nruns, state>>
  BY DEF BatchLand, envVars
<1>2. /\ run.id \in RunIds /\ run.id = nruns
      /\ runs[run.id].status \in {"running", "aborted"}
  BY <1>1, RunIdInRange DEF InRun, RunControl
<1>3. /\ run' \in [id : Nat, cur : Nat, upper : Nat, init : BOOLEAN,
                   todo : SUBSET Rows, batch : SUBSET Rows]
      /\ run'.id = run.id /\ run'.cur = run.cur /\ run'.upper = run.upper
      /\ run'.init = run.init /\ run'.todo = run.todo /\ run'.batch = {}
  BY DEF BatchLand
<1>4. /\ sink' \in [Rows -> SUBSET RunIds]
      /\ \A r \in Rows : \/ sink'[r] = sink[r]
                         \/ r \in run.batch /\ sink'[r] = sink[r] \cup {run.id}
  <2>1. /\ Written \in [Rows -> SUBSET RunIds]
        /\ \A r \in Rows : Written[r] = IF r \in run.batch
                                        THEN sink[r] \cup {run.id} ELSE sink[r]
    BY <1>2 DEF Written
  <2> QED BY <2>1 DEF BatchLand
<1>5. pc' = "stream" => \A r \in run.batch : run.id \in sink'[r]
  BY <1>1 DEF Written
<1>6. \A r \in Rows : (Loaded(r)' => Loaded(r)) /\ (sink[r] # {} => sink'[r] # {})
  BY <1>1, <1>2, <1>4 DEF Loaded
<1>7. TypeOK' BY <1>1, <1>3, <1>4
<1>8. RunControl' BY <1>1, <1>3 DEF RunControl, InRun
<1>9. Untouched' BY <1>1, <1>2, <1>3, <1>4 DEF Untouched
<1>10. NothingSkipped'
  BY <1>1, <1>3, <1>5, <1>6 DEF NothingSkipped, Counted, InWindow
<1>11. NothingRepeated'
  BY <1>1, <1>3, <1>4, <1>6 DEF NothingRepeated, InWindow
<1>12. NoLoss' BY <1>1, <1>6 DEF NoLoss
<1>13. DuplicatesOnlyFromFailures'
  BY <1>1, <1>2, <1>4 DEF DuplicatesOnlyFromFailures
<1> QED BY <1>7, <1>8, <1>9, <1>10, <1>11, <1>12, <1>13

\* The watermark moves to the upper bound when the window has landed.
LEMMA UpsertWatermarkPreserves ==
  ASSUME IndInv, UpsertWatermark
  PROVE  IndInv'
<1> USE WmAssumption, BoundAssumption, RunIdsAreNat
    DEF IndInv, TypeOK, NoRun, Statuses
<1>1. /\ pc = "upsert" /\ pc' \in {"finish", "fail"}
      /\ run.todo = {} /\ run.batch = {}
      /\ UNCHANGED <<proc, run, src, arrival, sink, runs, nruns, state>>
  BY DEF UpsertWatermark, RunControl
<1>2. \/ /\ wm' = run.upper
         /\ floor' = IF run.init THEN run.upper ELSE floor
      \/ pc' = "fail" /\ UNCHANGED <<wm, floor>>
  BY DEF UpsertWatermark
<1>3. TypeOK' BY <1>1, <1>2
<1>4. RunControl' BY <1>1 DEF RunControl, InRun
<1>5. Untouched' BY <1>1 DEF Untouched
<1>6. NothingSkipped'
  BY <1>1, <1>2 DEF NothingSkipped, Counted, InWindow, RunControl
<1>7. NothingRepeated' BY <1>1, <1>2 DEF NothingRepeated, Loaded, InWindow
<1>8. NoLoss'
  <2>1. CASE run.init /\ wm' = run.upper /\ floor' = run.upper
    BY <1>1, <2>1 DEF NoLoss
  <2>2. CASE ~run.init /\ wm' = run.upper /\ floor' = floor
    <3>1. ASSUME NEW r \in src, Counted(r), floor < Wm[r], Wm[r] <= run.upper
          PROVE  sink[r] # {}
      <4>1. CASE Wm[r] <= run.cur  BY <3>1, <4>1 DEF NothingSkipped
      <4>2. CASE run.cur < Wm[r]
        BY <1>1, <2>2, <3>1, <4>2 DEF NothingSkipped, InWindow
      <4> QED BY <4>1, <4>2
    <3> QED BY <1>1, <2>2, <3>1 DEF NoLoss, Counted
  <2>3. CASE UNCHANGED <<wm, floor>>
    BY <1>1, <2>3 DEF NoLoss
  <2> QED BY <1>2, <2>1, <2>2, <2>3
<1>9. DuplicatesOnlyFromFailures' BY <1>1 DEF DuplicatesOnlyFromFailures
<1> QED BY <1>3, <1>4, <1>5, <1>6, <1>7, <1>8, <1>9

\* A run turns successful with rows no earlier successful run wrote.
LEMMA FinishPreserves ==
  ASSUME IndInv, Finish
  PROVE  IndInv'
<1> USE WmAssumption, BoundAssumption, RunIdsAreNat
    DEF IndInv, TypeOK, NoRun, Statuses
<1>1. /\ pc = "finish" /\ pc' = "idle" /\ run' = NoRun /\ InRun
      /\ UNCHANGED <<proc, src, arrival, floor, sink, wm, nruns>>
  BY DEF Finish, envVars, InRun
<1>2. /\ run.id \in RunIds /\ run.id = nruns
      /\ runs[run.id].status \in {"running", "aborted"}
      /\ state = [run |-> run.id, last |-> "running"]
  BY <1>1, RunIdInRange DEF InRun, RunControl
<1>3. /\ \/ CloseRunRow("success", run.upper) /\ proc = "up"
         \/ UNCHANGED runs /\ state'.last = "failed"
      /\ state' \in [run : {run.id}, last : {"success", "failed"}]
  BY <1>2 DEF Finish, ReportedStatus, CtxDone
<1>4. /\ runs' \in [RunIds -> [status : Statuses \cup {"none"}, start : Nat, end : Nat]]
      /\ \A n \in RunIds : n # run.id => runs'[n] = runs[n]
      /\ \/ runs'[run.id].status = "success"
         \/ runs' = runs /\ state'.last = "failed"
  <2>1. CASE CloseRunRow("success", run.upper)
    <3>1. run.upper \in Nat OBVIOUS
    <3> QED BY <1>1, <2>1, <3>1, CloseEffect
  <2>2. CASE UNCHANGED runs /\ state'.last = "failed"  BY <2>2
  <2> QED BY <1>3, <2>1, <2>2
<1>5. \A r \in Rows : Loaded(r)' => Loaded(r) \/ run.id \in sink[r]
  BY <1>1, <1>4 DEF Loaded
<1>6. TypeOK' BY <1>1, <1>2, <1>3, <1>4
<1>7. RunControl' BY <1>1, <1>2, <1>3, <1>4 DEF RunControl, InRun
<1>8. Untouched' BY <1>1, <1>2, <1>4 DEF Untouched
<1>9. NothingSkipped' BY <1>1 DEF NothingSkipped
<1>10. NothingRepeated' BY <1>1, <1>5 DEF NothingRepeated
<1>11. NoLoss' BY <1>1 DEF NoLoss
<1>12. DuplicatesOnlyFromFailures'
  <2>1. \A r \in Rows : run.id \in sink[r] => ~Loaded(r)
    BY DEF NothingRepeated
  <2> QED BY <1>1, <1>4, <2>1 DEF DuplicatesOnlyFromFailures, Loaded
<1> QED BY <1>6, <1>7, <1>8, <1>9, <1>10, <1>11, <1>12

\* A failed run closes its own row and claims nothing.
LEMMA FailPreserves ==
  ASSUME IndInv, Fail
  PROVE  IndInv'
<1> USE WmAssumption, BoundAssumption, RunIdsAreNat
    DEF IndInv, TypeOK, NoRun, Statuses
<1>1. /\ pc = "fail" /\ pc' = "idle" /\ run' = NoRun /\ InRun
      /\ UNCHANGED <<proc, src, arrival, floor, sink, wm, nruns>>
  BY DEF Fail, envVars, InRun
<1>2. /\ run.id \in RunIds /\ run.id = nruns
      /\ runs[run.id].status \in {"running", "aborted"}
      /\ state = [run |-> run.id, last |-> "running"]
  BY <1>1, RunIdInRange DEF InRun, RunControl
<1>3. /\ CloseRunRow("failed", run.cur) \/ UNCHANGED runs
      /\ state' = [run |-> run.id, last |-> "failed"]
  BY <1>2 DEF Fail
<1>4. /\ runs' \in [RunIds -> [status : Statuses \cup {"none"}, start : Nat, end : Nat]]
      /\ \A n \in RunIds : n # run.id => runs'[n] = runs[n]
      /\ runs'[run.id].status # "success"
  BY <1>1, <1>2, <1>3, CloseEffect
<1>5. \A r \in Rows : Loaded(r)' => Loaded(r)
  BY <1>1, <1>4 DEF Loaded
<1>6. TypeOK' BY <1>1, <1>2, <1>3, <1>4
<1>7. RunControl' BY <1>1, <1>3 DEF RunControl, InRun
<1>8. Untouched' BY <1>1, <1>2, <1>4 DEF Untouched
<1>9. NothingSkipped' BY <1>1 DEF NothingSkipped
<1>10. NothingRepeated' BY <1>1, <1>5 DEF NothingRepeated
<1>11. NoLoss' BY <1>1 DEF NoLoss
<1>12. DuplicatesOnlyFromFailures'
  BY <1>1, <1>4 DEF DuplicatesOnlyFromFailures
<1> QED BY <1>6, <1>7, <1>8, <1>9, <1>10, <1>11, <1>12

\* The startup abort and the abort at shutdown change the run rows alone.
LEMMA AbortPreserves ==
  ASSUME IndInv, Restart \/ StopAbort
  PROVE  IndInv'
<1> USE WmAssumption, BoundAssumption, RunIdsAreNat
    DEF IndInv, TypeOK, NoRun, Statuses
<1>1. /\ UNCHANGED <<pc, run, src, arrival, floor, sink, wm, nruns, state>>
      /\ \/ proc = "down" /\ proc' \in {"up", "down"}
         \/ proc = "stopping" /\ proc' = "stopped"
      /\ AbortRunningRuns \/ UNCHANGED runs
  BY DEF Restart, StopAbort, envVars
<1>2. /\ runs' \in [RunIds -> [status : Statuses \cup {"none"}, start : Nat, end : Nat]]
      /\ \A n \in RunIds :
           \/ runs[n].status = "running" /\ runs'[n].status = "aborted"
           \/ runs'[n] = runs[n]
  BY <1>1, AbortEffect
<1>3. \A r \in Rows : Loaded(r)' => Loaded(r)
  BY <1>1, <1>2 DEF Loaded
<1>4. TypeOK' BY <1>1, <1>2
<1>5. RunControl'
  <2>1. CASE pc = "idle"  BY <1>1, <1>2, <2>1 DEF RunControl, InRun
  <2>2. CASE pc # "idle"
    <3>1. proc' = "stopped" /\ proc = "stopping" BY <1>1, <2>2 DEF RunControl
    <3>2. InRun => run.id \in RunIds BY RunIdInRange
    <3> QED BY <1>1, <1>2, <2>2, <3>1, <3>2 DEF RunControl, InRun
  <2> QED BY <2>1, <2>2
<1>6. Untouched' BY <1>1, <1>2 DEF Untouched
<1>7. NothingSkipped' BY <1>1 DEF NothingSkipped, Counted, InWindow
<1>8. NothingRepeated' BY <1>1, <1>3 DEF NothingRepeated, InWindow
<1>9. NoLoss' BY <1>1 DEF NoLoss
<1>10. DuplicatesOnlyFromFailures'
  BY <1>1, <1>2 DEF DuplicatesOnlyFromFailures
<1> QED BY <1>4, <1>5, <1>6, <1>7, <1>8, <1>9, <1>10

\* Steps that move the control state and keep everything else.
LEMMA ControlStepPreserves ==
  ASSUME IndInv, Trigger \/ Obtain \/ ReadError \/ StopBegin
  PROVE  IndInv'
<1> USE WmAssumption, BoundAssumption, RunIdsAreNat
    DEF IndInv, TypeOK, NoRun, Statuses
<1>1. /\ UNCHANGED <<run, src, arrival, floor, sink, wm, runs, nruns, state>>
      /\ \/ proc = "up" /\ proc' = "up" /\ pc = "idle" /\ pc' = "obtain"
         \/ UNCHANGED proc /\ pc = "obtain" /\ pc' = "getwm"
         \/ UNCHANGED proc /\ pc \in {"read", "query", "stream"} /\ pc' = "fail"
         \/ proc = "up" /\ proc' = "stopping" /\ UNCHANGED pc
  BY DEF Trigger, Obtain, ReadError, StopBegin, envVars, dbVars
<1>2. TypeOK' BY <1>1
<1>3. RunControl' BY <1>1 DEF RunControl, InRun
<1>4. Untouched' BY <1>1 DEF Untouched
<1>5. NothingSkipped' BY <1>1 DEF NothingSkipped, Counted, InWindow
<1>6. NothingRepeated' BY <1>1 DEF NothingRepeated, Loaded, InWindow
<1>7. NoLoss' BY <1>1 DEF NoLoss
<1>8. DuplicatesOnlyFromFailures' BY <1>1 DEF DuplicatesOnlyFromFailures
<1> QED BY <1>2, <1>3, <1>4, <1>5, <1>6, <1>7, <1>8

\* Steps that drop the run: an early return, and the end of the process.
LEMMA DropRunPreserves ==
  ASSUME IndInv, ReturnEarly \/ Exit
  PROVE  IndInv'
<1> USE WmAssumption, BoundAssumption, RunIdsAreNat
    DEF IndInv, TypeOK, NoRun, Statuses
<1>1. /\ pc' = "idle" /\ run' = NoRun
      /\ UNCHANGED <<src, arrival, floor, sink, wm, runs, nruns>>
      /\ \/ UNCHANGED <<proc, state>>
         \/ proc' = "down" /\ state' = [run |-> 0, last |-> "none"]
  BY DEF ReturnEarly, Exit, envVars, dbVars
<1>2. TypeOK' BY <1>1
<1>3. RunControl' BY <1>1 DEF RunControl, InRun
<1>4. Untouched' BY <1>1 DEF Untouched
<1>5. NothingSkipped' BY <1>1 DEF NothingSkipped
<1>6. NothingRepeated' BY <1>1 DEF NothingRepeated, Loaded
<1>7. NoLoss' BY <1>1 DEF NoLoss
<1>8. DuplicatesOnlyFromFailures' BY <1>1 DEF DuplicatesOnlyFromFailures
<1> QED BY <1>2, <1>3, <1>4, <1>5, <1>6, <1>7, <1>8

\* The run's lower bound is the stored watermark.
LEMMA GetWatermarkPreserves ==
  ASSUME IndInv, GetWatermark
  PROVE  IndInv'
<1> USE WmAssumption, BoundAssumption, RunIdsAreNat
    DEF IndInv, TypeOK, NoRun, Statuses
<1>1. /\ pc = "getwm" /\ pc' = "start" /\ run' = [NoRun EXCEPT !.cur = wm]
      /\ UNCHANGED <<proc, src, arrival, floor, sink, wm, runs, nruns, state>>
  BY ZenonT(30) DEF GetWatermark, envVars, dbVars, RunControl
<1>2. TypeOK' BY <1>1, ZenonT(30)
<1>3. RunControl' BY <1>1 DEF RunControl, InRun
<1>4. Untouched' BY <1>1 DEF Untouched
<1>5. NothingSkipped' BY <1>1 DEF NothingSkipped, NoLoss, Counted
<1>6. NothingRepeated' BY <1>1 DEF NothingRepeated, Loaded
<1>7. NoLoss' BY <1>1 DEF NoLoss
<1>8. DuplicatesOnlyFromFailures' BY <1>1 DEF DuplicatesOnlyFromFailures
<1> QED BY <1>2, <1>3, <1>4, <1>5, <1>6, <1>7, <1>8

\* The statement sees exactly the rows of the window.
LEMMA QueryPreserves ==
  ASSUME IndInv, Query
  PROVE  IndInv'
<1> USE WmAssumption, BoundAssumption, RunIdsAreNat
    DEF IndInv, TypeOK, NoRun, Statuses
<1>1. /\ pc = "query" /\ pc' = "stream"
      /\ UNCHANGED <<proc, src, arrival, floor, sink, wm, runs, nruns, state>>
  BY DEF Query, envVars, dbVars
<1>2. /\ run' \in [id : Nat, cur : Nat, upper : Nat, init : BOOLEAN,
                   todo : SUBSET Rows, batch : SUBSET Rows]
      /\ run'.id = run.id /\ run'.cur = run.cur /\ run'.upper = run.upper
      /\ run'.init = run.init /\ run'.batch = run.batch
      /\ run'.todo = {r \in src : InWindow(r)}
  BY DEF Query, Window
<1>3. TypeOK' BY <1>1, <1>2
<1>4. RunControl' BY <1>1, <1>2 DEF RunControl, InRun
<1>5. Untouched' BY <1>1, <1>2 DEF Untouched
<1>6. NothingSkipped' BY <1>1, <1>2 DEF NothingSkipped, Counted, InWindow
<1>7. NothingRepeated'
  BY <1>1, <1>2 DEF NothingRepeated, Loaded, InWindow, RunControl
<1>8. NoLoss' BY <1>1 DEF NoLoss
<1>9. DuplicatesOnlyFromFailures' BY <1>1 DEF DuplicatesOnlyFromFailures
<1> QED BY <1>3, <1>4, <1>5, <1>6, <1>7, <1>8, <1>9

\* When the rows are exhausted the window has landed.
LEMMA ReadDonePreserves ==
  ASSUME IndInv, ReadDone
  PROVE  IndInv'
<1> USE WmAssumption, BoundAssumption, RunIdsAreNat
    DEF IndInv, TypeOK, NoRun, Statuses
<1>1. /\ pc = "stream" /\ run.todo = {}
      /\ UNCHANGED <<proc, run, src, arrival, floor, sink, wm, runs, nruns, state>>
  BY DEF ReadDone, envVars, dbVars
<1>2. \/ pc' = "upsert" /\ run.upper # 0
      \/ pc' = "finish" /\ (run.upper = 0 \/ run.upper = run.cur)
  BY DEF ReadDone, AfterRead
<1>3. TypeOK' BY <1>1, <1>2
<1>4. RunControl' BY <1>1, <1>2 DEF RunControl, InRun
<1>5. Untouched' BY <1>1 DEF Untouched
<1>6. NothingSkipped' BY <1>1, <1>2 DEF NothingSkipped, Counted, InWindow
<1>7. NothingRepeated'
  BY <1>1, <1>2 DEF NothingRepeated, Loaded, InWindow
<1>8. NoLoss' BY <1>1 DEF NoLoss
<1>9. DuplicatesOnlyFromFailures' BY <1>1 DEF DuplicatesOnlyFromFailures
<1> QED BY <1>3, <1>4, <1>5, <1>6, <1>7, <1>8, <1>9

\* A reset may meet a run at any point of Execute.
LEMMA ResetWatermarkPreserves ==
  ASSUME IndInv, ResetWatermark
  PROVE  IndInv'
<1> USE WmAssumption, BoundAssumption, RunIdsAreNat
    DEF IndInv, TypeOK, NoRun, Statuses
<1>1. /\ wm' = 0
      /\ UNCHANGED <<proc, pc, run, src, arrival, floor, sink, runs, nruns, state>>
  BY DEF ResetWatermark, envVars
<1>2. TypeOK' BY <1>1
<1>3. RunControl' BY <1>1 DEF RunControl, InRun
<1>4. Untouched' BY <1>1 DEF Untouched
<1>5. NothingSkipped' BY <1>1 DEF NothingSkipped, Counted, InWindow
<1>6. NothingRepeated' BY <1>1 DEF NothingRepeated, Loaded, InWindow
<1>7. NoLoss' BY <1>1 DEF NoLoss
<1>8. DuplicatesOnlyFromFailures' BY <1>1 DEF DuplicatesOnlyFromFailures
<1> QED BY <1>2, <1>3, <1>4, <1>5, <1>6, <1>7, <1>8

-----------------------------------------------------------------------------
\* The invariant holds before the first start.
LEMMA InitEstablishes == Init => IndInv
<1> SUFFICES ASSUME Init PROVE IndInv  OBVIOUS
<1> USE WmAssumption, BoundAssumption, RunIdsAreNat DEF Init
<1>1. TypeOK BY DEF TypeOK, NoRun, NoRow, Statuses
<1>2. RunControl BY DEF RunControl, InRun, NoRun
<1>3. Untouched BY DEF Untouched, NoRun, NoRow
<1>4. NothingSkipped BY DEF NothingSkipped
<1>5. NothingRepeated BY DEF NothingRepeated, NoRun
<1>6. NoLoss /\ DuplicatesOnlyFromFailures
  BY DEF NoLoss, DuplicatesOnlyFromFailures, NoRow
<1> QED BY <1>1, <1>2, <1>3, <1>4, <1>5, <1>6 DEF IndInv

\* A stuttering step changes none of the parts.
LEMMA StutterPreserves ==
  ASSUME IndInv, UNCHANGED vars
  PROVE  IndInv'
BY DEF vars, IndInv, TypeOK, RunControl, InRun, Untouched, NothingSkipped,
       NothingRepeated, Counted, Loaded, InWindow, NoLoss,
       DuplicatesOnlyFromFailures

\* Every step preserves the invariant, action by action.
LEMMA StepPreserves == IndInv /\ [Next]_vars => IndInv'
<1> SUFFICES ASSUME IndInv, [Next]_vars PROVE IndInv'  OBVIOUS
<1>1. CASE \E r \in Rows : SourceInsert(r) \/ SourceDelete(r)
  BY <1>1, SourceInsertPreserves, SourceDeletePreserves
<1>2. CASE Trigger \/ Obtain \/ ReadError \/ StopBegin
  BY <1>2, ControlStepPreserves
<1>3. CASE ReturnEarly \/ Exit
  BY <1>3, DropRunPreserves
<1>4. CASE GetWatermark \/ StartRun
  BY <1>4, GetWatermarkPreserves, StartRunPreserves
<1>5. CASE ReadInit \/ ReadUpper \/ Query \/ ReadDone
  BY <1>5, ReadInitPreserves, ReadUpperPreserves, QueryPreserves, ReadDonePreserves
<1>6. CASE BatchBegin \/ BatchLand
  BY <1>6, BatchBeginPreserves, BatchLandPreserves
<1>7. CASE UpsertWatermark \/ Finish \/ Fail
  BY <1>7, UpsertWatermarkPreserves, FinishPreserves, FailPreserves
<1>8. CASE Restart \/ StopAbort
  BY <1>8, AbortPreserves
<1>9. CASE ResetWatermark
  BY <1>9, ResetWatermarkPreserves
<1>10. CASE UNCHANGED vars
  BY <1>10, StutterPreserves
<1> QED
  BY <1>1, <1>2, <1>3, <1>4, <1>5, <1>6, <1>7, <1>8, <1>9, <1>10 DEF Next

\* The inductive invariant holds of every behaviour of a delta load, for
\* every set of rows, batch size and number of runs.
THEOREM Invariance == Spec => []IndInv
BY InitEstablishes, StepPreserves, PTL DEF Spec

\* Execute never moves the stored watermark past a row that has not landed.
THEOREM NoLossTheorem == Spec => []NoLoss
<1>1. IndInv => NoLoss BY DEF IndInv
<1> QED BY Invariance, <1>1, PTL

\* Two runs recorded as successful never wrote the same row.
THEOREM NoRepeatTheorem == Spec => []DuplicatesOnlyFromFailures
<1>1. IndInv => DuplicatesOnlyFromFailures BY DEF IndInv
<1> QED BY Invariance, <1>1, PTL

\* A success shown by the run state registry is a success in the history.
THEOREM ReportedTheorem == Spec => []ReportedSuccessDurable
<1>1. IndInv => ReportedSuccessDurable
  BY DEF IndInv, RunControl, ReportedSuccessDurable
<1> QED BY Invariance, <1>1, PTL

\* No step of Execute, of the startup or of the shutdown changes a run row
\* that has reached a terminal status.
THEOREM TerminalTheorem == Spec => TerminalIsFinal
<1>1. ASSUME IndInv, [Next]_vars, NEW n \in RunIds, runs[n].status \in Terminal
      PROVE  runs'[n] = runs[n]
  <2>1. CASE StartRun
    <3>1. nruns' = nruns + 1 /\ nruns' \in RunIds /\ runs[nruns'].status = "none"
      BY <1>1, <2>1, BoundAssumption, SMTT(30)
      DEF StartRun, InsertRunRow, IndInv, TypeOK, Untouched, RunIds
    <3> QED BY <1>1, <2>1, <3>1
      DEF StartRun, InsertRunRow, Terminal, Statuses, IndInv, TypeOK
  <2>2. CASE Finish \/ Fail
    <3>1. InRun BY <2>2 DEF Finish, Fail, InRun
    <3>2. CASE proc = "up"
      <4>1. runs[run.id].status = "running"
        BY <1>1, <3>1, <3>2 DEF IndInv, RunControl
      <4>2. n # run.id BY <1>1, <4>1 DEF Terminal
      <4> QED BY <1>1, <2>2, <4>2 DEF Finish, Fail, CloseRunRow, IndInv, TypeOK
    <3>3. CASE proc # "up"  BY <2>2, <3>3 DEF Finish, Fail, CtxDone
    <3> QED BY <3>2, <3>3
  <2>3. CASE Restart \/ StopAbort
    BY <1>1, <2>3, AbortEffect DEF Restart, StopAbort, Terminal, IndInv
  <2>4. CASE UNCHANGED runs  BY <2>4
  <2> QED
    BY <1>1, <2>1, <2>2, <2>3, <2>4, ZenonT(30)
    DEF Next, vars, dbVars, SourceInsert, SourceDelete, Trigger, Obtain,
        GetWatermark, ReturnEarly, ReadInit, ReadUpper, Query, BatchBegin,
        BatchLand, ReadDone, ReadError, UpsertWatermark, StopBegin, Exit,
        ResetWatermark
<1>2. IndInv /\ [Next]_vars =>
        [\A n \in RunIds : runs[n].status \in Terminal => runs'[n] = runs[n]]_vars
  BY <1>1
<1> QED BY Invariance, <1>2, PTL DEF Spec, TerminalIsFinal

\* The run in flight is recorded as running, or was aborted by a Stop whose
\* process is still there; only the former may store a watermark.
THEOREM LiveRunsTheorem == Spec => OnlyLiveRunsWrite
<1>1. ASSUME IndInv, InRun
      PROVE  /\ run.id \in RunIds
             /\ \/ runs[run.id].status = "running"
                \/ runs[run.id].status = "aborted" /\ proc = "stopped"
  <2>1. run.id = nruns /\ nruns # 0 BY <1>1 DEF IndInv, RunControl
  <2>2. nruns \in 0..MaxRuns BY <1>1 DEF IndInv, TypeOK
  <2>3. run.id \in RunIds BY <2>1, <2>2, BoundAssumption DEF RunIds
  <2> QED BY <1>1, <2>3 DEF IndInv, RunControl
<1>2. ASSUME IndInv, [Next]_vars, wm' \notin {wm, 0}
      PROVE  run.id \in RunIds /\ runs[run.id].status = "running"
  <2>1. UpsertWatermark /\ ~CtxDone
    BY <1>2, ZenonT(30)
    DEF Next, vars, dbVars, SourceInsert, SourceDelete, Trigger, Obtain, GetWatermark, StartRun,
        ReturnEarly, ReadInit, ReadUpper, Query, BatchBegin, BatchLand, ReadDone, ReadError,
        UpsertWatermark, Finish, Fail, Restart, StopBegin, StopAbort, Exit, ResetWatermark
  <2>2. InRun /\ proc = "up" BY <2>1 DEF UpsertWatermark, InRun, CtxDone
  <2> QED BY <1>1, <1>2, <2>2
<1>3. ASSUME IndInv, [Next]_vars, NEW r \in Rows, NEW n \in sink'[r] \ sink[r]
      PROVE  \/ runs[n].status = "running"
             \/ runs[n].status = "aborted" /\ proc = "stopped"
  <2>1. BatchLand
    BY <1>3, ZenonT(30)
    DEF Next, vars, dbVars, SourceInsert, SourceDelete, Trigger, Obtain, GetWatermark, StartRun,
        ReturnEarly, ReadInit, ReadUpper, Query, BatchBegin, ReadDone, ReadError,
        UpsertWatermark, Finish, Fail, Restart, StopBegin, StopAbort, Exit, ResetWatermark
  <2>2. n = run.id /\ InRun BY <1>3, <2>1 DEF BatchLand, Written, InRun
  <2> QED BY <1>1, <1>3, <2>2
<1>4. IndInv /\ [Next]_vars =>
        [/\ wm' \notin {wm, 0} => run.id \in RunIds /\ runs[run.id].status = "running"
         /\ \A r \in Rows : \A n \in sink'[r] \ sink[r] :
              \/ runs[n].status = "running"
              \/ runs[n].status = "aborted" /\ proc = "stopped"]_vars
  BY <1>2, <1>3
<1> QED BY Invariance, <1>4, PTL DEF Spec, OnlyLiveRunsWrite
=============================================================================
