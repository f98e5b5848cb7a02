-------------------------- MODULE ReplaceRunProofs --------------------------
(***************************************************************************)
(* Proofs about ReplaceRun, for any number of runs and batches: what the   *)
(* tables hold at each place of a run is inductive, and with it the sink's *)
(* calls implement AtomicReplace.                                          *)
(***************************************************************************)
EXTENDS ReplaceRun, TLAPS

\* A table that holds rows is not the missing one.
LEMMA RowsExist ==
  ASSUME NEW k \in Nat, NEW n \in Nat
  PROVE  [by |-> k, n |-> n] # Absent
BY ReplaceAssumption

\* The invariant holds when the process starts.
LEMMA InitInv == ReplaceInit => ReplaceInv
<1> SUFFICES ASSUME ReplaceInit PROVE ReplaceInv
  OBVIOUS
<1> USE ReplaceAssumption
<1>1. ReplaceTypeOK
  BY DEF ReplaceInit, ReplaceTypeOK, Tables, Places, Session
<1>2. StatusInv /\ SuccessPublished
  BY DEF ReplaceInit, StatusInv, SuccessPublished, Session
<1>3. live = Absent \/ live.by <= sess.k
  BY DEF ReplaceInit, Session
<1>4. IF atomic THEN AtomicInv ELSE LegacyInv
  BY DEF ReplaceInit, Session, AtomicInv, LegacyInv, Before
<1> QED
  BY <1>1, <1>2, <1>3, <1>4 DEF ReplaceInv, ReplaceInit, Session

(***************************************************************************)
(* The invariant in two parts: what holds throughout, and what holds at a  *)
(* place of the run.                                                       *)
(***************************************************************************)
Runs == [k : 0..ReplaceRuns, auto : BOOLEAN, pc : Places, sent : 0..MaxBatches, first : BOOLEAN,
         deferred : BOOLEAN, active : BOOLEAN, committed : BOOLEAN,
         cancelled : BOOLEAN, refused : BOOLEAN]

Throughout ==
  /\ ReplaceTypeOK /\ StatusInv /\ SuccessPublished
  /\ sess.pc # "idle" => sess.k > 0
  /\ live = Absent \/ live.by <= sess.k

AtPlace ==
  /\ sess.pc \in {"read", "write", "ensure"} => sess.deferred /\ sess.sent <= size[sess.k]
  /\ sess.pc \in {"write", "ensure"} => sess.sent < size[sess.k]
  /\ sess.pc \in {"prepare", "truncate"} => sess.sent = 0 /\ sess.first /\ ~sess.active /\ ~sess.deferred
  /\ sess.pc = "finish" => Published
  /\ IF atomic THEN AtomicInv ELSE LegacyInv

\* Where a run may fail: its status is still open.
Working == Places \ {"idle", "finish", "fail", "abort"}

\* While a run works the target stays as it was or becomes this run's; then no
\* earlier success is undone, whatever becomes of the other tables.
LEMMA WorkingStep ==
  ASSUME ReplaceInv, sess.pc \in Working, sess' \in Runs, sess'.k = sess.k, sess'.pc # "idle",
         UNCHANGED <<atomic, size, status>>,
         live' \in Tables, stg' \in Tables, old' \in Tables,
         live' = live \/ (live' # Absent /\ live'.by = sess.k)
  PROVE  Throughout'
<1> USE ReplaceAssumption
<1>1. ReplaceTypeOK'
  BY DEF ReplaceInv, ReplaceTypeOK, Runs
<1>2. StatusInv'
  BY DEF ReplaceInv, StatusInv, Working, Places
<1>3. SuccessPublished'
  <2> SUFFICES ASSUME NEW j \in 1..ReplaceRuns, status[j] = "success"
               PROVE  \/ live' = Absent /\ size[j] = 0
                      \/ live' # Absent /\ (live'.by > j \/ live' = [by |-> j, n |-> size[j]])
    BY DEF SuccessPublished
  <2>1. j < sess.k
    BY DEF ReplaceInv, ReplaceTypeOK, StatusInv, Working, Places
  <2> QED
    BY <2>1 DEF ReplaceInv, SuccessPublished, ReplaceTypeOK
<1>4. sess.k > 0 /\ (live' = Absent \/ live'.by <= sess.k)
  BY DEF ReplaceInv, ReplaceTypeOK, Working, Places
<1> QED
  BY <1>1, <1>2, <1>3, <1>4 DEF Throughout

\* The run stays a run when it goes to another place.
LEMMA GotoType ==
  ASSUME sess \in Runs, NEW pc \in Places
  PROVE  /\ Goto(pc) \in Runs /\ Goto(pc).pc = pc
         /\ Goto(pc).k = sess.k /\ Goto(pc).sent = sess.sent /\ Goto(pc).first = sess.first
         /\ Goto(pc).deferred = sess.deferred /\ Goto(pc).active = sess.active
         /\ Goto(pc).refused = sess.refused
BY DEF Goto, Runs

\* A failed call, with or without its effect: the target is as it was or this run's.
LEMMA FailedCall ==
  ASSUME ReplaceInv, sess.pc \in Working, sess' = Goto("fail"), UNCHANGED <<atomic, size, status>>,
         live' \in Tables, stg' \in Tables, old' \in Tables,
         live' = live \/ (live' # Absent /\ live'.by = sess.k)
  PROVE  ReplaceInv'
<1>1. sess \in Runs /\ "fail" \in Places
  BY DEF ReplaceInv, ReplaceTypeOK, Runs, Places
<1>2. /\ sess' \in Runs /\ sess'.k = sess.k /\ sess'.pc = "fail" /\ sess'.refused = sess.refused
      /\ sess'.active = sess.active
  BY <1>1, GotoType
<1>3. Throughout'
  BY <1>2, WorkingStep
<1>4. AtPlace'
  BY <1>2 DEF ReplaceInv, AtPlace, AtomicInv, LegacyInv, Before
<1> QED
  BY <1>3, <1>4 DEF ReplaceInv, Throughout, AtPlace

\* A call that the database turns down, which happens to the fallback only.
LEMMA RefusedCall ==
  ASSUME ReplaceInv, sess.pc \in Working, ~atomic, UNCHANGED <<atomic, tables, size, status>>,
         sess' = [sess EXCEPT !.pc = "fail", !.refused = TRUE]
  PROVE  ReplaceInv'
<1>1. /\ sess' \in Runs /\ sess'.k = sess.k /\ sess'.pc = "fail" /\ sess'.active = sess.active
  BY DEF ReplaceInv, ReplaceTypeOK, Runs, Places
<1>2. Throughout'
  BY <1>1, WorkingStep DEF ReplaceInv, ReplaceTypeOK, tables
<1>3. AtPlace'
  BY <1>1 DEF ReplaceInv, AtPlace, LegacyInv
<1> QED
  BY <1>2, <1>3 DEF ReplaceInv, Throughout, AtPlace

\* A call that succeeds: what is left to show is the invariant of the next place.
LEMMA GoesOn ==
  ASSUME ReplaceInv, sess.pc \in Working, sess' \in Runs, sess'.k = sess.k, sess'.pc # "idle",
         UNCHANGED <<atomic, size, status>>,
         live' \in Tables, stg' \in Tables, old' \in Tables,
         live' = live \/ (live' # Absent /\ live'.by = sess.k),
         AtPlace'
  PROVE  ReplaceInv'
<1>1. Throughout'
  BY WorkingStep
<1> QED
  BY <1>1 DEF ReplaceInv, Throughout, AtPlace

\* What is known of the run and the tables at any place where a run works.
LEMMA WorkingFacts ==
  ASSUME ReplaceInv, sess.pc \in Working
  PROVE  /\ sess \in Runs /\ sess.k \in 1..ReplaceRuns /\ size[sess.k] \in 0..MaxBatches
         /\ live \in Tables /\ stg \in Tables /\ old \in Tables
         /\ AtPlace
         /\ \A n \in 0..MaxBatches : RowsOf(n) \in Tables /\ RowsOf(n) # Absent
BY ReplaceAssumption DEF ReplaceInv, ReplaceTypeOK, Runs, Working, AtPlace, RowsOf, Tables

(***************************************************************************)
(* One lemma per call.  The case of success is worked out; the others are  *)
(* FailedCall and RefusedCall.                                             *)
(***************************************************************************)
\* prepareExisting looks at the target and changes nothing.
LEMMA PrepareKeeps == ReplaceInv /\ Prepare => ReplaceInv'
<1> SUFFICES ASSUME ReplaceInv, Prepare PROVE ReplaceInv'
  OBVIOUS
<1> USE ReplaceAssumption
<1>1. sess.pc = "prepare" /\ sess.pc \in Working /\ UNCHANGED <<atomic, tables, size, status>>
  BY DEF Working, Places, Prepare, Call, Lookup
<1>2. CASE sess' = Goto("fail")
  BY <1>1, <1>2, WorkingFacts, FailedCall DEF tables
<1>3. CASE live = Absent /\ sess' = Prepared
  <2>1. /\ sess' \in Runs /\ sess'.pc = "read" /\ sess'.k = sess.k /\ sess'.sent = 0 /\ sess'.deferred
        /\ sess'.first /\ sess'.active = FALSE /\ sess'.refused = sess.refused
    BY <1>1, <1>3, WorkingFacts DEF Prepared, Runs, Places, AtPlace
  <2>2. AtPlace'
    BY <1>1, <1>3, <2>1, WorkingFacts DEF AtPlace, AtomicInv, LegacyInv, RowsOf, Before, tables
  <2> QED
    BY <1>1, <2>1, <2>2, WorkingFacts, GoesOn DEF tables
<1>4. CASE live # Absent /\ sess' = Goto(IF atomic THEN "drop" ELSE "truncate")
  <2> DEFINE pc == IF atomic THEN "drop" ELSE "truncate"
  <2>1. /\ sess' \in Runs /\ sess'.pc = pc /\ sess'.k = sess.k /\ sess'.sent = 0 /\ sess'.deferred = FALSE
        /\ sess'.first /\ sess'.active = FALSE /\ sess'.refused = sess.refused
    BY <1>1, <1>4, WorkingFacts, GotoType DEF Places, AtPlace
  <2>2. AtPlace'
    BY <1>1, <1>4, <2>1, WorkingFacts DEF AtPlace, AtomicInv, LegacyInv, RowsOf, Before, tables
  <2> QED
    BY <1>1, <2>1, <2>2, WorkingFacts, GoesOn DEF tables
<1> QED
  BY <1>2, <1>3, <1>4 DEF Prepare, Lookup, Call, Goto, ReplaceInv, ReplaceTypeOK

\* The fallback truncates the target, which then holds none of the run's rows yet.
LEMMA LegacyTruncateKeeps == ReplaceInv /\ LegacyTruncate => ReplaceInv'
<1> SUFFICES ASSUME ReplaceInv, LegacyTruncate PROVE ReplaceInv'
  OBVIOUS
<1> USE ReplaceAssumption
<1>1. sess.pc = "truncate" /\ sess.pc \in Working /\ UNCHANGED <<atomic, size, status>>
  BY DEF Working, Places, LegacyTruncate, Call
<1>2. ~atomic
  BY <1>1 DEF ReplaceInv, AtomicInv
<1>3. CASE live' = RowsOf(0) /\ UNCHANGED <<stg, old>> /\ sess' \in {Prepared, Goto("fail")}
  <2>1. live' \in Tables /\ live' # Absent /\ live'.by = sess.k
    BY <1>1, <1>3, WorkingFacts DEF RowsOf
  <2>2. CASE sess' = Prepared
    <3>1. /\ sess' \in Runs /\ sess'.pc = "read" /\ sess'.k = sess.k /\ sess'.sent = 0
          /\ sess'.deferred /\ sess'.active = FALSE
      BY <1>1, <2>2, WorkingFacts DEF Prepared, Runs, Places, AtPlace
    <3>2. AtPlace'
      BY <1>1, <1>2, <1>3, <3>1, WorkingFacts DEF AtPlace, LegacyInv, RowsOf
    <3> QED
      BY <1>1, <1>3, <2>1, <3>1, <3>2, WorkingFacts, GoesOn
  <2> QED
    BY <1>1, <1>3, <2>1, <2>2, WorkingFacts, FailedCall
<1> QED
  BY <1>1, <1>2, <1>3, WorkingFacts, FailedCall, RefusedCall
  DEF LegacyTruncate, Call, RowsOf, tables, Goto

\* BeginReplace starts without a staging table, whatever the last run left.
LEMMA DropStagingKeeps == ReplaceInv /\ DropStaging => ReplaceInv'
<1> SUFFICES ASSUME ReplaceInv, DropStaging PROVE ReplaceInv'
  OBVIOUS
<1> USE ReplaceAssumption
<1>1. sess.pc = "drop" /\ sess.pc \in Working /\ UNCHANGED <<atomic, size, status, live, old>>
  BY DEF Working, Places, DropStaging, Call, tables
<1>2. atomic
  BY <1>1 DEF ReplaceInv, LegacyInv
<1>3. stg' \in {stg, Absent}
  BY DEF DropStaging, Call, tables, StagingAfterDrop
<1>4. CASE stg' = Absent /\ sess' = Goto("check")
  <2>1. /\ sess' \in Runs /\ sess'.pc = "check" /\ sess'.k = sess.k /\ sess'.sent = sess.sent
        /\ sess'.deferred = sess.deferred /\ sess'.refused = sess.refused
    BY <1>1, <1>4, WorkingFacts, GotoType DEF Places
  <2>2. AtPlace'
    BY <1>1, <1>2, <1>4, <2>1, WorkingFacts DEF AtPlace, AtomicInv, Before
  <2> QED
    BY <1>1, <1>4, <2>1, <2>2, WorkingFacts, GoesOn DEF Tables
<1>5. CASE sess' = Goto("fail")
  BY <1>1, <1>3, <1>5, WorkingFacts, FailedCall DEF Tables
<1> QED
  BY <1>4, <1>5 DEF DropStaging, Call, StagingAfterDrop, Goto

\* Without a target the columns are those of the first batch, which is at hand.
LEMMA CheckLiveKeeps == ReplaceInv /\ CheckLive => ReplaceInv'
<1> SUFFICES ASSUME ReplaceInv, CheckLive PROVE ReplaceInv'
  OBVIOUS
<1> USE ReplaceAssumption
<1>1. sess.pc = "check" /\ sess.pc \in Working /\ UNCHANGED <<atomic, size, status, tables>>
  BY DEF Working, Places, CheckLive, Lookup, Call
<1>2. atomic
  BY <1>1 DEF ReplaceInv, LegacyInv
<1>3. live # Absent \/ sess.deferred
  BY <1>1, <1>2 DEF ReplaceInv, AtomicInv
<1> DEFINE pc == IF live # Absent THEN "clone" ELSE "create"
<1>4. CASE sess' = Goto(pc)
  <2>1. /\ sess' \in Runs /\ sess'.pc = pc /\ sess'.k = sess.k /\ sess'.sent = sess.sent
        /\ sess'.deferred = sess.deferred /\ sess'.refused = sess.refused
    BY <1>1, <1>4, WorkingFacts, GotoType DEF Places
  <2>2. AtPlace'
    BY <1>1, <1>2, <1>3, <1>4, <2>1, WorkingFacts DEF AtPlace, AtomicInv, Before, tables
  <2> QED
    BY <1>1, <2>1, <2>2, WorkingFacts, GoesOn DEF tables
<1>5. CASE sess' = Goto("fail")
  BY <1>1, <1>5, WorkingFacts, FailedCall DEF tables
<1> QED
  BY <1>3, <1>4, <1>5 DEF CheckLive, Lookup, Call, Goto

\* An empty staging table: prepareExisting returns, or the first batch is written.
LEMMA StagedKeeps ==
  ASSUME ReplaceInv, atomic, sess.pc \in {"clone", "create"},
         UNCHANGED <<atomic, size, status, live, old>>, stg' = RowsOf(0), sess' = Staged
  PROVE  ReplaceInv'
<1>1. sess.pc \in Working
  BY DEF Working, Places
<1>2. /\ sess' \in Runs /\ sess'.pc = (IF sess.deferred THEN "write" ELSE "read") /\ sess'.k = sess.k
      /\ sess'.sent = 0 /\ sess'.deferred /\ sess'.active /\ sess'.refused = sess.refused
  BY <1>1, WorkingFacts DEF Staged, Runs, Places, AtPlace, AtomicInv
<1>3. AtPlace'
  BY <1>1, <1>2, WorkingFacts DEF AtPlace, AtomicInv, Before, RowsOf
<1>4. stg' \in Tables
  BY <1>1, WorkingFacts, ReplaceAssumption
<1> QED
  BY <1>1, <1>2, <1>3, <1>4, WorkingFacts, GoesOn

\* SELECT INTO finds a target to copy and no staging table.
LEMMA CloneLiveKeeps == ReplaceInv /\ CloneLive => ReplaceInv'
<1> SUFFICES ASSUME ReplaceInv, CloneLive PROVE ReplaceInv'
  OBVIOUS
<1> USE ReplaceAssumption
<1>1. sess.pc = "clone" /\ sess.pc \in Working /\ UNCHANGED <<atomic, size, status, live, old>>
  BY DEF Working, Places, CloneLive, Call, tables
<1>2. atomic
  BY <1>1 DEF ReplaceInv, LegacyInv
<1>3. live # Absent /\ stg = Absent
  BY <1>1, <1>2 DEF ReplaceInv, AtomicInv
<1>4. stg' \in {stg, RowsOf(0)} /\ RowsOf(0) \in Tables
  BY <1>1, WorkingFacts DEF CloneLive, Call, tables, RowsOf
<1>5. CASE stg' = RowsOf(0) /\ sess' = Staged
  BY <1>1, <1>2, <1>5, StagedKeeps
<1>6. CASE sess' = Goto("fail")
  BY <1>1, <1>4, <1>6, WorkingFacts, FailedCall
<1> QED
  BY <1>3, <1>5, <1>6 DEF CloneLive, Call, Goto, RowsOf

\* EnsureTable creates the staging table, which is not there.
LEMMA CreateStagingKeeps == ReplaceInv /\ CreateStaging => ReplaceInv'
<1> SUFFICES ASSUME ReplaceInv, CreateStaging PROVE ReplaceInv'
  OBVIOUS
<1> USE ReplaceAssumption
<1>1. sess.pc = "create" /\ sess.pc \in Working /\ UNCHANGED <<atomic, size, status, live, old>>
  BY DEF Working, Places, CreateStaging, Call, tables
<1>2. atomic
  BY <1>1 DEF ReplaceInv, LegacyInv
<1>3. stg = Absent
  BY <1>1, <1>2 DEF ReplaceInv, AtomicInv
<1>4. stg' \in {stg, RowsOf(0)} /\ RowsOf(0) \in Tables
  BY <1>1, WorkingFacts DEF CreateStaging, Call, tables, RowsOf
<1>5. CASE stg' = RowsOf(0) /\ sess' = Staged
  BY <1>1, <1>2, <1>5, StagedKeeps
<1>6. CASE sess' = Goto("fail")
  BY <1>1, <1>4, <1>6, WorkingFacts, FailedCall
<1> QED
  BY <1>3, <1>5, <1>6 DEF CreateStaging, Call, Goto, RowsOf

\* A batch comes: the first one may have to prepare its table.
LEMMA NextBatchKeeps == ReplaceInv /\ NextBatch => ReplaceInv'
<1> SUFFICES ASSUME ReplaceInv, NextBatch PROVE ReplaceInv'
  OBVIOUS
<1> USE ReplaceAssumption
<1>1. /\ sess.pc = "read" /\ sess.pc \in Working /\ UNCHANGED <<atomic, size, status, tables>>
      /\ sess.sent < size[sess.k]
  BY DEF Working, Places, NextBatch
<1> DEFINE pc == CASE ~sess.first -> "write"
                   [] sess.first /\ atomic /\ ~sess.active -> "drop"
                   [] sess.first /\ ~atomic /\ sess.auto -> "ensure"
                   [] OTHER -> "write"
<1>2. /\ sess' \in Runs /\ sess'.pc = pc /\ sess'.k = sess.k /\ sess'.sent = sess.sent
      /\ sess'.deferred = sess.deferred /\ sess'.active = sess.active /\ sess'.refused = sess.refused
      /\ pc = "write" => ~sess'.first
  BY <1>1, WorkingFacts DEF NextBatch, Goto, Runs, Places
<1>3. AtPlace'
  <2>1. CASE atomic
    BY <1>1, <1>2, <2>1, WorkingFacts DEF AtPlace, AtomicInv, RowsOf, Before, tables, Runs
  <2>2. CASE ~atomic
    BY <1>1, <1>2, <2>2, WorkingFacts DEF AtPlace, LegacyInv, RowsOf, tables, Runs
  <2> QED
    BY <2>1, <2>2
<1> QED
  BY <1>1, <1>2, <1>3, WorkingFacts, GoesOn DEF tables, Places

\* The fallback creates a missing target; one that is there is the truncated one.
LEMMA LegacyEnsureKeeps == ReplaceInv /\ LegacyEnsure => ReplaceInv'
<1> SUFFICES ASSUME ReplaceInv, LegacyEnsure PROVE ReplaceInv'
  OBVIOUS
<1> USE ReplaceAssumption
<1>1. sess.pc = "ensure" /\ sess.pc \in Working /\ UNCHANGED <<atomic, size, status, stg, old>>
  BY DEF Working, Places, LegacyEnsure, Call, tables
<1>2. ~atomic /\ sess.sent = 0
  BY <1>1 DEF ReplaceInv, AtomicInv, LegacyInv
<1>3. live' \in {live, RowsOf(0)} /\ RowsOf(0) \in Tables /\ RowsOf(0) # Absent /\ RowsOf(0).by = sess.k
  BY <1>1, WorkingFacts DEF LegacyEnsure, Call, tables, RowsOf
<1> DEFINE after == [sess EXCEPT !.pc = "write", !.first = FALSE]
<1>4. CASE live' = RowsOf(0) /\ sess' = after
  <2>1. /\ sess' \in Runs /\ sess'.pc = "write" /\ sess'.k = sess.k /\ sess'.sent = sess.sent
        /\ sess'.deferred = sess.deferred /\ ~sess'.first /\ sess'.active = sess.active
    BY <1>1, <1>4, WorkingFacts DEF Runs, Places
  <2>2. AtPlace'
    BY <1>1, <1>2, <1>4, <2>1, WorkingFacts DEF AtPlace, LegacyInv, RowsOf
  <2> QED
    BY <1>1, <1>3, <1>4, <2>1, <2>2, WorkingFacts, GoesOn
<1>5. CASE sess' = Goto("fail")
  BY <1>1, <1>3, <1>5, WorkingFacts, FailedCall
<1>6. live = Absent \/ live = RowsOf(0)
  BY <1>1, <1>2 DEF ReplaceInv, LegacyInv
<1> QED
  BY <1>4, <1>5, <1>6 DEF LegacyEnsure, Call, Goto, RowsOf

\* A batch goes to the table that holds what the run has sent so far.
LEMMA WriteBatchKeeps == ReplaceInv /\ WriteBatch => ReplaceInv'
<1> SUFFICES ASSUME ReplaceInv, WriteBatch PROVE ReplaceInv'
  OBVIOUS
<1> USE ReplaceAssumption
<1> DEFINE after == [sess EXCEPT !.pc = "read", !.sent = @ + 1]
<1>1. sess.pc = "write" /\ sess.pc \in Working /\ UNCHANGED <<atomic, size, status, old>>
  BY DEF Working, Places, WriteBatch, Call, tables
<1>2. sess.sent < size[sess.k] /\ sess.sent \in Nat /\ sess.sent + 1 \in 0..MaxBatches /\ sess.k \in Nat
  BY <1>1, WorkingFacts DEF ReplaceInv, Runs
<1>3. RowsOf(sess.sent + 1) \in Tables /\ RowsOf(sess.sent + 1) # Absent /\ RowsOf(sess.sent + 1).by = sess.k
  BY <1>1, <1>2, WorkingFacts DEF RowsOf
<1>4. Longer(RowsOf(sess.sent)) = RowsOf(sess.sent + 1)
  BY DEF Longer, RowsOf
<1>5. ASSUME sess' = after
      PROVE  /\ sess' \in Runs /\ sess'.pc = "read" /\ sess'.k = sess.k /\ sess'.sent = sess.sent + 1
             /\ sess'.deferred = sess.deferred /\ sess'.active = sess.active
             /\ sess'.first = sess.first /\ sess'.refused = sess.refused
  BY <1>1, <1>2, <1>5, WorkingFacts DEF Runs, Places
<1>6. CASE WritesToStaging
  <2>1. atomic /\ stg = RowsOf(sess.sent) /\ stg # Absent
    BY <1>1, <1>2, <1>6, WorkingFacts, RowsExist
    DEF AtPlace, AtomicInv, LegacyInv, WritesToStaging, RowsOf
  <2>2. UNCHANGED live /\ stg' \in {stg, RowsOf(sess.sent + 1)}
    BY <1>4, <1>6, <2>1 DEF WriteBatch, Call, tables
  <2>3. CASE stg' = RowsOf(sess.sent + 1) /\ sess' = after
    <3>1. AtPlace'
      BY <1>1, <1>2, <1>5, <1>6, <2>1, <2>2, <2>3, WorkingFacts
      DEF AtPlace, AtomicInv, RowsOf, Before, WritesToStaging
    <3> QED
      BY <1>1, <1>3, <1>5, <2>2, <2>3, <3>1, WorkingFacts, GoesOn
  <2>4. CASE sess' = Goto("fail")
    BY <1>1, <1>3, <2>2, <2>4, WorkingFacts, FailedCall
  <2> QED
    BY <1>4, <1>6, <2>1, <2>3, <2>4 DEF WriteBatch, Call, Goto
<1>7. CASE ~WritesToStaging
  <2>1. ~atomic /\ (live = RowsOf(sess.sent) \/ live = Absent)
    BY <1>1, <1>7, WorkingFacts DEF AtPlace, AtomicInv, LegacyInv, WritesToStaging
  <2>2. CASE live' = RowsOf(sess.sent + 1) /\ UNCHANGED stg /\ sess' = after
    <3>1. AtPlace'
      BY <1>1, <1>2, <1>5, <1>7, <2>1, <2>2, WorkingFacts DEF AtPlace, LegacyInv, RowsOf
    <3> QED
      BY <1>1, <1>3, <1>5, <2>2, <3>1, WorkingFacts, GoesOn
  <2>3. CASE live' = RowsOf(sess.sent + 1) /\ UNCHANGED stg /\ sess' = Goto("fail")
    BY <1>1, <1>3, <2>3, WorkingFacts, FailedCall
  <2>4. CASE UNCHANGED tables /\ sess' = Goto("fail")
    BY <1>1, <2>4, WorkingFacts, FailedCall DEF tables
  <2>5. CASE UNCHANGED tables /\ sess' = [sess EXCEPT !.pc = "fail", !.refused = TRUE]
    BY <1>1, <2>1, <2>5, RefusedCall
  <2> QED
    BY <1>4, <1>7, <2>1, <2>2, <2>3, <2>4, <2>5 DEF WriteBatch, Call, Goto
<1> QED
  BY <1>6, <1>7

\* The end of the read, good or bad, leaves the tables alone.
LEMMA ReadStopsKeeps == ReplaceInv /\ (ReadFails \/ ReadEnds) => ReplaceInv'
<1> SUFFICES ASSUME ReplaceInv, ReadFails \/ ReadEnds PROVE ReplaceInv'
  OBVIOUS
<1>1. sess.pc = "read" /\ sess.pc \in Working /\ UNCHANGED <<atomic, size, status, tables>>
  BY DEF Working, Places, ReadFails, ReadEnds
<1>2. CASE ReadFails
  BY <1>1, <1>2, WorkingFacts, FailedCall DEF ReadFails, tables
<1>3. CASE ReadEnds
  <2> DEFINE pc == IF atomic /\ sess.active THEN "commit" ELSE "finish"
  <2>1. /\ sess' \in Runs /\ sess'.pc = pc /\ sess'.k = sess.k /\ sess'.active = sess.active
        /\ sess'.refused = sess.refused
    BY <1>1, <1>3, WorkingFacts, GotoType DEF ReadEnds, Places
  <2>2. AtPlace'
    BY <1>1, <1>3, <2>1, WorkingFacts
    DEF ReadEnds, AllSent, AtPlace, AtomicInv, LegacyInv, RowsOf, Before, Published, tables
  <2> QED
    BY <1>1, <2>1, <2>2, WorkingFacts, GoesOn DEF tables
<1> QED
  BY <1>2, <1>3

\* CommitReplace finds the staging table, complete.
LEMMA CommitCheckKeeps == ReplaceInv /\ CommitCheck => ReplaceInv'
<1> SUFFICES ASSUME ReplaceInv, CommitCheck PROVE ReplaceInv'
  OBVIOUS
<1> USE ReplaceAssumption
<1>1. sess.pc = "commit" /\ sess.pc \in Working /\ UNCHANGED <<atomic, size, status, tables>>
  BY DEF Working, Places, CommitCheck, Lookup, Call
<1>2. atomic
  BY <1>1 DEF ReplaceInv, LegacyInv
<1>3. stg # Absent
  BY <1>1, <1>2, WorkingFacts DEF AtPlace, AtomicInv
<1> DEFINE pc == IF live = Absent THEN "rename" ELSE "dropold"
<1>4. CASE sess' = Goto(pc)
  <2>1. /\ sess' \in Runs /\ sess'.pc = pc /\ sess'.k = sess.k /\ sess'.refused = sess.refused
    BY <1>1, <1>4, WorkingFacts, GotoType DEF Places
  <2>2. AtPlace'
    BY <1>1, <1>2, <1>4, <2>1, WorkingFacts DEF AtPlace, AtomicInv, Before, RowsOf, tables
  <2> QED
    BY <1>1, <2>1, <2>2, WorkingFacts, GoesOn DEF tables
<1>5. CASE sess' = Goto("fail")
  BY <1>1, <1>5, WorkingFacts, FailedCall DEF tables
<1> QED
  BY <1>3, <1>4, <1>5 DEF CommitCheck, Lookup, Call, Goto

\* The name the target moves to is free when the swap begins.
LEMMA DropOldKeeps == ReplaceInv /\ DropOld => ReplaceInv'
<1> SUFFICES ASSUME ReplaceInv, DropOld PROVE ReplaceInv'
  OBVIOUS
<1> USE ReplaceAssumption
<1>1. sess.pc = "dropold" /\ sess.pc \in Working /\ UNCHANGED <<atomic, size, status, live, stg>>
  BY DEF Working, Places, DropOld, Call, tables
<1>2. atomic
  BY <1>1 DEF ReplaceInv, LegacyInv
<1>3. old' \in {old, Absent}
  BY DEF DropOld, Call, tables
<1>4. CASE old' = Absent /\ sess' = Goto("swap")
  <2>1. /\ sess' \in Runs /\ sess'.pc = "swap" /\ sess'.k = sess.k /\ sess'.refused = sess.refused
    BY <1>1, <1>4, WorkingFacts, GotoType DEF Places
  <2>2. AtPlace'
    BY <1>1, <1>2, <1>4, <2>1, WorkingFacts DEF AtPlace, AtomicInv, Before, RowsOf
  <2> QED
    BY <1>1, <1>4, <2>1, <2>2, WorkingFacts, GoesOn DEF Tables
<1>5. CASE sess' = Goto("fail")
  BY <1>1, <1>3, <1>5, WorkingFacts, FailedCall DEF Tables
<1> QED
  BY <1>4, <1>5 DEF DropOld, Call, Goto

\* What the two ways of publishing do: nothing, or the complete rows of this run
\* become the target, with the reply or without.
LEMMA PublishingStep ==
  ASSUME ReplaceInv, Swap \/ RenameStaging
  PROVE  /\ atomic /\ sess.pc \in {"swap", "rename"} /\ sess.pc \in Working
         /\ UNCHANGED <<atomic, size, status, old>>
         /\ \/ live' = RowsOf(size[sess.k]) /\ stg' = Absent /\ sess' \in {Committed, Goto("fail")}
            \/ UNCHANGED tables /\ sess' = Goto("fail")
<1>1. /\ sess.pc \in {"swap", "rename"} /\ sess.pc \in Working
      /\ UNCHANGED <<atomic, size, status, old>>
  BY DEF Swap, RenameStaging, Call, tables, Working, Places
<1>2. atomic
  BY <1>1 DEF ReplaceInv, LegacyInv
<1>3. /\ stg = RowsOf(size[sess.k]) /\ stg # Absent
      /\ sess.pc = "swap" => live # Absent /\ old = Absent
      /\ sess.pc = "rename" => live = Absent
  BY <1>1, <1>2, WorkingFacts DEF AtPlace, AtomicInv
<1>4. CASE Swap
  BY <1>1, <1>2, <1>3, <1>4 DEF Swap, Call, Goto
<1>5. CASE RenameStaging
  BY <1>1, <1>2, <1>3, <1>5 DEF RenameStaging, Call, Goto
<1> QED
  BY <1>1, <1>2, <1>4, <1>5

\* Publishing keeps the invariant: a run that goes on has its rows in the target.
LEMMA PublishKeeps == ReplaceInv /\ (Swap \/ RenameStaging) => ReplaceInv'
<1> SUFFICES ASSUME ReplaceInv, Swap \/ RenameStaging PROVE ReplaceInv'
  OBVIOUS
<1>1. /\ atomic /\ sess.pc \in {"swap", "rename"} /\ sess.pc \in Working
      /\ UNCHANGED <<atomic, size, status, old>>
  BY PublishingStep
<1>2. CASE live' = RowsOf(size[sess.k]) /\ stg' = Absent /\ sess' \in {Committed, Goto("fail")}
  <2>1. live' \in Tables /\ stg' \in Tables /\ live' # Absent /\ live'.by = sess.k
    BY <1>1, <1>2, WorkingFacts DEF RowsOf, Tables
  <2>2. CASE sess' = Committed
    <3>1. /\ sess' \in Runs /\ sess'.pc = "finish" /\ sess'.k = sess.k /\ sess'.refused = sess.refused
      BY <1>1, <2>2, WorkingFacts DEF Committed, Runs, Places
    <3>2. AtPlace'
      BY <1>1, <1>2, <3>1, WorkingFacts DEF AtPlace, AtomicInv, Before, Published, RowsOf
    <3> QED
      BY <1>1, <2>1, <3>1, <3>2, WorkingFacts, GoesOn
  <2> QED
    BY <1>1, <1>2, <2>1, <2>2, WorkingFacts, FailedCall
<1>3. CASE UNCHANGED tables /\ sess' = Goto("fail")
  BY <1>1, <1>3, WorkingFacts, FailedCall DEF tables
<1> QED
  BY <1>2, <1>3, PublishingStep

(***************************************************************************)
(* The steps of the run that make no call on the tables it prepares.       *)
(***************************************************************************)
\* A run begins: the target is an earlier one's.
LEMMA StartKeeps == ReplaceInv /\ Start => ReplaceInv'
<1> SUFFICES ASSUME ReplaceInv, Start PROVE ReplaceInv'
  OBVIOUS
<1> USE ReplaceAssumption
<1>1. /\ sess.k \in 0..ReplaceRuns /\ sess.k + 1 \in 1..ReplaceRuns /\ sess.pc = "idle"
      /\ UNCHANGED <<atomic, live, stg, old>>
  BY DEF ReplaceInv, ReplaceTypeOK, Start, tables
<1>2. PICK n \in 0..MaxBatches : size' = [size EXCEPT ![sess.k + 1] = n]
  BY DEF Start
<1>3. PICK auto \in BOOLEAN : sess' = Session(sess.k + 1, auto, "prepare")
  BY DEF Start
<1>4. /\ sess' \in Runs /\ sess'.k = sess.k + 1 /\ sess'.pc = "prepare" /\ sess'.sent = 0 /\ sess'.first
      /\ ~sess'.active /\ ~sess'.deferred /\ ~sess'.refused
  BY <1>1, <1>3 DEF Session, Runs, Places
<1>5. status' = [status EXCEPT ![sess.k + 1] = "running"]
  BY DEF Start
<1>6. ReplaceTypeOK'
  BY <1>1, <1>2, <1>4, <1>5 DEF ReplaceInv, ReplaceTypeOK, Runs
<1>7. StatusInv'
  BY <1>1, <1>4, <1>5 DEF ReplaceInv, StatusInv, ReplaceTypeOK
<1>8. SuccessPublished'
  BY <1>1, <1>2, <1>5 DEF ReplaceInv, SuccessPublished, ReplaceTypeOK
<1>9. AtPlace'
  BY <1>1, <1>4 DEF ReplaceInv, AtPlace, AtomicInv, LegacyInv, Before, ReplaceTypeOK, Tables
<1>10. sess'.k > 0 /\ (live' = Absent \/ live'.by <= sess'.k)
  BY <1>1, <1>4 DEF ReplaceInv, ReplaceTypeOK, Tables
<1> QED
  BY <1>6, <1>7, <1>8, <1>9, <1>10 DEF ReplaceInv, AtPlace

\* The end of a run: a place with nothing left to show but the status.
LEMMA EndKeeps ==
  ASSUME ReplaceInv, sess.pc \in {"finish", "fail"}, NEW s \in {"success", "failed"},
         s = "success" => sess.pc = "finish",
         status' = [status EXCEPT ![sess.k] = s],
         NEW pc \in {"abort", "idle"}, sess' = Goto(pc), UNCHANGED <<atomic, tables, size>>
  PROVE  ReplaceInv'
<1> USE ReplaceAssumption
<1>1. sess \in Runs /\ sess.k \in 1..ReplaceRuns /\ pc \in Places
  BY DEF ReplaceInv, ReplaceTypeOK, Runs, Places
<1>2. /\ sess' \in Runs /\ sess'.k = sess.k /\ sess'.pc = pc /\ sess'.active = sess.active
      /\ sess'.refused = sess.refused
  BY <1>1, GotoType
<1>3. ReplaceTypeOK'
  BY <1>1, <1>2 DEF ReplaceInv, ReplaceTypeOK, Runs, tables
<1>4. StatusInv'
  BY <1>1, <1>2 DEF ReplaceInv, StatusInv, ReplaceTypeOK
<1>5. SuccessPublished'
  <2>1. s = "success" => \/ live = Absent /\ size[sess.k] = 0
                         \/ live # Absent /\ live = [by |-> sess.k, n |-> size[sess.k]]
    BY <1>1, RowsExist DEF ReplaceInv, Published, RowsOf, ReplaceTypeOK
  <2> QED
    BY <1>1, <2>1 DEF ReplaceInv, SuccessPublished, ReplaceTypeOK, tables
<1>6. AtPlace'
  BY <1>2 DEF ReplaceInv, AtPlace, AtomicInv, LegacyInv, Before
<1> QED
  BY <1>1, <1>2, <1>3, <1>4, <1>5, <1>6 DEF ReplaceInv, AtPlace, tables

\* FinishRun, with either outcome, and the failed run's report.
LEMMA FinishKeeps == ReplaceInv /\ (ReplaceFinish \/ ReplaceFail) => ReplaceInv'
<1> SUFFICES ASSUME ReplaceInv, ReplaceFinish \/ ReplaceFail PROVE ReplaceInv'
  OBVIOUS
<1>1. CASE ReplaceFinish
  BY <1>1, EndKeeps DEF ReplaceFinish
<1>2. CASE ReplaceFail
  BY <1>2, EndKeeps DEF ReplaceFail
<1> QED
  BY <1>1, <1>2

\* Whether the staging table is dropped or not, the next run copes with it.
LEMMA AbortKeeps == ReplaceInv /\ Abort => ReplaceInv'
<1> SUFFICES ASSUME ReplaceInv, Abort PROVE ReplaceInv'
  OBVIOUS
<1> USE ReplaceAssumption
<1>1. /\ sess \in Runs /\ "idle" \in Places /\ sess' = Goto("idle")
      /\ UNCHANGED <<atomic, live, old, size, status>> /\ stg' \in Tables
  BY DEF ReplaceInv, ReplaceTypeOK, Runs, Places, Abort, Tables
<1>2. /\ sess' \in Runs /\ sess'.k = sess.k /\ sess'.pc = "idle" /\ sess'.active = sess.active
      /\ sess'.refused = sess.refused
  BY <1>1, GotoType
<1>3. ReplaceTypeOK'
  BY <1>1, <1>2 DEF ReplaceInv, ReplaceTypeOK, Runs
<1>4. StatusInv' /\ SuccessPublished'
  BY <1>1, <1>2 DEF ReplaceInv, StatusInv, SuccessPublished
<1>5. AtPlace'
  BY <1>1, <1>2 DEF ReplaceInv, AtPlace, AtomicInv, LegacyInv, Before
<1> QED
  BY <1>1, <1>2, <1>3, <1>4, <1>5 DEF ReplaceInv, AtPlace

\* Cancelling changes what the next calls may do, and nothing of the invariant.
LEMMA CancelKeeps == ReplaceInv /\ Cancel => ReplaceInv'
<1> SUFFICES ASSUME ReplaceInv, Cancel PROVE ReplaceInv'
  OBVIOUS
<1> USE ReplaceAssumption
<1>1. /\ sess \in Runs /\ UNCHANGED <<atomic, live, stg, old, size, status>>
      /\ sess' = [sess EXCEPT !.cancelled = TRUE]
  BY DEF ReplaceInv, ReplaceTypeOK, Runs, Cancel, tables
<1>2. /\ sess' \in Runs /\ sess'.k = sess.k /\ sess'.pc = sess.pc /\ sess'.active = sess.active
      /\ sess'.refused = sess.refused /\ sess'.sent = sess.sent /\ sess'.first = sess.first
      /\ sess'.deferred = sess.deferred
  BY <1>1 DEF Runs
<1>3. ReplaceTypeOK'
  BY <1>1, <1>2 DEF ReplaceInv, ReplaceTypeOK, Runs
<1>4. StatusInv' /\ SuccessPublished'
  BY <1>1, <1>2 DEF ReplaceInv, StatusInv, SuccessPublished
<1>5. AtPlace'
  BY <1>1, <1>2 DEF ReplaceInv, AtPlace, AtomicInv, LegacyInv, Before, Published, RowsOf
<1> QED
  BY <1>1, <1>2, <1>3, <1>4, <1>5 DEF ReplaceInv, AtPlace

\* A crash anywhere leaves tables the next run copes with.
LEMMA CrashKeeps == ReplaceInv /\ Crash => ReplaceInv'
<1> SUFFICES ASSUME ReplaceInv, Crash PROVE ReplaceInv'
  OBVIOUS
<1> USE ReplaceAssumption
<1>1. /\ sess.k \in 1..ReplaceRuns /\ UNCHANGED <<atomic, live, stg, old, size>>
      /\ sess' = Session(sess.k, FALSE, "idle")
      /\ status' = [status EXCEPT ![sess.k] = IF @ = "running" THEN "crashed" ELSE @]
  BY DEF ReplaceInv, ReplaceTypeOK, Crash, tables
<1>2. /\ sess' \in Runs /\ sess'.k = sess.k /\ sess'.pc = "idle" /\ ~sess'.active /\ ~sess'.refused
  BY <1>1 DEF Session, Runs, Places
<1>3. ReplaceTypeOK'
  BY <1>1, <1>2 DEF ReplaceInv, ReplaceTypeOK, Runs
<1>4. StatusInv'
  BY <1>1, <1>2 DEF ReplaceInv, StatusInv, ReplaceTypeOK
<1>5. SuccessPublished'
  BY <1>1 DEF ReplaceInv, SuccessPublished, ReplaceTypeOK
<1>6. AtPlace'
  BY <1>1, <1>2 DEF AtPlace, AtomicInv, LegacyInv, Before
<1> QED
  BY <1>1, <1>2, <1>3, <1>4, <1>5, <1>6 DEF ReplaceInv, AtPlace

-----------------------------------------------------------------------------
\* What the tables hold at each place of a run is an invariant of the runs, for
\* any number of them, failed, cancelled or crashed anywhere.
THEOREM Invariance == ReplaceSpec => []ReplaceInv
<1>1. ReplaceInv /\ [ReplaceNext]_replaceVars => ReplaceInv'
  <2> SUFFICES ASSUME ReplaceInv, [ReplaceNext]_replaceVars PROVE ReplaceInv'
    OBVIOUS
  <2>1. CASE ReplaceNext
    BY <2>1, StartKeeps, PrepareKeeps, LegacyTruncateKeeps, DropStagingKeeps, CheckLiveKeeps,
       CloneLiveKeeps, CreateStagingKeeps, NextBatchKeeps, LegacyEnsureKeeps, WriteBatchKeeps,
       ReadStopsKeeps, CommitCheckKeeps, DropOldKeeps, PublishKeeps, FinishKeeps, AbortKeeps,
       CancelKeeps, CrashKeeps
    DEF ReplaceNext
  <2>2. CASE UNCHANGED replaceVars
    <3>1. /\ atomic' = atomic /\ live' = live /\ stg' = stg /\ old' = old
          /\ size' = size /\ sess' = sess /\ status' = status
      BY <2>2 DEF replaceVars
    <3>2. ReplaceTypeOK' /\ StatusInv' /\ SuccessPublished'
      BY <3>1 DEF ReplaceInv, ReplaceTypeOK, StatusInv, SuccessPublished, Published, RowsOf
    <3>3. AtomicInv => AtomicInv'
      BY <3>1 DEF AtomicInv, Before, RowsOf
    <3>4. LegacyInv => LegacyInv'
      BY <3>1 DEF LegacyInv, RowsOf
    <3>5. Published => Published'
      BY <3>1 DEF Published, RowsOf
    <3> QED BY <3>1, <3>2, <3>3, <3>4, <3>5 DEF ReplaceInv
  <2> QED
    BY <2>1, <2>2
<1> QED
  BY <1>1, InitInv, PTL DEF ReplaceSpec

\* A run that Execute reports as a success has published its rows.
THEOREM SuccessTheorem == ReplaceSpec => []SuccessPublished
<1>1. ReplaceInv => SuccessPublished
  BY DEF ReplaceInv
<1> QED
  BY <1>1, Invariance, PTL

\* Whatever earlier runs left behind, no call of an atomic replace is turned down.
THEOREM NothingInTheWayTheorem == ReplaceSpec => []NothingInTheWay
<1>1. ReplaceInv => NothingInTheWay
  BY DEF ReplaceInv, AtomicInv, NothingInTheWay
<1> QED
  BY <1>1, Invariance, PTL

-----------------------------------------------------------------------------
(***************************************************************************)
(* The refinement: a step of a run is Begin, Publish or a stutter for the  *)
(* readers of the target.                                                  *)
(***************************************************************************)
\* The target that readers see, the refinement mapping of Readers.
Seen == IF atomic THEN live ELSE Absent

\* Only the start of a run and its publishing show: with an AtomicReplacer no
\* other call touches the target.
LEMMA OtherStepsUnseen ==
  ASSUME ReplaceInv, ReplaceNext, ~Start, ~Swap, ~RenameStaging
  PROVE  UNCHANGED <<size, Seen>>
<1>1. UNCHANGED <<size, atomic>>
  BY DEF ReplaceNext, Prepare, LegacyTruncate, DropStaging, CheckLive, CloneLive, CreateStaging, NextBatch,
         LegacyEnsure, WriteBatch, ReadFails, ReadEnds, CommitCheck, DropOld, ReplaceFinish, ReplaceFail, Abort,
         Cancel, Crash, Lookup, Call
<1>2. atomic => UNCHANGED live
  <2> SUFFICES ASSUME atomic PROVE UNCHANGED live
    OBVIOUS
  <2>1. ~LegacyTruncate /\ ~LegacyEnsure
    BY DEF ReplaceInv, AtomicInv, LegacyTruncate, LegacyEnsure, Call
  <2>2. WriteBatch => UNCHANGED live
    BY DEF ReplaceInv, AtomicInv, WriteBatch, WritesToStaging, Call, tables
  <2>3. CASE Prepare \/ CheckLive \/ CommitCheck \/ DropStaging \/ CloneLive \/ CreateStaging \/ DropOld
    BY <2>3 DEF Prepare, CheckLive, CommitCheck, DropStaging, CloneLive, CreateStaging, DropOld,
                Lookup, Call, tables
  <2>4. CASE NextBatch \/ ReadFails \/ ReadEnds \/ ReplaceFinish \/ ReplaceFail \/ Abort \/ Cancel \/ Crash
    BY <2>4 DEF NextBatch, ReadFails, ReadEnds, ReplaceFinish, ReplaceFail, Abort, Cancel, Crash, tables
  <2> QED
    BY <2>1, <2>2, <2>3, <2>4 DEF ReplaceNext
<1> QED
  BY <1>1, <1>2 DEF Seen

\* The start of a run is the readers' Begin: its number is above the target's.
LEMMA StartBegins ==
  ASSUME ReplaceInv, Start
  PROVE  Readers!Begin
<1>1. sess.k \in 0..ReplaceRuns /\ sess.k + 1 \in 1..ReplaceRuns /\ UNCHANGED <<atomic, live>>
  BY ReplaceAssumption DEF ReplaceInv, ReplaceTypeOK, Start, tables
<1>2. PICK n \in 0..MaxBatches : size' = [size EXCEPT ![sess.k + 1] = n]
  BY DEF Start
<1>3. sess.k + 1 > Readers!By(Seen)
  BY <1>1, ReplaceAssumption DEF ReplaceInv, ReplaceTypeOK, Tables, Readers!By, Seen
<1> QED
  BY <1>1, <1>2, <1>3 DEF Readers!Begin, Seen

\* The swap, or the rename without a target, is the readers' Publish.
LEMMA SwapPublishes ==
  ASSUME ReplaceInv, Swap \/ RenameStaging
  PROVE  (\E k \in 1..ReplaceRuns : Readers!Publish(k)) \/ UNCHANGED <<size, Seen>>
<1>1. /\ atomic /\ sess.pc \in {"swap", "rename"} /\ sess.pc \in Working
      /\ UNCHANGED <<atomic, size>>
      /\ live' = RowsOf(size[sess.k]) \/ UNCHANGED live
  BY PublishingStep DEF tables
<1>2. sess.k \in 1..ReplaceRuns /\ (live = Absent \/ live.by < sess.k)
  BY <1>1, WorkingFacts DEF AtPlace, AtomicInv, Before
<1>3. sess.k > Readers!By(Seen)
  BY <1>1, <1>2 DEF Readers!By, Seen
<1>4. CASE live' = RowsOf(size[sess.k])
  <2>1. Readers!Publish(sess.k)
    BY <1>1, <1>3, <1>4 DEF Readers!Publish, Seen, RowsOf
  <2> QED
    BY <1>2, <2>1
<1>5. CASE UNCHANGED live
  BY <1>1, <1>5 DEF Seen
<1> QED
  BY <1>1, <1>4, <1>5

\* With an AtomicReplacer the runner's sess over BeginReplace, CommitReplace and
\* AbortReplace implements AtomicReplace: readers see the complete rows of one run,
\* then those of a later one, through failures, lost replies and crashes.
THEOREM ImplementsTheorem == ReplaceSpec => ImplementsAtomicReplace
<1>1. ReplaceInit => Readers!Init
  BY DEF ReplaceInit, Readers!Init
<1>2. ReplaceInv /\ [ReplaceNext]_replaceVars => [Readers!Next]_(Readers!vars)
  <2> SUFFICES ASSUME ReplaceInv, [ReplaceNext]_replaceVars
               PROVE  Readers!Next \/ UNCHANGED <<size, Seen>>
    BY DEF Readers!vars, Seen
  <2>1. CASE Start
    BY <2>1, StartBegins DEF Readers!Next
  <2>2. CASE Swap \/ RenameStaging
    BY <2>2, SwapPublishes DEF Readers!Next
  <2>3. CASE ReplaceNext /\ ~Start /\ ~Swap /\ ~RenameStaging
    BY <2>3, OtherStepsUnseen
  <2>4. CASE UNCHANGED replaceVars
    BY <2>4 DEF replaceVars, Seen
  <2> QED
    BY <2>1, <2>2, <2>3, <2>4
<1> QED
  BY <1>1, <1>2, Invariance, PTL DEF ReplaceSpec, ImplementsAtomicReplace, Readers!Spec
=============================================================================
