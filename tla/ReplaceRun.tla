----------------------------- MODULE ReplaceRun -----------------------------
(***************************************************************************)
(* Replace loads: the runner's replaceSession over the sink's BeginReplace,*)
(* CommitReplace and AbortReplace, run after run on one target.            *)
(*                                                                         *)
(* Each database call is a step of its own that succeeds, fails without    *)
(* effect, or takes effect and loses its reply.  The run's context may be  *)
(* cancelled at any time, after which every call fails; the process may    *)
(* crash between any two calls.  A table is Absent or holds the first n    *)
(* batches of the rows of run by.                                          *)
(***************************************************************************)
EXTENDS Naturals

CONSTANTS ReplaceRuns, \* bound on the runs
          MaxBatches,  \* bound on the batches of a run
          Absent

ASSUME ReplaceAssumption ==
  /\ ReplaceRuns \in Nat /\ MaxBatches \in Nat \ {0}
  /\ Absent \notin [by : Nat, n : Nat]

VARIABLES
  atomic,          \* whether the sink is an AtomicReplacer, for the whole time
  live, stg, old,  \* the target, {target}_stg and {target}_old
  size,            \* the batches the source has for each run
  sess,            \* the run in progress, or the last one
  status           \* what each run reported

replaceVars == <<atomic, live, stg, old, size, sess, status>>
tables == <<live, stg, old>>

Tables == {Absent} \cup [by : 0..ReplaceRuns, n : 0..MaxBatches]
Places == {"idle", "prepare", "truncate", "drop", "check", "clone", "create", "ensure",
           "read", "write", "commit", "dropold", "swap", "rename", "finish", "fail", "abort"}

ReplaceTypeOK ==
  /\ atomic \in BOOLEAN
  /\ live \in Tables /\ stg \in Tables /\ old \in Tables
  /\ size \in [1..ReplaceRuns -> 0..MaxBatches]
  /\ sess \in [k : 0..ReplaceRuns, auto : BOOLEAN, pc : Places, sent : 0..MaxBatches,
               first : BOOLEAN, deferred : BOOLEAN, active : BOOLEAN, committed : BOOLEAN,
               cancelled : BOOLEAN, refused : BOOLEAN]
  /\ status \in [1..ReplaceRuns -> {"none", "running", "success", "failed", "crashed"}]

\* auto is load.AutoCreateTable; refused tells that the database turned a call down.
Session(k, auto, pc) ==
  [k |-> k, auto |-> auto, pc |-> pc, sent |-> 0, first |-> TRUE, deferred |-> FALSE, active |-> FALSE,
   committed |-> FALSE, cancelled |-> FALSE, refused |-> FALSE]

\* The target and an old table may be there from earlier.
ReplaceInit ==
  /\ atomic \in BOOLEAN
  /\ live \in {Absent, [by |-> 0, n |-> 1]}
  /\ stg = Absent
  /\ old \in {Absent, [by |-> 0, n |-> 1]}
  /\ size = [k \in 1..ReplaceRuns |-> 0]
  /\ sess = Session(0, FALSE, "idle")
  /\ status = [k \in 1..ReplaceRuns |-> "none"]

(***************************************************************************)
(* A call, with what it does to the tables, the run after success, and     *)
(* what the database requires of it.                                       *)
(***************************************************************************)
Call(at, requires, effect, after) ==
  /\ sess.pc = at
  /\ \/ ~sess.cancelled /\ requires /\ effect /\ sess' \in {after, [sess EXCEPT !.pc = "fail"]}
     \/ ~sess.cancelled /\ ~requires /\ UNCHANGED tables
        /\ sess' = [sess EXCEPT !.pc = "fail", !.refused = TRUE]
     \/ UNCHANGED tables /\ sess' = [sess EXCEPT !.pc = "fail"]
  /\ UNCHANGED <<atomic, size, status>>

Lookup(at, requires, after) == Call(at, requires, UNCHANGED tables, after)

Goto(pc) == [sess EXCEPT !.pc = pc]

(***************************************************************************)
(* Execute: the run begins, then prepareExisting.                          *)
(***************************************************************************)
Start ==
  /\ sess.pc = "idle" /\ sess.k < ReplaceRuns
  /\ \E n \in 0..MaxBatches : size' = [size EXCEPT ![sess.k + 1] = n]
  /\ \E auto \in BOOLEAN : sess' = Session(sess.k + 1, auto, "prepare")
  /\ status' = [status EXCEPT ![sess.k + 1] = "running"]
  /\ UNCHANGED <<atomic, tables>>

\* The deferred abort is set up once prepareExisting has returned.
Prepared == [sess EXCEPT !.pc = "read", !.deferred = TRUE]

Prepare ==
  Lookup("prepare", TRUE,
        CASE live = Absent -> Prepared
          [] live # Absent /\ atomic -> Goto("drop")
          [] OTHER -> Goto("truncate"))

LegacyTruncate ==
  Call("truncate", live # Absent,
       live' = [by |-> sess.k, n |-> 0] /\ UNCHANGED <<stg, old>>, Prepared)

(***************************************************************************)
(* BeginReplace, from prepareExisting or from ensureFirstBatch.            *)
(***************************************************************************)
StagingAfterDrop_Kept == stg
StagingAfterDrop == Absent

DropStaging ==
  Call("drop", TRUE, stg' = StagingAfterDrop /\ UNCHANGED <<live, old>>, Goto("check"))

\* Without a live table the columns of the first batch are needed.
CheckLive ==
  Lookup("check", live # Absent \/ sess.deferred,
        IF live # Absent THEN Goto("clone") ELSE Goto("create"))

\* Staging is ready: back in prepareExisting, or with the first batch at hand.
Staged ==
  [sess EXCEPT !.pc = IF sess.deferred THEN "write" ELSE "read", !.deferred = TRUE,
              !.active = TRUE, !.first = ~sess.deferred]

\* SELECT INTO fails when the staging table exists.
CloneLive ==
  Call("clone", live # Absent /\ stg = Absent,
       stg' = [by |-> sess.k, n |-> 0] /\ UNCHANGED <<live, old>>, Staged)

\* EnsureTable keeps a table that exists.
CreateStaging ==
  Call("create", TRUE,
       /\ stg' = IF stg = Absent THEN [by |-> sess.k, n |-> 0] ELSE stg
       /\ UNCHANGED <<live, old>>,
       Staged)

(***************************************************************************)
(* Read and its batch handler.                                             *)
(***************************************************************************)
NextBatch ==
  /\ sess.pc = "read" /\ sess.sent < size[sess.k]
  /\ sess' = CASE ~sess.first -> Goto("write")
              [] sess.first /\ atomic /\ ~sess.active -> Goto("drop")
              [] sess.first /\ ~atomic /\ sess.auto -> Goto("ensure")
              [] OTHER -> [sess EXCEPT !.pc = "write", !.first = FALSE]
  /\ UNCHANGED <<atomic, tables, size, status>>

LegacyEnsure ==
  Call("ensure", TRUE,
       /\ live' = IF live = Absent THEN [by |-> sess.k, n |-> 0] ELSE live
       /\ UNCHANGED <<stg, old>>,
       [sess EXCEPT !.pc = "write", !.first = FALSE])

\* Where batches go: the session's writeTo.
WritesToStaging_Never == FALSE
WritesToStaging == sess.active

Longer(t) == [by |-> t.by, n |-> t.n + 1]

WriteBatch ==
  LET after == [sess EXCEPT !.pc = "read", !.sent = @ + 1] IN
  \/ /\ WritesToStaging
     /\ Call("write", stg # Absent, stg' = Longer(stg) /\ UNCHANGED <<live, old>>, after)
  \/ /\ ~WritesToStaging
     /\ Call("write", live # Absent, live' = Longer(live) /\ UNCHANGED <<stg, old>>, after)

\* The source's Read returns an error.
ReadFails ==
  /\ sess.pc = "read"
  /\ sess' = Goto("fail")
  /\ UNCHANGED <<atomic, tables, size, status>>

\* When a read may end without an error: after the last batch.
AllSent_AnyTime == TRUE
AllSent == sess.sent = size[sess.k]

ReadEnds ==
  /\ sess.pc = "read" /\ AllSent
  /\ sess' = Goto(IF atomic /\ sess.active THEN "commit" ELSE "finish")
  /\ UNCHANGED <<atomic, tables, size, status>>

(***************************************************************************)
(* CommitReplace.                                                          *)
(***************************************************************************)
\* The two existence queries.
CommitCheck ==
  Lookup("commit", stg # Absent, IF live = Absent THEN Goto("rename") ELSE Goto("dropold"))

DropOld ==
  Call("dropold", TRUE, old' = Absent /\ UNCHANGED <<live, stg>>, Goto("swap"))

Committed == [sess EXCEPT !.pc = "finish", !.committed = TRUE]

\* One transaction: live to old, staging to live, old dropped.  sp_rename fails
\* on a missing table and on a name that is taken.
Swap ==
  Call("swap", live # Absent /\ stg # Absent /\ old = Absent,
       live' = stg /\ stg' = Absent /\ UNCHANGED old, Committed)

RenameStaging ==
  Call("rename", live = Absent /\ stg # Absent,
       live' = stg /\ stg' = Absent /\ UNCHANGED old, Committed)

(***************************************************************************)
(* The end of Execute.                                                     *)
(***************************************************************************)
\* FinishRun(success); when it fails the run reports a failure.
ReplaceFinish ==
  /\ sess.pc = "finish"
  /\ \/ ~sess.cancelled /\ status' = [status EXCEPT ![sess.k] = "success"]
     \/ status' = [status EXCEPT ![sess.k] = "failed"]
  /\ sess' = Goto("abort")
  /\ UNCHANGED <<atomic, tables, size>>

\* FinishRun(failed), whose error is ignored.
ReplaceFail ==
  /\ sess.pc = "fail"
  /\ status' = [status EXCEPT ![sess.k] = "failed"]
  /\ sess' = Goto(IF sess.deferred THEN "abort" ELSE "idle")
  /\ UNCHANGED <<atomic, tables, size>>

\* What the deferred abort has to drop.
MustAbort == atomic /\ sess.active /\ ~sess.committed

\* AbortReplace under the run's context, its error ignored.
Abort ==
  /\ sess.pc = "abort"
  /\ \/ MustAbort /\ ~sess.cancelled /\ stg' = Absent
     \/ UNCHANGED stg
  /\ sess' = Goto("idle")
  /\ UNCHANGED <<atomic, live, old, size, status>>

\* Scheduler.Stop cancels the run's context.
Cancel ==
  /\ sess.pc # "idle" /\ ~sess.cancelled
  /\ sess' = [sess EXCEPT !.cancelled = TRUE]
  /\ UNCHANGED <<atomic, tables, size, status>>

\* The process stops; an open transaction is rolled back by the server.
Crash ==
  /\ sess.pc # "idle"
  /\ sess' = Session(sess.k, FALSE, "idle")
  /\ status' = [status EXCEPT ![sess.k] = IF @ = "running" THEN "crashed" ELSE @]
  /\ UNCHANGED <<atomic, tables, size>>

ReplaceNext ==
  \/ Start \/ Prepare \/ LegacyTruncate
  \/ DropStaging \/ CheckLive \/ CloneLive \/ CreateStaging
  \/ NextBatch \/ LegacyEnsure \/ WriteBatch \/ ReadFails \/ ReadEnds
  \/ CommitCheck \/ DropOld \/ Swap \/ RenameStaging
  \/ ReplaceFinish \/ ReplaceFail \/ Abort \/ Cancel \/ Crash

ReplaceSpec == ReplaceInit /\ [][ReplaceNext]_replaceVars

-----------------------------------------------------------------------------
\* The target as its readers see it.  The truncate fallback promises them nothing.
Readers == INSTANCE AtomicReplace WITH
  MaxRuns <- ReplaceRuns, live <- IF atomic THEN live ELSE Absent

\* With an AtomicReplacer readers see the complete rows of one run, then those of
\* a later one: a run that fails, is cancelled or crashes anywhere in BeginReplace,
\* the writes or CommitReplace shows them nothing of its own or everything.
ImplementsAtomicReplace == Readers!Spec

\* A run that Execute reports as a success has published its rows, or there were
\* none and no table: a later run may have replaced them, an earlier one has not.
SuccessPublished ==
  \A k \in 1..ReplaceRuns : status[k] = "success" =>
    \/ live = Absent /\ size[k] = 0
    \/ live # Absent /\ (live.by > k \/ live = [by |-> k, n |-> size[k]])

\* What earlier runs left behind, failed or crashed at any point, makes no call
\* of a later atomic replace fail: no table is in the way and none is missing.
NothingInTheWay == atomic => ~sess.refused

-----------------------------------------------------------------------------
(***************************************************************************)
(* The inductive invariant: what the tables hold at each place of a run.   *)
(***************************************************************************)
RowsOf(n) == [by |-> sess.k, n |-> n]
Published == live = RowsOf(size[sess.k]) \/ (live = Absent /\ size[sess.k] = 0)
Before == {"prepare", "drop", "check", "clone", "create", "read", "write", "commit", "dropold",
           "swap", "rename"}

\* Until the swap the target is an earlier run's, and staging has what was sent.
AtomicInv ==
  /\ ~sess.refused /\ sess.pc \notin {"truncate", "ensure"}
  /\ sess.pc \in Before => live = Absent \/ live.by < sess.k
  /\ sess.pc \in {"drop", "check"} => sess.deferred \/ live # Absent
  /\ sess.pc \in {"check", "clone", "create"} => stg = Absent
  /\ sess.pc = "clone" => live # Absent
  /\ sess.pc = "create" => sess.deferred
  /\ sess.pc \in {"drop", "check", "clone", "create"} =>
       sess.sent = 0 /\ (sess.deferred => size[sess.k] > 0)
  /\ sess.pc = "read" =>
       IF sess.active THEN stg = RowsOf(sess.sent) ELSE live = Absent /\ sess.first /\ sess.sent = 0
  /\ sess.pc = "write" => sess.active /\ stg = RowsOf(sess.sent)
  /\ sess.pc \in {"commit", "dropold", "swap", "rename"} => stg = RowsOf(size[sess.k])
  /\ sess.pc \in {"dropold", "swap"} => live # Absent
  /\ sess.pc = "rename" => live = Absent
  /\ sess.pc = "swap" => old = Absent

\* The fallback writes to the target, which it has truncated or created.
LegacyInv ==
  /\ sess.pc \in {"idle", "prepare", "truncate", "ensure", "read", "write", "finish", "fail", "abort"}
  /\ ~sess.active
  /\ sess.pc = "ensure" => sess.sent = 0
  /\ sess.pc = "read" /\ sess.first => sess.sent = 0
  /\ sess.pc = "write" => ~sess.first
  /\ sess.pc \in {"ensure", "read", "write"} =>
       live = RowsOf(sess.sent) \/ (live = Absent /\ sess.sent = 0)

StatusInv ==
  /\ \A k \in 1..ReplaceRuns : k > sess.k => status[k] = "none"
  /\ sess.pc \notin {"abort", "idle"} => status[sess.k] # "success"

ReplaceInv ==
  /\ ReplaceTypeOK /\ StatusInv /\ SuccessPublished
  /\ sess.pc # "idle" => sess.k > 0
  /\ live = Absent \/ live.by <= sess.k
  /\ sess.pc \in {"read", "write", "ensure"} => sess.deferred /\ sess.sent <= size[sess.k]
  /\ sess.pc \in {"write", "ensure"} => sess.sent < size[sess.k]
  /\ sess.pc \in {"prepare", "truncate"} => sess.sent = 0 /\ sess.first /\ ~sess.active /\ ~sess.deferred
  /\ sess.pc = "finish" => Published
  /\ IF atomic THEN AtomicInv ELSE LegacyInv
=============================================================================
