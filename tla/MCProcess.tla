----------------------------- MODULE MCProcess -----------------------------
(***************************************************************************)
(* Process for TLC: one load, which an operator may delete at any time,    *)
(* one goroutine per firing at a time, the poll loop, one connection and   *)
(* one request to /readyz.  No run is left over from an earlier process.   *)
(***************************************************************************)
EXTENDS Process, TLC

CONSTANTS l1, j1

MCConfigs == {[cron |-> "c1"]}
OneLoad == {<<[enabled |-> TRUE, loads |-> l1 :> [cron |-> "c1"]],
              [enabled |-> TRUE, loads |-> l1 :> Absent]>>}
MCInit == ProcInit /\ orphans = {}
MCSpec == MCInit /\ [][ProcNext]_procVars /\ Fairness /\ RunsReturn

\* Runs come to an end only when their context is cancelled.
LongRunsSpec == MCInit /\ [][ProcNext]_procVars /\ Fairness
=============================================================================
