---------------------------- MODULE MCScheduler ----------------------------
(***************************************************************************)
(* Scheduler for TLC, on two kinds of history.  In a quiet one the first   *)
(* load is edited twice, in any way, and nothing fires: what is looked at  *)
(* is the reloads of both loops.  In a busy one goroutines fire, overlap   *)
(* and are shut down while a load is rescheduled, or removed and           *)
(* registered again, by the poll loop alone.  A load row has an expression *)
(* and a body (the columns that do not touch the schedule).                *)
(***************************************************************************)
EXTENDS Scheduler, TLC

CONSTANTS l1, l2, j1, j2

MCLoads == {l1, l2}
MCJobs == {j1, j2}
Row(c, b) == [cron |-> c, body |-> b]
MCConfigs == {Row("c1", 1), Row("c1", 2), Row("c2", 1), Row("bad", 1)}
Content(e, x, y) == [enabled |-> e, loads |-> l1 :> x @@ l2 :> y]

\* Three contents, each differing from the one before it.
QuietContents ==
  {Content(TRUE, x, Absent) : x \in MCConfigs \cup {Absent}}
    \cup {Content(FALSE, x, Absent) : x \in {Row("c1", 1), Row("c2", 1)}}
Quiet ==
  {h \in {<<x, y, z>> : x, y, z \in QuietContents} :
     h[1] = Content(TRUE, Row("c1", 1), Absent) /\ h[1] # h[2] /\ h[2] # h[3]}

Both(x, y) == Content(TRUE, x, y)
Busy ==
  {<<Both(Row("c1", 1), Row("c1", 1)), Both(Absent, Row("c1", 1)),
     Both(Row("c1", 1), Row("c1", 1))>>,
   <<Both(Row("c1", 1), Row("c1", 1)), Both(Row("c2", 1), Row("bad", 1))>>}

\* An expression broken and then repaired to what it was.
RepairHistories == {h \in Quiet : ~NoRepair(h)}

MCHistories == Busy \cup (Quiet \ RepairHistories)
MCRacing == Busy \cup {h \in Quiet : OneWay(h)}

\* The second goroutine starts while the first one is there (they are alike).
MCNext ==
  /\ Next
  /\ IF history \in Busy
     THEN /\ reload'["sighup"].pc \in {"idle", "exited"}
          /\ jobs[j2].pc = "free" /\ jobs'[j2].pc # "free" => jobs[j1].pc # "free"
     ELSE jobs' = jobs
MCSpec == Init /\ [][MCNext]_vars /\ SchedFairness
=============================================================================
