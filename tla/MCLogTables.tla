---------------------------- MODULE MCLogTables ----------------------------
(***************************************************************************)
(* The two users of the log table for TLC, one at a time: module LogHandler*)
(* fills it, module Housekeeper prunes it.  Two goroutines log while main  *)
(* closes the handler and a second caller closes it again.  The tables are *)
(* larger than a batch, as large and smaller, and each retention is        *)
(* enabled and disabled.                                                   *)
(***************************************************************************)
EXTENDS LogHandler, Housekeeper

VARIABLE part  \* the one that runs

MCSenders == {"g1", "g2"}
MCClosers == {"main", "again"}
MCConfigs ==
  {[log |-> 1, run |-> 1, batch |-> 1], [log |-> 0, run |-> 1, batch |-> 2],
   [log |-> 1, run |-> -1, batch |-> 0]}

MCInit ==
  /\ part \in {"handler", "housekeeper"} /\ LogInit /\ Init
  /\ part = "handler" => cfg.log = 0

MCNext ==
  \/ part = "handler" /\ LogNext /\ UNCHANGED <<part, vars>>
  \/ part = "housekeeper" /\ Next /\ UNCHANGED <<part, logVars>>

\* Of what is fair, only the ticks are enabled in the part that does not run.
MCSpec ==
  /\ MCInit /\ [][MCNext]_<<part, logVars, vars>>
  /\ LogFairness /\ Proceeds
  /\ \A e \in Ticks : WF_vars(part = "housekeeper" /\ Fire(e))
=============================================================================
