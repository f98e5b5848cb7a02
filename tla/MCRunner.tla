----------------------------- MODULE MCRunner -----------------------------
(***************************************************************************)
(* The two kinds of load for TLC: module DeltaLoad when the load is a      *)
(* delta load, module ReplaceRun when it is a replace load.  The rows of   *)
(* the delta load are named by their watermark values, two of which are    *)
(* the same, so that ties at a bound happen.  There are three runs in a    *)
(* row, so that a run can follow one that follows a failure.               *)
(***************************************************************************)
EXTENDS DeltaLoad, ReplaceRun, TLC

CONSTANTS a, b, c

VARIABLE mode  \* load.LoadType

MCRows == {a, b, c}
MCWm == a :> 1 @@ b :> 2 @@ c :> 2
Symmetry == Permutations({b, c})

\* The replace target of a delta load does not exist.
MCInit ==
  /\ mode \in {"delta", "replace"} /\ Init /\ ReplaceInit
  /\ mode = "delta" => live = Absent /\ old = Absent /\ ~atomic

\* After its last run a replace load rests.
ReplaceRests ==
  sess.pc = "idle" /\ sess.k = ReplaceRuns /\ UNCHANGED replaceVars

MCNext ==
  \/ mode = "delta" /\ Next /\ UNCHANGED <<mode, replaceVars>>
  \/ mode = "replace" /\ (ReplaceNext \/ ReplaceRests) /\ UNCHANGED <<mode, vars>>

MCSpec == MCInit /\ [][MCNext]_<<mode, vars, replaceVars>>
=============================================================================
