--------------------------- MODULE AtomicReplace ---------------------------
(***************************************************************************)
(* What readers of a replace load's target are promised: the table goes    *)
(* in one step from the complete rows of one run to the complete rows of a *)
(* later one, and never back.                                              *)
(***************************************************************************)
EXTENDS Naturals

CONSTANTS MaxRuns, MaxBatches, Absent

VARIABLES size,  \* the batches the source has for a run
          live   \* Absent, or whose rows the table holds and how many batches

vars == <<size, live>>

By(t) == IF t = Absent THEN 0 ELSE t.by

Init ==
  /\ size = [k \in 1..MaxRuns |-> 0]
  /\ live \in {Absent, [by |-> 0, n |-> 1]}

\* The source's rows are those it has when the run begins.
Begin ==
  /\ \E k \in 1..MaxRuns, n \in 0..MaxBatches :
       k > By(live) /\ size' = [size EXCEPT ![k] = n]
  /\ UNCHANGED live

Publish(k) ==
  /\ k > By(live)
  /\ live' = [by |-> k, n |-> size[k]]
  /\ UNCHANGED size

Next == Begin \/ \E k \in 1..MaxRuns : Publish(k)

Spec == Init /\ [][Next]_vars
=============================================================================
