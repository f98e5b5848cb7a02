---------------------------- MODULE MCSourcePool ----------------------------
(***************************************************************************)
(* SourcePool for TLC.  Connections, runs, sources and parameters are      *)
(* interchangeable: every source may lose a handle when its Open fails.    *)
(***************************************************************************)
EXTENDS SourcePool, TLC

CONSTANTS c1, c2, c3, r1, r2, s1, s2, p1, p2

Symmetry ==
  Permutations({c1, c2, c3}) \cup Permutations({r1, r2})
    \cup Permutations({s1, s2}) \cup Permutations({p1, p2})
=============================================================================
