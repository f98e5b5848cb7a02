------------------------------- MODULE Lists -------------------------------
(***************************************************************************)
(* Loops over a slice, as the recursive functions they compute.            *)
(***************************************************************************)
EXTENDS Integers, Sequences

\* A loop that appends the elements at the positions in `at` and skips the rest.
Picked(s, at) ==
  LET p[k \in 0..Len(s)] ==
        IF k = 0 THEN <<>> ELSE IF k \in at THEN Append(p[k - 1], s[k]) ELSE p[k - 1]
  IN p[Len(s)]

\* A counter that the loop increments at the positions in `at`, after n turns.
Counter(at, n) ==
  LET c[k \in 0..n] == IF k = 0 THEN 0 ELSE IF k \in at THEN c[k - 1] + 1 ELSE c[k - 1]
  IN c[n]

Map(Op(_), s) == [i \in 1..Len(s) |-> Op(s[i])]
=============================================================================
