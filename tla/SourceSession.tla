--------------------------- MODULE SourceSession ---------------------------
(***************************************************************************)
(* What a SourceSession promises its runs: a connection that no other run  *)
(* is using, that was opened with the very parameters the run asked with,  *)
(* and that has not been closed.  SourcePool and Ephemeral implement it.   *)
(***************************************************************************)
CONSTANTS Runs,     \* runs that may ask for a connection
          Params,   \* kinds with their resolved parameters
          NoParams,
          Conns,    \* connections that may ever be opened
          NoConn

VARIABLES asked,    \* the parameters a run asks with, from Obtain to release
          lease,    \* the connection it was given
          made,     \* the parameters a connection was opened with
          retired   \* connections that have been closed

vars == <<asked, lease, made, retired>>

Init ==
  /\ asked = [r \in Runs |-> NoParams]
  /\ lease = [r \in Runs |-> NoConn]
  /\ made = [c \in Conns |-> NoParams]
  /\ retired = {}

Ask(r) ==
  /\ asked[r] = NoParams
  /\ \E p \in Params : asked' = [asked EXCEPT ![r] = p]
  /\ UNCHANGED <<lease, made, retired>>

Grant(r, c) ==
  /\ asked[r] # NoParams /\ lease[r] = NoConn
  /\ c \notin retired /\ \A q \in Runs : lease[q] # c
  /\ made[c] \in {NoParams, asked[r]}
  /\ lease' = [lease EXCEPT ![r] = c]
  /\ made' = [made EXCEPT ![c] = asked[r]]
  /\ UNCHANGED <<asked, retired>>

Refuse(r) ==
  /\ asked[r] # NoParams /\ lease[r] = NoConn
  /\ asked' = [asked EXCEPT ![r] = NoParams]
  /\ UNCHANGED <<lease, made, retired>>

\* With or without the connection: it may be kept for a later run.
Release(r) ==
  /\ lease[r] # NoConn
  /\ asked' = [asked EXCEPT ![r] = NoParams]
  /\ lease' = [lease EXCEPT ![r] = NoConn]
  /\ retired' \in {retired, retired \cup {lease[r]}}
  /\ UNCHANGED made

Retire(c) ==
  /\ \A r \in Runs : lease[r] # c
  /\ retired' = retired \cup {c}
  /\ UNCHANGED <<asked, lease, made>>

Next ==
  \/ \E r \in Runs : Ask(r) \/ Refuse(r) \/ Release(r)
  \/ \E r \in Runs, c \in Conns : Grant(r, c)
  \/ \E c \in Conns : Retire(c)

Spec == Init /\ [][Next]_vars
=============================================================================
