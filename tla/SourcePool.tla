----------------------------- MODULE SourcePool -----------------------------
(***************************************************************************)
(* SourcePool: one slot per source with a mutex that a run holds from      *)
(* Obtain until its release.  Reloads and the shutdown sweep the slots     *)
(* (InvalidateAll, Close) and the readiness probe pings them (PingAll);    *)
(* both go through a snapshot of the slots and lock one slot at a time.    *)
(*                                                                         *)
(* A connection is the handle behind a contracts.Source.  Ages are         *)
(* abstracted to two flags that time may set.                              *)
(***************************************************************************)
CONSTANTS Sources, Runs, Params, NoParams, Conns, NoConn,
          Sweepers,    \* callers of InvalidateAll: the reload loops, Close
          Probes,      \* requests to /readyz
          LeakySources, \* sources whose Open keeps its handle when the ping fails
          Nobody       \* the holder of an unlocked mutex

ASSUME DistinctAssumption ==
  /\ NoParams \notin Params /\ NoConn \notin Conns
  /\ Nobody \notin Runs \cup Probes /\ Runs \cap Probes = {}

VARIABLES
  slots,  \* keys of p.entries
  ent,    \* the slot's connection, its fingerprint, and whether it is too
          \* long idle or too old
  lock,   \* the holder of the slot's mutex
  client, \* the run inside Obtain or holding a lease
  conns,  \* the connections, with the parameters they were opened with
  sweep,  \* a sweeper inside InvalidateAll: slots still to be closed
  probe   \* a probe inside PingAll: slots still to be pinged

vars == <<slots, ent, lock, client, conns, sweep, probe>>

EmptyEntry == [src |-> NoConn, fp |-> NoParams, idle |-> FALSE, old |-> FALSE]
OutClient == [pc |-> "out", source |-> Nobody, params |-> NoParams, conn |-> NoConn]
NotSweeping == [on |-> FALSE, todo |-> {}, before |-> {}]
NotProbing == [pc |-> "idle", todo |-> {}, at |-> Nobody]

Entries == [src : Conns \cup {NoConn}, fp : Params \cup {NoParams},
            idle : BOOLEAN, old : BOOLEAN]
Clients == [pc : {"out", "wait", "opening", "leased"}, source : Sources \cup {Nobody},
            params : Params \cup {NoParams}, conn : Conns \cup {NoConn}]
Handles == [state : {"none", "open", "closed"}, params : Params \cup {NoParams}]

TypeOK ==
  /\ slots \in SUBSET Sources
  /\ ent \in [Sources -> Entries]
  /\ lock \in [Sources -> Runs \cup Probes \cup {Nobody}]
  /\ client \in [Runs -> Clients]
  /\ conns \in [Conns -> Handles]
  /\ sweep \in [Sweepers -> [on : BOOLEAN, todo : SUBSET Sources, before : SUBSET Conns]]
  /\ probe \in [Probes -> [pc : {"idle", "next", "ping"}, todo : SUBSET Sources,
                           at : Sources \cup {Nobody}]]

Init ==
  /\ slots = {} /\ ent = [s \in Sources |-> EmptyEntry]
  /\ lock = [s \in Sources |-> Nobody]
  /\ client = [r \in Runs |-> OutClient]
  /\ conns = [c \in Conns |-> [state |-> "none", params |-> NoParams]]
  /\ sweep = [w \in Sweepers |-> NotSweeping]
  /\ probe = [q \in Probes |-> NotProbing]

(***************************************************************************)
(* Obtain and release.                                                     *)
(***************************************************************************)
\* The connections after closeEntry on a slot that holds c, or nothing.
Closed(c) ==
  IF c = NoConn THEN conns
  ELSE [conns EXCEPT ![c] = [state |-> "closed", params |-> @.params]]

\* The slot is looked up or created under the pool's mutex.
Lookup(r, s, p) ==
  /\ client[r].pc = "out"
  /\ slots' = slots \cup {s}
  /\ client' = [client EXCEPT ![r] = [pc |-> "wait", source |-> s,
                                      params |-> p, conn |-> NoConn]]
  /\ UNCHANGED <<ent, lock, conns, sweep, probe>>

Reusable_AnyParams(e, p) == e.src # NoConn /\ ~e.idle /\ ~e.old
Reusable(e, p) == e.src # NoConn /\ e.fp = p /\ ~e.idle /\ ~e.old

\* The slot's mutex is taken, and a connection that may not be reused closed.
Acquire(r) ==
  /\ client[r].pc = "wait"
  /\ LET s == client[r].source IN
       /\ lock[s] = Nobody
       /\ lock' = [lock EXCEPT ![s] = r]
       /\ IF Reusable(ent[s], client[r].params)
          THEN /\ client' = [client EXCEPT ![r] =
                     [pc |-> "leased", source |-> s,
                      params |-> @.params, conn |-> ent[s].src]]
               /\ UNCHANGED <<ent, conns>>
          ELSE /\ client' = [client EXCEPT ![r] =
                     [pc |-> "opening", source |-> s,
                      params |-> @.params, conn |-> NoConn]]
               /\ ent' = [ent EXCEPT ![s] = EmptyEntry]
               /\ conns' = Closed(ent[s].src)
  /\ UNCHANGED <<slots, sweep, probe>>

OpenOk(r) ==
  /\ client[r].pc = "opening"
  /\ \E c \in Conns :
       /\ conns[c].state = "none"
       /\ conns' = [conns EXCEPT ![c] = [state |-> "open", params |-> client[r].params]]
       /\ ent' = [ent EXCEPT ![client[r].source] =
                    [src |-> c, fp |-> client[r].params, idle |-> FALSE, old |-> FALSE]]
       /\ client' = [client EXCEPT ![r] =
                       [pc |-> "leased", source |-> @.source,
                        params |-> @.params, conn |-> c]]
  /\ UNCHANGED <<slots, lock, sweep, probe>>

\* build or Open fails; Close on the source closes only a handle it has kept.
OpenFail_KeepsLock(r) ==
  /\ client[r].pc = "opening"
  /\ client' = [client EXCEPT ![r] = OutClient]
  /\ UNCHANGED <<slots, lock, ent, conns, sweep, probe>>
OpenFail(r) ==
  /\ client[r].pc = "opening"
  /\ lock' = [lock EXCEPT ![client[r].source] = Nobody]
  /\ client' = [client EXCEPT ![r] = OutClient]
  /\ \/ UNCHANGED conns
     \/ /\ client[r].source \in LeakySources
        /\ \E c \in Conns :
             /\ conns[c].state = "none"
             /\ conns' = [conns EXCEPT ![c] = [state |-> "open", params |-> NoParams]]
  /\ UNCHANGED <<slots, ent, sweep, probe>>

\* A slot with the same connection and new ages.
Timed(e, idle, old) == [src |-> e.src, fp |-> e.fp, idle |-> idle, old |-> old]

\* The run ends.  A failed read invalidates the connection.
Kept_Forgotten(s, invalidate) ==
  IF invalidate THEN EmptyEntry ELSE [Timed(ent[s], FALSE, ent[s].old) EXCEPT !.src = NoConn]
Kept(s, invalidate) ==
  IF invalidate THEN EmptyEntry ELSE Timed(ent[s], FALSE, ent[s].old)

Release(r, invalidate) ==
  /\ client[r].pc = "leased"
  /\ LET s == client[r].source IN
       /\ ent' = [ent EXCEPT ![s] = Kept(s, invalidate)]
       /\ lock' = [lock EXCEPT ![s] = Nobody]
       /\ conns' = IF invalidate THEN Closed(ent[s].src) ELSE conns
  /\ client' = [client EXCEPT ![r] = OutClient]
  /\ UNCHANGED <<slots, sweep, probe>>

\* Time: the connection becomes too long idle, or too old.
Age(s) ==
  /\ ent[s].src # NoConn
  /\ \/ ent' = [ent EXCEPT ![s] = Timed(@, TRUE, @.old)]
     \/ ent' = [ent EXCEPT ![s] = Timed(@, @.idle, TRUE)]
  /\ UNCHANGED <<slots, lock, client, conns, sweep, probe>>

(***************************************************************************)
(* InvalidateAll.                                                          *)
(***************************************************************************)
\* A handle left behind by an Open that failed has no parameters: no source owns it.
OpenConns == {c \in Conns : conns[c].state = "open" /\ conns[c].params # NoParams}

\* The slots InvalidateAll goes through: all there are when it is called.
SweepTodo_OnlyUnlocked == {s \in slots : lock[s] = Nobody}
SweepTodo == slots

SweepBegin(w) ==
  /\ ~sweep[w].on
  /\ sweep' = [sweep EXCEPT ![w] = [on |-> TRUE, todo |-> SweepTodo, before |-> OpenConns]]
  /\ UNCHANGED <<slots, ent, lock, client, conns, probe>>

\* Invalidate waits for the slot's mutex.
SweepMayClose_NoLock(s) == TRUE
SweepMayClose(s) == lock[s] = Nobody

SweepClose(w, s) ==
  /\ sweep[w].on /\ s \in sweep[w].todo /\ SweepMayClose(s)
  /\ ent' = [ent EXCEPT ![s] = EmptyEntry]
  /\ conns' = Closed(ent[s].src)
  /\ sweep' = [sweep EXCEPT ![w] = [on |-> TRUE, todo |-> @.todo \ {s},
                                    before |-> @.before]]
  /\ UNCHANGED <<slots, lock, client, probe>>

SweepEnd(w) ==
  /\ sweep[w].on /\ sweep[w].todo = {}
  /\ sweep' = [sweep EXCEPT ![w] = [on |-> FALSE, todo |-> {}, before |-> @.before]]
  /\ UNCHANGED <<slots, ent, lock, client, conns, probe>>

(***************************************************************************)
(* PingAll.                                                                *)
(***************************************************************************)
ProbeBegin(q) ==
  /\ probe[q].pc = "idle"
  /\ probe' = [probe EXCEPT ![q] = [pc |-> "next", todo |-> slots, at |-> Nobody]]
  /\ UNCHANGED <<slots, ent, lock, client, conns, sweep>>

ProbeLock(q, s) ==
  /\ probe[q].pc = "next" /\ s \in probe[q].todo /\ lock[s] = Nobody
  /\ lock' = [lock EXCEPT ![s] = q]
  /\ probe' = [probe EXCEPT ![q] = [pc |-> "ping", todo |-> @.todo \ {s}, at |-> s]]
  /\ UNCHANGED <<slots, ent, client, conns, sweep>>

\* The ping returns, or there is nothing to ping; an error ends PingAll.
ProbeUnlock(q) ==
  /\ probe[q].pc = "ping"
  /\ lock' = [lock EXCEPT ![probe[q].at] = Nobody]
  /\ \/ probe' = [probe EXCEPT ![q] = [pc |-> "next", todo |-> @.todo, at |-> Nobody]]
     \/ ent[probe[q].at].src # NoConn /\ probe' = [probe EXCEPT ![q] = NotProbing]
  /\ UNCHANGED <<slots, ent, client, conns, sweep>>

ProbeEnd(q) ==
  /\ probe[q].pc = "next" /\ probe[q].todo = {}
  /\ probe' = [probe EXCEPT ![q] = NotProbing]
  /\ UNCHANGED <<slots, ent, lock, client, conns, sweep>>

RunStep(r) ==
  \/ \E s \in Sources, p \in Params : Lookup(r, s, p)
  \/ Acquire(r) \/ OpenOk(r) \/ OpenFail(r)
  \/ \E invalidate \in BOOLEAN : Release(r, invalidate)
SweepStep(w) ==
  SweepBegin(w) \/ SweepEnd(w) \/ \E s \in Sources : SweepClose(w, s)
ProbeStep(q) ==
  ProbeBegin(q) \/ ProbeUnlock(q) \/ ProbeEnd(q) \/ \E s \in Sources : ProbeLock(q, s)

Next ==
  \/ \E r \in Runs : RunStep(r)
  \/ \E s \in Sources : Age(s)
  \/ \E w \in Sweepers : SweepStep(w)
  \/ \E q \in Probes : ProbeStep(q)

Spec == Init /\ [][Next]_vars

-----------------------------------------------------------------------------
\* A run that holds a lease holds the slot's mutex and the slot's connection,
\* which is open and was opened with the run's own parameters: no reload, age,
\* probe or other run closes or replaces it under the run.
LeaseIsGood ==
  \A r \in Runs : client[r].pc = "leased" =>
    LET s == client[r].source  c == client[r].conn IN
      /\ lock[s] = r /\ ent[s].src = c
      /\ conns[c] = [state |-> "open", params |-> client[r].params]

\* Every handle that an Open has returned is the connection of a slot until it is
\* closed, so that InvalidateAll and Close reach it, whatever failed Opens lose.
NoLeak ==
  \A c \in OpenConns : \E s \in slots : ent[s].src = c

\* InvalidateAll, once it has returned, has closed every connection that was
\* open when it was called, those leased at that time included.
SweepReachesAll ==
  \A w \in Sweepers : ~sweep[w].on => \A c \in sweep[w].before : conns[c].state = "closed"

\* Who has locked slot s is past its Lock and before its Unlock: a run that
\* opens or reads this very slot, or a probe that pings it.
HeldByItsUser(s) ==
  LET h == lock[s] IN
    \/ h \in Runs /\ client[h].pc \in {"opening", "leased"} /\ client[h].source = s
    \/ h \in Probes /\ probe[h].pc = "ping" /\ probe[h].at = s

\* No path out of Obtain, release or PingAll forgets a mutex, and nobody waits
\* for a slot while holding one: a locked slot is held by a run or a probe that is
\* using that slot and no other, so waits for slots form no cycle.
HoldersLetGo ==
  \A s \in Sources : lock[s] # Nobody => HeldByItsUser(s)

(***************************************************************************)
(* The inductive invariant: who holds a slot, and what a slot holds.       *)
(***************************************************************************)
\* The fields of a run match the place it is at.
ClientShape ==
  \A r \in Runs :
    /\ client[r].pc = "out" <=> client[r].params = NoParams
    /\ client[r].pc = "leased" <=> client[r].conn # NoConn
    /\ client[r].pc # "out" => client[r].source \in slots

\* A run that opens a connection or holds a lease holds its slot's mutex, and
\* while it opens the slot is empty; a probe at a slot holds its mutex.
MutexHeld ==
  /\ \A r \in Runs :
       /\ client[r].pc \in {"opening", "leased"} => lock[client[r].source] = r
       /\ client[r].pc = "opening" => ent[client[r].source].src = NoConn
       /\ client[r].pc = "leased" => ent[client[r].source].src = client[r].conn
  /\ \A q \in Probes : probe[q].pc = "ping" =>
       probe[q].at \in Sources /\ lock[probe[q].at] = q

\* A slot's connection is open, was opened with the slot's fingerprint, and is
\* in no other slot; a fresh connection has no parameters.
SlotsHoldOpen ==
  /\ \A s \in Sources : ent[s].src # NoConn =>
       /\ s \in slots /\ ent[s].fp # NoParams
       /\ conns[ent[s].src] = [state |-> "open", params |-> ent[s].fp]
  /\ \A s, t \in Sources : ent[s].src # NoConn /\ ent[s].src = ent[t].src => s = t
  /\ \A c \in Conns : conns[c].state = "none" => conns[c].params = NoParams
  /\ \A r \in Runs : client[r].pc = "leased" => ent[client[r].source].fp = client[r].params

IndInv == TypeOK /\ ClientShape /\ MutexHeld /\ SlotsHoldOpen

\* What a sweep has left to close is in a slot it still has to visit.
SweepCovers ==
  \A w \in Sweepers, c \in Conns : c \in sweep[w].before =>
    \/ conns[c].state = "closed"
    \/ sweep[w].on /\ \E s \in sweep[w].todo : ent[s].src = c

SweepInv == NoLeak /\ SweepCovers

(***************************************************************************)
(* The promise to the runs.                                                *)
(***************************************************************************)
Session == INSTANCE SourceSession WITH
  asked <- [r \in Runs |-> client[r].params],
  lease <- [r \in Runs |-> client[r].conn],
  made <- [c \in Conns |-> conns[c].params],
  retired <- {c \in Conns : conns[c].state = "closed"}

\* The pool gives each run an unshared, open connection with its parameters.
ImplementsSession == Session!Spec
=============================================================================
