-------------------------- MODULE SourcePoolProofs --------------------------
(***************************************************************************)
(* Proofs about SourcePool, for any sets of sources, runs, sweepers,       *)
(* probes, parameters and connections.                                     *)
(***************************************************************************)
EXTENDS SourcePool, TLAPS

\* The initial states satisfy the inductive invariant.
LEMMA InitInv == Init => IndInv
BY DistinctAssumption, SMTT(30)
   DEF Init, IndInv, TypeOK, ClientShape, MutexHeld, SlotsHoldOpen, EmptyEntry, OutClient,
       NotSweeping, NotProbing, Entries, Clients, Handles

\* Looking a slot up changes nothing but the run and the set of slots.
LEMMA LookupInv ==
  ASSUME IndInv, NEW r \in Runs, NEW s \in Sources, NEW p \in Params, Lookup(r, s, p)
  PROVE  IndInv'
BY DistinctAssumption, SMTT(60)
   DEF Lookup, IndInv, TypeOK, ClientShape, MutexHeld, SlotsHoldOpen, Entries, Clients, Handles

\* closeEntry on a slot that no lease uses empties it and leaves the others alone.
LEMMA EmptySlot ==
  ASSUME IndInv, NEW s \in Sources, slots' = slots,
         ent' = [ent EXCEPT ![s] = EmptyEntry], conns' = Closed(ent[s].src),
         \A q \in Runs : client'[q].pc = "leased" => client'[q] = client[q] /\ client[q].source # s
  PROVE  /\ ent' \in [Sources -> Entries] /\ conns' \in [Conns -> Handles]
         /\ ent'[s].src = NoConn /\ \A t \in Sources : t # s => ent'[t] = ent[t]
         /\ SlotsHoldOpen'
<1>0. ent[s].src \in Conns \cup {NoConn} /\ EmptyEntry \in Entries
  BY DEF IndInv, TypeOK, Entries, EmptyEntry
<1>1. /\ ent' \in [Sources -> Entries]
      /\ ent'[s] = EmptyEntry /\ \A t \in Sources : t # s => ent'[t] = ent[t]
  BY <1>0 DEF IndInv, TypeOK
<1>2. ent'[s].src = NoConn
  BY <1>1 DEF EmptyEntry
<1>3. /\ conns' \in [Conns -> Handles]
      /\ \A c \in Conns : IF c = ent[s].src THEN conns'[c].state = "closed"
                           ELSE conns'[c] = conns[c]
  <2>1. CASE ent[s].src = NoConn
    BY <2>1, DistinctAssumption DEF Closed, IndInv, TypeOK
  <2>2. CASE ent[s].src \in Conns
    BY <2>2, DistinctAssumption DEF Closed, IndInv, TypeOK, Handles
  <2> QED BY <1>0, <2>1, <2>2
<1>4. ASSUME NEW t \in Sources, ent'[t].src # NoConn
      PROVE  /\ t \in slots' /\ ent'[t].fp # NoParams
             /\ conns'[ent'[t].src] = [state |-> "open", params |-> ent'[t].fp]
  <2>1. t # s /\ ent'[t] = ent[t] BY <1>1, <1>2, <1>4
  <2>2. ent[t].src \in Conns /\ ent[t].src # ent[s].src
    BY <1>4, <2>1 DEF IndInv, TypeOK, Entries, SlotsHoldOpen
  <2> QED BY <1>3, <1>4, <2>1, <2>2 DEF IndInv, SlotsHoldOpen
<1>5. \A t, u \in Sources : ent'[t].src # NoConn /\ ent'[t].src = ent'[u].src => t = u
  BY <1>1, <1>2 DEF IndInv, SlotsHoldOpen
<1>6. \A c \in Conns : conns'[c].state = "none" => conns'[c].params = NoParams
  BY <1>3 DEF IndInv, SlotsHoldOpen
<1>7. ASSUME NEW q \in Runs, client'[q].pc = "leased"
      PROVE  ent'[client'[q].source].fp = client'[q].params
  <2>1. client'[q] = client[q] /\ client[q].source # s BY <1>7
  <2>2. client[q].source \in Sources
    BY <1>7, <2>1 DEF IndInv, TypeOK, ClientShape
  <2> QED BY <1>1, <1>7, <2>1, <2>2 DEF IndInv, SlotsHoldOpen
<1>8. SlotsHoldOpen' BY <1>4, <1>5, <1>6, <1>7 DEF SlotsHoldOpen
<1> QED BY <1>1, <1>2, <1>3, <1>8

\* Acquire preserves the inductive invariant.
LEMMA AcquireInv ==
  ASSUME IndInv, NEW r \in Runs, Acquire(r)
  PROVE  IndInv'
<1> DEFINE s == client[r].source
<1>0. s \in Sources /\ client[r].params \in Params /\ client[r].conn = NoConn /\ lock[s] = Nobody
  BY DistinctAssumption DEF Acquire, IndInv, TypeOK, ClientShape, Clients
<1>00. s = client[r].source
  OBVIOUS
<1> HIDE DEF s
<1>1. CASE Reusable(ent[s], client[r].params)
  <2>1. /\ client' = [client EXCEPT ![r] = [pc |-> "leased", source |-> s,
                       params |-> client[r].params, conn |-> ent[s].src]]
        /\ lock' = [lock EXCEPT ![s] = r]
        /\ UNCHANGED <<slots, ent, conns, sweep, probe>>
    BY <1>1 DEF Acquire, s
  <2>t. TypeOK'
    BY <1>0, <1>00, <1>1, <2>1, DistinctAssumption, SMTT(40) DEF Reusable, IndInv, TypeOK, ClientShape, Entries, Clients, Handles
  <2>c. ClientShape'
    BY <1>0, <1>00, <1>1, <2>1, DistinctAssumption, SMTT(40) DEF Reusable, IndInv, TypeOK, ClientShape, Entries, Clients
  <2>m. MutexHeld'
    BY <1>0, <1>00, <1>1, <2>1, DistinctAssumption, SMTT(40) DEF Reusable, IndInv, TypeOK, ClientShape, MutexHeld, Entries, Clients
  <2>s. SlotsHoldOpen'
    BY <1>0, <1>00, <1>1, <2>1, DistinctAssumption, SMTT(40) DEF Reusable, IndInv, TypeOK, ClientShape, MutexHeld, SlotsHoldOpen, Entries, Clients, Handles
  <2> QED BY <2>t, <2>c, <2>m, <2>s DEF IndInv
<1>2. CASE ~Reusable(ent[s], client[r].params)
  <2>1. /\ client' = [client EXCEPT ![r] = [pc |-> "opening", source |-> s,
                       params |-> client[r].params, conn |-> NoConn]]
        /\ lock' = [lock EXCEPT ![s] = r]
        /\ ent' = [ent EXCEPT ![s] = EmptyEntry]
        /\ conns' = Closed(ent[s].src)
        /\ UNCHANGED <<slots, sweep, probe>>
    BY <1>2 DEF Acquire, s
  <2>2. /\ client'[r] = [pc |-> "opening", source |-> s, params |-> client[r].params, conn |-> NoConn]
        /\ \A q \in Runs : q # r => client'[q] = client[q]
    BY <2>1 DEF IndInv, TypeOK
  <2>3. \A q \in Runs : client[q].pc \in {"opening", "leased"} => client[q].source # s /\ q # r
    BY <1>0, DistinctAssumption DEF Acquire, IndInv, MutexHeld
  <2>4. /\ ent' \in [Sources -> Entries] /\ conns' \in [Conns -> Handles]
        /\ ent'[s].src = NoConn /\ \A t \in Sources : t # s => ent'[t] = ent[t]
        /\ SlotsHoldOpen'
    <3>1. \A q \in Runs : client'[q].pc = "leased" => client'[q] = client[q] /\ client[q].source # s
      BY <2>2, <2>3
    <3> QED BY <1>0, <2>1, <3>1, EmptySlot, ZenonT(30)
  <2>t. TypeOK'
    BY <1>0, <2>1, <2>4 DEF IndInv, TypeOK, Clients
  <2>c. ClientShape'
    BY <1>0, <1>00, <2>1, <2>2, DistinctAssumption DEF Acquire, IndInv, ClientShape
  <2>m. MutexHeld'
    <3>1. \A t \in Sources : lock'[t] = IF t = s THEN r ELSE lock[t]
      BY <1>0, <2>1 DEF IndInv, TypeOK
    <3>2. \A q \in Runs : client[q].pc \in {"opening", "leased"} => client[q].source \in Sources
      BY DEF IndInv, TypeOK, ClientShape
    <3>3. \A q \in Probes : probe[q].pc = "ping" => probe[q].at # s
      BY <1>0, DistinctAssumption DEF IndInv, MutexHeld
    <3> QED BY <1>0, <2>1, <2>2, <2>3, <2>4, <3>1, <3>2, <3>3 DEF IndInv, MutexHeld
  <2> QED BY <2>t, <2>c, <2>m, <2>4 DEF IndInv
<1> QED BY <1>1, <1>2

\* OpenOk preserves the inductive invariant.
LEMMA OpenOkInv ==
  ASSUME IndInv, NEW r \in Runs, OpenOk(r)
  PROVE  IndInv'
<1>0. /\ client[r].source \in Sources /\ client[r].params \in Params
      /\ client[r].conn = NoConn /\ client[r].pc = "opening"
  BY DistinctAssumption DEF OpenOk, IndInv, TypeOK, ClientShape, Clients
<1>1. PICK c \in Conns :
       /\ conns[c].state = "none"
       /\ conns' = [conns EXCEPT ![c] = [state |-> "open", params |-> client[r].params]]
       /\ ent' = [ent EXCEPT ![client[r].source] =
                    [src |-> c, fp |-> client[r].params, idle |-> FALSE, old |-> FALSE]]
       /\ client' = [client EXCEPT ![r] =
                       [pc |-> "leased", source |-> client[r].source,
                        params |-> client[r].params, conn |-> c]]
       /\ UNCHANGED <<slots, lock, sweep, probe>>
  BY ZenonT(30) DEF OpenOk
<1>2. /\ \A t \in Sources : ent[t].src # c
      /\ \A q \in Runs : client[q].pc = "leased" /\ q # r => client[q].source # client[r].source
  <2>1. ASSUME NEW t \in Sources, ent[t].src = c PROVE FALSE
    <3>1. conns[c] = [state |-> "open", params |-> ent[t].fp]
      BY <2>1, DistinctAssumption DEF IndInv, SlotsHoldOpen
    <3> QED BY <3>1, <1>1
  <2>2. ASSUME NEW q \in Runs, client[q].pc = "leased", client[q].source = client[r].source
        PROVE  q = r
    BY <2>2, <1>0 DEF IndInv, MutexHeld
  <2> QED BY <2>1, <2>2
<1>t. TypeOK'
  BY <1>0, <1>1, DistinctAssumption, SMTT(40) DEF Entries, IndInv, TypeOK, ClientShape, Entries, Clients, Handles
<1>c. ClientShape'
  BY <1>0, <1>1, DistinctAssumption, SMTT(40) DEF Entries, IndInv, TypeOK, ClientShape, Entries, Clients
<1>m. MutexHeld'
  BY <1>0, <1>1, DistinctAssumption, SMTT(40) DEF Entries, IndInv, TypeOK, ClientShape, MutexHeld, Entries, Clients
<1>3. \A t \in Sources : ent'[t] =
        IF t = client[r].source
        THEN [src |-> c, fp |-> client[r].params, idle |-> FALSE, old |-> FALSE]
        ELSE ent[t]
  BY <1>0, <1>1 DEF IndInv, TypeOK
<1>4. \A d \in Conns : conns'[d] =
        IF d = c THEN [state |-> "open", params |-> client[r].params] ELSE conns[d]
  BY <1>1 DEF IndInv, TypeOK
<1>5. \A s \in Sources : ent'[s].src # NoConn =>
        /\ s \in slots' /\ ent'[s].fp # NoParams
        /\ conns'[ent'[s].src] = [state |-> "open", params |-> ent'[s].fp]
  BY <1>0, <1>1, <1>2, <1>3, <1>4, DistinctAssumption
     DEF IndInv, TypeOK, ClientShape, SlotsHoldOpen, Entries
<1>6. \A s, t \in Sources : ent'[s].src # NoConn /\ ent'[s].src = ent'[t].src => s = t
  BY <1>2, <1>3 DEF IndInv, SlotsHoldOpen
<1>7. \A d \in Conns : conns'[d].state = "none" => conns'[d].params = NoParams
  BY <1>4 DEF IndInv, SlotsHoldOpen
<1>8. \A q \in Runs : client'[q].pc = "leased" =>
        ent'[client'[q].source].fp = client'[q].params
  BY <1>0, <1>1, <1>2, <1>3, DistinctAssumption
     DEF IndInv, TypeOK, ClientShape, SlotsHoldOpen, Clients
<1>s. SlotsHoldOpen'
  BY <1>5, <1>6, <1>7, <1>8 DEF SlotsHoldOpen
<1> QED BY <1>t, <1>c, <1>m, <1>s DEF IndInv

\* OpenFail preserves the inductive invariant.
LEMMA OpenFailInv ==
  ASSUME IndInv, NEW r \in Runs, OpenFail(r)
  PROVE  IndInv'
<1>0. /\ client[r].source \in Sources /\ client[r].pc = "opening"
      /\ lock[client[r].source] = r
  BY DistinctAssumption DEF OpenFail, IndInv, TypeOK, ClientShape, MutexHeld, Clients
<1>1. /\ lock' = [lock EXCEPT ![client[r].source] = Nobody]
      /\ client' = [client EXCEPT ![r] = OutClient]
      /\ UNCHANGED <<slots, ent, sweep, probe>>
  BY DEF OpenFail
<1>2. /\ conns' \in [Conns -> Handles]
      /\ \A c \in Conns : conns'[c] = conns[c]
                         \/ (conns[c].state = "none" /\ conns'[c].state = "open")
  BY DEF OpenFail, IndInv, TypeOK, Handles
<1>t. TypeOK'
  BY <1>0, <1>1, <1>2, DistinctAssumption, SMTT(40) DEF OutClient, IndInv, TypeOK, ClientShape, Entries, Clients, Handles
<1>c. ClientShape'
  BY <1>0, <1>1, <1>2, DistinctAssumption, SMTT(40) DEF OutClient, IndInv, TypeOK, ClientShape, Entries, Clients
<1>m. MutexHeld'
  BY <1>0, <1>1, <1>2, DistinctAssumption, SMTT(40) DEF OutClient, IndInv, TypeOK, ClientShape, MutexHeld, Entries, Clients
<1>s. SlotsHoldOpen'
  BY <1>0, <1>1, <1>2, DistinctAssumption, SMTT(40) DEF OutClient, IndInv, TypeOK, ClientShape, MutexHeld, SlotsHoldOpen, Entries, Clients, Handles
<1> QED BY <1>t, <1>c, <1>m, <1>s DEF IndInv

\* Release preserves the inductive invariant.
LEMMA ReleaseInv ==
  ASSUME IndInv, NEW r \in Runs, NEW b \in BOOLEAN, Release(r, b)
  PROVE  IndInv'
<1>0. /\ client[r].source \in Sources /\ client[r].pc = "leased"
      /\ lock[client[r].source] = r
      /\ ent[client[r].source].src = client[r].conn /\ client[r].conn \in Conns
  BY DistinctAssumption DEF Release, IndInv, TypeOK, ClientShape, MutexHeld, Clients
<1>1. /\ lock' = [lock EXCEPT ![client[r].source] = Nobody]
      /\ client' = [client EXCEPT ![r] = OutClient]
      /\ ent' = [ent EXCEPT ![client[r].source] = Kept(client[r].source, b)]
      /\ conns' = IF b THEN Closed(ent[client[r].source].src) ELSE conns
      /\ UNCHANGED <<slots, sweep, probe>>
  BY DEF Release
<1>t. TypeOK'
  BY <1>0, <1>1, DistinctAssumption, SMTT(40) DEF OutClient, Kept, Timed, Closed, EmptyEntry, IndInv, TypeOK, ClientShape, Entries, Clients, Handles
<1>c. ClientShape'
  BY <1>0, <1>1, DistinctAssumption, SMTT(40) DEF OutClient, Kept, Timed, Closed, EmptyEntry, IndInv, TypeOK, ClientShape, Entries, Clients
<1>m. MutexHeld'
  BY <1>0, <1>1, DistinctAssumption, SMTT(40) DEF OutClient, Kept, Timed, Closed, EmptyEntry, IndInv, TypeOK, ClientShape, MutexHeld, Entries, Clients
<1>2. \A q \in Runs : client'[q].pc = "leased" =>
        client'[q] = client[q] /\ client[q].source # client[r].source
  BY <1>0, <1>1 DEF OutClient, IndInv, TypeOK, MutexHeld
<1>s. SlotsHoldOpen'
  <2>1. CASE b
    <3>1. ent' = [ent EXCEPT ![client[r].source] = EmptyEntry]
          /\ conns' = Closed(ent[client[r].source].src)
      BY <1>1, <2>1 DEF Kept
    <3> QED BY <1>0, <1>1, <1>2, <3>1, EmptySlot, ZenonT(30)
  <2>2. CASE ~b
    <3>1. \A t \in Sources : ent'[t].src = ent[t].src /\ ent'[t].fp = ent[t].fp
      BY <1>0, <1>1, <2>2 DEF Kept, Timed, IndInv, TypeOK
    <3>2. conns' = conns /\ slots' = slots
      BY <1>1, <2>2
    <3>3. \A q \in Runs : client[q].pc = "leased" => client[q].source \in Sources
      BY DEF IndInv, TypeOK, ClientShape
    <3>4. \A t \in Sources : ent'[t].src # NoConn =>
            /\ t \in slots' /\ ent'[t].fp # NoParams
            /\ conns'[ent'[t].src] = [state |-> "open", params |-> ent'[t].fp]
      BY <3>1, <3>2 DEF IndInv, SlotsHoldOpen
    <3>5. \A t, u \in Sources : ent'[t].src # NoConn /\ ent'[t].src = ent'[u].src => t = u
      BY <3>1 DEF IndInv, SlotsHoldOpen
    <3>6. \A c \in Conns : conns'[c].state = "none" => conns'[c].params = NoParams
      BY <3>2 DEF IndInv, SlotsHoldOpen
    <3>7. \A q \in Runs : client'[q].pc = "leased" =>
            ent'[client'[q].source].fp = client'[q].params
      BY <1>2, <3>1, <3>3 DEF IndInv, SlotsHoldOpen
    <3> QED BY <3>4, <3>5, <3>6, <3>7 DEF SlotsHoldOpen
  <2> QED BY <2>1, <2>2
<1> QED BY <1>t, <1>c, <1>m, <1>s DEF IndInv

\* The passing of time preserves the inductive invariant.
LEMMA AgeInv ==
  ASSUME IndInv, NEW s \in Sources, Age(s)
  PROVE  IndInv'
<1>1. /\ ent' \in [Sources -> Entries]
      /\ \A t \in Sources : ent'[t].src = ent[t].src /\ ent'[t].fp = ent[t].fp
  <2>1. ent[s] \in Entries
    BY DEF IndInv, TypeOK
  <2>2. PICK i \in BOOLEAN, o \in BOOLEAN : ent' = [ent EXCEPT ![s] = Timed(ent[s], i, o)]
    <3>1. ent[s].idle \in BOOLEAN /\ ent[s].old \in BOOLEAN
      BY <2>1 DEF Entries
    <3> QED BY <3>1, Zenon DEF Age
  <2> DEFINE e == Timed(ent[s], i, o)
  <2>3. e \in Entries /\ e.src = ent[s].src /\ e.fp = ent[s].fp
    BY <2>1 DEF Timed, Entries
  <2> HIDE DEF e
  <2>4. ent' = [ent EXCEPT ![s] = e]
    BY <2>2 DEF e
  <2> QED BY <2>3, <2>4 DEF IndInv, TypeOK
<1>2. UNCHANGED <<slots, lock, client, conns, sweep, probe>>
  BY DEF Age
<1>t. TypeOK'
  BY <1>1, <1>2 DEF Entries, IndInv, TypeOK, ClientShape, Entries, Clients, Handles
<1>c. ClientShape'
  BY <1>1, <1>2 DEF Entries, IndInv, TypeOK, ClientShape, Entries, Clients
<1>m. MutexHeld'
  BY <1>1, <1>2 DEF Entries, IndInv, TypeOK, ClientShape, MutexHeld, Entries, Clients
<1>s. SlotsHoldOpen'
  BY <1>1, <1>2 DEF Entries, IndInv, TypeOK, ClientShape, MutexHeld, SlotsHoldOpen, Entries, Clients, Handles
<1> QED BY <1>t, <1>c, <1>m, <1>s DEF IndInv

\* The steps of InvalidateAll preserve the inductive invariant.
LEMMA SweepStepInv ==
  ASSUME IndInv, NEW w \in Sweepers, SweepStep(w)
  PROVE  IndInv'
<1>1. CASE SweepBegin(w)
  BY <1>1 DEF SweepBegin, SweepTodo, OpenConns, IndInv, TypeOK, ClientShape, MutexHeld, SlotsHoldOpen
<1>2. CASE SweepEnd(w)
  BY <1>2 DEF SweepEnd, IndInv, TypeOK, ClientShape, MutexHeld, SlotsHoldOpen
<1>3. ASSUME NEW s \in Sources, SweepClose(w, s) PROVE IndInv'
  <2>1. /\ ent' = [ent EXCEPT ![s] = EmptyEntry] /\ conns' = Closed(ent[s].src)
        /\ lock[s] = Nobody /\ UNCHANGED <<slots, lock, client, probe>>
    BY <1>3 DEF SweepClose, SweepMayClose
  <2>2. \A q \in Runs : client[q].pc \in {"opening", "leased"} => client[q].source # s
    BY <2>1, DistinctAssumption DEF IndInv, MutexHeld
  <2>3. /\ ent' \in [Sources -> Entries] /\ conns' \in [Conns -> Handles]
        /\ ent'[s].src = NoConn /\ \A t \in Sources : t # s => ent'[t] = ent[t]
        /\ SlotsHoldOpen'
    BY <2>1, <2>2, EmptySlot, ZenonT(30)
  <2>t. TypeOK'
    BY <1>3, <2>1, <2>3 DEF SweepClose, IndInv, TypeOK
  <2>c. ClientShape'
    BY <2>1 DEF IndInv, ClientShape
  <2>m. MutexHeld'
    <3>1. \A q \in Runs : client[q].pc \in {"opening", "leased"} => client[q].source \in Sources
      BY DEF IndInv, TypeOK, ClientShape
    <3> QED BY <2>1, <2>2, <2>3, <3>1 DEF IndInv, MutexHeld
  <2> QED BY <2>3, <2>t, <2>c, <2>m DEF IndInv
<1> QED BY <1>1, <1>2, <1>3 DEF SweepStep

\* The steps of PingAll preserve the inductive invariant.
LEMMA ProbeStepInv ==
  ASSUME IndInv, NEW q \in Probes, ProbeStep(q)
  PROVE  IndInv'
<1>0. UNCHANGED <<slots, ent, client, conns, sweep>>
  BY DEF ProbeStep, ProbeBegin, ProbeLock, ProbeUnlock, ProbeEnd
<1>t. TypeOK'
  <2>1. CASE ProbeBegin(q) \/ ProbeEnd(q)
    BY <1>0, <2>1 DEF ProbeBegin, ProbeEnd, NotProbing, IndInv, TypeOK
  <2>2. CASE ProbeUnlock(q)
    <3>1. lock' \in [Sources -> Runs \cup Probes \cup {Nobody}]
      BY <2>2, ZenonT(30) DEF ProbeUnlock, IndInv, TypeOK
    <3>2. probe' \in [Probes -> [pc : {"idle", "next", "ping"}, todo : SUBSET Sources,
                                 at : Sources \cup {Nobody}]]
      <4> DEFINE R == [pc : {"idle", "next", "ping"}, todo : SUBSET Sources,
                       at : Sources \cup {Nobody}]
      <4>1. probe[q].todo \in SUBSET Sources BY DEF IndInv, TypeOK
      <4>2. [pc |-> "next", todo |-> probe[q].todo, at |-> Nobody] \in R /\ NotProbing \in R
        BY <4>1 DEF NotProbing
      <4>3. PICK v \in R : probe' = [probe EXCEPT ![q] = v]
        BY <2>2, <4>2 DEF ProbeUnlock
      <4>4. probe \in [Probes -> R] BY DEF IndInv, TypeOK
      <4> HIDE DEF R
      <4>5. probe' \in [Probes -> R] BY <4>3, <4>4
      <4> QED BY <4>5 DEF R
    <3> QED BY <1>0, <3>1, <3>2 DEF IndInv, TypeOK
  <2>3. ASSUME NEW s \in Sources, ProbeLock(q, s) PROVE TypeOK'
    BY <1>0, <2>3 DEF ProbeLock, IndInv, TypeOK
  <2> QED BY <2>1, <2>2, <2>3 DEF ProbeStep
<1>c. ClientShape' /\ SlotsHoldOpen'
  BY <1>0 DEF IndInv, ClientShape, SlotsHoldOpen
<1>q. \A p \in Probes : p # q => probe'[p] = probe[p]
  <2>1. \E v : probe' = [probe EXCEPT ![q] = v]
    BY SMTT(30) DEF ProbeStep, ProbeBegin, ProbeLock, ProbeUnlock, ProbeEnd
  <2> QED BY <2>1 DEF IndInv, TypeOK
<1>l. \A s \in Sources : lock'[s] = lock[s] \/ lock[s] \in {q, Nobody}
  <2>1. CASE ProbeBegin(q) \/ ProbeEnd(q)
    BY <2>1 DEF ProbeBegin, ProbeEnd
  <2>2. ASSUME NEW s \in Sources, ProbeLock(q, s)
        PROVE  \A t \in Sources : lock'[t] = lock[t] \/ lock[t] \in {q, Nobody}
    BY <2>2 DEF ProbeLock, IndInv, TypeOK
  <2>3. CASE ProbeUnlock(q)
    <3>1. lock[probe[q].at] = q
      BY <2>3 DEF ProbeUnlock, IndInv, MutexHeld
    <3> QED BY <2>3, <3>1 DEF ProbeUnlock, IndInv, TypeOK
  <2> QED BY <2>1, <2>2, <2>3 DEF ProbeStep
<1>1. \A r \in Runs : client[r].pc \in {"opening", "leased"} =>
        lock'[client[r].source] = r
  <2> SUFFICES ASSUME NEW r \in Runs, client[r].pc \in {"opening", "leased"}
               PROVE  lock'[client[r].source] = r
    OBVIOUS
  <2>1. lock[client[r].source] = r /\ r \notin {q, Nobody}
    BY DistinctAssumption DEF IndInv, MutexHeld
  <2>2. client[r].source \in Sources
    BY DEF IndInv, TypeOK, ClientShape
  <2> QED BY <2>1, <2>2, <1>l
<1>2. ASSUME NEW p \in Probes, probe'[p].pc = "ping"
      PROVE  probe'[p].at \in Sources /\ lock'[probe'[p].at] = p
  <2>1. CASE p # q
    <3>1. probe'[p].at = probe[p].at /\ probe[p].at \in Sources /\ lock[probe[p].at] = p
      BY <1>2, <1>q, <2>1 DEF IndInv, MutexHeld
    <3>2. p \notin {q, Nobody}
      BY <2>1, DistinctAssumption
    <3> QED BY <3>1, <3>2, <1>l
  <2>2. CASE p = q
    <3>1. PICK s \in Sources : ProbeLock(q, s)
      <4>0. ProbeBegin(q) => probe'[q].pc # "ping"
        BY SMTT(30) DEF ProbeBegin, IndInv, TypeOK
      <4>1. ProbeEnd(q) => probe'[q].pc # "ping"
        BY SMTT(30) DEF ProbeEnd, NotProbing, IndInv, TypeOK
      <4>2. ProbeUnlock(q) => probe'[q].pc # "ping"
        BY SMTT(30) DEF ProbeUnlock, NotProbing, IndInv, TypeOK
      <4> QED BY <1>2, <2>2, <4>0, <4>1, <4>2, SMTT(30) DEF ProbeStep
    <3> QED BY <3>1, <2>2 DEF ProbeLock, IndInv, TypeOK
  <2> QED BY <2>1, <2>2
<1>m. MutexHeld'
  BY <1>0, <1>1, <1>2 DEF IndInv, MutexHeld
<1> QED BY <1>t, <1>c, <1>m DEF IndInv

\* Every step keeps the inductive invariant.
LEMMA StepInv ==
  ASSUME IndInv, [Next]_vars
  PROVE  IndInv'
<1>1. ASSUME NEW r \in Runs, RunStep(r) PROVE IndInv'
  BY <1>1, LookupInv, AcquireInv, OpenOkInv, OpenFailInv, ReleaseInv, Zenon DEF RunStep
<1>2. CASE UNCHANGED vars
  BY <1>2 DEF vars, IndInv, TypeOK, ClientShape, MutexHeld, SlotsHoldOpen
<1> QED BY <1>1, <1>2, AgeInv, SweepStepInv, ProbeStepInv, Zenon DEF Next

\* The inductive invariant holds in every reachable state.
THEOREM Invariance == Spec => []IndInv
BY InitInv, StepInv, PTL DEF Spec

\* Who holds a lease holds the slot, and the slot's connection is good.
LEMMA LeaseFacts ==
  ASSUME IndInv
  PROVE  LeaseIsGood
<1> SUFFICES ASSUME NEW r \in Runs, client[r].pc = "leased"
             PROVE  LET s == client[r].source  c == client[r].conn IN
                      /\ lock[s] = r /\ ent[s].src = c
                      /\ conns[c] = [state |-> "open", params |-> client[r].params]
  BY DEF LeaseIsGood
<1>1. client[r].source \in Sources /\ client[r].conn # NoConn
  BY DEF IndInv, TypeOK, ClientShape
<1>2. lock[client[r].source] = r /\ ent[client[r].source].src = client[r].conn
  BY DEF IndInv, MutexHeld
<1> QED BY <1>1, <1>2 DEF IndInv, SlotsHoldOpen

\* In every reachable state a lease is of the slot's connection, which is open
\* and has the run's parameters, whatever reloads, probes and time do.
THEOREM LeaseTheorem == Spec => []LeaseIsGood
BY LeaseFacts, Invariance, PTL

(***************************************************************************)
(* The pool implements SourceSession.                                      *)
(***************************************************************************)
\* A step that keeps the runs' parameters and leases and the connections is a
\* stutter of the session.
LEMMA SessionFrame ==
  ASSUME UNCHANGED <<client, conns>>
  PROVE  UNCHANGED Session!vars
BY DEF Session!vars

\* Closing the connection of a slot that nobody leases retires it.
LEMMA ClosedRetires ==
  ASSUME IndInv, NEW s \in Sources, NEW c, c = ent[s].src,
         \A r \in Runs : client[r].conn # c \/ c = NoConn,
         conns' = Closed(c),
         \A r \in Runs : client'[r].params = client[r].params /\ client'[r].conn = client[r].conn
  PROVE  Session!Next \/ UNCHANGED Session!vars
<1>1. CASE c = NoConn
  BY <1>1 DEF Closed, Session!vars
<1>2. CASE c # NoConn
  <2>1. c \in Conns
    BY <1>2 DEF IndInv, TypeOK, Entries
  <2>2. \A d \in Conns : conns'[d] =
          IF d = c THEN [state |-> "closed", params |-> conns[c].params] ELSE conns[d]
    BY <1>2, <2>1 DEF Closed, IndInv, TypeOK
  <2>3. {d \in Conns : conns'[d].state = "closed"} =
          {d \in Conns : conns[d].state = "closed"} \cup {c}
    BY <2>1, <2>2, SMTT(30)
  <2>4. \A d \in Conns : conns'[d].params = conns[d].params
    BY <2>2
  <2>5. Session!Retire(c)
    BY <1>2, <2>3, <2>4 DEF Session!Retire
  <2> QED BY <2>1, <2>5 DEF Session!Next
<1> QED BY <1>1, <1>2

\* Giving a run a free connection, fresh or with its parameters, is a grant.
LEMMA GrantStep ==
  ASSUME NEW r \in Runs, NEW c \in Conns,
         client[r].params # NoParams, client[r].conn = NoConn, conns[c].state # "closed",
         \A q \in Runs : client[q].conn # c,
         conns[c].params \in {NoParams, client[r].params},
         \A q \in Runs : client'[q].params = client[q].params,
         \A q \in Runs : client'[q].conn = IF q = r THEN c ELSE client[q].conn,
         \A d \in Conns : conns'[d].params = IF d = c THEN client[r].params ELSE conns[d].params,
         \A d \in Conns : conns'[d].state = "closed" <=> conns[d].state = "closed"
  PROVE  Session!Next
<1> DEFINE asked == [q \in Runs |-> client[q].params]
           lease == [q \in Runs |-> client[q].conn]
           made == [d \in Conns |-> conns[d].params]
           retired == {d \in Conns : conns[d].state = "closed"}
<1>1. asked[r] # NoParams /\ lease[r] = NoConn
  OBVIOUS
<1>2. c \notin retired /\ \A q \in Runs : lease[q] # c
  OBVIOUS
<1>3. made[c] \in {NoParams, asked[r]}
  OBVIOUS
<1>4. lease' = [lease EXCEPT ![r] = c]
  OBVIOUS
<1>5. made' = [made EXCEPT ![c] = asked[r]]
  OBVIOUS
<1>6. asked' = asked /\ retired' = retired
  OBVIOUS
<1>7. Session!Grant(r, c)
  BY <1>1, <1>2, <1>3, <1>4, <1>5, <1>6, Zenon DEF Session!Grant
<1> QED BY <1>7, Zenon DEF Session!Next

\* Every step of the pool is a step of the session or leaves it unchanged.
LEMMA SessionStep ==
  ASSUME IndInv, Next
  PROVE  Session!Next \/ UNCHANGED Session!vars
<1>1. ASSUME NEW r \in Runs, NEW s \in Sources, NEW p \in Params, Lookup(r, s, p)
      PROVE  Session!Ask(r)
  <2>1. client[r].params = NoParams /\ client[r].conn = NoConn
    BY <1>1 DEF Lookup, IndInv, ClientShape
  <2>2. \A q \in Runs : /\ client'[q].params = IF q = r THEN p ELSE client[q].params
                        /\ client'[q].conn = client[q].conn
    BY <1>1, <2>1 DEF Lookup, IndInv, TypeOK
  <2>3. [q \in Runs |-> client'[q].params] = [[q \in Runs |-> client[q].params] EXCEPT ![r] = p]
    BY <2>2, ZenonT(30)
  <2>4. [q \in Runs |-> client'[q].conn] = [q \in Runs |-> client[q].conn] /\ conns' = conns
    BY <1>1, <2>2 DEF Lookup
  <2> QED BY <2>1, <2>3, <2>4, ZenonT(30) DEF Session!Ask
<1>2. ASSUME NEW r \in Runs, Acquire(r)
      PROVE  Session!Next \/ UNCHANGED Session!vars
  <2> DEFINE s == client[r].source
             c == ent[s].src
  <2>0. s \in Sources /\ client[r].params \in Params /\ client[r].conn = NoConn /\ lock[s] = Nobody
    BY <1>2, DistinctAssumption DEF Acquire, IndInv, TypeOK, ClientShape, Clients
  <2>f. \A q \in Runs : client[q].conn # c \/ c = NoConn
    <3> SUFFICES ASSUME NEW q \in Runs, client[q].conn = c, c # NoConn PROVE FALSE
      OBVIOUS
    <3>1. client[q].pc = "leased" /\ client[q].source \in Sources
      BY DEF IndInv, TypeOK, ClientShape
    <3>2. lock[client[q].source] = q /\ ent[client[q].source].src = c
      BY <3>1 DEF IndInv, MutexHeld
    <3>3. client[q].source = s
      BY <3>1, <3>2, <2>0 DEF IndInv, SlotsHoldOpen
    <3> QED BY <3>2, <3>3, <2>0, DistinctAssumption
  <2>1. CASE Reusable(ent[s], client[r].params)
    <3>1. c \in Conns /\ c # NoConn /\ ent[s].fp = client[r].params
      BY <2>0, <2>1, DistinctAssumption DEF Reusable, IndInv, TypeOK, Entries
    <3>2. conns[c] = [state |-> "open", params |-> client[r].params]
      BY <2>0, <3>1 DEF IndInv, SlotsHoldOpen
    <3>3. conns' = conns
      BY <1>2, <2>1 DEF Acquire
    <3>4. \A q \in Runs : /\ client'[q].params = client[q].params
                          /\ client'[q].conn = IF q = r THEN c ELSE client[q].conn
      BY <1>2, <2>1, SMTT(30) DEF Acquire, IndInv, TypeOK
    <3>5. client[r].params # NoParams
      BY <2>0, DistinctAssumption
    <3>6. conns[c].state = "open" /\ conns[c].params = client[r].params
      BY <3>2
    <3> HIDE DEF c
    <3> QED BY <2>0, <2>f, <3>1, <3>3, <3>4, <3>5, <3>6, GrantStep, SMTT(30)
  <2>2. CASE ~Reusable(ent[s], client[r].params)
    <3>1. /\ conns' = Closed(c)
          /\ \A q \in Runs : /\ client'[q].params = client[q].params
                             /\ client'[q].conn = client[q].conn
      BY <1>2, <2>2, <2>0, SMTT(30) DEF Acquire, IndInv, TypeOK
    <3> QED BY <2>0, <2>f, <3>1, ClosedRetires
  <2> QED BY <2>1, <2>2
<1>3. ASSUME NEW r \in Runs, OpenOk(r)
      PROVE  Session!Next
  <2>0. client[r].params \in Params /\ client[r].conn = NoConn
    BY <1>3, DistinctAssumption DEF OpenOk, IndInv, TypeOK, ClientShape, Clients
  <2>1. PICK c \in Conns :
          /\ conns[c].state = "none"
          /\ conns' = [conns EXCEPT ![c] = [state |-> "open", params |-> client[r].params]]
          /\ client' = [client EXCEPT ![r] = [pc |-> "leased", source |-> client[r].source,
                                            params |-> client[r].params, conn |-> c]]
    BY <1>3, ZenonT(30) DEF OpenOk
  <2>2. \A q \in Runs : /\ client'[q].params = client[q].params
                        /\ client'[q].conn = IF q = r THEN c ELSE client[q].conn
    BY <2>1 DEF IndInv, TypeOK
  <2>3. conns[c].params = NoParams
    BY <2>1 DEF IndInv, SlotsHoldOpen
  <2>4. \A q \in Runs : client[q].conn # c
    <3> SUFFICES ASSUME NEW q \in Runs, client[q].conn = c PROVE FALSE
      OBVIOUS
    <3>1. client[q].pc = "leased" /\ client[q].source \in Sources
      BY DistinctAssumption DEF IndInv, TypeOK, ClientShape
    <3>2. ent[client[q].source].src = c /\ c # NoConn
      BY <3>1, DistinctAssumption DEF IndInv, MutexHeld
    <3>3. conns[c] = [state |-> "open", params |-> ent[client[q].source].fp]
      BY <3>1, <3>2 DEF IndInv, SlotsHoldOpen
    <3> QED BY <3>3, <2>1
  <2>5. \A d \in Conns : conns'[d] =
          IF d = c THEN [state |-> "open", params |-> client[r].params] ELSE conns[d]
    BY <2>1 DEF IndInv, TypeOK
  <2>6. \A d \in Conns :
          /\ conns'[d].params = IF d = c THEN client[r].params ELSE conns[d].params
          /\ conns'[d].state = "closed" <=> conns[d].state = "closed"
    BY <2>1, <2>5, SMTT(30)
  <2>7. client[r].params # NoParams /\ conns[c].state # "closed"
    BY <2>0, <2>1, DistinctAssumption
  <2> QED BY <2>0, <2>2, <2>3, <2>4, <2>6, <2>7, GrantStep, SMTT(30)
<1>4. ASSUME NEW r \in Runs, OpenFail(r)
      PROVE  Session!Refuse(r)
  <2>0. client[r].params # NoParams /\ client[r].conn = NoConn
    BY <1>4 DEF OpenFail, IndInv, ClientShape
  <2>1. \A q \in Runs : /\ client'[q].params = IF q = r THEN NoParams ELSE client[q].params
                        /\ client'[q].conn = client[q].conn
    BY <1>4, <2>0 DEF OpenFail, OutClient, IndInv, TypeOK
  <2>2. \A c \in Conns : \/ conns'[c] = conns[c]
                         \/ /\ conns[c].state = "none" /\ conns[c].params = NoParams
                            /\ conns'[c] = [state |-> "open", params |-> NoParams]
    BY <1>4 DEF OpenFail, IndInv, TypeOK, SlotsHoldOpen
  <2>3. /\ {c \in Conns : conns'[c].state = "closed"} = {c \in Conns : conns[c].state = "closed"}
        /\ \A c \in Conns : conns'[c].params = conns[c].params
    <3>1. \A c \in Conns : /\ conns'[c].state = "closed" <=> conns[c].state = "closed"
                           /\ conns'[c].params = conns[c].params
      BY <2>2, SMTT(30)
    <3> QED BY <3>1
  <2> QED BY <2>0, <2>1, <2>3, ZenonT(30) DEF Session!Refuse
<1>5. ASSUME NEW r \in Runs, NEW b \in BOOLEAN, Release(r, b)
      PROVE  Session!Release(r)
  <2> DEFINE c == client[r].conn
  <2>0. c \in Conns /\ ent[client[r].source].src = c
    BY <1>5 DEF Release, IndInv, TypeOK, ClientShape, MutexHeld, Clients
  <2>1. \A q \in Runs : /\ client'[q].params = IF q = r THEN NoParams ELSE client[q].params
                        /\ client'[q].conn = IF q = r THEN NoConn ELSE client[q].conn
    BY <1>5 DEF Release, OutClient, IndInv, TypeOK
  <2>2. conns' = conns \/ conns' = [conns EXCEPT ![c] = [state |-> "closed", params |-> conns[c].params]]
    BY <1>5, <2>0, DistinctAssumption DEF Release, Closed
  <2>3. \A d \in Conns : conns'[d].params = conns[d].params
    BY <2>0, <2>2 DEF IndInv, TypeOK
  <2>4. {d \in Conns : conns'[d].state = "closed"} \in
          {{d \in Conns : conns[d].state = "closed"},
           {d \in Conns : conns[d].state = "closed"} \cup {c}}
    <3>1. CASE conns' = conns
      BY <3>1
    <3>2. CASE conns' = [conns EXCEPT ![c] = [state |-> "closed", params |-> conns[c].params]]
      <4>1. \A d \in Conns : conns'[d].state = IF d = c THEN "closed" ELSE conns[d].state
        BY <3>2, <2>0 DEF IndInv, TypeOK
      <4>2. {d \in Conns : conns'[d].state = "closed"} =
              {d \in Conns : conns[d].state = "closed"} \cup {c}
        BY <4>1, <2>0
      <4> QED BY <4>2
    <3> QED BY <2>2, <3>1, <3>2
  <2> QED BY <2>0, <2>1, <2>3, <2>4, DistinctAssumption, ZenonT(30) DEF Session!Release
<1>6. ASSUME NEW w \in Sweepers, NEW s \in Sources, SweepClose(w, s)
      PROVE  Session!Next \/ UNCHANGED Session!vars
  <2>1. \A q \in Runs : client[q].conn # ent[s].src \/ ent[s].src = NoConn
    <3> SUFFICES ASSUME NEW q \in Runs, client[q].conn = ent[s].src, ent[s].src # NoConn
                 PROVE  FALSE
      OBVIOUS
    <3>1. client[q].pc = "leased" /\ client[q].source \in Sources
      BY DEF IndInv, TypeOK, ClientShape
    <3>3. lock[client[q].source] = q /\ ent[client[q].source].src = ent[s].src
      BY <3>1 DEF IndInv, MutexHeld
    <3>2. lock[client[q].source] = q /\ client[q].source = s
      BY <3>1, <3>3 DEF IndInv, SlotsHoldOpen
    <3> QED BY <1>6, <3>2, DistinctAssumption DEF SweepClose, SweepMayClose
  <2>2. conns' = Closed(ent[s].src) /\ client' = client
    BY <1>6 DEF SweepClose
  <2> QED BY <2>1, <2>2, ClosedRetires
<1>7. ASSUME NEW w \in Sweepers, SweepBegin(w) \/ SweepEnd(w)
      PROVE  UNCHANGED Session!vars
  BY <1>7, SessionFrame DEF SweepBegin, SweepEnd
<1>8. ASSUME NEW s \in Sources, Age(s) PROVE UNCHANGED Session!vars
  BY <1>8, SessionFrame DEF Age
<1>9. ASSUME NEW q \in Probes, ProbeStep(q) PROVE UNCHANGED Session!vars
  BY <1>9, SessionFrame DEF ProbeStep, ProbeBegin, ProbeLock, ProbeUnlock, ProbeEnd
<1>10. ASSUME NEW r \in Runs, RunStep(r) PROVE Session!Next \/ UNCHANGED Session!vars
  BY <1>1, <1>2, <1>3, <1>4, <1>5, <1>10 DEF RunStep, Session!Next
<1>11. ASSUME NEW w \in Sweepers, SweepStep(w) PROVE Session!Next \/ UNCHANGED Session!vars
  BY <1>6, <1>7, <1>11 DEF SweepStep
<1> QED BY <1>8, <1>9, <1>10, <1>11, Zenon DEF Next

\* The pool implements the promise of a SourceSession: each lease is exclusive,
\* of a connection that is open and was opened with the run's parameters.
THEOREM SessionTheorem == Spec => ImplementsSession
<1>1. Init => Session!Init
  BY SMTT(30) DEF Init, OutClient, Session!Init
<1>2. IndInv /\ [Next]_vars => [Session!Next]_Session!vars
  BY SessionStep, SessionFrame DEF vars
<1> QED BY <1>1, <1>2, Invariance, PTL DEF Spec, ImplementsSession, Session!Spec

(***************************************************************************)
(* InvalidateAll reaches every connection that an Open has returned.       *)
(***************************************************************************)
\* A step opens a connection only into a slot, and a slot lets go of its handle
\* only by closing it.
SlotsKeep ==
  /\ slots \subseteq slots'
  /\ \A s \in Sources : ent[s].src # NoConn =>
       ent'[s].src = ent[s].src \/ conns'[ent[s].src].state = "closed"
  /\ \A c \in OpenConns' : c \in OpenConns \/ \E s \in slots' : ent'[s].src = c
  /\ \A c \in Conns : conns[c].state = "closed" => conns'[c].state = "closed"

\* Emptying a slot by closeEntry is such a step.
LEMMA EmptiedKeeps ==
  ASSUME IndInv, NEW s \in Sources, slots' = slots,
         ent' = [ent EXCEPT ![s] = EmptyEntry], conns' = Closed(ent[s].src)
  PROVE  SlotsKeep
<1>1. \A t \in Sources : t # s => ent'[t] = ent[t]
  BY DEF IndInv, TypeOK
<1>2. CASE ent[s].src = NoConn
  BY <1>1, <1>2 DEF Closed, SlotsKeep, OpenConns
<1>3. CASE ent[s].src # NoConn
  <2>1. ent[s].src \in Conns
    BY <1>3 DEF IndInv, TypeOK, Entries
  <2>2. /\ conns'[ent[s].src].state = "closed"
        /\ \A d \in Conns : d # ent[s].src => conns'[d] = conns[d]
    BY <1>3, <2>1 DEF Closed, IndInv, TypeOK
  <2>3. OpenConns' \subseteq OpenConns
    BY <2>1, <2>2 DEF OpenConns
  <2> QED BY <1>1, <2>1, <2>2, <2>3 DEF SlotsKeep
<1> QED BY <1>2, <1>3

\* Every step of the pool is such a step.
LEMMA StepKeeps ==
  ASSUME IndInv, Next
  PROVE  SlotsKeep
<1>1. ASSUME NEW r \in Runs, NEW s \in Sources, NEW p \in Params, Lookup(r, s, p)
      PROVE  SlotsKeep
  BY <1>1 DEF Lookup, SlotsKeep, OpenConns
<1>2. ASSUME NEW r \in Runs, Acquire(r) PROVE SlotsKeep
  <2>1. client[r].source \in Sources
    BY <1>2 DEF Acquire, IndInv, TypeOK, ClientShape
  <2>2. CASE UNCHANGED <<slots, ent, conns>>
    BY <2>2 DEF SlotsKeep, OpenConns
  <2>3. CASE /\ slots' = slots /\ ent' = [ent EXCEPT ![client[r].source] = EmptyEntry]
             /\ conns' = Closed(ent[client[r].source].src)
    BY <2>1, <2>3, EmptiedKeeps, ZenonT(30)
  <2> QED BY <1>2, <2>2, <2>3 DEF Acquire
<1>3. ASSUME NEW r \in Runs, OpenOk(r) PROVE SlotsKeep
  <2> DEFINE s == client[r].source
  <2>0. s \in slots /\ s \in Sources /\ ent[s].src = NoConn
    BY <1>3 DEF OpenOk, IndInv, TypeOK, ClientShape, MutexHeld
  <2>1. PICK c \in Conns :
          /\ conns[c].state = "none"
          /\ conns' = [conns EXCEPT ![c] = [state |-> "open", params |-> client[r].params]]
          /\ ent' = [ent EXCEPT ![s] =
                       [src |-> c, fp |-> client[r].params, idle |-> FALSE, old |-> FALSE]]
          /\ slots' = slots
    BY <1>3, ZenonT(30) DEF OpenOk
  <2> HIDE DEF s
  <2>2. conns'[c].state = "open" /\ \A d \in Conns : d # c => conns'[d] = conns[d]
    BY <2>1 DEF IndInv, TypeOK
  <2>3. ent'[s].src = c /\ \A t \in Sources : t # s => ent'[t] = ent[t]
    BY <2>0, <2>1 DEF IndInv, TypeOK
  <2>4. OpenConns' \subseteq OpenConns \cup {c}
    BY <2>1, <2>2 DEF OpenConns
  <2> QED BY <2>0, <2>1, <2>2, <2>3, <2>4 DEF SlotsKeep
<1>4. ASSUME NEW r \in Runs, OpenFail(r) PROVE SlotsKeep
  <2>1. UNCHANGED <<slots, ent>>
    BY <1>4 DEF OpenFail
  <2>2. CASE UNCHANGED conns
    BY <2>1, <2>2 DEF SlotsKeep, OpenConns
  <2>3. ASSUME NEW c \in Conns, conns[c].state = "none",
               conns' = [conns EXCEPT ![c] = [state |-> "open", params |-> NoParams]]
        PROVE  SlotsKeep
    <3>1. conns'[c].params = NoParams /\ \A d \in Conns : d # c => conns'[d] = conns[d]
      BY <2>3 DEF IndInv, TypeOK
    <3>2. OpenConns' \subseteq OpenConns
      BY <3>1 DEF OpenConns
    <3>3. \A d \in Conns : conns[d].state = "closed" => conns'[d].state = "closed"
      BY <2>3, <3>1
    <3> QED BY <2>1, <3>2, <3>3 DEF SlotsKeep
  <2> QED BY <1>4, <2>2, <2>3 DEF OpenFail
<1>5. ASSUME NEW r \in Runs, NEW b \in BOOLEAN, Release(r, b) PROVE SlotsKeep
  <2> DEFINE s == client[r].source
  <2>0. s \in Sources /\ slots' = slots /\ ent' = [ent EXCEPT ![s] = Kept(s, b)]
    BY <1>5 DEF Release, IndInv, TypeOK, ClientShape
  <2>1. CASE b
    BY <1>5, <2>0, <2>1, EmptiedKeeps, ZenonT(30) DEF Release, Kept
  <2>2. CASE ~b
    <3>1. Kept(s, b).src = ent[s].src /\ conns' = conns
      BY <1>5, <2>2 DEF Release, Kept, Timed
    <3>2. \A t \in Sources : ent'[t].src = ent[t].src
      BY <2>0, <3>1 DEF IndInv, TypeOK
    <3> QED BY <2>0, <3>1, <3>2 DEF SlotsKeep, OpenConns
  <2> QED BY <2>1, <2>2
<1>6. ASSUME NEW s \in Sources, Age(s) PROVE SlotsKeep
  <2>1. PICK i, o : ent' = [ent EXCEPT ![s] = Timed(ent[s], i, o)]
    BY <1>6, Zenon DEF Age
  <2>2. Timed(ent[s], i, o).src = ent[s].src
    BY DEF Timed
  <2>3. \A t \in Sources : ent'[t].src = ent[t].src
    BY <2>1, <2>2 DEF IndInv, TypeOK
  <2> QED BY <1>6, <2>3 DEF Age, SlotsKeep, OpenConns
<1>7. ASSUME NEW w \in Sweepers, SweepStep(w) PROVE SlotsKeep
  <2>1. CASE SweepBegin(w) \/ SweepEnd(w)
    BY <2>1 DEF SweepBegin, SweepEnd, SlotsKeep, OpenConns
  <2>2. ASSUME NEW s \in Sources, SweepClose(w, s) PROVE SlotsKeep
    BY <2>2, EmptiedKeeps, ZenonT(30) DEF SweepClose
  <2> QED BY <1>7, <2>1, <2>2 DEF SweepStep
<1>8. ASSUME NEW q \in Probes, ProbeStep(q) PROVE SlotsKeep
  BY <1>8 DEF ProbeStep, ProbeBegin, ProbeLock, ProbeUnlock, ProbeEnd, SlotsKeep, OpenConns
<1>9. ASSUME NEW r \in Runs, RunStep(r) PROVE SlotsKeep
  BY <1>1, <1>2, <1>3, <1>4, <1>5, <1>9, Zenon DEF RunStep
<1> QED BY <1>6, <1>7, <1>8, <1>9, Zenon DEF Next

\* Every step keeps open handles in slots, and those a sweep has to close in
\* slots it has still to visit.
LEMMA SweepInvStep ==
  ASSUME IndInv, SweepInv, [Next]_vars
  PROVE  SweepInv'
<1>1. CASE UNCHANGED vars
  <2>1. slots' = slots /\ ent' = ent /\ conns' = conns /\ sweep' = sweep
    BY <1>1 DEF vars
  <2> QED BY <2>1, ZenonT(30) DEF SweepInv, NoLeak, OpenConns, SweepCovers
<1>2. CASE Next
  <2>0. SlotsKeep
    BY <1>2, StepKeeps
  <2>t. slots \subseteq Sources /\ \A w \in Sweepers : sweep[w].todo \subseteq Sources
    BY DEF IndInv, TypeOK
  <2>1. NoLeak'
    <3> SUFFICES ASSUME NEW c \in OpenConns'
                 PROVE  \E s \in slots' : ent'[s].src = c
      BY DEF NoLeak
    <3>0. c \in Conns /\ conns'[c].state = "open"
      BY DEF OpenConns
    <3>1. CASE c \in OpenConns
      <4>1. PICK s \in slots : ent[s].src = c
        BY <3>1 DEF SweepInv, NoLeak
      <4> QED BY <2>0, <2>t, <3>0, <4>1, DistinctAssumption DEF SlotsKeep
    <3> QED BY <2>0, <3>1 DEF SlotsKeep
  <2>2. ASSUME NEW w \in Sweepers, NEW c \in Conns, c \in sweep'[w].before, sweep'[w] = sweep[w]
        PROVE  \/ conns'[c].state = "closed"
               \/ sweep'[w].on /\ \E s \in sweep'[w].todo : ent'[s].src = c
    <3>1. CASE conns[c].state = "closed"
      BY <2>0, <3>1 DEF SlotsKeep
    <3>2. CASE sweep[w].on /\ \E s \in sweep[w].todo : ent[s].src = c
      BY <2>0, <2>2, <2>t, <3>2, DistinctAssumption, SMTT(30) DEF SlotsKeep
    <3> QED BY <2>2, <3>1, <3>2 DEF SweepInv, SweepCovers
  <2>3. ASSUME NEW w \in Sweepers, SweepStep(w), NEW c \in Conns, c \in sweep'[w].before
        PROVE  \/ conns'[c].state = "closed"
               \/ sweep'[w].on /\ \E s \in sweep'[w].todo : ent'[s].src = c
    <3>1. CASE SweepBegin(w)
      <4>1. /\ sweep'[w] = [on |-> TRUE, todo |-> slots, before |-> OpenConns]
            /\ ent' = ent
        BY <3>1 DEF SweepBegin, SweepTodo, IndInv, TypeOK
      <4>2. c \in OpenConns
        BY <2>3, <4>1, SMTT(30)
      <4> QED BY <4>1, <4>2, SMTT(30) DEF SweepInv, NoLeak
    <3>2. CASE SweepEnd(w)
      <4>1. sweep[w].todo = {} /\ conns' = conns /\ sweep'[w].before = sweep[w].before
        BY <3>2 DEF SweepEnd, IndInv, TypeOK
      <4>2. conns[c].state = "closed" \/ \E s \in sweep[w].todo : ent[s].src = c
        BY <2>3, <4>1 DEF SweepInv, SweepCovers
      <4> QED BY <4>1, <4>2
    <3>3. ASSUME NEW s \in Sources, SweepClose(w, s)
          PROVE  \/ conns'[c].state = "closed"
                 \/ sweep'[w].on /\ \E t \in sweep'[w].todo : ent'[t].src = c
      <4>1. sweep'[w] = [on |-> TRUE, todo |-> sweep[w].todo \ {s}, before |-> sweep[w].before]
        BY <3>3 DEF SweepClose, IndInv, TypeOK
      <4>2. CASE conns[c].state = "closed"
        BY <2>0, <4>2 DEF SlotsKeep
      <4>3. ASSUME NEW t \in sweep[w].todo, ent[t].src = c
            PROVE  \/ conns'[c].state = "closed"
                   \/ sweep'[w].on /\ \E u \in sweep'[w].todo : ent'[u].src = c
        <5>1. CASE t = s
          <6>1. conns' = [conns EXCEPT ![c] = [state |-> "closed", params |-> conns[c].params]]
            BY <3>3, <4>3, <5>1, DistinctAssumption, ZenonT(30) DEF SweepClose, Closed
          <6> QED BY <6>1 DEF IndInv, TypeOK
        <5>2. CASE t # s
          <6>1. ent'[t] = ent[t] /\ t \in sweep'[w].todo /\ sweep'[w].on
            BY <2>t, <3>3, <4>1, <5>2 DEF SweepClose, IndInv, TypeOK
          <6>2. ent'[t].src = c BY <4>3, <6>1
          <6>3. \E u \in sweep'[w].todo : ent'[u].src = c BY <6>1, <6>2
          <6> QED BY <6>1, <6>3
        <5> QED BY <5>1, <5>2
      <4>4. c \in sweep[w].before BY <2>3, <4>1, SMTT(30)
      <4>5. conns[c].state = "closed" \/ \E t \in sweep[w].todo : ent[t].src = c
        BY <4>4 DEF SweepInv, SweepCovers
      <4> QED BY <4>2, <4>3, <4>5
    <3> QED BY <2>3, <3>1, <3>2, <3>3 DEF SweepStep
  <2>4. \A w \in Sweepers : sweep'[w] = sweep[w] \/ SweepStep(w)
    <3>1. ASSUME NEW r \in Runs, RunStep(r) PROVE sweep' = sweep
      BY <3>1, ZenonT(30) DEF RunStep, Lookup, Acquire, OpenOk, OpenFail, Release
    <3>2. ASSUME NEW s \in Sources, Age(s) PROVE sweep' = sweep
      BY <3>2 DEF Age
    <3>3. ASSUME NEW q \in Probes, ProbeStep(q) PROVE sweep' = sweep
      BY <3>3, SMTT(30) DEF ProbeStep, ProbeBegin, ProbeLock, ProbeUnlock, ProbeEnd
    <3>4. ASSUME NEW v \in Sweepers, SweepStep(v), NEW w \in Sweepers, w # v
          PROVE  sweep'[w] = sweep[w]
      <4>1. sweep = [u \in Sweepers |-> sweep[u]]
        BY DEF IndInv, TypeOK
      <4>2. CASE SweepBegin(v)
        BY <3>4, <4>1, <4>2 DEF SweepBegin
      <4>3. CASE SweepEnd(v)
        BY <3>4, <4>1, <4>3 DEF SweepEnd
      <4>4. CASE \E s \in Sources : SweepClose(v, s)
        BY <3>4, <4>1, <4>4 DEF SweepClose
      <4> QED BY <3>4, <4>2, <4>3, <4>4 DEF SweepStep
    <3> QED BY <1>2, <3>1, <3>2, <3>3, <3>4, SMTT(30) DEF Next
  <2>5. SweepCovers'
    BY <2>2, <2>3, <2>4 DEF SweepCovers
  <2> QED BY <2>1, <2>5 DEF SweepInv
<1> QED BY <1>1, <1>2

\* NoLeak and SweepCovers hold together in every reachable state.
LEMMA SweepInvariance == Spec => [](IndInv /\ SweepInv)
<1>1. Init => SweepInv
  BY SMTT(30) DEF Init, SweepInv, NoLeak, OpenConns, SweepCovers, NotSweeping
<1> QED BY <1>1, SweepInvStep, Invariance, PTL DEF Spec

\* Every connection that an Open has returned is in a slot until it is closed.
THEOREM NoLeakTheorem == Spec => []NoLeak
<1>1. SweepInv => NoLeak
  BY DEF SweepInv
<1> QED BY <1>1, SweepInvariance, PTL

\* InvalidateAll has closed, when it returns, all connections that were open when
\* it was called.
THEOREM SweepTheorem == Spec => []SweepReachesAll
<1>1. IndInv /\ SweepInv => SweepReachesAll
  BY DEF IndInv, TypeOK, SweepInv, SweepCovers, SweepReachesAll
<1> QED BY <1>1, SweepInvariance, PTL

(***************************************************************************)
(* Mutexes.                                                                *)
(***************************************************************************)
\* A run moves, and takes, keeps or gives back the mutex of its slot.
LEMMA RunMoves ==
  ASSUME IndInv, HoldersLetGo, NEW r \in Runs, NEW x, probe' = probe,
         client' = [client EXCEPT ![r] = x],
         \A s \in Sources :
           \/ lock'[s] = Nobody
           \/ lock'[s] = lock[s] /\ lock[s] # r
           \/ lock'[s] = r /\ x.pc \in {"opening", "leased"} /\ x.source = s
  PROVE  HoldersLetGo'
<1>1. client'[r] = x /\ \A q \in Runs : q # r => client'[q] = client[q]
  BY DEF IndInv, TypeOK
<1> SUFFICES ASSUME NEW s \in Sources, lock'[s] # Nobody PROVE HeldByItsUser(s)'
  BY DEF HoldersLetGo
<1>2. CASE lock'[s] = lock[s] /\ lock[s] # r
  BY <1>1, <1>2 DEF HoldersLetGo, HeldByItsUser
<1>3. CASE lock'[s] = r /\ x.pc \in {"opening", "leased"} /\ x.source = s
  BY <1>1, <1>3 DEF HeldByItsUser
<1> QED BY <1>2, <1>3

\* A probe moves, and takes or gives back the mutex of a slot.
LEMMA ProbeMoves ==
  ASSUME IndInv, HoldersLetGo, NEW q \in Probes, NEW x, client' = client,
         probe' = [probe EXCEPT ![q] = x],
         \A s \in Sources :
           \/ lock'[s] = Nobody
           \/ lock'[s] = lock[s] /\ lock[s] # q
           \/ lock'[s] = q /\ x.pc = "ping" /\ x.at = s
  PROVE  HoldersLetGo'
<1>1. probe'[q] = x /\ \A p \in Probes : p # q => probe'[p] = probe[p]
  BY DEF IndInv, TypeOK
<1> SUFFICES ASSUME NEW s \in Sources, lock'[s] # Nobody PROVE HeldByItsUser(s)'
  BY DEF HoldersLetGo
<1>2. CASE lock'[s] = lock[s] /\ lock[s] # q
  BY <1>1, <1>2 DEF HoldersLetGo, HeldByItsUser
<1>3. CASE lock'[s] = q /\ x.pc = "ping" /\ x.at = s
  BY <1>1, <1>3 DEF HeldByItsUser
<1> QED BY <1>2, <1>3

\* A run or a probe holds no mutex but that of the slot it is using.
LEMMA HoldsOnlyItsOwn ==
  ASSUME IndInv, HoldersLetGo, NEW s \in Sources
  PROVE  /\ \A r \in Runs : lock[s] = r =>
              client[r].pc \in {"opening", "leased"} /\ client[r].source = s
         /\ \A q \in Probes : lock[s] = q => probe[q].pc = "ping" /\ probe[q].at = s
BY DistinctAssumption DEF HoldersLetGo, HeldByItsUser

\* The steps of a run.
LEMMA RunStepHolds ==
  ASSUME IndInv, HoldersLetGo, NEW r \in Runs, RunStep(r)
  PROVE  HoldersLetGo'
<1>0. probe' = probe
  BY DEF RunStep, Lookup, Acquire, OpenOk, OpenFail, Release
<1>1. lock = [s \in Sources |-> lock[s]] BY DEF IndInv, TypeOK
<1>2. ASSUME NEW s \in Sources, NEW p \in Params, Lookup(r, s, p) PROVE HoldersLetGo'
  <2> DEFINE x == [pc |-> "wait", source |-> s, params |-> p, conn |-> NoConn]
  <2>1. client[r].pc = "out" /\ client' = [client EXCEPT ![r] = x] /\ lock' = lock
    BY <1>2 DEF Lookup
  <2>2. \A t \in Sources : lock[t] # r BY <2>1, HoldsOnlyItsOwn
  <2> HIDE DEF x
  <2> QED BY <1>0, <2>1, <2>2, RunMoves
<1>3. CASE Acquire(r)
  <2> DEFINE s == client[r].source
  <2>1. client[r].pc = "wait" /\ lock' = [lock EXCEPT ![s] = r] BY <1>3 DEF Acquire
  <2>2. s \in Sources BY <2>1 DEF IndInv, TypeOK, ClientShape
  <2>3. \E x : /\ client' = [client EXCEPT ![r] = x]
               /\ x.pc \in {"opening", "leased"} /\ x.source = s
    <3>1. CASE Reusable(ent[s], client[r].params)
      <4> DEFINE x == [pc |-> "leased", source |-> s, params |-> client[r].params,
                       conn |-> ent[s].src]
      <4>1. client' = [client EXCEPT ![r] = x] BY <1>3, <3>1 DEF Acquire
      <4>2. x.pc = "leased" /\ x.source = s OBVIOUS
      <4> QED BY <4>1, <4>2
    <3>2. CASE ~Reusable(ent[s], client[r].params)
      <4> DEFINE x == [pc |-> "opening", source |-> s, params |-> client[r].params,
                       conn |-> NoConn]
      <4>1. client' = [client EXCEPT ![r] = x] BY <1>3, <3>2 DEF Acquire
      <4>2. x.pc = "opening" /\ x.source = s OBVIOUS
      <4> QED BY <4>1, <4>2
    <3> QED BY <3>1, <3>2
  <2>4. \A t \in Sources : lock[t] # r BY <2>1, HoldsOnlyItsOwn
  <2> HIDE DEF s
  <2>5. \A t \in Sources : lock'[t] = IF t = s THEN r ELSE lock[t] BY <1>1, <2>1, <2>2
  <2>6. PICK x : /\ client' = [client EXCEPT ![r] = x]
                 /\ x.pc \in {"opening", "leased"} /\ x.source = s
    BY <2>3
  <2>7. \A t \in Sources : \/ lock'[t] = lock[t] /\ lock[t] # r
                           \/ lock'[t] = r /\ x.pc \in {"opening", "leased"} /\ x.source = t
    BY <2>4, <2>5, <2>6
  <2> QED BY <1>0, <2>6, <2>7, RunMoves
<1>4. CASE OpenOk(r)
  <2> DEFINE x(c) == [pc |-> "leased", source |-> client[r].source,
                      params |-> client[r].params, conn |-> c]
  <2>1. PICK c \in Conns : client' = [client EXCEPT ![r] = x(c)]
    BY <1>4 DEF OpenOk
  <2>2. x(c).pc = "leased" /\ x(c).source = client[r].source OBVIOUS
  <2>3. lock' = lock BY <1>4 DEF OpenOk
  <2> HIDE DEF x
  <2>4. \A t \in Sources : lock[t] = r => client[r].source = t BY HoldsOnlyItsOwn
  <2> QED BY <1>0, <2>1, <2>2, <2>3, <2>4, RunMoves
<1>5. ASSUME lock' = [lock EXCEPT ![client[r].source] = Nobody],
             client' = [client EXCEPT ![r] = OutClient]
      PROVE  HoldersLetGo'
  <2>1. \A t \in Sources : lock[t] = r => client[r].source = t BY HoldsOnlyItsOwn
  <2>2. \A t \in Sources : lock'[t] = IF t = client[r].source THEN Nobody ELSE lock[t]
    BY <1>1, <1>5
  <2> QED BY <1>0, <1>5, <2>1, <2>2, RunMoves
<1>6. CASE OpenFail(r) BY <1>5, <1>6 DEF OpenFail
<1>7. CASE \E invalidate \in BOOLEAN : Release(r, invalidate) BY <1>5, <1>7 DEF Release
<1> QED BY <1>2, <1>3, <1>4, <1>6, <1>7 DEF RunStep

\* The steps of a probe.
LEMMA ProbeStepHolds ==
  ASSUME IndInv, HoldersLetGo, NEW q \in Probes, ProbeStep(q)
  PROVE  HoldersLetGo'
<1>0. client' = client
  BY DEF ProbeStep, ProbeBegin, ProbeLock, ProbeUnlock, ProbeEnd
<1>1. lock = [s \in Sources |-> lock[s]] BY DEF IndInv, TypeOK
<1>2. CASE ProbeBegin(q) \/ ProbeEnd(q)
  <2>1. probe[q].pc \in {"idle", "next"} /\ lock' = lock
        /\ \E x : probe' = [probe EXCEPT ![q] = x]
    BY <1>2 DEF ProbeBegin, ProbeEnd
  <2>2. \A t \in Sources : lock[t] # q BY <2>1, HoldsOnlyItsOwn
  <2> QED BY <1>0, <2>1, <2>2, ProbeMoves
<1>3. ASSUME NEW s \in Sources, ProbeLock(q, s) PROVE HoldersLetGo'
  <2>1. /\ probe[q].pc = "next" /\ lock' = [lock EXCEPT ![s] = q]
        /\ probe' = [probe EXCEPT ![q] = [pc |-> "ping", todo |-> probe[q].todo \ {s}, at |-> s]]
    BY <1>3 DEF ProbeLock
  <2>2. \A t \in Sources : lock[t] # q BY <2>1, HoldsOnlyItsOwn
  <2>3. \A t \in Sources : lock'[t] = IF t = s THEN q ELSE lock[t] BY <1>1, <2>1
  <2>4. PICK x : x = [pc |-> "ping", todo |-> probe[q].todo \ {s}, at |-> s]
    OBVIOUS
  <2>5. probe' = [probe EXCEPT ![q] = x] /\ x.pc = "ping" /\ x.at = s
    BY <2>1, <2>4
  <2>6. \A t \in Sources : \/ lock'[t] = lock[t] /\ lock[t] # q
                           \/ lock'[t] = q /\ x.pc = "ping" /\ x.at = t
    BY <2>2, <2>3, <2>5
  <2> QED BY <1>0, <2>5, <2>6, ProbeMoves
<1>4. CASE ProbeUnlock(q)
  <2>1. /\ lock' = [lock EXCEPT ![probe[q].at] = Nobody]
        /\ \E x : probe' = [probe EXCEPT ![q] = x]
    BY <1>4 DEF ProbeUnlock
  <2>2. \A t \in Sources : lock[t] = q => probe[q].at = t BY HoldsOnlyItsOwn
  <2>3. \A t \in Sources : lock'[t] = IF t = probe[q].at THEN Nobody ELSE lock[t]
    BY <1>1, <2>1
  <2> QED BY <1>0, <2>1, <2>2, <2>3, ProbeMoves
<1> QED BY <1>2, <1>3, <1>4 DEF ProbeStep

\* A locked slot is held by a run or a probe that is using it, so that every
\* mutex is given back by a step its holder can take without another slot.
THEOREM HoldersTheorem == Spec => []HoldersLetGo
<1>1. Init => HoldersLetGo BY DEF Init, HoldersLetGo
<1>2. ASSUME IndInv, HoldersLetGo, [Next]_vars PROVE HoldersLetGo'
  <2>1. ASSUME UNCHANGED <<lock, client, probe>> PROVE HoldersLetGo'
    BY <1>2, <2>1 DEF HoldersLetGo, HeldByItsUser
  <2>2. ASSUME NEW w \in Sweepers, SweepStep(w) PROVE UNCHANGED <<lock, client, probe>>
    BY <2>2 DEF SweepStep, SweepBegin, SweepEnd, SweepClose
  <2>3. ASSUME NEW s \in Sources, Age(s) PROVE UNCHANGED <<lock, client, probe>>
    BY <2>3 DEF Age
  <2>4. CASE UNCHANGED vars BY <2>1, <2>4 DEF vars
  <2> QED BY <1>2, <2>1, <2>2, <2>3, <2>4, RunStepHolds, ProbeStepHolds DEF Next
<1> QED BY <1>1, <1>2, Invariance, PTL DEF Spec
=============================================================================
