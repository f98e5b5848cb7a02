----------------------------- MODULE LogProofs -----------------------------
(***************************************************************************)
(* Proofs about the two parts that change meta_log_entries: the handler    *)
(* that writes a row per log record, for any goroutines, callers of Close, *)
(* capacity and number of records; and the housekeeper that deletes old    *)
(* rows, of this table and of meta_load_runs, for any rows, retention,     *)
(* batch size, clock bound, ticks and callers.                             *)
(***************************************************************************)
EXTENDS LogHandler, Housekeeper, SequenceTheorems, TLAPS

(***************************************************************************)
(* The log handler.                                                        *)
(***************************************************************************)
\* A channel hands out first what went in first.
LEMMA HeadFirst ==
  ASSUME NEW S, NEW s \in Seq(S), s # <<>>
  PROVE  s = <<Head(s)>> \o Tail(s)
<1>1. Head(s) \in S /\ Tail(s) \in Seq(S) /\ Len(Tail(s)) = Len(s) - 1
  BY HeadTailProperties
<1>2. <<Head(s)>> \in Seq(S) /\ Len(<<Head(s)>>) = 1
  BY <1>1
<1>3. /\ <<Head(s)>> \o Tail(s) \in Seq(S)
      /\ Len(<<Head(s)>> \o Tail(s)) = Len(s)
  BY <1>1, <1>2, ConcatProperties
<1>4. \A i \in 1..Len(s) : (<<Head(s)>> \o Tail(s))[i] = s[i]
  BY <1>1, <1>2, <1>3
<1> QED BY <1>3, <1>4, SeqEqual

\* Nothing has been logged yet.
LEMMA LogInitInv == LogInit => LogInv
<1> SUFFICES ASSUME LogInit PROVE LogInv
  OBVIOUS
<1>1. <<>> \in Seq(Entries) /\ Len(<<>>) = 0
  BY EmptySeq
<1>2. sender \in [Senders -> [pc : {"out", "built", "send"}, n : 0..MaxRecords]]
  BY BufferAssumption DEF LogInit
<1>3. LogTypeOK
  <2>1. ch \in Seq(Entries) /\ Len(ch) <= Buffer
    BY <1>1, BufferAssumption DEF LogInit
  <2>2. hand \in Seq(Entries) /\ Len(hand) = (IF worker = "write" THEN 1 ELSE 0)
    BY <1>1 DEF LogInit
  <2>3. closer \in [Closers -> {"out", "swapped", "wait", "drained", "timeout"}]
    BY DEF LogInit
  <2>4. accepted \in Seq(Entries) /\ written \in Seq(Entries)
    BY <1>1 DEF LogInit
  <2> QED BY <1>2, <2>1, <2>2, <2>3, <2>4 DEF LogInit, LogTypeOK
<1>4. HandedOn
  BY <1>1, ConcatEmptySeq DEF LogInit, HandedOn
<1>5. DoneInv
  BY DEF LogInit, DoneInv
<1> QED BY <1>3, <1>4, <1>5 DEF LogInv

\* Steps of Handle that send nothing.
LEMMA HandleStep ==
  ASSUME LogInv, NEW g \in Senders, Base(g) \/ CheckClosed(g) \/ Panic(g)
  PROVE  LogInv'
<1>1. UNCHANGED <<ch, chClosed, closed, dropped, worker, hand, closer, accepted, written>>
  BY DEF Base, CheckClosed, Panic
<1>2. /\ sender' \in [Senders -> [pc : {"out", "built", "send"}, n : 0..MaxRecords]]
      /\ \A h \in Senders : sender'[h].pc # "out" => sender'[h].n > 0
  <2>1. CASE Base(g)
    <3>1. PICK pc \in {"built", "out"} :
            sender' = [sender EXCEPT ![g] = [pc |-> pc, n |-> sender[g].n + 1]]
      BY <2>1 DEF Base
    <3>2. sender[g].n + 1 \in 1..MaxRecords
      BY <2>1, BufferAssumption DEF Base, LogInv, LogTypeOK
    <3> QED BY <3>1, <3>2 DEF LogInv, LogTypeOK, DoneInv
  <2>2. CASE CheckClosed(g)
    <3>1. PICK pc \in {"send", "out"} :
            sender' = [sender EXCEPT ![g] = [pc |-> pc, n |-> sender[g].n]]
      BY <2>2 DEF CheckClosed
    <3>2. sender[g].n \in 0..MaxRecords /\ sender[g].n > 0
      BY <2>2 DEF CheckClosed, LogInv, LogTypeOK, DoneInv
    <3> QED BY <3>1, <3>2 DEF LogInv, LogTypeOK, DoneInv
  <2>3. CASE Panic(g)
    BY <2>3 DEF Panic, LogInv, LogTypeOK, DoneInv
  <2> QED BY <2>1, <2>2, <2>3
<1>3. proc' \in {"up", "panic", "exited"}
  BY DEF Base, CheckClosed, Panic, LogInv, LogTypeOK
<1>4. LogTypeOK'
  BY <1>1, <1>2, <1>3 DEF LogInv, LogTypeOK
<1>5. HandedOn' /\ DoneInv'
  BY <1>1, <1>2 DEF LogInv, HandedOn, DoneInv
<1> QED BY <1>4, <1>5 DEF LogInv

\* A send appends to the channel and to what was accepted alike, and needs a
\* channel that is open, so that the worker is not done.
LEMMA SendStep == ASSUME LogInv, NEW g \in Senders, Send(g) PROVE LogInv'
<1> DEFINE e == <<g, sender[g].n>>
<1>1. /\ sender' = [sender EXCEPT ![g] = [pc |-> "out", n |-> sender[g].n]]
      /\ UNCHANGED <<proc, chClosed, closed, worker, hand, closer, written>>
      /\ sender[g].pc = "send" /\ ~chClosed
  BY DEF Send
<1>2. sender[g].n \in 1..MaxRecords
  BY <1>1, BufferAssumption DEF LogInv, LogTypeOK, DoneInv
<1>3. e \in Entries
  BY <1>2 DEF Entries
<1>4. /\ sender' \in [Senders -> [pc : {"out", "built", "send"}, n : 0..MaxRecords]]
      /\ \A h \in Senders : sender'[h].pc # "out" => sender'[h].n > 0
  BY <1>1, <1>2 DEF LogInv, LogTypeOK, DoneInv
<1>5. /\ ch \in Seq(Entries) /\ hand \in Seq(Entries)
      /\ written \in Seq(Entries) /\ accepted \in Seq(Entries)
      /\ Len(ch) \in Nat /\ Buffer \in Nat /\ Len(ch) <= Buffer
  BY BufferAssumption, LenProperties DEF LogInv, LogTypeOK
<1>6. CASE Len(ch) < Buffer /\ Enqueue(e)
  <2> HIDE DEF e
  <2>1. ch' = Append(ch, e) /\ accepted' = Append(accepted, e) /\ dropped' = dropped
    BY <1>6 DEF Enqueue
  <2>2. ch' \in Seq(Entries) /\ Len(ch') <= Buffer /\ accepted' \in Seq(Entries)
    BY <1>3, <1>5, <1>6, <2>1, AppendProperties
  <2>3. LogTypeOK'
    BY <1>1, <1>4, <2>1, <2>2 DEF LogInv, LogTypeOK
  <2>4. HandedOn'
    <3>1. ch' = ch \o <<e>> /\ accepted' = accepted \o <<e>>
      BY <1>3, <1>5, <2>1, AppendIsConcat
    <3>2. <<e>> \in Seq(Entries) /\ written \o hand \in Seq(Entries)
      BY <1>3, <1>5, ConcatProperties
    <3>3. ((written \o hand) \o ch) \o <<e>> = (written \o hand) \o (ch \o <<e>>)
      <4> DEFINE w == written \o hand
      <4>1. w \in Seq(Entries)
        BY <3>2
      <4>2. ch \in Seq(Entries) /\ <<e>> \in Seq(Entries)
        BY <1>5, <3>2
      <4> HIDE DEF w
      <4>3. (w \o ch) \o <<e>> = w \o (ch \o <<e>>)
        BY <4>1, <4>2, ConcatAssociative
      <4> QED BY <4>3 DEF w
    <3> QED BY <1>1, <3>1, <3>3 DEF LogInv, HandedOn
  <2>5. DoneInv'
    BY <1>1, <1>4 DEF LogInv, DoneInv
  <2> QED BY <2>3, <2>4, <2>5 DEF LogInv
<1>7. CASE dropped' = dropped + 1 /\ UNCHANGED <<ch, accepted>>
  <2>1. LogTypeOK'
    BY <1>1, <1>4, <1>7 DEF LogInv, LogTypeOK
  <2>2. HandedOn' /\ DoneInv'
    BY <1>1, <1>4, <1>7 DEF LogInv, HandedOn, DoneInv
  <2> QED BY <2>1, <2>2 DEF LogInv
<1> QED BY <1>6, <1>7 DEF Send, Offer

\* The worker takes the head of the channel into its hand.
LEMMA ReceiveStep == ASSUME LogInv, Receive PROVE LogInv'
<1>1. /\ worker = "receive" /\ ch # <<>>
      /\ hand' = <<Head(ch)>> /\ ch' = Tail(ch) /\ worker' = "write"
      /\ UNCHANGED <<proc, chClosed, closed, dropped, sender, closer, accepted, written>>
  BY DEF Receive
<1>2. ch \in Seq(Entries) /\ written \in Seq(Entries) /\ hand \in Seq(Entries)
  BY DEF LogInv, LogTypeOK
<1>3. hand = <<>>
  BY <1>1, <1>2, EmptySeq DEF LogInv, LogTypeOK
<1>4. Head(ch) \in Entries /\ Tail(ch) \in Seq(Entries) /\ Len(Tail(ch)) = Len(ch) - 1
  BY <1>1, <1>2, HeadTailProperties
<1>5. <<Head(ch)>> \in Seq(Entries) /\ Len(<<Head(ch)>>) = 1
  BY <1>4
<1>6. Len(Tail(ch)) <= Buffer
  BY <1>2, <1>4, BufferAssumption, LenProperties DEF LogInv, LogTypeOK
<1>7. LogTypeOK'
  BY <1>1, <1>4, <1>5, <1>6 DEF LogInv, LogTypeOK
<1>8. HandedOn'
  <2>1. ch = <<Head(ch)>> \o Tail(ch)
    BY <1>1, <1>2, HeadFirst
  <2>2. written \o hand = written
    BY <1>2, <1>3, ConcatEmptySeq
  <2>3. (written \o <<Head(ch)>>) \o Tail(ch) = written \o (<<Head(ch)>> \o Tail(ch))
    BY <1>2, <1>4, <1>5, ConcatAssociative
  <2>4. accepted = written \o ch
    BY <2>2 DEF LogInv, HandedOn
  <2> QED BY <1>1, <2>1, <2>3, <2>4 DEF HandedOn
<1>9. DoneInv'
  BY <1>1 DEF LogInv, DoneInv
<1> QED BY <1>7, <1>8, <1>9 DEF LogInv

\* What was in its hand is handed to the writer.
LEMMA WriteStep == ASSUME LogInv, Write PROVE LogInv'
<1>1. /\ written' = written \o hand /\ hand' = <<>> /\ worker = "write" /\ worker' = "receive"
      /\ UNCHANGED <<proc, ch, chClosed, closed, dropped, sender, closer, accepted>>
  BY DEF Write
<1>2. written \in Seq(Entries) /\ hand \in Seq(Entries)
  BY DEF LogInv, LogTypeOK
<1>3. written \o hand \in Seq(Entries)
  BY <1>2, ConcatProperties
<1>4. <<>> \in Seq(Entries) /\ Len(<<>>) = 0
  BY EmptySeq
<1>5. LogTypeOK'
  BY <1>1, <1>3, <1>4 DEF LogInv, LogTypeOK
<1>6. HandedOn'
  <2>1. (written \o hand) \o <<>> = written \o hand
    BY <1>3, ConcatEmptySeq
  <2> QED BY <1>1, <2>1 DEF LogInv, HandedOn
<1>7. DoneInv'
  BY <1>1 DEF LogInv, DoneInv
<1> QED BY <1>5, <1>6, <1>7 DEF LogInv

\* The range ends only on a closed and empty channel, and Close returns as
\* drained only after it; other steps of Close and the exit move no entry.
LEMMA CloseSteps ==
  ASSUME LogInv,
         \/ WorkerDone \/ Exit
         \/ \E c \in Closers : Swap(c) \/ CloseChannel(c) \/ WaitDone(c) \/ Timeout(c)
  PROVE  LogInv'
<1>1. UNCHANGED <<ch, dropped, sender, hand, accepted, written>>
  BY DEF WorkerDone, Exit, Swap, CloseChannel, WaitDone, Timeout
<1>2. /\ proc' \in {"up", "panic", "exited"} /\ chClosed' \in BOOLEAN /\ closed' \in BOOLEAN
      /\ worker' \in {"receive", "write", "done"}
      /\ worker' = "write" <=> worker = "write"
  BY DEF LogInv, LogTypeOK, WorkerDone, Exit, Swap, CloseChannel, WaitDone, Timeout
<1>3. closer' \in [Closers -> {"out", "swapped", "wait", "drained", "timeout"}]
  BY DEF LogInv, LogTypeOK, WorkerDone, Exit, Swap, CloseChannel, WaitDone, Timeout
<1>4. LogTypeOK'
  BY <1>1, <1>2, <1>3 DEF LogInv, LogTypeOK
<1>5. HandedOn'
  BY <1>1 DEF LogInv, HandedOn
<1>6. worker' = "done" => chClosed' /\ ch' = <<>>
  BY DEF LogInv, DoneInv, WorkerDone, RangeOver, Exit, Swap, CloseChannel, WaitDone, Timeout
<1>7. \A d \in Closers : closer'[d] = "drained" => worker' = "done"
  <2>1. CASE WorkerDone \/ Exit
    BY <2>1 DEF LogInv, DoneInv, WorkerDone, Exit
  <2>2. ASSUME NEW c \in Closers, Swap(c) \/ CloseChannel(c) \/ WaitDone(c) \/ Timeout(c)
        PROVE  \A d \in Closers : closer'[d] = "drained" => worker' = "done"
    BY <2>2 DEF LogInv, LogTypeOK, DoneInv, Swap, CloseChannel, WaitDone, Timeout
  <2> QED BY <2>1, <2>2
<1>8. DoneInv'
  BY <1>1, <1>6, <1>7 DEF LogInv, DoneInv
<1> QED BY <1>4, <1>5, <1>8 DEF LogInv

\* LogInv holds always.
THEOREM LogInvariance == LogSpec => []LogInv
<1>1. ASSUME LogInv, [LogNext]_logVars PROVE LogInv'
  <2>1. CASE UNCHANGED logVars
    BY <1>1, <2>1 DEF logVars, LogInv, LogTypeOK, HandedOn, DoneInv
  <2>2. CASE \E g \in Senders : Base(g) \/ Handle(g)
    BY <1>1, <2>2, HandleStep, SendStep DEF Handle
  <2>3. CASE Receive \/ Write
    BY <1>1, <2>3, ReceiveStep, WriteStep
  <2>4. CASE WorkerDone \/ Exit \/ \E c \in Closers : Swap(c) \/ CloseStep(c)
    BY <1>1, <2>4, CloseSteps DEF CloseStep
  <2> QED BY <1>1, <2>1, <2>2, <2>3, <2>4 DEF LogNext
<1> QED BY <1>1, LogInitInv, PTL DEF LogSpec

\* A step that accepts nothing keeps the order, as long as no goroutine goes
\* back in its records.
LEMMA NothingAccepted ==
  ASSUME LogInv, OrderInv, accepted' = accepted,
         \A g \in Senders : \/ sender'[g].n = sender[g].n /\ sender'[g].pc = "out"
                            \/ sender'[g].n = sender[g].n /\ sender[g].pc # "out"
                            \/ sender'[g].n = sender[g].n + 1
  PROVE  OrderInv'
<1>1. AsLogged' BY DEF OrderInv, AsLogged
<1>2. ASSUME NEW i \in 1..Len(accepted), NEW g \in Senders, accepted[i][1] = g
      PROVE  /\ accepted[i][2] <= sender'[g].n
             /\ sender'[g].pc # "out" => accepted[i][2] < sender'[g].n
  <2>1. accepted[i] \in Entries BY DEF LogInv, LogTypeOK
  <2>2. accepted[i][2] \in Nat BY <2>1, BufferAssumption DEF Entries
  <2>3. sender[g].n \in Nat BY BufferAssumption DEF LogInv, LogTypeOK
  <2>4. /\ accepted[i][2] <= sender[g].n
        /\ sender[g].pc # "out" => accepted[i][2] < sender[g].n
    BY <1>2 DEF OrderInv, LoggedSoFar
  <2> QED BY <2>2, <2>3, <2>4
<1> QED BY <1>1, <1>2 DEF OrderInv, LoggedSoFar

\* The record that is accepted is later than every earlier one of its goroutine.
LEMMA RecordAccepted ==
  ASSUME LogInv, OrderInv, NEW g \in Senders, sender[g].pc = "send",
         sender' = [sender EXCEPT ![g] = [pc |-> "out", n |-> sender[g].n]],
         accepted' = Append(accepted, <<g, sender[g].n>>)
  PROVE  OrderInv'
<1>1. PICK e : e = <<g, sender[g].n>> OBVIOUS
<1>2. e[1] = g /\ e[2] = sender[g].n BY <1>1
<1>3. /\ accepted \in Seq(Entries) /\ Len(accepted) \in Nat
      /\ \A h \in Senders : sender[h].n \in Nat
  BY BufferAssumption, LenProperties DEF LogInv, LogTypeOK
<1>4. \A i \in 1..Len(accepted) : accepted[i][2] \in Nat
  BY <1>3, BufferAssumption DEF Entries
<1>5. /\ Len(accepted') = Len(accepted) + 1 /\ accepted'[Len(accepted) + 1] = e
      /\ \A i \in 1..Len(accepted) : accepted'[i] = accepted[i]
  BY <1>1, <1>3
<1>6. \A i \in 1..Len(accepted') : i \in 1..Len(accepted) \/ i = Len(accepted) + 1
  BY <1>3, <1>5
<1>7. \A i \in 1..Len(accepted) : accepted[i][1] = g => accepted[i][2] < e[2]
  BY <1>2 DEF OrderInv, LoggedSoFar
<1>8. AsLogged'
  <2> SUFFICES ASSUME NEW i \in 1..Len(accepted'), NEW j \in 1..Len(accepted'), i < j,
                      accepted'[i][1] = accepted'[j][1]
               PROVE  accepted'[i][2] < accepted'[j][2]
    BY DEF AsLogged
  <2>1. i \in 1..Len(accepted) /\ accepted'[i] = accepted[i] BY <1>3, <1>5, <1>6
  <2>2. CASE j \in 1..Len(accepted)
    <3>1. accepted'[j] = accepted[j] BY <1>5, <2>2
    <3> QED BY <2>1, <2>2, <3>1 DEF OrderInv, AsLogged
  <2>3. CASE j = Len(accepted) + 1
    <3>1. accepted'[j] = e BY <1>5, <2>3
    <3> QED BY <1>2, <1>7, <2>1, <3>1
  <2> QED BY <1>6, <2>2, <2>3
<1>9. LoggedSoFar'
  <2> SUFFICES ASSUME NEW i \in 1..Len(accepted'), NEW h \in Senders, accepted'[i][1] = h
               PROVE  /\ accepted'[i][2] <= sender'[h].n
                      /\ sender'[h].pc # "out" => accepted'[i][2] < sender'[h].n
    BY DEF LoggedSoFar
  <2>1. /\ sender'[g].pc = "out" /\ sender'[g].n = sender[g].n
        /\ h # g => sender'[h] = sender[h]
    BY DEF LogInv, LogTypeOK
  <2>2. CASE i \in 1..Len(accepted)
    <3>1. accepted'[i] = accepted[i] BY <1>5, <2>2
    <3>2. /\ accepted[i][2] <= sender[h].n
          /\ sender[h].pc # "out" => accepted[i][2] < sender[h].n
      BY <2>2, <3>1 DEF OrderInv, LoggedSoFar
    <3> QED BY <2>1, <3>1, <3>2
  <2>3. CASE i = Len(accepted) + 1
    <3>1. accepted'[i] = e BY <1>5, <2>3
    <3> QED BY <1>2, <1>3, <2>1, <3>1
  <2> QED BY <1>6, <2>2, <2>3
<1> QED BY <1>8, <1>9 DEF OrderInv

\* Every step keeps the order of each goroutine's records.
LEMMA OrderStep == ASSUME LogInv, OrderInv, [LogNext]_logVars PROVE OrderInv'
<1>1. ASSUME UNCHANGED <<accepted, sender>> PROVE OrderInv'
  BY <1>1 DEF OrderInv, AsLogged, LoggedSoFar
<1>2. ASSUME NEW g \in Senders, Base(g) PROVE OrderInv'
  <2>1. PICK pc \in {"built", "out"} :
          sender' = [sender EXCEPT ![g] = [pc |-> pc, n |-> sender[g].n + 1]]
    BY <1>2 DEF Base
  <2>2. /\ sender'[g].n = sender[g].n + 1
        /\ \A h \in Senders \ {g} : sender'[h] = sender[h]
    BY <2>1 DEF LogInv, LogTypeOK
  <2>3. accepted' = accepted BY <1>2 DEF Base
  <2> QED BY <2>2, <2>3, NothingAccepted
<1>3. ASSUME NEW g \in Senders, CheckClosed(g) PROVE OrderInv'
  <2>1. /\ sender[g].pc # "out" /\ accepted' = accepted /\ sender'[g].n = sender[g].n
        /\ \A h \in Senders \ {g} : sender'[h] = sender[h]
    BY <1>3 DEF CheckClosed, LogInv, LogTypeOK
  <2> QED BY <2>1, NothingAccepted
<1>4. ASSUME NEW g \in Senders, Send(g) PROVE OrderInv'
  <2>1. sender[g].pc = "send"
        /\ sender' = [sender EXCEPT ![g] = [pc |-> "out", n |-> sender[g].n]]
    BY <1>4 DEF Send
  <2>2. CASE accepted' = Append(accepted, <<g, sender[g].n>>)
    BY <2>1, <2>2, RecordAccepted
  <2>3. CASE accepted' = accepted
    <3>1. /\ sender'[g].n = sender[g].n /\ sender'[g].pc = "out"
          /\ \A h \in Senders \ {g} : sender'[h] = sender[h]
      BY <2>1 DEF LogInv, LogTypeOK
    <3> QED BY <2>3, <3>1, NothingAccepted
  <2> QED BY <1>4, <2>2, <2>3 DEF Send, Offer, Enqueue
<1>5. CASE \E g \in Senders : Panic(g) BY <1>1, <1>5 DEF Panic
<1>6. CASE Receive \/ Write \/ WorkerDone \/ Exit
  BY <1>1, <1>6 DEF Receive, Write, WorkerDone, Exit
<1>7. CASE \E c \in Closers : Swap(c) \/ CloseStep(c)
  BY <1>1, <1>7 DEF Swap, CloseStep, CloseChannel, WaitDone, Timeout
<1>8. CASE UNCHANGED logVars BY <1>1, <1>8 DEF logVars
<1> QED BY <1>2, <1>3, <1>4, <1>5, <1>6, <1>7, <1>8 DEF LogNext, Handle

\* The database gets each goroutine's records in the order in which they were
\* logged, none twice, and all that the channel accepted.
THEOREM InOrderTheorem == LogSpec => []AcceptedInOrder
<1>1. LogInit => OrderInv
  <2>1. ASSUME LogInit PROVE 1..Len(accepted) = {} BY <2>1, EmptySeq DEF LogInit
  <2> QED BY <2>1 DEF OrderInv, AsLogged, LoggedSoFar
<1>2. LogInv /\ OrderInv => AcceptedInOrder BY DEF LogInv, OrderInv, AcceptedInOrder
<1>3. LogInv /\ OrderInv /\ [LogNext]_logVars => OrderInv' BY OrderStep
<1> QED BY <1>1, <1>2, <1>3, LogInvariance, PTL DEF LogSpec

\* A Close that drained has lost nothing that was accepted.
THEOREM DrainedTheorem == LogSpec => []DrainedIsComplete
<1>1. ASSUME LogInv PROVE DrainedIsComplete
  <2> SUFFICES ASSUME NEW c \in Closers, closer[c] = "drained" PROVE written = accepted
    BY DEF DrainedIsComplete
  <2>1. worker = "done" /\ ch = <<>>
    BY <1>1 DEF LogInv, DoneInv
  <2>2. written \in Seq(Entries) /\ hand = <<>>
    BY <1>1, <2>1, EmptySeq DEF LogInv, LogTypeOK
  <2> QED BY <1>1, <2>1, <2>2, ConcatEmptySeq DEF LogInv, HandedOn
<1> QED BY <1>1, LogInvariance, PTL

(***************************************************************************)
(* The housekeeper.                                                        *)
(***************************************************************************)
\* New gives the housekeeper a positive batch size, so that a loop that deletes
\* full batches comes to an end.
LEMMA InitTyped == Init => TypeOK
<1> SUFFICES ASSUME Init PROVE TypeOK
  OBVIOUS
<1>1. cfg \in [log : Int, run : Int, batch : Nat \ {0}]
  <2>1. PICK c \in Configs : cfg = [c EXCEPT !.batch = BatchOf(c)]
    BY DEF Init
  <2>2. c \in [log : Int, run : Int, batch : Int]
    BY HousekeeperAssumption
  <2>3. BatchOf(c) \in Nat \ {0}
    BY <2>2, HousekeeperAssumption DEF BatchOf
  <2> QED BY <2>1, <2>2, <2>3
<1>2. day \in Days
  BY HousekeeperAssumption DEF Init, Days
<1>3. logs \in [LogRows -> Days \cup {Unwritten}]
  BY DEF Init
<1>4. runs \in [RunRows -> [day : Days \cup {Unwritten}, terminal : BOOLEAN]]
  BY DEF Init
<1>5. exec \in [Executions -> [pc : {"out", "fired", "logs", "runs", "end"}, cutoff : Int]]
  BY DEF Init, Out, Unwritten
<1> QED BY <1>1, <1>2, <1>3, <1>4, <1>5 DEF Init, TypeOK

\* Nothing is under way at first.
LEMMA InitInv == Init => IndInv
<1> SUFFICES ASSUME Init PROVE IndInv
  OBVIOUS
<1>1. \A e \in Executions : exec[e].pc = "out"
  BY DEF Init, Out
<1>2. SingleSweep /\ CutoffInv
  BY <1>1 DEF Init, SingleSweep, CutoffInv, Sweeping
<1> QED BY InitTyped, <1>2 DEF IndInv

\* The two places an execution may go to are typed, and satisfy CutoffInv.
LEMMA NextPlace ==
  ASSUME TypeOK
  PROVE  /\ AtRuns \in [pc : {"runs", "end"}, cutoff : Int]
         /\ AtRuns.pc = "runs" => cfg.run > 0 /\ AtRuns.cutoff <= day - cfg.run
         /\ AtLogs \in [pc : {"logs", "runs", "end"}, cutoff : Int]
         /\ AtLogs.pc = "logs" => cfg.log > 0 /\ AtLogs.cutoff <= day - cfg.log
         /\ AtLogs.pc = "runs" => cfg.run > 0 /\ AtLogs.cutoff <= day - cfg.run
<1>1. day \in Int /\ cfg.log \in Int /\ cfg.run \in Int
  BY HousekeeperAssumption DEF TypeOK, Days
<1> QED BY <1>1 DEF AtRuns, AtLogs, Unwritten

\* An execution that is sweeping and goes on to another table, or to the end,
\* keeps the invariant.
LEMMA Moves ==
  ASSUME IndInv, NEW e \in Executions, e \in Sweeping,
         NEW x \in [pc : {"logs", "runs", "end"}, cutoff : Int],
         exec' = [exec EXCEPT ![e] = x],
         x.pc = "logs" => cfg.log > 0 /\ x.cutoff <= day - cfg.log,
         x.pc = "runs" => cfg.run > 0 /\ x.cutoff <= day - cfg.run,
         gone' \in SUBSET (LogRows \cup RunRows),
         UNCHANGED <<day, cfg, logs, runs, running, cancelled, stop>>
  PROVE  IndInv'
<1>1. exec \in [Executions -> [pc : {"out", "fired", "logs", "runs", "end"}, cutoff : Int]]
  BY DEF IndInv, TypeOK
<1>2. exec' \in [Executions -> [pc : {"out", "fired", "logs", "runs", "end"}, cutoff : Int]]
  BY <1>1
<1>3. TypeOK'
  BY <1>2 DEF IndInv, TypeOK
<1>4. exec'[e] = x /\ \A f \in Executions \ {e} : exec'[f] = exec[f]
  BY <1>1
<1>5. Sweeping' = Sweeping
  BY <1>4 DEF Sweeping
<1>6. SingleSweep'
  BY <1>5 DEF IndInv, SingleSweep
<1>7. CutoffInv'
  BY <1>4 DEF IndInv, CutoffInv
<1> QED BY <1>3, <1>6, <1>7 DEF IndInv

\* The same for a step of an execution that is not sweeping, before or after.
LEMMA Rests ==
  ASSUME IndInv, NEW e \in Executions, e \notin Sweeping,
         NEW x \in [pc : {"out", "fired"}, cutoff : Int],
         exec' = [exec EXCEPT ![e] = x],
         UNCHANGED <<day, cfg, logs, runs, gone, running, cancelled, stop>>
  PROVE  IndInv'
<1>1. exec \in [Executions -> [pc : {"out", "fired", "logs", "runs", "end"}, cutoff : Int]]
  BY DEF IndInv, TypeOK
<1>2. exec' \in [Executions -> [pc : {"out", "fired", "logs", "runs", "end"}, cutoff : Int]]
  BY <1>1
<1>3. TypeOK'
  BY <1>2 DEF IndInv, TypeOK
<1>4. exec'[e] = x /\ \A f \in Executions \ {e} : exec'[f] = exec[f]
  BY <1>1
<1>5. Sweeping' = Sweeping
  BY <1>4 DEF Sweeping
<1>6. SingleSweep'
  BY <1>5 DEF IndInv, SingleSweep
<1>7. CutoffInv'
  BY <1>4 DEF IndInv, CutoffInv
<1> QED BY <1>3, <1>6, <1>7 DEF IndInv

\* The locked check lets an execution in only when no other is sweeping.
LEMMA StartStep == ASSUME IndInv, NEW e \in Executions, Start(e) PROVE IndInv'
<1>1. exec[e].pc = "fired" /\ e \notin Sweeping
  BY DEF Start, Sweeping
<1>2. CASE ~MayStart
  <2>1. Out \in [pc : {"out", "fired"}, cutoff : Int]
    BY DEF Out, Unwritten
  <2>2. /\ exec' = [exec EXCEPT ![e] = Out]
        /\ UNCHANGED <<day, cfg, logs, runs, gone, running, cancelled, stop>>
    BY <1>2 DEF Start
  <2> QED BY <1>1, <2>1, <2>2, Rests
<1>3. CASE MayStart
  <2>1. /\ running' = TRUE /\ exec' = [exec EXCEPT ![e] = AtLogs]
        /\ UNCHANGED <<day, cfg, logs, runs, gone, cancelled, stop>>
    BY <1>3 DEF Start
  <2>2. Sweeping = {}
    BY <1>3 DEF IndInv, SingleSweep, MayStart
  <2>3. exec \in [Executions -> [pc : {"out", "fired", "logs", "runs", "end"}, cutoff : Int]]
    BY DEF IndInv, TypeOK
  <2>4. AtLogs \in [pc : {"logs", "runs", "end"}, cutoff : Int]
    BY NextPlace DEF IndInv
  <2>5. exec'[e] = AtLogs /\ \A f \in Executions \ {e} : exec'[f] = exec[f]
    BY <2>1, <2>3
  <2>6. TypeOK'
    BY <2>1, <2>3, <2>4 DEF IndInv, TypeOK
  <2>7. Sweeping' = {e}
    BY <2>2, <2>4, <2>5 DEF Sweeping
  <2>8. SingleSweep'
    BY <2>1, <2>7 DEF SingleSweep
  <2>9. CutoffInv'
    BY <2>1, <2>5, NextPlace DEF IndInv, CutoffInv
  <2> QED BY <2>6, <2>8, <2>9 DEF IndInv
<1> QED BY <1>2, <1>3

\* After a table comes a place that satisfies the invariant.
LEMMA AfterPlace ==
  ASSUME TypeOK, NEW e \in Executions, exec[e].pc \in {"logs", "runs"}
  PROVE  /\ After(exec[e]) \in [pc : {"runs", "end"}, cutoff : Int]
         /\ After(exec[e]).pc = "runs" =>
              cfg.run > 0 /\ After(exec[e]).cutoff <= day - cfg.run
<1>1. CASE exec[e].pc = "logs"
  BY <1>1, NextPlace DEF After
<1>2. CASE exec[e].pc = "runs"
  BY <1>2 DEF After, Unwritten
<1> QED BY <1>1, <1>2

\* A DELETE, whether it is the last of its table or not.
LEMMA PruneStep ==
  ASSUME IndInv, NEW e \in Executions, Prune(e) \/ PruneFails(e) PROVE IndInv'
<1>1. exec[e].pc \in {"logs", "runs"} /\ e \in Sweeping
  BY DEF Prune, PruneFails, Sweeping
<1>2. exec[e] \in [pc : {"out", "fired", "logs", "runs", "end"}, cutoff : Int]
  BY DEF IndInv, TypeOK
<1>3. exec[e] \in [pc : {"logs", "runs", "end"}, cutoff : Int]
  BY <1>1, <1>2
<1>4. gone' \in SUBSET (LogRows \cup RunRows)
  <2>1. Prunable(exec[e]) \subseteq LogRows \cup RunRows
    BY DEF Prunable, PrunableLogs, PrunableRuns
  <2>2. gone \in SUBSET (LogRows \cup RunRows)
    BY DEF IndInv, TypeOK
  <2> QED BY <2>1, <2>2 DEF Prune, PruneFails
<1>5. UNCHANGED <<day, cfg, logs, runs, running, cancelled, stop>>
  BY DEF Prune, PruneFails
<1>6. PICK x \in {After(exec[e]), exec[e]} : exec' = [exec EXCEPT ![e] = x]
  BY DEF Prune, PruneFails
<1>7. x \in [pc : {"logs", "runs", "end"}, cutoff : Int]
  BY <1>1, <1>3, <1>6, AfterPlace DEF IndInv
<1>8. /\ x.pc = "logs" => cfg.log > 0 /\ x.cutoff <= day - cfg.log
      /\ x.pc = "runs" => cfg.run > 0 /\ x.cutoff <= day - cfg.run
  BY <1>1, <1>6, AfterPlace DEF IndInv, CutoffInv
<1> QED BY <1>1, <1>4, <1>5, <1>6, <1>7, <1>8, Moves

\* The deferred function resets the flag of the only execution that swept.
LEMMA EndStep == ASSUME IndInv, NEW e \in Executions, End(e) PROVE IndInv'
<1>1. /\ exec[e].pc = "end" /\ running' = FALSE /\ exec' = [exec EXCEPT ![e] = Out]
      /\ UNCHANGED <<day, cfg, logs, runs, gone, cancelled, stop>>
  BY DEF End
<1>2. exec \in [Executions -> [pc : {"out", "fired", "logs", "runs", "end"}, cutoff : Int]]
  BY DEF IndInv, TypeOK
<1>3. exec'[e] = Out /\ \A f \in Executions \ {e} : exec'[f] = exec[f]
  BY <1>1, <1>2
<1>4. Out \in [pc : {"out"}, cutoff : Int]
  BY DEF Out, Unwritten
<1>5. TypeOK'
  BY <1>1, <1>2, <1>4 DEF IndInv, TypeOK
<1>6. Sweeping = {e}
  BY <1>1 DEF IndInv, SingleSweep, Sweeping
<1>7. Sweeping' = {}
  BY <1>3, <1>4, <1>6 DEF Sweeping
<1>8. SingleSweep'
  BY <1>1, <1>7 DEF SingleSweep
<1>9. CutoffInv'
  BY <1>1, <1>3, <1>4 DEF IndInv, CutoffInv
<1> QED BY <1>5, <1>8, <1>9 DEF IndInv

\* A new execution waits for the lock.
LEMMA FireStep == ASSUME IndInv, NEW e \in Executions, Fire(e) PROVE IndInv'
<1>1. e \notin Sweeping
  BY DEF Fire, Sweeping
<1>2. [pc |-> "fired", cutoff |-> Unwritten] \in [pc : {"out", "fired"}, cutoff : Int]
  BY DEF Unwritten
<1>3. /\ exec' = [exec EXCEPT ![e] = [pc |-> "fired", cutoff |-> Unwritten]]
      /\ UNCHANGED <<day, cfg, logs, runs, gone, running, cancelled, stop>>
  BY DEF Fire
<1> QED BY <1>1, <1>2, <1>3, Rests

\* Steps of the loader, of callers and of main touch no execution; a day that
\* passes only makes cutoffs older.
LEMMA OtherSteps ==
  ASSUME IndInv,
         \/ DayPasses \/ Stop \/ StopDrained \/ StopTimeout
         \/ \E i \in LogRows : LogWritten(i)
         \/ \E r \in RunRows : RunStarted(r) \/ RunFinished(r)
         \/ \E e \in Executions : Cancel(e)
  PROVE  IndInv'
<1>1. UNCHANGED <<cfg, gone, running, exec>>
  BY DEF DayPasses, Stop, StopDrained, StopTimeout, LogWritten, RunStarted, RunFinished, Cancel
<1>2. day' \in Days /\ day' >= day
  BY HousekeeperAssumption DEF IndInv, TypeOK, Days, DayPasses, Stop, StopDrained, StopTimeout,
     LogWritten, RunStarted, RunFinished, Cancel
<1>3. /\ logs' \in [LogRows -> Days \cup {Unwritten}]
      /\ runs' \in [RunRows -> [day : Days \cup {Unwritten}, terminal : BOOLEAN]]
  <2>1. CASE \E i \in LogRows : LogWritten(i)
    BY <2>1 DEF IndInv, TypeOK, LogWritten
  <2>2. ASSUME NEW r \in RunRows, RunStarted(r) \/ RunFinished(r)
        PROVE  /\ logs' = logs
               /\ runs' \in [RunRows -> [day : Days \cup {Unwritten}, terminal : BOOLEAN]]
    <3>1. PICK d \in Days \cup {Unwritten}, b \in BOOLEAN :
            runs' = [runs EXCEPT ![r] = [day |-> d, terminal |-> b]]
      BY <2>2 DEF IndInv, TypeOK, RunStarted, RunFinished
    <3> QED BY <2>2, <3>1 DEF IndInv, TypeOK, RunStarted, RunFinished
  <2>3. CASE \/ DayPasses \/ Stop \/ StopDrained \/ StopTimeout
             \/ \E e \in Executions : Cancel(e)
    BY <2>3 DEF IndInv, TypeOK, DayPasses, Stop, StopDrained, StopTimeout, Cancel
  <2> QED BY <2>1, <2>2, <2>3 DEF IndInv, TypeOK
<1>4. cancelled' \in SUBSET Callers /\ stop' \in {"no", "wait", "drained", "timeout"}
  BY DEF IndInv, TypeOK, DayPasses, Stop, StopDrained, StopTimeout, LogWritten, RunStarted,
     RunFinished, Cancel
<1>5. TypeOK'
  BY <1>1, <1>2, <1>3, <1>4 DEF IndInv, TypeOK
<1>6. SingleSweep'
  BY <1>1 DEF IndInv, SingleSweep, Sweeping
<1>7. CutoffInv'
  <2>1. day \in Int /\ day' \in Int /\ cfg.log \in Int /\ cfg.run \in Int
    BY <1>2, HousekeeperAssumption DEF IndInv, TypeOK, Days
  <2>2. \A e \in Executions : exec[e].cutoff \in Int
    BY DEF IndInv, TypeOK
  <2> QED BY <1>1, <1>2, <2>1, <2>2 DEF IndInv, CutoffInv
<1> QED BY <1>5, <1>6, <1>7 DEF IndInv

\* IndInv holds always: one sweep at a time, with cutoffs that allow for the
\* retention.
THEOREM Invariance == Spec => []IndInv
<1>1. ASSUME IndInv, [Next]_vars PROVE IndInv'
  <2>1. CASE UNCHANGED vars
    BY <1>1, <2>1 DEF vars, IndInv, TypeOK, SingleSweep, Sweeping, CutoffInv
  <2>2. CASE \E e \in Executions : Start(e)
    BY <1>1, <2>2, StartStep
  <2>3. CASE \E e \in Executions : Prune(e) \/ PruneFails(e)
    BY <1>1, <2>3, PruneStep
  <2>4. CASE \E e \in Executions : End(e)
    BY <1>1, <2>4, EndStep
  <2>5. CASE \E e \in Executions : Fire(e)
    BY <1>1, <2>5, FireStep
  <2> QED BY <1>1, <2>1, <2>2, <2>3, <2>4, <2>5, OtherSteps DEF Next
<1> QED BY <1>1, InitInv, PTL DEF Spec

\* Ticks and calls of RunNow never prune side by side.
THEOREM SingleSweepTheorem == Spec => []SingleSweep
<1>1. IndInv => SingleSweep
  BY DEF IndInv
<1> QED BY <1>1, Invariance, PTL

\* What a DELETE may take is past its retention, also when the cutoff was
\* computed days before.
LEMMA PrunableExpired ==
  ASSUME IndInv, NEW e \in Executions, exec[e].pc \in {"logs", "runs"},
         NEW x \in Prunable(exec[e])
  PROVE  \/ /\ x \in LogRows /\ cfg.log > 0
            /\ logs[x] # Unwritten /\ day - logs[x] > cfg.log
         \/ /\ x \in RunRows /\ cfg.run > 0 /\ runs[x].terminal
            /\ runs[x].day # Unwritten /\ day - runs[x].day > cfg.run
<1>1. day \in Int /\ cfg.log \in Int /\ cfg.run \in Int /\ exec[e].cutoff \in Int
  BY HousekeeperAssumption DEF IndInv, TypeOK, Days
<1>2. CASE exec[e].pc = "logs"
  <2>1. x \in LogRows /\ logs[x] # Unwritten /\ logs[x] < exec[e].cutoff
    BY <1>2 DEF Prunable, PrunableLogs
  <2>2. logs[x] \in Int
    BY <2>1, HousekeeperAssumption DEF IndInv, TypeOK, Days, Unwritten
  <2> QED BY <1>1, <1>2, <2>1, <2>2 DEF IndInv, CutoffInv
<1>3. CASE exec[e].pc = "runs"
  <2>1. /\ x \in RunRows /\ runs[x].terminal
        /\ runs[x].day # Unwritten /\ runs[x].day < exec[e].cutoff
    BY <1>3 DEF Prunable, PrunableRuns
  <2>2. runs[x].day \in Int
    BY <2>1, HousekeeperAssumption DEF IndInv, TypeOK, Days, Unwritten
  <2> QED BY <1>1, <1>3, <2>1, <2>2 DEF IndInv, CutoffInv
<1> QED BY <1>2, <1>3

\* Only rows past an enabled retention are deleted, and runs only once they are
\* over.
THEOREM OnlyExpiredTheorem == Spec => OnlyExpiredGo
<1> DEFINE Expired ==
      \A x \in gone' \ gone :
        \/ /\ x \in LogRows /\ cfg.log > 0
           /\ logs[x] # Unwritten /\ day - logs[x] > cfg.log
        \/ /\ x \in RunRows /\ cfg.run > 0 /\ runs[x].terminal
           /\ runs[x].day # Unwritten /\ day - runs[x].day > cfg.run
<1>1. ASSUME IndInv, [Next]_vars PROVE [Expired]_vars
  <2>1. CASE \E e \in Executions : Prune(e)
    <3>1. PICK e \in Executions : Prune(e)
      BY <2>1
    <3>2. exec[e].pc \in {"logs", "runs"} /\ gone' \ gone \subseteq Prunable(exec[e])
      BY <3>1 DEF Prune
    <3> QED BY <1>1, <3>2, PrunableExpired
  <2>2. CASE gone' = gone
    BY <2>2
  <2>3. gone' = gone \/ \E e \in Executions : Prune(e)
    BY <1>1 DEF Next, vars, DayPasses, Stop, StopDrained, StopTimeout, LogWritten, RunStarted,
       RunFinished, Fire, Cancel, Start, PruneFails, End
  <2> QED BY <2>1, <2>2, <2>3
<1> QED BY <1>1, Invariance, PTL DEF Spec, OnlyExpiredGo

\* A DELETE that removed fewer rows than a batch removed all there were, so that
\* a sweep leaves nothing past its cutoff behind.
THEOREM SweptCleanTheorem == Spec => SweptClean
<1> DEFINE Clean ==
      \A e \in Executions :
        Prune(e) /\ exec'[e].pc # exec[e].pc => Prunable(exec[e]) \subseteq gone'
<1>1. ASSUME IndInv PROVE Clean
  <2> SUFFICES ASSUME NEW e \in Executions, Prune(e), exec'[e].pc # exec[e].pc
               PROVE  Prunable(exec[e]) \subseteq gone'
    OBVIOUS
  <2>1. PICK batch \in SUBSET Prunable(exec[e]) :
          /\ \/ batch = Prunable(exec[e]) /\ Cardinality(batch) <= cfg.batch
             \/ Cardinality(batch) = cfg.batch
          /\ gone' = gone \cup batch
          /\ exec' = [exec EXCEPT ![e] = IF LastBatch(Cardinality(batch))
                                         THEN After(exec[e]) ELSE exec[e]]
    BY DEF Prune
  <2>2. LastBatch(Cardinality(batch))
    BY <2>1
  <2>3. cfg.batch \in Nat
    BY <1>1 DEF IndInv, TypeOK
  <2>4. Cardinality(batch) # cfg.batch
    BY <2>2, <2>3 DEF LastBatch
  <2> QED BY <2>1, <2>4
<1> QED BY <1>1, Invariance, PTL DEF Spec, SweptClean
=============================================================================
