----------------------------- MODULE LogHandler -----------------------------
(***************************************************************************)
(* DBHandler: goroutines mirror their log records into a bounded channel,  *)
(* one worker writes them to the metadata database, and Close ends it.     *)
(*                                                                         *)
(* Handle looks at the closed flag and then sends, as two steps; Close     *)
(* swaps the flag and then closes the channel, as two steps.  A send on a  *)
(* closed channel panics, which ends the process.                          *)
(***************************************************************************)
EXTENDS Naturals, Sequences

CONSTANTS Senders,     \* goroutines that log
          Closers,     \* callers of Close
          Buffer,      \* capacity of the channel
          MaxRecords   \* bound on the records of one goroutine

ASSUME BufferAssumption == Buffer \in Nat \ {0} /\ MaxRecords \in Nat

VARIABLES
  proc,     \* the process: up, panicked, or exited after Close
  ch,       \* entries in the channel
  chClosed, \* whether the channel is closed
  closed,   \* the closed flag
  dropped,  \* entries discarded because the buffer was full
  sender,   \* each goroutine: where it is in Handle, its records so far
  worker,   \* the worker: receiving, writing the entry in hand, or done
  hand,     \* the entry in the worker's hand, as a sequence
  closer,   \* where each caller of Close is
  accepted, \* history: entries the channel has accepted
  written   \* history: entries passed to writer.Log, which may fail

logVars == <<proc, ch, chClosed, closed, dropped, sender, worker, hand, closer, accepted, written>>

Entries == Senders \X (1..MaxRecords)

LogTypeOK ==
  /\ proc \in {"up", "panic", "exited"}
  /\ ch \in Seq(Entries) /\ Len(ch) <= Buffer
  /\ chClosed \in BOOLEAN /\ closed \in BOOLEAN
  /\ dropped \in Nat
  /\ sender \in [Senders -> [pc : {"out", "built", "send"}, n : 0..MaxRecords]]
  /\ worker \in {"receive", "write", "done"}
  /\ hand \in Seq(Entries) /\ Len(hand) = (IF worker = "write" THEN 1 ELSE 0)
  /\ closer \in [Closers -> {"out", "swapped", "wait", "drained", "timeout"}]
  /\ accepted \in Seq(Entries) /\ written \in Seq(Entries)

LogInit ==
  /\ proc = "up"
  /\ ch = <<>> /\ chClosed = FALSE /\ closed = FALSE /\ dropped = 0
  /\ sender = [g \in Senders |-> [pc |-> "out", n |-> 0]]
  /\ worker = "receive" /\ hand = <<>>
  /\ closer = [c \in Closers |-> "out"]
  /\ accepted = <<>> /\ written = <<>>

(***************************************************************************)
(* Handle.                                                                 *)
(***************************************************************************)
\* The base handler takes the record; if it fails, Handle returns its error.
Base(g) ==
  /\ proc = "up"
  /\ sender[g].pc = "out" /\ sender[g].n < MaxRecords
  /\ \E pc \in {"built", "out"} :
       sender' = [sender EXCEPT ![g] = [pc |-> pc, n |-> @.n + 1]]
  /\ UNCHANGED <<proc, ch, chClosed, closed, dropped, worker, hand, closer, accepted, written>>

CheckClosed(g) ==
  /\ proc = "up"
  /\ sender[g].pc = "built"
  /\ sender' = [sender EXCEPT ![g] = [pc |-> IF closed THEN "out" ELSE "send", n |-> @.n]]
  /\ UNCHANGED <<proc, ch, chClosed, closed, dropped, worker, hand, closer, accepted, written>>

Panic(g) ==
  /\ proc = "up"
  /\ sender[g].pc = "send" /\ chClosed
  /\ proc' = "panic"
  /\ UNCHANGED <<ch, chClosed, closed, dropped, sender, worker, hand, closer, accepted, written>>

Enqueue(e) ==
  /\ ch' = Append(ch, e) /\ accepted' = Append(accepted, e)
  /\ UNCHANGED dropped

\* The send does not block: a full buffer drops the entry.
Offer_Blocking(e) == Len(ch) < Buffer /\ Enqueue(e)
Offer_DropsOldest(e) ==
  \/ Len(ch) < Buffer /\ Enqueue(e)
  \/ /\ Len(ch) = Buffer
     /\ ch' = Append(Tail(ch), e) /\ accepted' = Append(accepted, e)
     /\ dropped' = dropped + 1
Offer(e) ==
  \/ Len(ch) < Buffer /\ Enqueue(e)
  \/ /\ Len(ch) = Buffer
     /\ dropped' = dropped + 1
     /\ UNCHANGED <<ch, accepted>>

Send(g) ==
  /\ proc = "up"
  /\ sender[g].pc = "send" /\ ~chClosed
  /\ Offer(<<g, sender[g].n>>)
  /\ sender' = [sender EXCEPT ![g] = [pc |-> "out", n |-> @.n]]
  /\ UNCHANGED <<proc, chClosed, closed, worker, hand, closer, written>>

(***************************************************************************)
(* The worker.                                                             *)
(***************************************************************************)
Receive ==
  /\ proc = "up"
  /\ worker = "receive" /\ ch # <<>>
  /\ hand' = <<Head(ch)>> /\ ch' = Tail(ch) /\ worker' = "write"
  /\ UNCHANGED <<proc, chClosed, closed, dropped, sender, closer, accepted, written>>

\* writer.Log returns; its error is ignored.
Write ==
  /\ proc = "up"
  /\ worker = "write"
  /\ written' = written \o hand /\ hand' = <<>> /\ worker' = "receive"
  /\ UNCHANGED <<proc, ch, chClosed, closed, dropped, sender, closer, accepted>>

\* The range over the channel ends when it is closed and empty.
RangeOver_OnFlag == closed
RangeOver == chClosed /\ ch = <<>>

WorkerDone ==
  /\ proc = "up"
  /\ worker = "receive" /\ RangeOver
  /\ worker' = "done"
  /\ UNCHANGED <<proc, ch, chClosed, closed, dropped, sender, hand, closer, accepted, written>>

(***************************************************************************)
(* Close.                                                                  *)
(***************************************************************************)
Swap(c) ==
  /\ proc = "up"
  /\ closer[c] = "out"
  /\ closed' = TRUE
  /\ closer' = [closer EXCEPT ![c] = IF closed THEN "wait" ELSE "swapped"]
  /\ UNCHANGED <<proc, ch, chClosed, dropped, sender, worker, hand, accepted, written>>

CloseChannel(c) ==
  /\ proc = "up"
  /\ closer[c] = "swapped"
  /\ chClosed' = TRUE
  /\ closer' = [closer EXCEPT ![c] = "wait"]
  /\ UNCHANGED <<proc, ch, closed, dropped, sender, worker, hand, accepted, written>>

WaitDone(c) ==
  /\ proc = "up"
  /\ closer[c] = "wait" /\ worker = "done"
  /\ closer' = [closer EXCEPT ![c] = "drained"]
  /\ UNCHANGED <<proc, ch, chClosed, closed, dropped, sender, worker, hand, accepted, written>>

TimedOut(c) == closer[c] = "wait"

Timeout(c) ==
  /\ proc = "up"
  /\ TimedOut(c)
  /\ closer' = [closer EXCEPT ![c] = "timeout"]
  /\ UNCHANGED <<proc, ch, chClosed, closed, dropped, sender, worker, hand, accepted, written>>

\* main returns after Close.
Exit ==
  /\ proc = "up"
  /\ \A c \in Closers : closer[c] \in {"drained", "timeout"}
  /\ proc' = "exited"
  /\ UNCHANGED <<ch, chClosed, closed, dropped, sender, worker, hand, closer, accepted, written>>

Handle(g) == CheckClosed(g) \/ Send(g) \/ Panic(g)
CloseStep(c) == CloseChannel(c) \/ WaitDone(c) \/ Timeout(c)

LogNext ==
  \/ \E g \in Senders : Base(g) \/ Handle(g)
  \/ Receive \/ Write \/ WorkerDone
  \/ \E c \in Closers : Swap(c) \/ CloseStep(c)
  \/ Exit

LogSpec == LogInit /\ [][LogNext]_logVars

(***************************************************************************)
(* Fairness.  Goroutines that are not blocked proceed, and a timer fires.  *)
(* Nothing is assumed of Write: the database may never answer.             *)
(***************************************************************************)
LogFairness ==
  /\ \A g \in Senders : WF_logVars(Handle(g))
  /\ \A c \in Closers : WF_logVars(CloseStep(c))
LogFairSpec == LogSpec /\ LogFairness

\* A database that answers, or whose driver gives up.
WriterAnswers == WF_logVars(Receive \/ Write \/ WorkerDone)

-----------------------------------------------------------------------------
\* The worker hands the writer every entry the channel accepted, in the order of
\* acceptance: what is not yet written is in its hand or in the channel.
HandedOn == accepted = written \o hand \o ch

\* A goroutine's records are accepted in the order in which it logged them, and
\* none twice; some may be missing.
AsLogged ==
  \A i, j \in 1..Len(accepted) :
    i < j /\ accepted[i][1] = accepted[j][1] => accepted[i][2] < accepted[j][2]

\* The database gets the records of each goroutine in the order in which Handle
\* was called, none twice, and of those that the channel accepted none is left
\* out, although goroutines, the worker and Close interleave and records are
\* dropped in between.
AcceptedInOrder == HandedOn /\ AsLogged

\* When Close returns because the worker is done, every entry accepted at any
\* time has been handed to the writer; only a timeout may leave some behind.
DrainedIsComplete ==
  \A c \in Closers : closer[c] = "drained" => written = accepted

\* The inductive invariant: the worker is done only when the channel is closed
\* and empty, Close has drained only when the worker is done, a goroutine inside
\* Handle has a record, and what was accepted of a goroutine are records it has
\* finished with.
DoneInv ==
  /\ worker = "done" => chClosed /\ ch = <<>>
  /\ \A c \in Closers : closer[c] = "drained" => worker = "done"
  /\ \A g \in Senders : sender[g].pc # "out" => sender[g].n > 0
LogInv == LogTypeOK /\ HandedOn /\ DoneInv
LoggedSoFar ==
  \A i \in 1..Len(accepted) : \A g \in Senders :
    accepted[i][1] = g => /\ accepted[i][2] <= sender[g].n
                          /\ sender[g].pc # "out" => accepted[i][2] < sender[g].n
OrderInv == AsLogged /\ LoggedSoFar

\* Nothing logged makes the process panic, during Close or after it.
NoPanic == proc # "panic"

\* A goroutine that logs gets through Handle, and Close returns, although the
\* database never answers and the buffer is full.
LoggingReturns ==
  /\ \A g \in Senders : sender[g].pc # "out" ~> (sender[g].pc = "out" \/ proc # "up")
  /\ \A c \in Closers :
       closer[c] # "out" ~> (closer[c] \in {"drained", "timeout"} \/ proc # "up")

\* With a database that answers, an accepted entry is written unless the process
\* ends first.
AcceptedIsWritten ==
  WriterAnswers =>
    \A e \in Entries :
      (\E i \in DOMAIN accepted : accepted[i] = e)
        ~> ((\E i \in DOMAIN written : written[i] = e) \/ proc # "up")
=============================================================================
