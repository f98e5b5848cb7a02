------------------------------ MODULE Telemetry ------------------------------
(***************************************************************************)
(* Polling runs of the Modbus and OPC UA sources, on points that the       *)
(* seeder keeps replacing and over connections that may break.             *)
(*                                                                         *)
(* A run obtains its connection (a new one, or with the pool the one kept  *)
(* from the last run), lists the enabled points of its load, reads each    *)
(* once and hands the sink one batch.  The two sources turn a read that    *)
(* fails into a row of bad quality, so that their Read returns no error    *)
(* and the run does not have the connection dropped.                       *)
(*                                                                         *)
(* What the device held is kept beside the rows, for the properties.       *)
(***************************************************************************)
EXTENDS Seeder, ModbusDecode, OpcUaRead

CONSTANTS Racing,      \* the files applied while a run is under way
          Results,     \* OPC UA results: status and variant
          Neighbours   \* words that a device may hold after a value's

VARIABLES
  pooled,  \* whether the pool is used
  device,  \* per source: whether it answers
  conn,    \* per source: "none", "alive" or "dead"
  poll     \* the run

pollVars == <<pooled, device, conn, poll>>
teleVars == <<seedVars, pollVars>>

Idle == [pc |-> "idle", load |-> "", source |-> "", kind |-> "",
         points |-> <<>>, rows |-> <<>>, held |-> <<>>, counted |-> 0]

TeleInit == /\ SeederInit
            /\ pooled \in BOOLEAN /\ device = [s \in SourceNames |-> TRUE]
            /\ conn = [s \in SourceNames |-> "none"] /\ poll = Idle

(***************************************************************************)
(* The connection of a run.                                                *)
(***************************************************************************)
Runnable(l) ==
  /\ poll.pc = "idle"
  /\ loads[l].state = "live" /\ loads[l].enabled
  /\ sources[loads[l].source].state = "live" /\ sources[loads[l].source].enabled

\* A pooled connection is used as it is, unless it is too old.
Reused(s, aged) == conn[s] # "none" /\ ~aged

Obtain(l, aged) ==
  /\ Runnable(l)
  /\ LET s == loads[l].source
     IN /\ Reused(s, aged) \/ device[s]
        /\ conn' = [conn EXCEPT ![s] = IF Reused(s, aged) THEN @ ELSE "alive"]
        /\ poll' = [Idle EXCEPT !.pc = "begin", !.load = l, !.source = s,
                                !.kind = sources[s].kind]
  /\ UNCHANGED <<pooled, device, seedVars>>

\* Opening fails, after the old connection was closed.
ObtainFails(l, aged) ==
  /\ Runnable(l) /\ ~Reused(loads[l].source, aged)
  /\ conn' = [conn EXCEPT ![loads[l].source] = "none"]
  /\ UNCHANGED <<pooled, device, poll, seedVars>>

\* The run ends and gives its connection back.
Release(invalidate) ==
  /\ poll' = Idle
  /\ conn' = [conn EXCEPT ![poll.source] = IF pooled /\ ~invalidate THEN @ ELSE "none"]
  /\ UNCHANGED <<pooled, device, seedVars>>

\* The device, or the network to it, fails, and its connection is dead from then
\* on: the clients do not reconnect.
GoesDown(s) ==
  /\ device[s] /\ device' = [device EXCEPT ![s] = FALSE]
  /\ conn' = [conn EXCEPT ![s] = IF @ = "alive" THEN "dead" ELSE @]
  /\ UNCHANGED <<pooled, poll, seedVars>>
ComesBack(s) == /\ ~device[s] /\ device' = [device EXCEPT ![s] = TRUE]
                /\ UNCHANGED <<pooled, conn, poll, seedVars>>

\* A reload tick closes the pooled connections that no run holds.
Sweep(s) == /\ poll.pc = "idle" /\ conn[s] # "none"
            /\ conn' = [conn EXCEPT ![s] = "none"]
            /\ UNCHANGED <<pooled, device, poll, seedVars>>

(***************************************************************************)
(* Read.                                                                   *)
(***************************************************************************)
\* The watermark or the run row cannot be read or written.
GiveUp == poll.pc = "begin" /\ Release(FALSE)

ParseNodeID(id) == id # "malformed"
Enabled(rows) == Picked(rows, {i \in DOMAIN rows : rows[i].enabled})
OpcPoint(n) == [name |-> n.name, id |-> n.id, scale |-> n.scale, offset |-> n.offset,
                valid |-> ParseNodeID(n.id)]

ListModbusTags(l) == Enabled(tags[l])
ListOPCUANodes(l) == Map(OpcPoint, Enabled(nodes[l]))

\* Without points, or when they cannot be listed, nothing is emitted.
List ==
  /\ poll.pc = "begin"
  /\ LET points == IF poll.kind = "modbus" THEN ListModbusTags(poll.load)
                                           ELSE ListOPCUANodes(poll.load)
     IN IF points = <<>> THEN Release(FALSE)
        ELSE /\ poll' = [poll EXCEPT !.pc = "read", !.points = points]
             /\ UNCHANGED <<pooled, device, conn, seedVars>>
ListFails == poll.pc = "begin" /\ Release(TRUE)

NoReading == [got |-> FALSE, v |-> <<>>]
Reading(v) == [got |-> TRUE, v |-> <<v>>]

\* ---- Modbus: one tag after the other ----
Tag == poll.points[Len(poll.rows) + 1]
TagRowOf(value, quality) == [name |-> Tag.name, value |-> value, quality |-> quality]
Bad == TagRowOf(Error, "bad")

Append1(row, held, counted) ==
  /\ poll' = [poll EXCEPT !.rows = Append(@, row), !.held = Append(@, held),
                          !.counted = @ + counted]
  /\ UNCHANGED <<pooled, device, conn, seedVars>>

ReadingTag == poll.pc = "read" /\ poll.kind = "modbus" /\ Len(poll.rows) < Len(poll.points)

\* The unit or the encoding is refused; such a row is not counted as read.
SetupFails_Stops ==
  /\ ReadingTag
  /\ poll' = [poll EXCEPT !.pc = "emit"]
  /\ UNCHANGED <<pooled, device, conn, seedVars>>
SetupFails == ReadingTag /\ Append1(Bad, NoReading, 0)

RequestFails_LeavesGood == ReadingTag /\ Append1(TagRowOf(Error, "good"), NoReading, 1)
RequestFails == ReadingTag /\ Append1(Bad, NoReading, 1)

BitAnswers ==
  /\ ReadingTag /\ conn[poll.source] = "alive" /\ Tag.register \in {"coil", "discrete"}
  /\ \E b \in BOOLEAN : Append1(TagRowOf(Value("bool", <<b>>), "good"), Reading(b), 1)

\* The device sends as many words as asked for, the value's first.
Sent(v, fill) ==
  [i \in 1..quantityFor(Tag.type, Tag.quantity) |->
     IF i <= TypeWidth(Tag.type) THEN Layout(v, Tag)[i] ELSE fill]

RegistersAnswer ==
  /\ ReadingTag /\ conn[poll.source] = "alive" /\ Tag.register \in {"holding", "input"}
  /\ \E v \in ValuesOf(Tag.type), fill \in Neighbours :
       LET r == FromRegisters(ReadRegisters(Sent(v, fill), Tag.byteOrder), Tag)
       IN \/ /\ r.ok
             /\ Append1(TagRowOf(Value("num", r.value), "good"), Reading(v), 1)
          \/ /\ ~r.ok \/ Tag.type \in Floats    \* too short, or not finite
             /\ Append1(Bad, Reading(v), 1)

TagsRead == /\ poll.pc = "read" /\ poll.kind = "modbus"
            /\ Len(poll.rows) = Len(poll.points)
            /\ poll' = [poll EXCEPT !.pc = "emit"]
            /\ UNCHANGED <<pooled, device, conn, seedVars>>
\* ---- OPC UA: one request ----
OpcEmits(rows, held) ==
  /\ poll' = [poll EXCEPT !.pc = "emit", !.rows = rows, !.held = held,
                          !.counted = Len(poll.points)]
  /\ UNCHANGED <<pooled, device, conn, seedVars>>

\* What each node held, as far as it was served, in the order of the request.
Served(served) ==
  [i \in DOMAIN poll.points |->
     LET rank == Cardinality({j \in 1..i : poll.points[j].valid})
     IN IF poll.points[i].valid /\ rank <= Len(served) THEN Reading(served[rank]) ELSE NoReading]
NothingServed == [i \in DOMAIN poll.points |-> NoReading]

Asking == poll.pc = "read" /\ poll.kind = "opcua"

OpcNothingToAsk ==
  /\ Asking /\ Requested(poll.points) = <<>>
  /\ OpcEmits(OpcRows(poll.points, <<>>), NothingServed)

OpcRequestFails ==
  /\ Asking /\ Requested(poll.points) # <<>>
  /\ OpcEmits(OpcFailedRows(poll.points), NothingServed)

\* The server may return fewer results than were asked for.
OpcAnswers ==
  /\ Asking /\ Requested(poll.points) # <<>> /\ conn[poll.source] = "alive"
  /\ \E n \in 0..Len(Requested(poll.points)) : \E served \in [1..n -> Results] :
       OpcEmits(OpcRows(poll.points, served), Served(served))

\* ---- the batch ----
Emit(stored) == poll.pc = "emit" /\ Release(~stored)

(***************************************************************************)
(* The specification.                                                      *)
(***************************************************************************)
RunStep ==
  \/ GiveUp \/ List \/ ListFails
  \/ SetupFails \/ RequestFails \/ BitAnswers \/ RegistersAnswer \/ TagsRead
  \/ OpcNothingToAsk \/ OpcRequestFails \/ OpcAnswers
  \/ \E stored \in BOOLEAN : Emit(stored)

Seed(file) == /\ file \in Racing \/ poll.pc = "idle"
              /\ Apply(file) /\ UNCHANGED pollVars

TeleNext ==
  \/ \E l \in LoadNames, aged \in BOOLEAN : Obtain(l, aged) \/ ObtainFails(l, aged)
  \/ RunStep
  \/ \E s \in SourceNames : GoesDown(s) \/ ComesBack(s) \/ Sweep(s)
  \/ \E file \in Files : Seed(file)
  \/ \E l \in LoadNames : EditLoad(l) /\ UNCHANGED pollVars
  \/ \E s \in SourceNames : DeleteSource(s) /\ UNCHANGED pollVars

TeleSpec == TeleInit /\ [][TeleNext]_teleVars

(***************************************************************************)
(* Properties.                                                             *)
(***************************************************************************)
Complete == poll.pc = "emit"

\* ADR-0007, "Each poll writes one row per tag": the batch has the points that
\* were listed, each once and in their order, whatever failed on the way, and
\* the number of rows reported as read is at most theirs.
OneRowPerPoint ==
  Complete => /\ Len(poll.rows) = Len(poll.points)
              /\ \A i \in DOMAIN poll.rows : poll.rows[i].name = poll.points[i].name
              /\ poll.counted <= Len(poll.rows)

\* A register tag whose words the decoder puts in the order the tag says.  Left
\* out is one that asks for more words than its type takes, low word first: all
\* of them are turned around, and the neighbours are decoded.
InOrder(t) == /\ t.register \in {"holding", "input"}
              /\ ~(t.wordOrder = "low_first" /\ t.quantity > TypeWidth(t.type))

\* A Modbus value that came is in the row, and a row of good quality has one,
\* unless the tag asks for too few words or its type is not supported (or it is
\* a float, which may not be finite).  In big byte order, in either word order,
\* the value in the row is the one that the device held: the same up to 2^53,
\* and the nearest float64 beyond.
DecodedRight ==
  poll.kind = "modbus" =>
    \A i \in DOMAIN poll.rows :
      LET t == poll.points[i]  row == poll.rows[i]  h == poll.held[i]
          enough == t.type \in Supported /\ t.quantity >= TypeWidth(t.type)
      IN InOrder(t) =>
           /\ row.quality = "good" => h.got /\ enough
           /\ row.quality = "good" /\ t.byteOrder # "little" => Carries(row.value.v, h.v[1], t)
           /\ h.got /\ enough /\ t.type \notin Floats => row.quality = "good"

\* docs/01-project-requirements.md, "Decode with byte and word order": the value
\* in the row is the one that the device held, in all four orders.
DecodedInEveryOrder ==
  poll.kind = "modbus" =>
    \A i \in DOMAIN poll.rows :
      InOrder(poll.points[i]) /\ poll.rows[i].quality = "good" =>
        Carries(poll.rows[i].value.v, poll.held[i].v[1], poll.points[i])

\* An OPC UA row carries a value exactly when the server returned one for that
\* very node, and it is that value, of good quality: a malformed id or a short
\* answer never shifts the results to other nodes, nor hides one.
OpcAligned ==
  Complete /\ poll.kind = "opcua" =>
    \A i \in DOMAIN poll.rows :
      LET row == poll.rows[i]  h == poll.held[i]
          returned == h.got /\ h.v[1].status = "OK" /\ ~NullVariant(h.v[1].variant)
      IN /\ row.value.column # "error" <=> returned
         /\ returned => /\ row.quality = "good"
                        /\ row.value = assignValue(h.v[1].variant, poll.points[i])

\* A gap is visible: what is read over a broken connection is a batch of bad
\* rows, one per point, and never a value.
OutageShows ==
  [][\A s \in SourceNames :
       conn[s] = "dead" /\ poll.source = s /\ poll.pc = "read" =>
         \A i \in (Len(poll.rows) + 1)..Len(poll'.rows) : poll'.rows[i].quality = "bad"]_teleVars

\* docs/02-architecture.md, US-004, "the loader recovers on the first tick after
\* the device returns": a run that begins while its device answers has a
\* connection that works.
RecoversOnFirstTick ==
  [][poll.pc = "idle" /\ poll'.pc = "begin" /\ device[poll'.source] =>
       conn'[poll'.source] = "alive"]_teleVars

(***************************************************************************)
(* The inductive invariant.                                                *)
(***************************************************************************)
Listed(s) == s = [i \in 1..Len(s) |-> s[i]] /\ Len(s) \in Nat

\* The run at its steps; the rows are the points read so far.
PollShape ==
  /\ DOMAIN poll = DOMAIN Idle
  /\ poll.pc \in {"idle", "begin", "read", "emit"}
  /\ poll.pc \in {"idle", "begin"} =>
       poll.points = <<>> /\ poll.rows = <<>> /\ poll.held = <<>> /\ poll.counted = 0
  /\ poll.pc = "begin" => poll.load \in LoadNames
  /\ poll.kind = "modbus" => poll.points \in Seq(TagRows)
  /\ Listed(poll.points) /\ Listed(poll.rows) /\ Listed(poll.held)
  /\ Len(poll.rows) <= Len(poll.points) /\ Len(poll.held) = Len(poll.rows)
  /\ poll.counted \in 0..Len(poll.rows)
  /\ \A i \in 1..Len(poll.rows) : poll.rows[i].name = poll.points[i].name
  /\ poll.pc = "emit" => Len(poll.rows) = Len(poll.points)

TeleInv == SeedInv /\ PollShape /\ DecodedRight /\ OpcAligned
=============================================================================
