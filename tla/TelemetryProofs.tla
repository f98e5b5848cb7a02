-------------------------- MODULE TelemetryProofs ---------------------------
(***************************************************************************)
(* Proofs about Telemetry, for any sources, loads, files, results and words*)
(* that a device may hold beside a value.                                  *)
(*                                                                         *)
(* TeleInv joins what the seeder keeps (SeedInv) with what a run has read so*)
(* far.  One lemma per action shows that the run's part, PollInv, is kept and*)
(* that nothing good is read over a dead connection, Outage.               *)
(***************************************************************************)
EXTENDS Telemetry, PointProofs, FiniteSetTheorems

(***************************************************************************)
(* The counter of the responses.                                           *)
(***************************************************************************)
\* The counter, turn by turn.
LEMMA CounterTurns ==
  ASSUME NEW at, NEW n \in Nat
  PROVE  \E c : /\ Counter(at, n) = c[n] /\ c[0] = 0
                /\ \A k \in 1..n : c[k] = IF k \in at THEN c[k - 1] + 1 ELSE c[k - 1]
<1> DEFINE Rec(c, m) == c = [k \in 0..m |-> IF k = 0 THEN 0
                                    ELSE IF k \in at THEN c[k - 1] + 1 ELSE c[k - 1]]
           S == {m \in Nat : \E c : Rec(c, m)}
           loop == CHOOSE c : Rec(c, n)
<1>1. 0 \in S
  <2>1. Rec([k \in 0..0 |-> 0], 0)
    OBVIOUS
  <2> QED BY <2>1
<1>2. ASSUME NEW m \in 1..n, m - 1 \in S PROVE m \in S
  <2>1. PICK c : Rec(c, m - 1)
    BY <1>2
  <2> DEFINE d == [k \in 0..m |-> IF k < m THEN c[k]
                                  ELSE IF m \in at THEN c[m - 1] + 1 ELSE c[m - 1]]
  <2>2. Rec(d, m)
    BY <2>1
  <2> HIDE DEF Rec, d
  <2> QED BY <2>2
<1>3. n \in S
  <2> HIDE DEF S
  <2> QED BY <1>1, <1>2, TurnByTurn
<1>4. Rec(loop, n)
  <2> HIDE DEF Rec
  <2> QED BY <1>3
<1>5. Counter(at, n) = loop[n]
  BY DEF Counter
<1> HIDE DEF loop
<1> QED BY <1>4, <1>5

\* It is the number of positions counted so far.
LEMMA CounterIsRank ==
  ASSUME NEW at, NEW n \in Nat
  PROVE  /\ Counter(at, n) = Cardinality({k \in 1..n : k \in at})
         /\ Counter(at, n) \in Nat
         /\ n \in at /\ n > 0 => Counter(at, n) > 0
<1>1. PICK c : /\ Counter(at, n) = c[n] /\ c[0] = 0
               /\ \A k \in 1..n : c[k] = IF k \in at THEN c[k - 1] + 1 ELSE c[k - 1]
  BY CounterTurns
<1> DEFINE Seen(k) == {i \in 1..k : i \in at}
           S == {k \in 0..n : IsFiniteSet(Seen(k)) /\ c[k] = Cardinality(Seen(k)) /\ c[k] \in Nat}
<1>2. 0 \in S
  <2>1. Seen(0) = {}
    OBVIOUS
  <2> HIDE DEF Seen
  <2> QED BY <1>1, <2>1, FS_EmptySet
<1>3. ASSUME NEW k \in 1..n, k - 1 \in S PROVE k \in S
  <2>1. CASE k \in at
    <3>1. Seen(k) = Seen(k - 1) \cup {k} /\ k \notin Seen(k - 1)
      BY <2>1
    <3> HIDE DEF Seen
    <3>2. IsFiniteSet(Seen(k)) /\ Cardinality(Seen(k)) = Cardinality(Seen(k - 1)) + 1
      BY <1>3, <3>1, FS_AddElement
    <3>3. c[k] = c[k - 1] + 1
      BY <1>1, <2>1
    <3> QED BY <1>3, <3>2, <3>3
  <2>2. CASE k \notin at
    <3>1. Seen(k) = Seen(k - 1)
      BY <2>2
    <3> HIDE DEF Seen
    <3>2. c[k] = c[k - 1]
      BY <1>1, <2>2
    <3> QED BY <1>3, <3>1, <3>2
  <2> QED BY <2>1, <2>2
<1>4. \A k \in 0..n : k \in S
  <2> HIDE DEF S
  <2> QED BY <1>2, <1>3, TurnByTurn
<1>5. ASSUME n \in at, n > 0 PROVE c[n] > 0
  <2>1. n \in 1..n /\ n - 1 \in 0..n
    BY <1>5
  <2>2. c[n] = c[n - 1] + 1
    BY <1>1, <1>5, <2>1
  <2>3. c[n - 1] \in Nat
    BY <1>4, <2>1
  <2> QED BY <2>2, <2>3
<1> QED BY <1>1, <1>4, <1>5

(***************************************************************************)
(* The run's part of the invariant.                                        *)
(***************************************************************************)
\* What a run's part of the invariant says, and what the outage property says of a step.
PollInv == PollShape /\ DecodedRight /\ OpcAligned
Outage ==
  \A s \in SourceNames :
    conn[s] = "dead" /\ poll.source = s /\ poll.pc = "read" =>
      \A i \in (Len(poll.rows) + 1)..Len(poll'.rows) : poll'.rows[i].quality = "bad"

\* DecodedRight of one row.
RightAt(t, row, h) ==
  LET enough == t.type \in Supported /\ t.quantity >= TypeWidth(t.type)
  IN InOrder(t) =>
       /\ row.quality = "good" => h.got /\ enough
       /\ row.quality = "good" /\ t.byteOrder # "little" => Carries(row.value.v, h.v[1], t)
       /\ h.got /\ enough /\ t.type \notin Floats => row.quality = "good"

\* DecodedRight, row by row.
LEMMA RightRows ==
  DecodedRight <=>
    (poll.kind = "modbus" =>
       \A i \in DOMAIN poll.rows : RightAt(poll.points[i], poll.rows[i], poll.held[i]))
BY Zenon DEF DecodedRight, RightAt

\* OpcAligned of one row.
AlignedAt(point, row, h) ==
  LET returned == h.got /\ h.v[1].status = "OK" /\ ~NullVariant(h.v[1].variant)
  IN /\ row.value.column # "error" <=> returned
     /\ returned => /\ row.quality = "good"
                    /\ row.value = assignValue(h.v[1].variant, point)

\* OpcAligned, row by row.
LEMMA AlignedRows ==
  OpcAligned <=>
    (Complete /\ poll.kind = "opcua" =>
       \A i \in DOMAIN poll.rows : AlignedAt(poll.points[i], poll.rows[i], poll.held[i]))
BY Zenon DEF OpcAligned, AlignedAt

\* Sequences are lists.
LEMMA SeqListed ==
  ASSUME NEW X, NEW s \in Seq(X)
  PROVE  Listed(s)
BY DEF Listed

\* A list is one of its own elements.
LEMMA ListedSeq ==
  ASSUME NEW s, Listed(s), NEW x
  PROVE  /\ DOMAIN s = 1..Len(s) /\ Len(s) \in Nat
         /\ Listed(Append(s, x)) /\ Len(Append(s, x)) = Len(s) + 1
         /\ \A i \in 1..Len(s) : Append(s, x)[i] = s[i]
         /\ Append(s, x)[Len(s) + 1] = x
<1> DEFINE V == {s[i] : i \in 1..Len(s)} \cup {x}
<1>1. DOMAIN s = 1..Len(s) /\ Len(s) \in Nat
  BY DEF Listed
<1>2. s \in Seq(V)
  <2>1. \A i \in 1..Len(s) : s[i] \in V
    OBVIOUS
  <2>2. s = [i \in 1..Len(s) |-> s[i]]
    BY DEF Listed
  <2> HIDE DEF V
  <2> QED BY <1>1, <2>1, <2>2, SMTT(30)
<1>3. x \in V
  OBVIOUS
<1> HIDE DEF V
<1>4. Append(s, x) \in Seq(V)
  BY <1>2, <1>3
<1>5. Listed(Append(s, x))
  BY <1>4, SeqListed
<1> QED BY <1>1, <1>2, <1>3, <1>5

\* What leaves the run alone keeps its part of the invariant.
LEMMA PollKept ==
  ASSUME PollInv, poll' = poll
  PROVE  PollInv' /\ Outage
<1>1. PollShape'
  BY DEF PollInv, PollShape
<1>2. DecodedRight' /\ OpcAligned'
  BY ZenonT(30) DEF PollInv, DecodedRight, OpcAligned, Complete
<1>3. Len(poll.rows) \in Nat
  BY DEF PollInv, PollShape, Listed
<1>4. Outage
  BY <1>3 DEF Outage
<1> QED BY <1>1, <1>2, <1>4 DEF PollInv

\* A run that starts or ends has no rows.
LEMMA PollFresh ==
  ASSUME PollInv, NEW pc, NEW l, NEW s, NEW kind,
         poll' = [pc |-> pc, load |-> l, source |-> s, kind |-> kind,
                  points |-> <<>>, rows |-> <<>>, held |-> <<>>, counted |-> 0],
         pc = "idle" \/ (pc = "begin" /\ l \in LoadNames)
  PROVE  PollInv' /\ Outage
<1>2. /\ poll'.pc = pc /\ poll'.load = l /\ poll'.points = <<>> /\ poll'.rows = <<>>
      /\ poll'.held = <<>> /\ poll'.counted = 0
      /\ DOMAIN poll' = DOMAIN Idle
  BY DEF Idle
<1>3. Listed(<<>>) /\ Len(<<>>) = 0 /\ <<>> \in Seq(TagRows) /\ DOMAIN <<>> = {}
  <2>1. <<>> \in Seq(TagRows) /\ Len(<<>>) = 0
    OBVIOUS
  <2>2. Listed(<<>>)
    BY <2>1, SeqListed
  <2>3. DOMAIN <<>> = {}
    BY <2>1
  <2> QED BY <2>1, <2>2, <2>3
<1>4. PollShape'
  <2>1. Listed(poll'.points) /\ Listed(poll'.rows) /\ Listed(poll'.held)
    BY <1>2, <1>3
  <2>2. /\ Len(poll'.points) = 0 /\ Len(poll'.rows) = 0 /\ Len(poll'.held) = 0
        /\ poll'.points \in Seq(TagRows)
    BY <1>2, <1>3
  <2> QED BY <1>2, <2>1, <2>2 DEF PollShape
<1>5. DecodedRight' /\ OpcAligned'
  BY <1>2, <1>3, Zenon DEF DecodedRight, OpcAligned
<1>6. Len(poll.rows) \in Nat
  BY DEF PollInv, PollShape, Listed
<1>7. Outage
  BY <1>2, <1>3, <1>6 DEF Outage
<1> QED BY <1>4, <1>5, <1>7 DEF PollInv

(***************************************************************************)
(* Modbus: one row after the other.                                        *)
(***************************************************************************)
\* The tag that is read next.
LEMMA TagType ==
  ASSUME PollShape, ReadingTag
  PROVE  /\ Tag \in TagRows /\ Len(poll.rows) \in Nat
         /\ Tag = poll.points[Len(poll.rows) + 1]
<1>1. /\ poll.points \in Seq(TagRows) /\ Len(poll.rows) \in Nat
      /\ Len(poll.rows) < Len(poll.points)
  BY DEF PollShape, ReadingTag, Listed
<1>2. Len(poll.rows) + 1 \in 1..Len(poll.points)
  BY <1>1
<1> QED BY <1>1, <1>2 DEF Tag

\* One more row, which is right, for the tag read next.
LEMMA RowAppended ==
  ASSUME PollInv, ReadingTag, NEW row, NEW h, NEW counted \in 0..1,
         Append1(row, h, counted), row.name = Tag.name, RightAt(Tag, row, h)
  PROVE  /\ PollInv'
         /\ row.quality = "bad" => Outage
<1> DEFINE n == Len(poll.rows)
<1>1. /\ Listed(poll.rows) /\ Listed(poll.held) /\ Len(poll.held) = n /\ n \in Nat
      /\ n < Len(poll.points) /\ Len(poll.points) \in Nat
      /\ poll.pc = "read" /\ poll.kind = "modbus" /\ DOMAIN poll = DOMAIN Idle
      /\ poll.points \in Seq(TagRows) /\ Listed(poll.points)
      /\ poll.counted \in 0..n
      /\ \A i \in 1..n : poll.rows[i].name = poll.points[i].name
  BY DEF PollInv, PollShape, ReadingTag, Listed
<1>2. /\ poll'.rows = Append(poll.rows, row) /\ poll'.held = Append(poll.held, h)
      /\ poll'.counted = poll.counted + counted
      /\ poll'.pc = "read" /\ poll'.kind = "modbus" /\ poll'.points = poll.points
      /\ poll'.load = poll.load /\ DOMAIN poll' = DOMAIN Idle
  BY <1>1 DEF Append1, Idle
<1>3. /\ DOMAIN poll.rows = 1..n
      /\ Listed(poll'.rows) /\ Len(poll'.rows) = n + 1
      /\ \A i \in 1..n : poll'.rows[i] = poll.rows[i]
      /\ poll'.rows[n + 1] = row
  BY <1>1, <1>2, ListedSeq, SMTT(30)
<1>4. /\ Listed(poll'.held) /\ Len(poll'.held) = n + 1
      /\ \A i \in 1..n : poll'.held[i] = poll.held[i]
      /\ poll'.held[n + 1] = h
  BY <1>1, <1>2, ListedSeq, SMTT(30)
<1>5. DOMAIN poll'.rows = 1..(n + 1)
  BY <1>3, ListedSeq
<1>6. Tag = poll.points[n + 1]
  BY DEF Tag
<1> HIDE DEF n
<1>7. PollShape'
  <2>1. \A i \in 1..Len(poll'.rows) : poll'.rows[i].name = poll'.points[i].name
    BY <1>1, <1>2, <1>3, <1>6, SMTT(30)
  <2>2. poll'.counted \in 0..Len(poll'.rows)
    BY <1>1, <1>2, <1>3, SMTT(30)
  <2>3. Len(poll'.rows) <= Len(poll'.points)
    BY <1>1, <1>2, <1>3
  <2> QED BY <1>1, <1>2, <1>3, <1>4, <2>1, <2>2, <2>3, SMTT(30) DEF PollShape
<1>8. DecodedRight'
  <2>1. \A i \in 1..n : RightAt(poll.points[i], poll.rows[i], poll.held[i])
    BY <1>1, <1>3, RightRows, Zenon DEF PollInv
  <2>2. ASSUME NEW i \in DOMAIN poll'.rows
        PROVE  RightAt(poll'.points[i], poll'.rows[i], poll'.held[i])
    <3>1. CASE i \in 1..n
      BY <1>2, <1>3, <1>4, <2>1, <3>1, ZenonT(30)
    <3>2. CASE i = n + 1
      BY <1>2, <1>3, <1>4, <1>6, <3>2, ZenonT(30)
    <3>3. i \in 1..n \/ i = n + 1
      BY <1>1, <1>5
    <3> QED BY <3>1, <3>2, <3>3
  <2> QED BY <2>2, Zenon DEF DecodedRight, RightAt
<1>9. OpcAligned'
  <2>1. poll'.kind # "opcua"
    BY <1>2
  <2> QED BY <2>1, Zenon DEF OpcAligned
<1>10. ASSUME row.quality = "bad" PROVE Outage
  <2>1. ASSUME NEW i \in (n + 1)..Len(poll'.rows) PROVE poll'.rows[i].quality = "bad"
    <3>1. i = n + 1
      BY <1>1, <1>3
    <3> QED BY <1>3, <1>10, <3>1
  <2> QED BY <2>1 DEF Outage, n
<1> QED BY <1>7, <1>8, <1>9, <1>10, SMTT(30) DEF PollInv

\* A row without a value.
LEMMA BadRight ==
  ASSUME NEW t, NEW row, NEW h, row.quality = "bad",
         \/ ~h.got
         \/ ~(t.type \in Supported /\ t.quantity >= TypeWidth(t.type))
         \/ t.type \in Floats
  PROVE  RightAt(t, row, h)
<1>1. row.quality # "good"
  OBVIOUS
<1> QED BY <1>1, Zenon DEF RightAt

\* A failed setup or request.
LEMMA FailedTag ==
  ASSUME PollInv, SetupFails \/ RequestFails
  PROVE  PollInv' /\ Outage
<1>1. PICK c \in 0..1 : ReadingTag /\ Append1(Bad, NoReading, c)
  BY DEF SetupFails, RequestFails
<1>2. Bad.name = Tag.name /\ Bad.quality = "bad" /\ ~NoReading.got
  BY DEF Bad, TagRowOf, NoReading
<1>3. RightAt(Tag, Bad, NoReading)
  BY <1>2, BadRight
<1> QED BY <1>1, <1>2, <1>3, RowAppended

\* What is not read over a dead connection is no outage.
LEMMA AliveOutage ==
  ASSUME conn[poll.source] = "alive"
  PROVE  Outage
BY DEF Outage

\* A coil or a discrete input.
LEMMA BitTag ==
  ASSUME PollInv, BitAnswers
  PROVE  PollInv' /\ Outage
<1>1. PICK b \in BOOLEAN : Append1(TagRowOf(Value("bool", <<b>>), "good"), Reading(b), 1)
  BY Zenon DEF BitAnswers
<1> DEFINE row == TagRowOf(Value("bool", <<b>>), "good")
<1>2. row.name = Tag.name
  BY DEF TagRowOf
<1>3. Tag.register \notin {"holding", "input"} /\ ReadingTag /\ conn[poll.source] = "alive"
  BY DEF BitAnswers
<1> HIDE DEF row
<1>4. RightAt(Tag, row, Reading(b))
  BY <1>3, Zenon DEF RightAt, InOrder
<1>5. PollInv'
  <2>1. Append1(row, Reading(b), 1) /\ 1 \in 0..1
    BY <1>1 DEF row
  <2> QED BY <1>2, <1>3, <1>4, <2>1, RowAppended, SMTT(30)
<1> QED BY <1>3, <1>5, AliveOutage

\* The words that a device sends.
LEMMA SentWords ==
  ASSUME PollShape, ReadingTag, NEW v, NEW fill, NEW regs, regs = Sent(v, fill)
  PROVE  /\ Len(regs) = Tag.quantity /\ Tag.quantity \in Nat
         /\ \A i \in 1..TypeWidth(Tag.type) :
              i <= Tag.quantity => regs[i] = Layout(v, Tag)[i]
<1>1. Tag.quantity \in Nat \ {0}
  BY TagType DEF TagRows
<1>2. quantityFor(Tag.type, Tag.quantity) = Tag.quantity
  BY <1>1 DEF quantityFor
<1>3. regs = [i \in 1..Tag.quantity |->
                IF i <= TypeWidth(Tag.type) THEN Layout(v, Tag)[i] ELSE fill]
  BY <1>2 DEF Sent
<1>4. Len(regs) = Tag.quantity
  BY <1>1, <1>3
<1>5. TypeWidth(Tag.type) \in Nat
  BY DEF TypeWidth
<1>6. ASSUME NEW i \in 1..TypeWidth(Tag.type), i <= Tag.quantity
      PROVE  regs[i] = Layout(v, Tag)[i]
  <2>1. i \in 1..Tag.quantity /\ i <= TypeWidth(Tag.type)
    BY <1>1, <1>5, <1>6, SMTT(30)
  <2> QED BY <1>3, <2>1
<1> QED BY <1>1, <1>4, <1>6

\* The client's registers for the words that a device sends.
LEMMA SentRegisters ==
  ASSUME PollShape, ReadingTag, NEW v, NEW fill, NEW regs,
         regs = ReadRegisters(Sent(v, fill), Tag.byteOrder)
  PROVE  Len(regs) = Tag.quantity /\ Tag.quantity \in Nat
<1>1. Len(Sent(v, fill)) = Tag.quantity /\ Tag.quantity \in Nat
  BY SentWords
<1>2. 0 \in Nat /\ 0 <= Len(Sent(v, fill)) /\ Len(Sent(v, fill)) \in Nat
  BY <1>1
<1> QED BY <1>1, <1>2, ClientWords

\* A register that was decoded.
LEMMA GoodRight ==
  ASSUME PollShape, ReadingTag, NEW v \in ValuesOf(Tag.type), NEW fill, NEW r,
         r = FromRegisters(ReadRegisters(Sent(v, fill), Tag.byteOrder), Tag), r.ok
  PROVE  RightAt(Tag, TagRowOf(Value("num", r.value), "good"), Reading(v))
<1> DEFINE words == Sent(v, fill)  regs == ReadRegisters(words, Tag.byteOrder)
           row == TagRowOf(Value("num", r.value), "good")
           w == TypeWidth(Tag.type)
<1>1. /\ Len(words) = Tag.quantity /\ Tag.quantity \in Nat
      /\ \A i \in 1..w : i <= Tag.quantity => words[i] = Layout(v, Tag)[i]
  BY SentWords
<1>2. row.value.v = r.value /\ Reading(v).got /\ Reading(v).v[1] = v
  BY DEF TagRowOf, Value, Reading
<1>3. Len(regs) = Tag.quantity
  BY SentRegisters
<1> HIDE DEF words, row
<1>4. r = FromRegisters(regs, Tag)
  BY Zenon DEF words
<1> HIDE DEF regs
<1>5. Tag.type \in Supported /\ Tag.quantity >= w
  BY <1>1, <1>3, <1>4, DecodeFails
<1>6. w \in Nat
  BY DEF TypeWidth
<1> HIDE DEF w
<1>7. ASSUME InOrder(Tag), Tag.byteOrder # "little"
      PROVE  Carries(r.value, v, Tag)
  <2>1. Tag.wordOrder = "low_first" => Len(words) = w
    BY <1>1, <1>5, <1>6, <1>7, SMTT(30) DEF InOrder, w
  <2>2. Layout(v, AsRead(Tag)) = Layout(v, Tag)
    BY <1>7, BigAsRead, Zenon
  <2>3. /\ Len(words) \in Nat /\ w <= Len(words)
        /\ \A i \in 1..w : words[i] = Layout(v, Tag)[i]
    BY <1>1, <1>5, <1>6, SMTT(30)
  <2>4. \A i \in 1..w : words[i] = Layout(v, AsRead(Tag))[i]
    BY <2>2, <2>3, Zenon
  <2>5. /\ Tag.type \in Supported /\ v \in ValuesOf(Tag.type)
        /\ Len(words) \in Nat /\ TypeWidth(Tag.type) <= Len(words)
        /\ Tag.wordOrder = "low_first" => Len(words) = TypeWidth(Tag.type)
        /\ \A i \in 1..TypeWidth(Tag.type) : words[i] = Layout(v, AsRead(Tag))[i]
    BY <1>5, <2>1, <2>3, <2>4, Zenon DEF w
  <2>6. Carries(FromRegisters(ReadRegisters(words, Tag.byteOrder), Tag).value, v, Tag)
    BY <2>5, DecodeReads, ZenonT(30)
  <2> QED BY <1>4, <2>6, Zenon DEF regs
<1> DEFINE h == Reading(v)
<1>8. h.got /\ h.v[1] = v
  BY <1>2
<1> HIDE DEF h
<1>9. RightAt(Tag, row, h)
  <2>1. Tag.quantity >= TypeWidth(Tag.type)
    BY <1>5 DEF w
  <2>2. row.quality = "good"
    BY DEF row, TagRowOf
  <2>3. InOrder(Tag) /\ Tag.byteOrder # "little" => Carries(row.value.v, h.v[1], Tag)
    BY <1>2, <1>7, <1>8, Zenon
  <2> QED BY <1>5, <1>8, <2>1, <2>2, <2>3, ZenonT(30) DEF RightAt
<1> QED BY <1>9 DEF row, h

\* A holding or an input register.
LEMMA RegisterTag ==
  ASSUME PollInv, RegistersAnswer
  PROVE  PollInv' /\ Outage
<1>1. PollShape /\ ReadingTag /\ conn[poll.source] = "alive"
  BY DEF PollInv, RegistersAnswer
<1>2. PICK v \in ValuesOf(Tag.type), fill \in Neighbours :
        LET r == FromRegisters(ReadRegisters(Sent(v, fill), Tag.byteOrder), Tag)
        IN \/ /\ r.ok
              /\ Append1(TagRowOf(Value("num", r.value), "good"), Reading(v), 1)
           \/ /\ ~r.ok \/ Tag.type \in Floats
              /\ Append1(Bad, Reading(v), 1)
  BY Zenon DEF RegistersAnswer
<1> DEFINE regs == ReadRegisters(Sent(v, fill), Tag.byteOrder)  r == FromRegisters(regs, Tag)
           row == TagRowOf(Value("num", r.value), "good")
<1>3. CASE r.ok /\ Append1(row, Reading(v), 1)
  <2>1. RightAt(Tag, row, Reading(v))
    BY <1>1, <1>3, GoodRight
  <2>2. row.name = Tag.name /\ 1 \in 0..1
    BY DEF TagRowOf
  <2> HIDE DEF row
  <2> QED BY <1>1, <1>3, <2>1, <2>2, RowAppended, AliveOutage, SMTT(30)
<1>4. CASE (~r.ok \/ Tag.type \in Floats) /\ Append1(Bad, Reading(v), 1)
  <2>1. Bad.name = Tag.name /\ Bad.quality = "bad" /\ 1 \in 0..1
    BY DEF Bad, TagRowOf
  <2>2. Len(regs) = Tag.quantity /\ Tag.quantity \in Nat
    BY <1>1, SentRegisters
  <2> HIDE DEF regs
  <2>3. r.ok <=> Tag.type \in Supported /\ Tag.quantity >= TypeWidth(Tag.type)
    BY <2>2, DecodeFails
  <2>4. RightAt(Tag, Bad, Reading(v))
    BY <1>4, <2>1, <2>3, BadRight, SMTT(30)
  <2> QED BY <1>1, <1>4, <2>1, <2>4, RowAppended, AliveOutage, SMTT(30)
<1> QED BY <1>2, <1>3, <1>4, Zenon

(***************************************************************************)
(* OPC UA: all the rows at once.                                           *)
(***************************************************************************)
\* All the rows at once, each aligned with its node.
LEMMA RowsEmitted ==
  ASSUME PollInv, Asking, NEW rows, NEW held, OpcEmits(rows, held),
         rows = [i \in 1..Len(poll.points) |-> rows[i]],
         held = [i \in 1..Len(poll.points) |-> held[i]],
         \A i \in 1..Len(poll.points) : /\ rows[i].name = poll.points[i].name
                                        /\ AlignedAt(poll.points[i], rows[i], held[i])
  PROVE  /\ PollInv'
         /\ (\A i \in 1..Len(poll.points) : rows[i].quality = "bad") => Outage
<1> DEFINE n == Len(poll.points)
<1>1. /\ Listed(poll.points) /\ n \in Nat /\ DOMAIN poll = DOMAIN Idle
      /\ poll.kind = "opcua" /\ Len(poll.rows) \in Nat
  BY DEF PollInv, PollShape, Asking, Listed
<1>2. /\ poll'.pc = "emit" /\ poll'.rows = rows /\ poll'.held = held /\ poll'.counted = n
      /\ poll'.points = poll.points /\ poll'.kind = "opcua" /\ poll'.load = poll.load
      /\ DOMAIN poll' = DOMAIN Idle
  BY <1>1 DEF OpcEmits, Idle
<1> HIDE DEF n
<1>3. /\ rows = [i \in 1..n |-> rows[i]] /\ held = [i \in 1..n |-> held[i]]
      /\ \A i \in 1..n : /\ rows[i].name = poll.points[i].name
                         /\ AlignedAt(poll.points[i], rows[i], held[i])
  BY DEF n
<1>4. DOMAIN rows = 1..n /\ Len(rows) = n /\ Len(held) = n
  BY <1>1, <1>3
<1>5. Listed(rows) /\ Listed(held)
  BY <1>1, <1>3, <1>4, Zenon DEF Listed
<1>6. PollShape'
  <2>1. /\ Listed(poll'.points) /\ Listed(poll'.rows) /\ Listed(poll'.held)
        /\ Len(poll'.points) = n /\ Len(poll'.rows) = n /\ Len(poll'.held) = n
    BY <1>1, <1>2, <1>4, <1>5 DEF n
  <2>2. \A i \in 1..n : poll'.rows[i].name = poll'.points[i].name
    BY <1>2, <1>3, ZenonT(30)
  <2> QED BY <1>1, <1>2, <2>1, <2>2, SMTT(30) DEF PollShape
<1>7. DecodedRight'
  <2>1. poll'.kind # "modbus"
    BY <1>2
  <2> QED BY <2>1, Zenon DEF DecodedRight
<1>8. OpcAligned'
  <2>1. \A i \in DOMAIN poll'.rows : AlignedAt(poll'.points[i], poll'.rows[i], poll'.held[i])
    BY <1>2, <1>3, <1>4, ZenonT(30)
  <2> QED BY <2>1, Zenon DEF OpcAligned, AlignedAt
<1>9. ASSUME \A i \in 1..n : rows[i].quality = "bad" PROVE Outage
  <2>1. ASSUME NEW i \in (Len(poll.rows) + 1)..Len(poll'.rows)
        PROVE  poll'.rows[i].quality = "bad"
    <3>1. i \in 1..n
      BY <1>1, <1>2, <1>4
    <3> QED BY <1>2, <1>9, <3>1
  <2> QED BY <2>1 DEF Outage
<1> QED BY <1>6, <1>7, <1>8, <1>9, SMTT(30) DEF PollInv, n

\* A node without a result.
LEMMA BadAligned ==
  ASSUME NEW point, NEW row, NEW h, row = badRow(point), h = NoReading
  PROVE  /\ row.name = point.name /\ row.quality = "bad"
         /\ AlignedAt(point, row, h)
<1>1. row.name = point.name /\ row.quality = "bad" /\ row.value.column = "error" /\ ~h.got
  BY DEF badRow, Error, NoReading
<1> QED BY <1>1, Zenon DEF AlignedAt

\* A node with a result.
LEMMA ResultAligned ==
  ASSUME NEW point, NEW row, NEW h, NEW dv, row = RowOf(point, dv), h = Reading(dv)
  PROVE  /\ row.name = point.name
         /\ AlignedAt(point, row, h)
<1>1. h.got /\ h.v[1] = dv
  BY DEF Reading
<1>2. row.name = point.name
  BY DEF RowOf, badRow
<1>3. CASE dv.status # "OK"
  <2>1. row.value.column = "error"
    BY <1>3 DEF RowOf, Error
  <2> QED BY <1>1, <1>2, <1>3, <2>1, ZenonT(30) DEF AlignedAt
<1>4. CASE dv.status = "OK" /\ NullVariant(dv.variant)
  <2>1. row.value.column = "error"
    BY <1>4 DEF RowOf, badRow, Error
  <2> QED BY <1>1, <1>2, <1>4, <2>1, ZenonT(30) DEF AlignedAt
<1>5. CASE dv.status = "OK" /\ ~NullVariant(dv.variant)
  <2>1. row.value = assignValue(dv.variant, point) /\ row.quality = "good"
    BY <1>5 DEF RowOf
  <2>2. assignValue(dv.variant, point).column # "error"
    BY DEF assignValue, Value
  <2> QED BY <1>1, <1>2, <1>5, <2>1, <2>2, ZenonT(30) DEF AlignedAt
<1> QED BY <1>3, <1>4, <1>5

\* The counter of the responses at a node that was asked for is its rank among
\* those nodes.
LEMMA RankOfNode ==
  ASSUME NEW points, DOMAIN points = 1..Len(points), Len(points) \in Nat, NEW i \in 1..Len(points)
  PROVE  /\ respIdx(points, i) = Cardinality({j \in 1..i : points[j].valid})
         /\ respIdx(points, i) \in Nat
         /\ points[i].valid => respIdx(points, i) > 0
<1> DEFINE at == Parsed(points)
<1>1. i \in Nat /\ i > 0
  OBVIOUS
<1>2. {j \in 1..i : points[j].valid} = {k \in 1..i : k \in at}
  BY DEF Parsed
<1>3. points[i].valid => i \in at
  BY DEF Parsed
<1> HIDE DEF at
<1>4. /\ Counter(at, i) = Cardinality({k \in 1..i : k \in at})
      /\ Counter(at, i) \in Nat
      /\ i \in at /\ i > 0 => Counter(at, i) > 0
  BY <1>1, CounterIsRank
<1>5. respIdx(points, i) = Counter(at, i)
  BY DEF respIdx, at
<1> QED BY <1>1, <1>2, <1>3, <1>4, <1>5

\* The request that is not made, or fails.
LEMMA NothingRead ==
  ASSUME PollInv, OpcNothingToAsk \/ OpcRequestFails
  PROVE  PollInv' /\ Outage
<1> DEFINE points == poll.points  n == Len(points)
           bad == [i \in 1..n |-> badRow(points[i])]
           none == [i \in 1..n |-> NoReading]
<1>1. n \in Nat /\ DOMAIN points = 1..n
  BY DEF PollInv, PollShape, Listed
<1>2. OpcRows(points, <<>>) = bad
  <2>1. ASSUME NEW i \in 1..n
        PROVE  (IF ~points[i].valid \/ respIdx(points, i) > Len(<<>>) THEN badRow(points[i])
                ELSE RowOf(points[i], <<>>[respIdx(points, i)])) = badRow(points[i])
    <3>1. ~points[i].valid \/ respIdx(points, i) > Len(<<>>)
      BY <1>1, RankOfNode, ZenonT(30)
    <3> QED BY <3>1
  <2> QED BY <2>1, Zenon DEF OpcRows
<1>3. OpcFailedRows(points) = bad
  BY DEF OpcFailedRows
<1>4. NothingServed = none
  BY <1>1 DEF NothingServed
<1>5. Asking /\ OpcEmits(bad, none)
  BY <1>2, <1>3, <1>4, Zenon DEF OpcNothingToAsk, OpcRequestFails
<1>6. ASSUME NEW i \in 1..n
      PROVE  /\ bad[i].name = points[i].name /\ bad[i].quality = "bad"
             /\ AlignedAt(points[i], bad[i], none[i])
  <2>1. bad[i] = badRow(points[i]) /\ none[i] = NoReading
    OBVIOUS
  <2> HIDE DEF bad, none
  <2> QED BY <2>1, BadAligned
<1>7. bad = [i \in 1..n |-> bad[i]] /\ none = [i \in 1..n |-> none[i]]
  OBVIOUS
<1> HIDE DEF bad, none
<1> QED BY <1>5, <1>6, <1>7, RowsEmitted

\* The answer.
LEMMA AnswerRead ==
  ASSUME PollInv, OpcAnswers
  PROVE  PollInv' /\ Outage
<1> DEFINE points == poll.points  n == Len(points)
<1>1. n \in Nat /\ DOMAIN points = 1..n /\ Listed(points)
  BY DEF PollInv, PollShape, Listed
<1>2. Asking /\ conn[poll.source] = "alive"
  BY DEF OpcAnswers
<1>3. Len(Requested(points)) \in Nat
  <2>1. points \in Seq({points[i] : i \in 1..n})
    <3>1. points = [i \in 1..n |-> points[i]]
      BY <1>1 DEF Listed
    <3>2. \A i \in 1..n : points[i] \in {points[j] : j \in 1..n}
      OBVIOUS
    <3> QED BY <1>1, <3>1, <3>2
  <2>2. Requested(points) \in Seq({points[i] : i \in 1..n})
    BY <2>1, PickedType DEF Requested
  <2> QED BY <2>2
<1>4. PICK m \in 0..Len(Requested(points)) : \E served \in [1..m -> Results] :
        OpcEmits(OpcRows(points, served), Served(served))
  BY Zenon DEF OpcAnswers
<1>5. PICK served \in [1..m -> Results] : OpcEmits(OpcRows(points, served), Served(served))
  BY <1>4
<1>6. Len(served) = m /\ m \in Nat
  <2>1. m \in Nat
    BY <1>3
  <2>2. served \in Seq(Results)
    BY <2>1
  <2> QED BY <2>1, <2>2
<1> DEFINE rows == OpcRows(points, served)  held == Served(served)
<1>7. ASSUME NEW i \in 1..n
      PROVE  /\ rows[i] = IF ~points[i].valid \/ respIdx(points, i) > m THEN badRow(points[i])
                          ELSE RowOf(points[i], served[respIdx(points, i)])
             /\ held[i] = IF points[i].valid /\ respIdx(points, i) <= m
                          THEN Reading(served[respIdx(points, i)]) ELSE NoReading
  <2>1. respIdx(points, i) = Cardinality({j \in 1..i : points[j].valid})
    BY <1>1, RankOfNode
  <2>2. rows[i] = IF ~points[i].valid \/ respIdx(points, i) > m THEN badRow(points[i])
                  ELSE RowOf(points[i], served[respIdx(points, i)])
    BY <1>6 DEF OpcRows
  <2>3. held[i] = IF points[i].valid /\ respIdx(points, i) <= m
                  THEN Reading(served[respIdx(points, i)]) ELSE NoReading
    BY <1>1, <1>6, <2>1, SMTT(30) DEF Served
  <2> QED BY <2>2, <2>3
<1>8. rows = [i \in 1..n |-> rows[i]] /\ held = [i \in 1..n |-> held[i]]
  BY <1>1 DEF OpcRows, Served
<1>9. OpcEmits(rows, held)
  BY <1>5, SMTT(30)
<1> HIDE DEF rows, held
<1>10. ASSUME NEW i \in 1..n
       PROVE  rows[i].name = points[i].name /\ AlignedAt(points[i], rows[i], held[i])
  <2>1. respIdx(points, i) \in Nat
    BY <1>1, RankOfNode
  <2>2. CASE ~points[i].valid \/ respIdx(points, i) > m
    <3>1. rows[i] = badRow(points[i]) /\ held[i] = NoReading
      BY <1>6, <1>7, <2>1, <2>2, SMTT(30)
    <3> QED BY <3>1, BadAligned
  <2>3. CASE ~(~points[i].valid \/ respIdx(points, i) > m)
    <3>1. /\ rows[i] = RowOf(points[i], served[respIdx(points, i)])
          /\ held[i] = Reading(served[respIdx(points, i)])
      BY <1>6, <1>7, <2>1, <2>3, SMTT(30)
    <3> QED BY <3>1, ResultAligned, SMTT(30)
  <2> QED BY <2>2, <2>3
<1>11. PollInv'
  BY <1>2, <1>8, <1>9, <1>10, RowsEmitted
<1> QED BY <1>2, <1>11, AliveOutage, SMTT(30)

(***************************************************************************)
(* The other steps, and a step of the whole.                               *)
(***************************************************************************)
\* What the two seeding properties say of a step.
Settles == again' = 3 => UNCHANGED tables
ChoiceStays ==
  \A f \in Files, l \in LoadNames :
    /\ last' = f /\ again' > 0
    /\ loads[l].state = "live"
    /\ \A i \in DOMAIN f.loads : f.loads[i].name = l => f.loads[i].enabled = "unset"
    => loads'[l].enabled = loads[l].enabled

\* The end of a run.
LEMMA RunEnds ==
  ASSUME PollInv, NEW invalidate, Release(invalidate)
  PROVE  PollInv' /\ Outage
<1>1. poll' = [pc |-> "idle", load |-> "", source |-> "", kind |-> "",
               points |-> <<>>, rows |-> <<>>, held |-> <<>>, counted |-> 0]
  BY DEF Release, Idle
<1> QED BY <1>1, PollFresh

\* The points are listed: rows of the seeder's tables.
LEMMA PointsListed ==
  ASSUME SeedInv, PollInv, List
  PROVE  PollInv' /\ Outage
<1> DEFINE points == IF poll.kind = "modbus" THEN ListModbusTags(poll.load)
                                             ELSE ListOPCUANodes(poll.load)
<1>1. poll.load \in LoadNames /\ poll.pc = "begin" /\ DOMAIN poll = DOMAIN Idle
      /\ poll.rows = <<>> /\ poll.held = <<>> /\ poll.counted = 0
      /\ Listed(poll.rows) /\ Listed(poll.held)
  BY DEF PollInv, PollShape, List
<1>2. /\ tags[poll.load] \in Seq(TagRows) /\ nodes[poll.load] \in Seq(NodeRows)
  BY <1>1 DEF SeedInv, SeederTypeOK
<1>3. ListModbusTags(poll.load) \in Seq(TagRows)
  BY <1>2, PickedType DEF ListModbusTags, Enabled
<1>4. Listed(ListModbusTags(poll.load))
  BY <1>3, SeqListed
<1>5. Listed(ListOPCUANodes(poll.load))
  <2> DEFINE e == Enabled(nodes[poll.load])
  <2>1. e \in Seq(NodeRows)
    BY <1>2, PickedType DEF Enabled
  <2> HIDE DEF e
  <2> DEFINE q == [i \in 1..Len(e) |-> OpcPoint(e[i])]
  <2>2. Len(e) \in Nat
    BY <2>1
  <2>3. Len(q) = Len(e) /\ q = [i \in 1..Len(e) |-> q[i]]
    BY <2>2
  <2>4. ListOPCUANodes(poll.load) = q
    BY DEF ListOPCUANodes, Map, e
  <2> HIDE DEF q
  <2>5. Listed(q)
    BY <2>2, <2>3, ZenonT(30) DEF Listed
  <2> QED BY <2>4, <2>5
<1>6. Listed(points) /\ (poll.kind = "modbus" => points \in Seq(TagRows))
  BY <1>3, <1>4, <1>5, ZenonT(30)
<1>7. \/ Release(FALSE)
      \/ poll' = [poll EXCEPT !.pc = "read", !.points = points]
  BY Zenon DEF List
<1> HIDE DEF points
<1>8. ASSUME poll' = [poll EXCEPT !.pc = "read", !.points = points] PROVE PollInv' /\ Outage
  <2>1. /\ poll'.pc = "read" /\ poll'.points = points /\ poll'.rows = <<>> /\ poll'.held = <<>>
        /\ poll'.counted = 0 /\ poll'.kind = poll.kind /\ DOMAIN poll' = DOMAIN Idle
    BY <1>1, <1>8 DEF Idle
  <2>2. Len(points) \in Nat
    BY <1>6 DEF Listed
  <2>3. Len(<<>>) = 0 /\ Listed(<<>>)
    BY <1>1
  <2>4. /\ Len(poll'.rows) = 0 /\ Len(poll'.held) = 0 /\ Listed(poll'.rows) /\ Listed(poll'.held)
        /\ Listed(poll'.points) /\ Len(poll'.points) \in Nat
        /\ poll'.kind = "modbus" => poll'.points \in Seq(TagRows)
    BY <1>6, <2>1, <2>2, <2>3, SMTT(30)
  <2>5. PollShape'
    BY <2>1, <2>4 DEF PollShape
  <2>6. DOMAIN poll'.rows = {}
    <3>1. DOMAIN <<>> = {}
      OBVIOUS
    <3> QED BY <2>1, <3>1, SMTT(30)
  <2>7. DecodedRight' /\ OpcAligned'
    BY <2>6, Zenon DEF DecodedRight, OpcAligned
  <2>8. Outage
    BY <1>1 DEF Outage
  <2> QED BY <2>5, <2>7, <2>8, SMTT(30) DEF PollInv
<1> QED BY <1>7, <1>8, RunEnds

\* All tags have their row.
LEMMA TagsDone ==
  ASSUME PollInv, TagsRead
  PROVE  PollInv' /\ Outage
<1>1. /\ DOMAIN poll = DOMAIN Idle /\ poll.kind = "modbus" /\ Len(poll.rows) \in Nat
      /\ Len(poll.rows) = Len(poll.points) /\ poll' = [poll EXCEPT !.pc = "emit"]
  BY DEF PollInv, PollShape, TagsRead, Listed
<1>2. /\ poll'.pc = "emit" /\ poll'.points = poll.points /\ poll'.rows = poll.rows
      /\ poll'.held = poll.held /\ poll'.counted = poll.counted /\ poll'.kind = poll.kind
      /\ poll'.load = poll.load /\ DOMAIN poll' = DOMAIN Idle
  BY <1>1 DEF Idle
<1>3. PollShape'
  BY <1>1, <1>2 DEF PollInv, PollShape
<1>4. DecodedRight'
  <2>1. \A i \in DOMAIN poll.rows : RightAt(poll.points[i], poll.rows[i], poll.held[i])
    BY <1>1, RightRows, Zenon DEF PollInv
  <2>2. \A i \in DOMAIN poll'.rows : RightAt(poll'.points[i], poll'.rows[i], poll'.held[i])
    BY <1>2, <2>1, Zenon
  <2> QED BY <2>2, Zenon DEF DecodedRight, RightAt
<1>5. OpcAligned'
  <2>1. poll'.kind # "opcua"
    BY <1>1, <1>2
  <2> QED BY <2>1, Zenon DEF OpcAligned
<1>6. Outage
  BY <1>1, <1>2 DEF Outage
<1> QED BY <1>3, <1>4, <1>5, <1>6, SMTT(30) DEF PollInv

\* A step of the run leaves the tables alone.
LEMMA RunStepKeeps ==
  ASSUME SeedInv, PollInv, RunStep
  PROVE  PollInv' /\ Outage /\ UNCHANGED seedVars
<1>1. CASE GiveUp \/ ListFails \/ \E stored \in BOOLEAN : Emit(stored)
  <2>1. PICK invalidate : Release(invalidate)
    BY <1>1, Zenon DEF GiveUp, ListFails, Emit
  <2>2. UNCHANGED seedVars
    BY <2>1, Zenon DEF Release
  <2> QED BY <2>1, <2>2, RunEnds, SMTT(30)
<1>2. CASE List
  <2>1. UNCHANGED seedVars
    BY <1>2, Zenon DEF List, Release
  <2> QED BY <1>2, <2>1, PointsListed, SMTT(30)
<1>3. CASE SetupFails \/ RequestFails
  <2>1. UNCHANGED seedVars
    BY <1>3, Zenon DEF SetupFails, RequestFails, Append1
  <2> QED BY <1>3, <2>1, FailedTag
<1>4. CASE BitAnswers
  <2>1. UNCHANGED seedVars
    BY <1>4, ZenonT(30) DEF BitAnswers, Append1
  <2> QED BY <1>4, <2>1, BitTag
<1>5. CASE RegistersAnswer
  <2>1. UNCHANGED seedVars
    BY <1>5, ZenonT(30) DEF RegistersAnswer, Append1
  <2> QED BY <1>5, <2>1, RegisterTag
<1>6. CASE TagsRead
  <2>1. UNCHANGED seedVars
    BY <1>6, ZenonT(30) DEF TagsRead
  <2> QED BY <1>6, <2>1, TagsDone
<1>7. CASE OpcNothingToAsk \/ OpcRequestFails
  <2>1. UNCHANGED seedVars
    BY <1>7, ZenonT(30) DEF OpcNothingToAsk, OpcRequestFails, OpcEmits
  <2> QED BY <1>7, <2>1, NothingRead
<1>8. CASE OpcAnswers
  <2>1. UNCHANGED seedVars
    BY <1>8, Zenon DEF OpcAnswers, OpcEmits
  <2> QED BY <1>8, <2>1, AnswerRead
<1> QED BY <1>1, <1>2, <1>3, <1>4, <1>5, <1>6, <1>7, <1>8, ZenonT(30) DEF RunStep

\* A run starts, or cannot; a device fails or comes back; a connection is swept.
LEMMA ConnStepKeeps ==
  ASSUME PollInv,
         \/ \E l \in LoadNames, aged \in BOOLEAN : Obtain(l, aged) \/ ObtainFails(l, aged)
         \/ \E s \in SourceNames : GoesDown(s) \/ ComesBack(s) \/ Sweep(s)
  PROVE  PollInv' /\ Outage /\ UNCHANGED seedVars
<1>1. ASSUME NEW l \in LoadNames, NEW aged \in BOOLEAN, Obtain(l, aged)
      PROVE  PollInv' /\ Outage /\ UNCHANGED seedVars
  <2>1. PICK s, kind : poll' = [Idle EXCEPT !.pc = "begin", !.load = l, !.source = s,
                                            !.kind = kind]
    BY <1>1, ZenonT(30) DEF Obtain
  <2>2. poll' = [pc |-> "begin", load |-> l, source |-> s, kind |-> kind,
                 points |-> <<>>, rows |-> <<>>, held |-> <<>>, counted |-> 0]
    BY <2>1 DEF Idle
  <2>3. UNCHANGED seedVars
    BY <1>1, Zenon DEF Obtain
  <2> QED BY <2>2, <2>3, PollFresh
<1>2. ASSUME poll' = poll, UNCHANGED seedVars
      PROVE  PollInv' /\ Outage /\ UNCHANGED seedVars
  BY <1>2, PollKept
<1>3. ASSUME NEW l \in LoadNames, NEW aged \in BOOLEAN, ObtainFails(l, aged)
      PROVE  poll' = poll /\ UNCHANGED seedVars
  BY <1>3, Zenon DEF ObtainFails
<1>4. ASSUME NEW s \in SourceNames, GoesDown(s) \/ ComesBack(s) \/ Sweep(s)
      PROVE  poll' = poll /\ UNCHANGED seedVars
  BY <1>4, Zenon DEF GoesDown, ComesBack, Sweep
<1> QED BY <1>1, <1>2, <1>3, <1>4, ZenonT(30)

\* Seeding and the other tools leave the run alone.
LEMMA SeedStepKeeps ==
  ASSUME SeedInv, PollInv,
         \/ \E file \in Files : Seed(file)
         \/ \E l \in LoadNames : EditLoad(l) /\ UNCHANGED pollVars
         \/ \E s \in SourceNames : DeleteSource(s) /\ UNCHANGED pollVars
  PROVE  SeedInv' /\ Settles /\ ChoiceStays /\ PollInv' /\ Outage
<1>1. poll' = poll
  BY Zenon DEF Seed, pollVars
<1>2. PollInv' /\ Outage
  BY <1>1, PollKept
<1>3. ASSUME NEW file \in Files, Seed(file) PROVE SeedInv' /\ Settles /\ ChoiceStays
  <2>1. /\ SeedInv'
        /\ again' = 3 => UNCHANGED tables
        /\ last' = file
        /\ \A l \in LoadNames : LoadKept(Tables, file, l, Tables')
    BY <1>3, ApplySeeds, Zenon DEF Seed
  <2>2. Tables.loads = loads /\ Tables'.loads = loads'
    BY DEF Tables
  <2>3. ChoiceStays
    <3> SUFFICES ASSUME NEW f \in Files, NEW l \in LoadNames, last' = f,
                        loads[l].state = "live",
                        \A i \in DOMAIN f.loads : f.loads[i].name = l => f.loads[i].enabled = "unset"
                 PROVE  loads'[l].enabled = loads[l].enabled
      BY ZenonT(30) DEF ChoiceStays
    <3>1. f = file
      BY <2>1
    <3>2. LoadKept(Tables, f, l, Tables')
      BY <2>1, <3>1
    <3>3. Tables.loads[l].state = "live"
      BY <2>2
    <3>4. Tables'.loads[l].enabled = Tables.loads[l].enabled
      BY <3>2, <3>3, ZenonT(30) DEF LoadKept
    <3> QED BY <2>2, <3>4
  <2> QED BY <2>1, <2>3 DEF Settles
<1>4. ASSUME \/ \E l \in LoadNames : EditLoad(l)
             \/ \E s \in SourceNames : DeleteSource(s)
      PROVE  SeedInv' /\ Settles /\ ChoiceStays
  <2>1. SeedInv' /\ again' = 0
    BY <1>4, EditSeeds
  <2> QED BY <2>1 DEF Settles, ChoiceStays
<1> QED BY <1>2, <1>3, <1>4, Zenon

\* A step of the whole.
LEMMA TeleStep ==
  ASSUME TeleInv, [TeleNext]_teleVars
  PROVE  /\ TeleInv'
         /\ [Settles]_seedVars /\ [ChoiceStays]_seedVars /\ [Outage]_teleVars
<1>1. SeedInv /\ PollInv
  BY DEF TeleInv, PollInv
<1>2. ASSUME PollInv', Outage, UNCHANGED seedVars
      PROVE  TeleInv' /\ [Settles]_seedVars /\ [ChoiceStays]_seedVars /\ [Outage]_teleVars
  <2>1. SeedInv'
    BY <1>1, <1>2, SeedKept, SMTT(30)
  <2>2. TeleInv'
    BY <1>2, <2>1 DEF TeleInv, PollInv
  <2> QED BY <1>2, <2>2, ZenonT(30)
<1>3. CASE RunStep
  BY <1>1, <1>2, <1>3, RunStepKeeps, SMTT(30)
<1>4. CASE \/ \E l \in LoadNames, aged \in BOOLEAN : Obtain(l, aged) \/ ObtainFails(l, aged)
           \/ \E s \in SourceNames : GoesDown(s) \/ ComesBack(s) \/ Sweep(s)
  BY <1>1, <1>2, <1>4, ConnStepKeeps, SMTT(30)
<1>5. CASE \/ \E file \in Files : Seed(file)
           \/ \E l \in LoadNames : EditLoad(l) /\ UNCHANGED pollVars
           \/ \E s \in SourceNames : DeleteSource(s) /\ UNCHANGED pollVars
  <2>1. SeedInv' /\ Settles /\ ChoiceStays /\ PollInv' /\ Outage
    BY <1>1, <1>5, SeedStepKeeps
  <2>2. TeleInv'
    BY <2>1 DEF TeleInv, PollInv
  <2> QED BY <2>1, <2>2, ZenonT(30)
<1>6. CASE UNCHANGED teleVars
  <2>1. poll' = poll /\ UNCHANGED seedVars
    BY <1>6, Zenon DEF teleVars, pollVars
  <2> QED BY <1>1, <1>2, <2>1, PollKept, SMTT(30)
<1> QED BY <1>3, <1>4, <1>5, <1>6, ZenonT(30) DEF TeleNext

\* At the start the tables are empty and no run is under way.
LEMMA TeleStart == TeleInit => TeleInv
<1> SUFFICES ASSUME TeleInit PROVE TeleInv
  OBVIOUS
<1>1. SeedInv
  BY SeedInit DEF TeleInit
<1>2. poll = Idle
  BY DEF TeleInit
<1>3. /\ poll.pc = "idle" /\ poll.load = "" /\ poll.kind = "" /\ poll.points = <<>>
      /\ poll.rows = <<>> /\ poll.held = <<>> /\ poll.counted = 0 /\ DOMAIN poll = DOMAIN Idle
  BY <1>2 DEF Idle
<1>4. Len(<<>>) = 0 /\ <<>> \in Seq(TagRows) /\ DOMAIN <<>> = {}
  OBVIOUS
<1>5. Listed(<<>>)
  BY <1>4, SeqListed, ZenonT(30)
<1>6. /\ Listed(poll.points) /\ Listed(poll.rows) /\ Listed(poll.held)
      /\ Len(poll.points) = 0 /\ Len(poll.rows) = 0 /\ Len(poll.held) = 0
      /\ DOMAIN poll.rows = {} /\ poll.points \in Seq(TagRows)
  BY <1>3, <1>4, <1>5
<1>7. PollShape
  <2>1. poll.counted \in 0..Len(poll.rows) /\ Len(poll.rows) <= Len(poll.points)
    <3>1. poll.counted = 0 /\ Len(poll.rows) = 0 /\ Len(poll.points) = 0
      BY <1>3, <1>6
    <3> QED BY <3>1
  <2>2. \A i \in 1..Len(poll.rows) : poll.rows[i].name = poll.points[i].name
    <3>1. Len(poll.rows) = 0
      BY <1>6
    <3> QED BY <3>1
  <2> QED BY <1>3, <1>6, <2>1, <2>2, ZenonT(30) DEF PollShape
<1>8. DecodedRight /\ OpcAligned
  BY <1>6, Zenon DEF DecodedRight, OpcAligned
<1> QED BY <1>1, <1>7, <1>8, SMTT(30) DEF TeleInv

(***************************************************************************)
(* The theorems.                                                           *)
(***************************************************************************)
\* TeleInv holds always, whatever files are applied and whatever other tools
\* write while a run is under way.
THEOREM TeleInvariance == TeleSpec => []TeleInv
<1>1. TeleInv /\ [TeleNext]_teleVars => TeleInv'
  BY TeleStep
<1> QED BY <1>1, TeleStart, PTL DEF TeleSpec

\* The batch that a run emits has one row per point listed, in their order,
\* whatever failed on the way (modbus and opcua, Read).
THEOREM RowsTheorem == TeleSpec => []OneRowPerPoint
<1>1. TeleInv => OneRowPerPoint
  <2> SUFFICES ASSUME TeleInv, Complete PROVE OneRowPerPoint
    BY DEF OneRowPerPoint
  <2>1. /\ Listed(poll.rows) /\ Len(poll.rows) = Len(poll.points)
        /\ \A i \in 1..Len(poll.rows) : poll.rows[i].name = poll.points[i].name
        /\ poll.counted \in 0..Len(poll.rows)
    BY DEF TeleInv, PollShape, Complete
  <2>2. DOMAIN poll.rows = 1..Len(poll.rows) /\ Len(poll.rows) \in Nat
    BY <2>1, SMTT(30) DEF Listed
  <2> QED BY <2>1, <2>2 DEF OneRowPerPoint
<1> QED BY <1>1, TeleInvariance, PTL

\* A Modbus value that came is in the row, and the row of a tag in big byte order
\* carries what the device held, in either word order and as far as a float64 can
\* hold it (readRegisters).
THEOREM DecodedTheorem == TeleSpec => []DecodedRight
<1>1. TeleInv => DecodedRight
  BY DEF TeleInv
<1> QED BY <1>1, TeleInvariance, PTL

\* An OPC UA row carries a value exactly when the server returned one for that
\* very node: respIdx is the rank of the node among those that were asked for.
THEOREM AlignedTheorem == TeleSpec => []OpcAligned
<1>1. TeleInv => OpcAligned
  BY DEF TeleInv
<1> QED BY <1>1, TeleInvariance, PTL

\* What a file declares is what the tables hold once it has been applied, in every
\* column: the flags and the columns with defaults of the sources and the loads
\* from the second application on, and the tags and nodes but for a scale of 0
\* and for being switched off (Apply, upsertSource, upsertLoad).
THEOREM FileWinsTheorem == TeleSpec => []FileWins
<1>1. TeleInv => FileWins
  BY InvFileWins DEF TeleInv
<1> QED BY <1>1, TeleInvariance, PTL

\* From the second application on, applying a file again changes nothing: after
\* the first the tables agree with the file but for defaults (Written), after the
\* second they agree with its zero values too (Settled).
THEOREM SettlesTheorem == TeleSpec => SeedSettles
<1>1. TeleInv /\ [TeleNext]_teleVars => [again' = 3 => UNCHANGED tables]_seedVars
  BY TeleStep DEF Settles
<1> QED BY <1>1, TeleInvariance, PTL DEF TeleSpec, SeedSettles

\* A file that is silent about a load's enabled flag leaves it as an operator
\* set it (upsertLoad, boolOr).
THEOREM ChoiceTheorem == TeleSpec => OperatorsChoiceStays
<1>1. TeleInv /\ [TeleNext]_teleVars =>
        [\A f \in Files, l \in LoadNames :
           /\ last' = f /\ again' > 0
           /\ loads[l].state = "live"
           /\ \A i \in DOMAIN f.loads : f.loads[i].name = l => f.loads[i].enabled = "unset"
           => loads'[l].enabled = loads[l].enabled]_seedVars
  BY TeleStep, Zenon DEF ChoiceStays
<1> QED BY <1>1, TeleInvariance, PTL DEF TeleSpec, OperatorsChoiceStays

\* Over a dead connection only bad rows are read.
THEOREM OutageTheorem == TeleSpec => OutageShows
<1>1. TeleInv /\ [TeleNext]_teleVars =>
        [\A s \in SourceNames :
           conn[s] = "dead" /\ poll.source = s /\ poll.pc = "read" =>
             \A i \in (Len(poll.rows) + 1)..Len(poll'.rows) : poll'.rows[i].quality = "bad"]_teleVars
  BY TeleStep, Zenon DEF Outage
<1> QED BY <1>1, TeleInvariance, PTL DEF TeleSpec, OutageShows
=============================================================================
