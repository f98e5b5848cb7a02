---------------------------- MODULE ModbusDecode ----------------------------
(***************************************************************************)
(* Reading one Modbus tag: how many registers, in which order their bytes  *)
(* are taken, and what value they decode to.                               *)
(*                                                                         *)
(* A byte is a digit below Base (256 in the code; any even number keeps    *)
(* the places and the sign).  A register is a pair of bytes.  An integer   *)
(* becomes a float64 when it is decoded; the pattern of a float is kept as *)
(* a number.  Scaling is kept symbolic; whether its result is finite is    *)
(* left to the reader of the tag.                                          *)
(***************************************************************************)
EXTENDS Integers, Sequences

CONSTANTS Base,
          Exact   \* the integers up to this one are float64s (2^53 in the code)

ASSUME BaseAssumption == Base \in Nat /\ Base > 0 /\ Base % 2 = 0
ASSUME ExactAssumption == Exact \in Nat \ {0}

Signed   == {"int16", "int32", "int64"}
Unsigned == {"uint16", "uint32", "uint64"}
Floats   == {"float32", "float64"}
Supported == Signed \cup Unsigned \cup Floats

\* The registers a data type takes; 1 for what is not supported.
TypeWidth(t) ==
  IF t \in {"int32", "uint32", "float32"} THEN 2
  ELSE IF t \in {"int64", "uint64", "float64"} THEN 4 ELSE 1

quantityFor(t, override) == IF override > 0 THEN override ELSE TypeWidth(t)

\* The client library's reading of the words of an answer: for a tag in little
\* byte order (SetEncoding) the first byte of each word is taken as the low one.
\* The order of the words, which it is told too, does not matter to it here.
ReadRegisters(words, byteOrder) ==
  [i \in 1..Len(words) |->
     IF byteOrder = "little" THEN <<words[i][2], words[i][1]>> ELSE words[i]]

\* The registers as one buffer, high byte first.
Buffer(regs) == [i \in 1..(2 * Len(regs)) |-> regs[(i + 1) \div 2][2 - (i % 2)]]

\* The first byte of each pair stays the first.
swapWords(buf) ==
  [i \in 1..Len(buf) |->
     IF i % 2 = 1 THEN buf[Len(buf) - i] ELSE buf[Len(buf) - i + 2]]

BigEndian(buf) ==
  LET v[k \in 0..Len(buf)] == IF k = 0 THEN 0 ELSE v[k - 1] * Base + buf[k]
  IN v[Len(buf)]
LittleEndian(buf) == BigEndian([i \in 1..Len(buf) |-> buf[(Len(buf) - i) + 1]])

\* Base to the n: how many values n bytes hold.
Power(n) ==
  LET p[k \in 0..n] == IF k = 0 THEN 1 ELSE p[k - 1] * Base
  IN p[n]

\* Two's complement in n bytes.
ToSigned(v, n) == IF v >= Power(n) \div 2 THEN v - Power(n) ELSE v

Magnitude(v) == IF v < 0 THEN -v ELSE v

\* How far apart float64s are around a: 1 up to Exact, and twice as far whenever
\* a doubles.  Eleven times is enough for 64 bits.
Spacing(a) ==
  LET u[k \in 0..11] ==
        IF k = 0 THEN 1 ELSE IF a > Exact * u[k - 1] THEN 2 * u[k - 1] ELSE u[k - 1]
  IN u[11]

\* The conversion of an integer: to the nearest, of two to the even one.
Float64(v) ==
  LET a == Magnitude(v)  u == Spacing(a)  q == a \div u  r == a % u
      down == 2 * r < u \/ (2 * r = u /\ q % 2 = 0)
      n == IF down THEN q * u ELSE (q + 1) * u
  IN IF v < 0 THEN -n ELSE n

Failure == [ok |-> FALSE, value |-> <<>>]
Success(v) == [ok |-> TRUE, value |-> <<v>>]

\* The leading bytes of the buffer decide; too few, or an unsupported type, is
\* an error.
decodeNumeric_Unsigned(buf, t, byteOrder) ==
  LET n == 2 * TypeWidth(t)
  IN IF t \notin Supported \/ Len(buf) < n THEN Failure
     ELSE LET b == SubSeq(buf, 1, n)
              v == IF byteOrder = "little" THEN LittleEndian(b) ELSE BigEndian(b)
          IN Success(IF t \in Floats THEN v ELSE Float64(v))
decodeNumeric(buf, t, byteOrder) ==
  LET n == 2 * TypeWidth(t)
  IN IF t \notin Supported \/ Len(buf) < n THEN Failure
     ELSE LET b == SubSeq(buf, 1, n)
              v == IF byteOrder = "little" THEN LittleEndian(b) ELSE BigEndian(b)
          IN Success(IF t \in Floats THEN v
                     ELSE Float64(IF t \in Signed THEN ToSigned(v, n) ELSE v))

Scaled(raw, tag) == <<raw, tag.scale, tag.offset>>

\* readRegisters, on the registers that the client returned.
FromRegisters(regs, tag) ==
  LET buf == Buffer(regs)
      ordered == IF tag.wordOrder = "low_first" /\ Len(regs) >= 2
                 THEN swapWords(buf) ELSE buf
      raw == decodeNumeric(ordered, tag.type, tag.byteOrder)
  IN [ok |-> raw.ok, value |-> IF raw.ok THEN Scaled(raw.value[1], tag) ELSE <<>>]

(***************************************************************************)
(* The reference: how a device lays a value out in registers.  The byte    *)
(* order is that of the two bytes of a register, the word order that of    *)
(* the registers: ABCD, CDAB, BADC and DCBA.                               *)
(***************************************************************************)
\* The values a type holds.
ValuesOf(t) ==
  LET m == Power(2 * TypeWidth(t))
  IN IF t \in Signed THEN -(m \div 2)..(m \div 2 - 1) ELSE 0..(m - 1)

\* The k-th byte of v in n bytes, counted from the most significant.
ByteOf(v, k, n) == ((v % Power(n)) \div Power(n - k)) % Base

\* Which byte of the value is sent first or second in register i of w.
ByteAt(i, second, w, byteOrder, wordOrder) ==
  LET word == IF wordOrder = "low_first" THEN w + 1 - i ELSE i
      low == IF byteOrder = "little" THEN ~second ELSE second
  IN 2 * word - (IF low THEN 0 ELSE 1)

Layout(v, tag) ==
  LET w == TypeWidth(tag.type)
      Byte(i, second) == ByteOf(v, ByteAt(i, second, w, tag.byteOrder, tag.wordOrder), 2 * w)
  IN [i \in 1..w |-> <<Byte(i, FALSE), Byte(i, TRUE)>>]

\* x is what a float64 can hold of v: v itself up to Exact, and beyond it v but
\* for one part in Exact.
AsFloat(x, v) == /\ Magnitude(v) <= Exact => x = v
                 /\ Exact * Magnitude(x - v) <= Magnitude(v)

\* The value of a row is v, scaled as the tag says.
Carries(value, v, t) ==
  /\ value = <<value[1], t.scale, t.offset>>
  /\ IF t.type \in Floats THEN value[1] = v ELSE AsFloat(value[1], v)
=============================================================================
