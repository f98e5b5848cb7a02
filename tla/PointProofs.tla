---------------------------- MODULE PointProofs -----------------------------
(***************************************************************************)
(* Proofs about the points of the telemetry sources: how a Modbus point is *)
(* read from its registers, and how the seeder keeps the points, the loads *)
(* and the sources in the tables.  For any base, files and names.          *)
(*                                                                         *)
(* The loops are recursive functions.  What they compute is proved by      *)
(* induction over the set of the turns at which it holds (TurnByTurn), which*)
(* needs no theorem with an operator as a parameter.                       *)
(***************************************************************************)
EXTENDS Seeder, ModbusDecode, WellFoundedInduction, TLAPS

(***************************************************************************)
(* Induction.                                                              *)
(***************************************************************************)
\* A set of numbers that is not empty has a least one.
LEMMA LeastNat ==
  ASSUME NEW T \in SUBSET Nat, T # {}
  PROVE  \E m \in T : \A k \in T : m <= k
<1> DEFINE R == {ss \in Nat \X Nat : ss[1] < ss[2]}
<1>1. IsWellFoundedOn(R, Nat)
  BY NatLessThanWellFounded DEF OpToRel
<1>2. PICK x \in T : \A y \in T : ~ (<<y, x>> \in R)
  <2> HIDE DEF R
  <2> QED BY <1>1, WFMin
<1>3. ASSUME NEW y \in T PROVE x <= y
  <2>1. x \in Nat /\ y \in Nat
    OBVIOUS
  <2>2. <<y, x>> \in Nat \X Nat /\ <<y, x>>[1] = y /\ <<y, x>>[2] = x
    BY <2>1
  <2>3. ~(<<y, x>>[1] < <<y, x>>[2])
    BY <1>2, <2>2
  <2> QED BY <2>1, <2>2, <2>3
<1> QED BY <1>3

\* A set that has 0 and with k - 1 also k, up to n, has all of 0..n.
LEMMA TurnByTurn ==
  ASSUME NEW n \in Nat, NEW S, 0 \in S, \A k \in 1..n : k - 1 \in S => k \in S
  PROVE  \A k \in 0..n : k \in S
<1> SUFFICES ASSUME NEW k \in 0..n, k \notin S PROVE FALSE
  OBVIOUS
<1> DEFINE T == {i \in 0..n : i \notin S}
<1>1. T \in SUBSET Nat /\ T # {}
  OBVIOUS
<1>2. PICK m \in T : \A i \in T : m <= i
  <2> HIDE DEF T
  <2> QED BY <1>1, LeastNat
<1>3. m \in 1..n /\ m - 1 \in 0..n
  BY <1>2
<1>4. m - 1 \in S
  BY <1>2, <1>3
<1> QED BY <1>2, <1>3, <1>4

(***************************************************************************)
(* The loops of Lists.                                                     *)
(***************************************************************************)
\* What a loop picks from a list has the type of the list.
LEMMA PickedType ==
  ASSUME NEW X, NEW s \in Seq(X), NEW at
  PROVE  Picked(s, at) \in Seq(X)
<1> DEFINE n == Len(s)
           Turn(l, k) == IF k \in at THEN Append(l, s[k]) ELSE l
           Rec(p, m) == p = [k \in 0..m |-> IF k = 0 THEN <<>> ELSE Turn(p[k - 1], k)]
           S == {m \in Nat : \E p : Rec(p, m)}
           loop == CHOOSE p : Rec(p, n)
<1>1. n \in Nat
  OBVIOUS
<1>2. Picked(s, at) = loop[n]
  BY DEF Picked
<1>3. \A l \in Seq(X), k \in 1..n : Turn(l, k) \in Seq(X)
  OBVIOUS
<1> HIDE DEF n, Turn
<1>4. 0 \in S
  <2>1. Rec([k \in 0..0 |-> <<>>], 0)
    OBVIOUS
  <2> QED BY <2>1
<1>5. ASSUME NEW m \in 1..n, m - 1 \in S PROVE m \in S
  <2>1. PICK p : Rec(p, m - 1)
    BY <1>5
  <2> DEFINE q == [k \in 0..m |-> IF k < m THEN p[k] ELSE Turn(p[m - 1], m)]
  <2>2. Rec(q, m)
    BY <1>1, <2>1
  <2> HIDE DEF Rec, q
  <2> QED BY <1>1, <2>2
<1>6. n \in S
  <2> HIDE DEF S
  <2>1. \A k \in 0..n : k \in S
    BY <1>1, <1>4, <1>5, TurnByTurn, SMTT(30)
  <2> QED BY <1>1, <2>1
<1>7. Rec(loop, n)
  <2> HIDE DEF Rec
  <2> QED BY <1>6
<1> HIDE DEF loop
<1> DEFINE T == {k \in 0..n : loop[k] \in Seq(X)}
<1>8. 0 \in T
  BY <1>1, <1>7
<1>9. ASSUME NEW k \in 1..n, k - 1 \in T PROVE k \in T
  <2>1. loop[k] = Turn(loop[k - 1], k)
    BY <1>1, <1>7
  <2> QED BY <1>1, <1>3, <1>9, <2>1
<1>10. n \in T
  <2> HIDE DEF T
  <2>1. \A k \in 0..n : k \in T
    BY <1>1, <1>8, <1>9, TurnByTurn
  <2> QED BY <1>1, <2>1
<1> QED BY <1>2, <1>10

(***************************************************************************)
(* Reading a number from its bytes.                                        *)
(***************************************************************************)
\* Base to the n, by recursion.
LEMMA PowerTurns ==
  ASSUME NEW n \in Nat
  PROVE  \E p : /\ Power(n) = p[n] /\ p[0] = 1
                /\ \A k \in 1..n : p[k] = p[k - 1] * Base
<1> DEFINE Rec(p, m) == p = [k \in 0..m |-> IF k = 0 THEN 1 ELSE p[k - 1] * Base]
           S == {m \in Nat : \E p : Rec(p, m)}
           loop == CHOOSE p : Rec(p, n)
<1>1. 0 \in S
  <2>1. Rec([k \in 0..0 |-> 1], 0)
    OBVIOUS
  <2> QED BY <2>1
<1>2. ASSUME NEW m \in 1..n, m - 1 \in S PROVE m \in S
  <2>1. PICK p : Rec(p, m - 1)
    BY <1>2
  <2> DEFINE q == [k \in 0..m |-> IF k < m THEN p[k] ELSE p[m - 1] * Base]
  <2>2. Rec(q, m)
    BY <2>1
  <2> HIDE DEF Rec, q
  <2> QED BY <2>2
<1>3. n \in S
  <2> HIDE DEF S
  <2> QED BY <1>1, <1>2, TurnByTurn
<1>4. Rec(loop, n)
  <2> HIDE DEF Rec
  <2> QED BY <1>3
<1>5. Power(n) = loop[n]
  BY DEF Power
<1> HIDE DEF loop
<1> QED BY <1>4, <1>5

\* One more byte holds Base times as many values.
LEMMA PowerStep ==
  ASSUME NEW n \in Nat
  PROVE  Power(0) = 1 /\ Power(n + 1) = Power(n) * Base
<1>1. Power(0) = 1
  BY PowerTurns
<1>2. PICK p : /\ Power(n + 1) = p[n + 1] /\ p[0] = 1
               /\ \A k \in 1..(n + 1) : p[k] = p[k - 1] * Base
  <2>1. n + 1 \in Nat
    OBVIOUS
  <2> QED BY <2>1, PowerTurns
<1>3. PICK q : Power(n) = q[n] /\ q[0] = 1 /\ \A k \in 1..n : q[k] = q[k - 1] * Base
  BY PowerTurns
<1> DEFINE S == {k \in 0..n : p[k] = q[k]}
<1>4. 0 \in S
  BY <1>2, <1>3
<1>5. ASSUME NEW k \in 1..n, k - 1 \in S PROVE k \in S
  BY <1>2, <1>3, <1>5
<1>6. \A k \in 0..n : k \in S
  <2> HIDE DEF S
  <2> QED BY <1>4, <1>5, TurnByTurn
<1>7. p[n] = q[n] /\ p[n + 1] = p[n] * Base
  BY <1>2, <1>6
<1> QED BY <1>1, <1>2, <1>3, <1>7

\* A power is a positive number.
LEMMA PowerType ==
  ASSUME NEW n \in Nat
  PROVE  Power(n) \in Nat \ {0}
<1> DEFINE S == {k \in 0..n : Power(k) \in Nat \ {0}}
<1>1. 0 \in S
  BY PowerStep
<1>2. ASSUME NEW k \in 1..n, k - 1 \in S PROVE k \in S
  <2>1. k - 1 \in Nat /\ (k - 1) + 1 = k
    OBVIOUS
  <2>2. Power(k) = Power(k - 1) * Base
    BY <2>1, PowerStep
  <2>3. ASSUME NEW x \in Nat \ {0} PROVE x * Base \in Nat \ {0}
    BY BaseAssumption
  <2> QED BY <1>2, <2>2, <2>3
<1> HIDE DEF S
<1>3. \A k \in 0..n : k \in S
  BY <1>1, <1>2, TurnByTurn
<1> QED BY <1>3 DEF S

\* Base is even, and so are its powers.
LEMMA PowerEven ==
  ASSUME NEW n \in Nat \ {0}
  PROVE  Power(n) = 2 * (Power(n) \div 2)
<1>1. n - 1 \in Nat /\ (n - 1) + 1 = n
  OBVIOUS
<1>2. Power(n) = Power(n - 1) * Base /\ Power(n - 1) \in Nat
  BY <1>1, PowerStep, PowerType
<1>3. PICK h \in Nat : Base = 2 * h
  BY BaseAssumption
<1>4. ASSUME NEW x \in Nat PROVE x * (2 * h) = 2 * (x * h) /\ x * h \in Nat
  OBVIOUS
<1>5. ASSUME NEW y \in Nat PROVE 2 * y = 2 * ((2 * y) \div 2)
  OBVIOUS
<1> QED BY <1>2, <1>3, <1>4, <1>5

\* A quotient is the only number with its remainder in range.
LEMMA DivUnique ==
  ASSUME NEW x \in Nat, NEW d \in Nat \ {0}, NEW q \in Nat, NEW r \in 0..(d - 1), x = d * q + r
  PROVE  x \div d = q
OBVIOUS

\* Dividing by p and then by b is dividing by p * b.
LEMMA DivChain ==
  ASSUME NEW x \in Nat, NEW p \in Nat \ {0}, NEW b \in Nat \ {0}
  PROVE  x \div p = (x \div (p * b)) * b + ((x \div p) % b)
<1> DEFINE q == x \div p  r == x % p
           s == q \div b  t == q % b
<1>1. q \in Nat /\ r \in 0..(p - 1) /\ x = p * q + r
  OBVIOUS
<1>2. s \in Nat /\ t \in 0..(b - 1) /\ q = b * s + t
  BY <1>1
<1> HIDE DEF q, r, s, t
<1>3. p * b \in Nat \ {0} /\ p * t + r \in Nat
  BY <1>1, <1>2
<1>4. p * t + r < p * b
  <2>1. p * t <= p * (b - 1)
    BY <1>2
  <2>2. p * (b - 1) = p * b - p
    OBVIOUS
  <2> QED BY <1>1, <1>2, <1>3, <2>1, <2>2
<1>5. x = (p * b) * s + (p * t + r)
  BY <1>1, <1>2
<1>6. x \div (p * b) = s
  BY <1>2, <1>3, <1>4, <1>5, DivUnique
<1>7. s * b = b * s
  BY <1>2
<1> QED BY <1>2, <1>6, <1>7 DEF q, t

\* binary.BigEndian puts a number together from its digits.
LEMMA BigEndianReads ==
  ASSUME NEW n \in Nat, NEW u \in 0..(Power(n) - 1), NEW b, Len(b) = n,
         \A k \in 1..n : b[k] = (u \div Power(n - k)) % Base
  PROVE  BigEndian(b) = u
<1> DEFINE Rec(v, m) == v = [k \in 0..m |-> IF k = 0 THEN 0 ELSE v[k - 1] * Base + b[k]]
           S == {m \in Nat : \E v : Rec(v, m)}
           loop == CHOOSE v : Rec(v, n)
<1>1. 0 \in S
  <2>1. Rec([k \in 0..0 |-> 0], 0)
    OBVIOUS
  <2> QED BY <2>1
<1>2. ASSUME NEW m \in 1..n, m - 1 \in S PROVE m \in S
  <2>1. PICK v : Rec(v, m - 1)
    BY <1>2
  <2> DEFINE w == [k \in 0..m |-> IF k < m THEN v[k] ELSE v[m - 1] * Base + b[m]]
  <2>2. Rec(w, m)
    BY <2>1
  <2> HIDE DEF Rec, w
  <2> QED BY <2>2
<1>3. n \in S
  <2> HIDE DEF S
  <2>1. \A k \in 0..n : k \in S
    BY <1>1, <1>2, TurnByTurn
  <2> QED BY <2>1
<1>4. Rec(loop, n)
  <2> HIDE DEF Rec
  <2> QED BY <1>3
<1>5. BigEndian(b) = loop[n]
  BY DEF BigEndian
<1> HIDE DEF loop
<1> DEFINE T == {k \in 0..n : loop[k] = u \div Power(n - k)}
<1>6. 0 \in T
  <2>1. Power(n) \in Nat \ {0}
    BY PowerType
  <2>2. u \div Power(n) = 0
    BY <2>1
  <2> QED BY <1>4, <2>2
<1>7. ASSUME NEW k \in 1..n, k - 1 \in T PROVE k \in T
  <2> DEFINE p == Power(n - k)
  <2>1. n - k \in Nat /\ n - (k - 1) = (n - k) + 1
    OBVIOUS
  <2>2. p \in Nat \ {0} /\ Power(n - (k - 1)) = p * Base
    BY <2>1, PowerStep, PowerType
  <2>3. loop[k - 1] = u \div (p * Base)
    BY <1>7, <2>2
  <2>4. loop[k] = loop[k - 1] * Base + b[k] /\ b[k] = (u \div p) % Base
    BY <1>4
  <2> HIDE DEF p
  <2>5. u \in Nat /\ Base \in Nat \ {0}
    BY BaseAssumption, PowerType
  <2>6. u \div p = (u \div (p * Base)) * Base + ((u \div p) % Base)
    BY <2>2, <2>5, DivChain
  <2> QED BY <2>3, <2>4, <2>6 DEF p
<1>8. n \in T
  <2> HIDE DEF T
  <2>1. \A k \in 0..n : k \in T
    BY <1>6, <1>7, TurnByTurn
  <2> QED BY <2>1
<1>9. u \div Power(0) = u
  <2>1. Power(0) = 1
    BY PowerStep
  <2>2. u \in Nat
    BY PowerType
  <2> QED BY <2>1, <2>2
<1> QED BY <1>5, <1>8, <1>9

\* Two's complement gives back the value that was laid out.
LEMMA SignedReads ==
  ASSUME NEW n \in Nat \ {0}, NEW v \in (-(Power(n) \div 2))..(Power(n) \div 2 - 1)
  PROVE  ToSigned(v % Power(n), n) = v
<1> DEFINE m == Power(n)  h == m \div 2
<1>1. m \in Nat \ {0} /\ m = 2 * h /\ h \in Nat
  BY PowerType, PowerEven
<1>2. v \in (-h)..(h - 1)
  OBVIOUS
<1> HIDE DEF m
<1>3. CASE v >= 0
  <2>1. v % m = v
    BY <1>1, <1>2, <1>3
  <2> QED BY <1>1, <1>2, <1>3, <2>1 DEF ToSigned, m
<1>4. CASE v < 0
  <2>1. v % m = v + m
    BY <1>1, <1>2, <1>4
  <2> QED BY <1>1, <1>2, <1>4, <2>1 DEF ToSigned, m
<1> QED BY <1>2, <1>3, <1>4

(***************************************************************************)
(* An integer as a float64.                                                *)
(***************************************************************************)
\* The spacing, by recursion.
LEMMA SpacingTurns ==
  ASSUME NEW a
  PROVE  \E u : /\ Spacing(a) = u[11] /\ u[0] = 1
                /\ \A k \in 1..11 :
                     u[k] = IF a > Exact * u[k - 1] THEN 2 * u[k - 1] ELSE u[k - 1]
<1> DEFINE Rec(u, m) ==
             u = [k \in 0..m |-> IF k = 0 THEN 1
                                 ELSE IF a > Exact * u[k - 1] THEN 2 * u[k - 1] ELSE u[k - 1]]
           S == {m \in Nat : \E u : Rec(u, m)}
           loop == CHOOSE u : Rec(u, 11)
<1>1. 0 \in S
  <2>1. Rec([k \in 0..0 |-> 1], 0)
    OBVIOUS
  <2> QED BY <2>1
<1>2. ASSUME NEW m \in 1..11, m - 1 \in S PROVE m \in S
  <2>1. PICK u : Rec(u, m - 1)
    BY <1>2
  <2> DEFINE x == u[m - 1]
             q == [k \in 0..m |-> IF k < m THEN u[k] ELSE IF a > Exact * x THEN 2 * x ELSE x]
  <2>2. Rec(q, m)
    BY <2>1, SMTT(30)
  <2> HIDE DEF Rec, q
  <2> QED BY <2>2
<1>3. 11 \in S
  <2> HIDE DEF S
  <2>1. 11 \in Nat /\ 11 \in 0..11
    OBVIOUS
  <2> QED BY <1>1, <1>2, <2>1, TurnByTurn
<1>4. Rec(loop, 11)
  <2> HIDE DEF Rec
  <2> QED BY <1>3
<1>5. Spacing(a) = loop[11]
  BY Zenon DEF Spacing
<1> HIDE DEF loop
<1> QED BY <1>4, <1>5

\* The spacing doubles only while a is more than Exact of its steps away.
LEMMA SpacingBounds ==
  ASSUME NEW a \in Nat
  PROVE  /\ Spacing(a) \in Nat \ {0}
         /\ a <= Exact => Spacing(a) = 1
         /\ Spacing(a) = 1 \/ Exact * Spacing(a) <= 2 * a
<1>1. PICK u : /\ Spacing(a) = u[11] /\ u[0] = 1
               /\ \A k \in 1..11 :
                    u[k] = IF a > Exact * u[k - 1] THEN 2 * u[k - 1] ELSE u[k - 1]
  BY SpacingTurns
<1> DEFINE Good(x) == /\ x \in Nat \ {0}
                      /\ a <= Exact => x = 1
                      /\ x = 1 \/ Exact * x <= 2 * a
           S == {k \in 0..11 : Good(u[k])}
<1>2. 0 \in S
  BY <1>1
<1>3. ASSUME NEW x, Good(x), a > Exact * x PROVE Good(2 * x)
  <2>1. Exact * (2 * x) = 2 * (Exact * x) /\ Exact * x \in Nat
    BY <1>3, ExactAssumption
  <2>2. ~(a <= Exact)
    <3>1. Exact <= Exact * x
      BY <1>3, ExactAssumption
    <3> QED BY <1>3, <2>1, <3>1, ExactAssumption
  <2> QED BY <1>3, <2>1, <2>2
<1>4. ASSUME NEW k \in 1..11, k - 1 \in S PROVE k \in S
  <2>1. Good(u[k - 1]) /\ k \in 0..11
    BY <1>4
  <2>2. u[k] = IF a > Exact * u[k - 1] THEN 2 * u[k - 1] ELSE u[k - 1]
    BY <1>1
  <2> HIDE DEF Good
  <2>3. Good(u[k])
    BY <1>3, <2>1, <2>2, Zenon
  <2> QED BY <2>1, <2>3
<1>5. 11 \in S
  <2>1. 11 \in Nat /\ 11 \in 0..11
    OBVIOUS
  <2> HIDE DEF S
  <2> QED BY <1>2, <1>4, <2>1, TurnByTurn
<1> QED BY <1>1, <1>5

\* Rounding to a multiple of u is off by at most half of u.
LEMMA Rounded ==
  ASSUME NEW a \in Nat, NEW u \in Nat \ {0}, NEW n, NEW q, NEW r, q = a \div u, r = a % u,
         \/ n = q * u /\ 2 * r <= u
         \/ n = (q + 1) * u /\ 2 * r >= u
  PROVE  n \in Nat /\ 2 * Magnitude(n - a) <= u
<1>1. q \in Nat /\ r \in 0..(u - 1) /\ a = u * q + r
  OBVIOUS
<1>2. q * u \in Nat /\ q * u = u * q /\ (q + 1) * u = q * u + u
  BY <1>1
<1> QED BY <1>1, <1>2 DEF Magnitude

\* float64(v) is v as far as a float64 can hold it.
LEMMA Float64Near ==
  ASSUME NEW v \in Int
  PROVE  AsFloat(Float64(v), v)
<1> DEFINE a == Magnitude(v)  u == Spacing(a)  q == a \div u  r == a % u
           down == 2 * r < u \/ (2 * r = u /\ q % 2 = 0)
           n == IF down THEN q * u ELSE (q + 1) * u
<1>1. a \in Nat /\ (v >= 0 => v = a) /\ (v < 0 => v = -a)
  BY DEF Magnitude
<1> HIDE DEF a
<1>2. u \in Nat \ {0} /\ (a <= Exact => u = 1) /\ (u = 1 \/ Exact * u <= 2 * a)
  BY <1>1, SpacingBounds
<1> HIDE DEF u
<1>3. r \in Nat
  BY <1>1, <1>2
<1>4. (n = q * u /\ 2 * r <= u) \/ (n = (q + 1) * u /\ 2 * r >= u)
  <2> HIDE DEF r, q
  <2>1. CASE down
    <3>1. 2 * r <= u
      BY <1>2, <1>3, <2>1
    <3> QED BY <2>1, <3>1
  <2>2. CASE ~down
    <3>1. 2 * r >= u
      BY <1>2, <1>3, <2>2
    <3> QED BY <2>2, <3>1
  <2> QED BY <2>1, <2>2
<1>5. n \in Nat /\ 2 * Magnitude(n - a) <= u
  <2>1. q = a \div u /\ r = a % u
    OBVIOUS
  <2> HIDE DEF q, r, n
  <2> QED BY <1>1, <1>2, <1>4, <2>1, Rounded
<1>6. Float64(v) = IF v < 0 THEN -n ELSE n
  BY Zenon DEF Float64, a, u
<1> HIDE DEF n
<1> DEFINE e == Magnitude(n - a)
<1>7. e \in Nat /\ Magnitude(Float64(v) - v) = e /\ (e = 0 => Float64(v) = v)
  BY <1>1, <1>5, <1>6 DEF Magnitude
<1>8. 2 * e <= u
  BY <1>5
<1> HIDE DEF e
<1>9. u = 1 => e = 0
  BY <1>7, <1>8
<1>10. Exact * e <= a
  <2>1. CASE u = 1
    BY <1>1, <1>9, <2>1, ExactAssumption
  <2>2. CASE Exact * u <= 2 * a
    <3>1. Exact * (2 * e) <= Exact * u
      BY <1>2, <1>7, <1>8, ExactAssumption
    <3>2. Exact * (2 * e) = 2 * (Exact * e) /\ Exact * e \in Nat /\ Exact * u \in Nat
      BY <1>2, <1>7, ExactAssumption
    <3> QED BY <1>1, <2>2, <3>1, <3>2
  <2> QED BY <1>2, <2>1, <2>2
<1> QED BY <1>2, <1>7, <1>9, <1>10, Zenon DEF AsFloat, a

(***************************************************************************)
(* Reading a value from its registers.                                     *)
(***************************************************************************)
\* A type takes one, two or four registers.
LEMMA Widths == \A t : TypeWidth(t) \in {1, 2, 4}
BY DEF TypeWidth

\* The places of the two halves of a register in the buffer.
LEMMA Halves ==
  ASSUME NEW w \in Nat, NEW q \in Nat, w <= q, NEW i \in 1..w
  PROVE  /\ 2 * i - 1 \in 1..(2 * q) /\ 2 * i \in 1..(2 * q)
         /\ 2 * i - 1 \in 1..(2 * w) /\ 2 * i \in 1..(2 * w)
         /\ ((2 * i - 1) + 1) \div 2 = i /\ (2 * i + 1) \div 2 = i
         /\ (2 * i - 1) % 2 = 1 /\ (2 * i) % 2 = 0
OBVIOUS

\* Turning the words around.
LEMMA Mirror ==
  ASSUME NEW w \in Nat, NEW i \in 1..w
  PROVE  /\ w + 1 - i \in 1..w /\ w + 1 - (w + 1 - i) = i
         /\ 2 * w - (2 * i - 1) = 2 * (w + 1 - i) - 1 /\ 2 * w - 2 * i + 2 = 2 * (w + 1 - i)
OBVIOUS

\* Every place is the first or the second half of a register.
LEMMA Pairs ==
  ASSUME NEW w \in Nat, NEW k \in 1..(2 * w)
  PROVE  \E i \in 1..w : k = 2 * i - 1 \/ k = 2 * i
<1>1. (k + 1) \div 2 \in 1..w /\ (k = 2 * ((k + 1) \div 2) - 1 \/ k = 2 * ((k + 1) \div 2))
  OBVIOUS
<1> QED BY <1>1

\* The byte that the decoder takes k-th from its buffer, little end first or last.
Place(k, w, bytes) == IF bytes = "little" THEN 2 * w + 1 - k ELSE k

\* The buffer that readRegisters fills has the two halves of each register in turn.
LEMMA BufferHalves ==
  ASSUME NEW regs, NEW q \in Nat, Len(regs) = q
  PROVE  /\ Len(Buffer(regs)) = 2 * q
         /\ \A i \in 1..q : /\ Buffer(regs)[2 * i - 1] = regs[i][1]
                            /\ Buffer(regs)[2 * i] = regs[i][2]
<1>1. Len(Buffer(regs)) = 2 * q
  BY DEF Buffer
<1>2. ASSUME NEW i \in 1..q
      PROVE  Buffer(regs)[2 * i - 1] = regs[i][1] /\ Buffer(regs)[2 * i] = regs[i][2]
  <2>1. /\ 2 * i - 1 \in 1..(2 * q) /\ 2 * i \in 1..(2 * q)
        /\ ((2 * i - 1) + 1) \div 2 = i /\ (2 * i + 1) \div 2 = i
        /\ (2 * i - 1) % 2 = 1 /\ (2 * i) % 2 = 0
    BY Halves
  <2>2. Buffer(regs)[2 * i - 1] = regs[((2 * i - 1) + 1) \div 2][2 - ((2 * i - 1) % 2)]
    BY <2>1, Zenon DEF Buffer
  <2>3. Buffer(regs)[2 * i] = regs[(2 * i + 1) \div 2][2 - ((2 * i) % 2)]
    BY <2>1, Zenon DEF Buffer
  <2>4. 2 - 1 = 1 /\ 2 - 0 = 2
    OBVIOUS
  <2> QED BY <2>1, <2>2, <2>3, <2>4, Zenon
<1> QED BY <1>1, <1>2

\* The word whose bytes are in register i, up to their order, when the low word
\* comes first (low = 1).
Turned(i, w, low) == IF low = 1 THEN w + 1 - i ELSE i

\* The registers hold the w words of `byte`.
Holds(regs, w, bytes, low, byte) ==
  \A i \in 1..w : regs[i] = <<byte[Place(2 * Turned(i, w, low) - 1, w, bytes)],
                             byte[Place(2 * Turned(i, w, low), w, bytes)]>>

\* The buffer with its words in the order of the tag.
Ordered(regs, low) ==
  IF low = 1 /\ Len(regs) >= 2 THEN swapWords(Buffer(regs)) ELSE Buffer(regs)

\* The buffer has the bytes where the decoder takes them.
InPlace(buf, w, bytes, byte) == \A k \in 1..(2 * w) : buf[k] = byte[Place(k, w, bytes)]

\* Ordering the words of a tag puts its bytes in place, unless the low word comes
\* first and there are words behind the value.
LEMMA OrderedBytes ==
  ASSUME NEW regs, NEW w, NEW bytes, NEW low, NEW byte, Holds(regs, w, bytes, low, byte),
         w \in Nat, w > 0, Len(regs) \in Nat, w <= Len(regs), low \in {0, 1},
         low = 1 => Len(regs) = w
  PROVE  InPlace(Ordered(regs, low), w, bytes, byte)
<1> DEFINE q == Len(regs)
           buf == Buffer(regs)
           swapped == swapWords(buf)
           B(k) == byte[Place(k, w, bytes)]
<1>0. q \in Nat /\ w <= q /\ (low = 1 => q = w)
  OBVIOUS
<1>1. /\ Len(buf) = 2 * q
      /\ \A i \in 1..q : buf[2 * i - 1] = regs[i][1] /\ buf[2 * i] = regs[i][2]
  BY BufferHalves
<1>2. ASSUME NEW i \in 1..w
      PROVE  regs[i] = <<B(2 * Turned(i, w, low) - 1), B(2 * Turned(i, w, low))>>
  BY Zenon DEF Holds
<1> HIDE DEF buf, B, q
<1>3. ASSUME NEW i \in 1..w
      PROVE  /\ buf[2 * i - 1] = B(2 * Turned(i, w, low) - 1)
             /\ buf[2 * i] = B(2 * Turned(i, w, low))
  <2>1. buf[2 * i - 1] = regs[i][1] /\ buf[2 * i] = regs[i][2]
    BY <1>0, <1>1
  <2> QED BY <1>2, <2>1
<1>4. ASSUME NEW i \in 1..w, low = 0 \/ w = 1
      PROVE  buf[2 * i - 1] = B(2 * i - 1) /\ buf[2 * i] = B(2 * i)
  <2>1. Turned(i, w, low) = i
    BY <1>4 DEF Turned
  <2> QED BY <1>3, <2>1, Zenon
<1>5. /\ Len(swapped) = 2 * q
      /\ \A k \in 1..(2 * q) : swapped[k] = IF k % 2 = 1 THEN buf[2 * q - k] ELSE buf[2 * q - k + 2]
  BY <1>1 DEF swapWords
<1> HIDE DEF swapped
<1>6. ASSUME NEW i \in 1..w, low = 1
      PROVE  swapped[2 * i - 1] = B(2 * i - 1) /\ swapped[2 * i] = B(2 * i)
  <2> DEFINE m == w + 1 - i
  <2>1. /\ m \in 1..w /\ w + 1 - m = i
        /\ 2 * w - (2 * i - 1) = 2 * m - 1 /\ 2 * w - 2 * i + 2 = 2 * m
    BY Mirror
  <2>2. /\ 2 * i - 1 \in 1..(2 * q) /\ 2 * i \in 1..(2 * q)
        /\ (2 * i - 1) % 2 = 1 /\ (2 * i) % 2 = 0
    BY <1>0, Halves
  <2>3. Turned(m, w, low) = i
    BY <1>6, <2>1 DEF Turned
  <2> HIDE DEF m
  <2>4. /\ swapped[2 * i - 1] = buf[2 * q - (2 * i - 1)]
        /\ swapped[2 * i] = buf[2 * q - 2 * i + 2]
    BY <1>5, <2>2
  <2>5. swapped[2 * i - 1] = buf[2 * m - 1] /\ swapped[2 * i] = buf[2 * m]
    BY <1>0, <1>6, <2>1, <2>4, Zenon
  <2>6. buf[2 * m - 1] = B(2 * i - 1) /\ buf[2 * m] = B(2 * i)
    BY <1>3, <2>1, <2>3, Zenon
  <2> QED BY <2>5, <2>6, Zenon
<1> DEFINE ordered == IF low = 1 /\ q >= 2 THEN swapped ELSE buf
<1>7. ASSUME NEW i \in 1..w
      PROVE  ordered[2 * i - 1] = B(2 * i - 1) /\ ordered[2 * i] = B(2 * i)
  <2>1. CASE low = 1 /\ q >= 2
    BY <1>6, <2>1
  <2>2. CASE ~(low = 1 /\ q >= 2)
    <3>1. low = 0 \/ w = 1
      BY <1>0, <2>2
    <3> QED BY <1>4, <2>2, <3>1
  <2> QED BY <2>1, <2>2
<1> HIDE DEF ordered
<1>8. ASSUME NEW k \in 1..(2 * w) PROVE ordered[k] = B(k)
  <2>1. PICK i \in 1..w : k = 2 * i - 1 \/ k = 2 * i
    BY Pairs
  <2> QED BY <1>7, <2>1, Zenon
<1> QED BY <1>8, Zenon DEF ordered, swapped, buf, B, q, Ordered, InPlace

\* The tag wants the low word first.
Low(tag) == IF tag.wordOrder = "low_first" THEN 1 ELSE 0

\* The layout that is read right for a tag: its own in big byte order; for a tag
\* in little byte order the client and the decoder each turn the bytes of a
\* register around, and the decoder the words as well, so that it is the layout
\* with the bytes in big and the words in the opposite order.
AsRead(tag) ==
  [type |-> tag.type, byteOrder |-> "big",
   wordOrder |-> IF (tag.byteOrder = "little") = (tag.wordOrder = "low_first")
                 THEN "high_first" ELSE "low_first"]

\* A tag in big byte order is read in its own layout.
LEMMA BigAsRead ==
  ASSUME NEW v, NEW tag, tag.byteOrder # "little"
  PROVE  Layout(v, AsRead(tag)) = Layout(v, tag)
<1> DEFINE as == AsRead(tag)
<1>1. /\ as.type = tag.type /\ as.byteOrder # "little"
      /\ as.wordOrder = "low_first" <=> tag.wordOrder = "low_first"
  BY DEF AsRead
<1> HIDE DEF as
<1>2. \A i, second, w : ByteAt(i, second, w, as.byteOrder, as.wordOrder) =
                       ByteAt(i, second, w, tag.byteOrder, tag.wordOrder)
  BY <1>1, Zenon DEF ByteAt
<1> QED BY <1>1, <1>2, Zenon DEF Layout, as

\* The first w registers are what the client makes of the first w words.
Returned(regs, words, w, bytes) ==
  \A i \in 1..w : regs[i] = IF bytes = "little" THEN <<words[i][2], words[i][1]>> ELSE words[i]

\* The client gives back one register per word.
LEMMA ClientWords ==
  ASSUME NEW words, NEW bytes, Len(words) \in Nat, NEW w \in Nat, w <= Len(words)
  PROVE  /\ Len(ReadRegisters(words, bytes)) = Len(words)
         /\ Returned(ReadRegisters(words, bytes), words, w, bytes)
<1>1. Len(ReadRegisters(words, bytes)) = Len(words)
  BY DEF ReadRegisters
<1>2. ASSUME NEW i \in 1..w
      PROVE  ReadRegisters(words, bytes)[i] =
               IF bytes = "little" THEN <<words[i][2], words[i][1]>> ELSE words[i]
  <2>1. i \in 1..Len(words)
    OBVIOUS
  <2> QED BY <2>1, Zenon DEF ReadRegisters
<1> QED BY <1>1, <1>2, Zenon DEF Returned

\* The client returns in register i the two bytes that the decoder looks for there.
LEMMA LayoutPlaces ==
  ASSUME NEW v, NEW tag, NEW i, NEW w, w \in Nat, i \in 1..w, w = TypeWidth(tag.type),
         NEW word, word = Layout(v, AsRead(tag))[i], NEW j, j = Turned(i, w, Low(tag))
  PROVE  (IF tag.byteOrder = "little" THEN <<word[2], word[1]>> ELSE word) =
           <<ByteOf(v, Place(2 * j - 1, w, tag.byteOrder), 2 * w),
             ByteOf(v, Place(2 * j, w, tag.byteOrder), 2 * w)>>
<1> DEFINE as == AsRead(tag)
           H == ByteAt(i, FALSE, w, as.byteOrder, as.wordOrder)
           L == ByteAt(i, TRUE, w, as.byteOrder, as.wordOrder)
           P == Place(2 * j - 1, w, tag.byteOrder)
           Q == Place(2 * j, w, tag.byteOrder)
<1>1. /\ as.type = tag.type /\ as.byteOrder = "big"
      /\ as.wordOrder = IF (tag.byteOrder = "little") = (tag.wordOrder = "low_first")
                        THEN "high_first" ELSE "low_first"
  BY DEF AsRead
<1> HIDE DEF as
<1>2. word = <<ByteOf(v, H, 2 * w), ByteOf(v, L, 2 * w)>>
  BY <1>1, Zenon DEF Layout, as
<1>3. IF tag.byteOrder = "little" THEN H = Q /\ L = P ELSE H = P /\ L = Q
  <2>1. CASE tag.wordOrder = "low_first" /\ tag.byteOrder = "little"
    BY <1>1, <2>1 DEF ByteAt, Place, Turned, Low
  <2>2. CASE tag.wordOrder = "low_first" /\ tag.byteOrder # "little"
    BY <1>1, <2>2 DEF ByteAt, Place, Turned, Low
  <2>3. CASE tag.wordOrder # "low_first" /\ tag.byteOrder = "little"
    BY <1>1, <2>3 DEF ByteAt, Place, Turned, Low
  <2>4. CASE tag.wordOrder # "low_first" /\ tag.byteOrder # "little"
    BY <1>1, <2>4 DEF ByteAt, Place, Turned, Low
  <2> QED BY <2>1, <2>2, <2>3, <2>4
<1> HIDE DEF H, L, P, Q
<1>4. word[1] = ByteOf(v, H, 2 * w) /\ word[2] = ByteOf(v, L, 2 * w)
  BY <1>2
<1> QED BY <1>2, <1>3, <1>4, Zenon DEF P, Q

\* The bytes a decoder takes from the head of its buffer give the value back, in
\* either order of the bytes.
LEMMA EndiansRead ==
  ASSUME NEW w \in Nat, w > 0, NEW bytes, NEW v \in Int, NEW b, Len(b) = 2 * w,
         \A k \in 1..(2 * w) : b[k] = ByteOf(v, Place(k, w, bytes), 2 * w)
  PROVE  (IF bytes = "little" THEN LittleEndian(b) ELSE BigEndian(b)) = v % Power(2 * w)
<1> DEFINE n == 2 * w  u == v % Power(n)
<1>1. n \in Nat /\ u \in 0..(Power(n) - 1)
  <2>1. n \in Nat /\ Power(n) \in Nat \ {0}
    BY PowerType
  <2> HIDE DEF n
  <2> QED BY <2>1
<1>2. CASE bytes = "little"
  <2> DEFINE r == [i \in 1..Len(b) |-> b[(Len(b) - i) + 1]]
  <2>1. Len(r) = n /\ \A k \in 1..n : r[k] = b[(n - k) + 1]
    OBVIOUS
  <2>2. ASSUME NEW k \in 1..n PROVE r[k] = (u \div Power(n - k)) % Base
    <3>1. (n - k) + 1 \in 1..(2 * w) /\ Place((n - k) + 1, w, bytes) = k
      BY <1>2 DEF Place
    <3>2. b[(n - k) + 1] = ByteOf(v, k, n)
      BY <3>1, Zenon
    <3> QED BY <2>1, <3>2, Zenon DEF ByteOf
  <2> HIDE DEF r, n, u
  <2>3. BigEndian(r) = u
    BY <1>1, <2>1, <2>2, BigEndianReads
  <2> QED BY <1>2, <2>3, Zenon DEF LittleEndian, r, u, n
<1>3. CASE bytes # "little"
  <2>1. ASSUME NEW k \in 1..n PROVE b[k] = (u \div Power(n - k)) % Base
    <3>1. Place(k, w, bytes) = k
      BY <1>3 DEF Place
    <3> QED BY <3>1, Zenon DEF ByteOf
  <2>2. Len(b) = n
    OBVIOUS
  <2> HIDE DEF n, u
  <2>3. BigEndian(b) = u
    BY <1>1, <2>1, <2>2, BigEndianReads
  <2> QED BY <1>3, <2>3, Zenon DEF u, n
<1> QED BY <1>2, <1>3

\* The head of a buffer.
LEMMA HeadOf ==
  ASSUME NEW buf, NEW n \in Nat, NEW m \in Nat, n <= m, Len(buf) = m
  PROVE  Len(SubSeq(buf, 1, n)) = n /\ \A k \in 1..n : SubSeq(buf, 1, n)[k] = buf[k]
OBVIOUS

\* The length of the buffer, turned around or not.
LEMMA BufferLength ==
  ASSUME NEW regs, NEW low, Len(regs) \in Nat
  PROVE  Len(Ordered(regs, low)) = 2 * Len(regs)
<1>1. Len(Buffer(regs)) = 2 * Len(regs)
  BY BufferHalves
<1>2. Len(swapWords(Buffer(regs))) = 2 * Len(regs)
  BY <1>1 DEF swapWords
<1> QED BY <1>1, <1>2 DEF Ordered

\* The range of a value and its reading back, signed or not.
LEMMA NumbersRead ==
  ASSUME NEW t, NEW w \in Nat, w > 0, w = TypeWidth(t), NEW v \in ValuesOf(t)
  PROVE  /\ v \in Int
         /\ (IF t \in Signed THEN ToSigned(v % Power(2 * w), 2 * w) ELSE v % Power(2 * w)) = v
<1> DEFINE n == 2 * w  m == Power(n)
<1>1. n \in Nat \ {0}
  OBVIOUS
<1>2. m \in Nat \ {0} /\ m \div 2 \in Nat
  <2> HIDE DEF n
  <2>1. m \in Nat \ {0}
    BY <1>1, PowerType
  <2> HIDE DEF m
  <2> QED BY <2>1
<1>3. CASE t \in Signed
  <2>1. v \in (-(m \div 2))..(m \div 2 - 1)
    BY <1>3, Zenon DEF ValuesOf
  <2> HIDE DEF n
  <2>2. ToSigned(v % m, n) = v
    BY <1>1, <2>1, SignedReads
  <2> HIDE DEF m
  <2>3. v \in Int
    BY <1>2, <2>1
  <2> QED BY <1>3, <2>2, <2>3, Zenon DEF n, m
<1>4. CASE t \notin Signed
  <2>1. v \in 0..(m - 1)
    BY <1>4, Zenon DEF ValuesOf
  <2> HIDE DEF n, m
  <2>2. v \in Int /\ v % m = v
    BY <1>2, <2>1
  <2> QED BY <1>4, <2>2, Zenon DEF n, m
<1> QED BY <1>3, <1>4
\* The places of the two halves of a word.
LEMMA PlaceRange ==
  ASSUME NEW w \in Nat, NEW j \in 1..w, NEW bytes
  PROVE  Place(2 * j - 1, w, bytes) \in 1..(2 * w) /\ Place(2 * j, w, bytes) \in 1..(2 * w)
<1>1. CASE bytes = "little"
  BY <1>1 DEF Place
<1>2. CASE bytes # "little"
  BY <1>2 DEF Place
<1> QED BY <1>1, <1>2

\* readRegisters, in the terms of these lemmas.
LEMMA FromRegistersOrdered ==
  ASSUME NEW regs, NEW tag
  PROVE  LET raw == decodeNumeric(Ordered(regs, Low(tag)), tag.type, tag.byteOrder)
         IN FromRegisters(regs, tag) =
              [ok |-> raw.ok,
               value |-> IF raw.ok THEN Scaled(raw.value[1], tag) ELSE <<>>]
<1>1. Ordered(regs, Low(tag)) =
        IF tag.wordOrder = "low_first" /\ Len(regs) >= 2 THEN swapWords(Buffer(regs)) ELSE Buffer(regs)
  BY DEF Ordered, Low
<1> QED BY <1>1, Zenon DEF FromRegisters

\* The bytes of v in w words, the most significant first; the words in which a
\* device laid v out.
BytesOf(v, w) == [k \in 1..(2 * w) |-> ByteOf(v, k, 2 * w)]
LaidAs(words, v, w, tag) == \A i \in 1..w : words[i] = Layout(v, AsRead(tag))[i]

\* What the client returns holds the bytes of the value v.
LEMMA LaidOut ==
  ASSUME NEW v, NEW tag, NEW regs, NEW words, NEW w, w = TypeWidth(tag.type), w \in Nat,
         LaidAs(words, v, w, tag), Returned(regs, words, w, tag.byteOrder)
  PROVE  Holds(regs, w, tag.byteOrder, Low(tag), BytesOf(v, w))
<1> DEFINE n == 2 * w  byte == BytesOf(v, w)
<1>1. ASSUME NEW i \in 1..w, NEW j, j = Turned(i, w, Low(tag))
      PROVE  regs[i] = <<byte[Place(2 * j - 1, w, tag.byteOrder)], byte[Place(2 * j, w, tag.byteOrder)]>>
  <2> DEFINE at1 == Place(2 * j - 1, w, tag.byteOrder)
             at2 == Place(2 * j, w, tag.byteOrder)
  <2>1. regs[i] = <<ByteOf(v, at1, n), ByteOf(v, at2, n)>>
    <3>1. PICK word : word = words[i] /\ word = Layout(v, AsRead(tag))[i]
      BY Zenon DEF LaidAs
    <3>2. (IF tag.byteOrder = "little" THEN <<word[2], word[1]>> ELSE word) =
            <<ByteOf(v, Place(2 * j - 1, w, tag.byteOrder), 2 * w),
              ByteOf(v, Place(2 * j, w, tag.byteOrder), 2 * w)>>
      BY <1>1, <3>1, LayoutPlaces
    <3>3. regs[i] = IF tag.byteOrder = "little" THEN <<words[i][2], words[i][1]>> ELSE words[i]
      BY Zenon DEF Returned
    <3> QED BY <3>1, <3>2, <3>3, Zenon
  <2>2. at1 \in 1..n /\ at2 \in 1..n
    <3>1. j \in 1..w
      BY <1>1 DEF Turned
    <3> QED BY <3>1, PlaceRange
  <2> HIDE DEF at1, at2, n
  <2>3. byte[at1] = ByteOf(v, at1, n) /\ byte[at2] = ByteOf(v, at2, n)
    BY <2>2, Zenon DEF BytesOf, n
  <2> QED BY <2>1, <2>3, Zenon DEF at1, at2
<1>2. Holds(regs, w, tag.byteOrder, Low(tag), byte)
  <2>1. ASSUME NEW i \in 1..w
        PROVE  regs[i] = <<byte[Place(2 * Turned(i, w, Low(tag)) - 1, w, tag.byteOrder)],
                           byte[Place(2 * Turned(i, w, Low(tag)), w, tag.byteOrder)]>>
    BY <1>1, Zenon
  <2> QED BY <2>1, Zenon DEF Holds
<1> QED BY <1>2

\* What readRegisters makes of a value that a device laid out in its registers:
\* for every type and whatever the device holds behind the value, it is decoded
\* and in the row, scaled, as far as a float64 can hold it, if the layout is
\* AsRead(tag) (unless the words turned around are more than the type's).  That
\* is the tag's own layout in big byte order, in both word orders; of a tag in
\* little byte order it is another one.
THEOREM DecodeReads ==
  ASSUME NEW tag, NEW v, NEW words, tag.type \in Supported, v \in ValuesOf(tag.type),
         Len(words) \in Nat, TypeWidth(tag.type) <= Len(words),
         tag.wordOrder = "low_first" => Len(words) = TypeWidth(tag.type),
         \A i \in 1..TypeWidth(tag.type) : words[i] = Layout(v, AsRead(tag))[i]
  PROVE  LET r == FromRegisters(ReadRegisters(words, tag.byteOrder), tag)
         IN r.ok = TRUE /\ Carries(r.value, v, tag)
<1> DEFINE w == TypeWidth(tag.type)  n == 2 * w
           regs == ReadRegisters(words, tag.byteOrder)
           byte == BytesOf(v, w)
           ordered == Ordered(regs, Low(tag))
           b == SubSeq(ordered, 1, n)
           x == IF tag.byteOrder = "little" THEN LittleEndian(b) ELSE BigEndian(b)
           raw == decodeNumeric(ordered, tag.type, tag.byteOrder)
<1>1. w \in Nat /\ w > 0 /\ n \in Nat
  <2>1. w \in Nat /\ w > 0
    BY DEF TypeWidth
  <2> HIDE DEF w
  <2> QED BY <2>1
<1>2. /\ w = TypeWidth(tag.type) /\ w <= Len(words)
      /\ LaidAs(words, v, w, tag)
      /\ v \in ValuesOf(tag.type)
  BY Zenon DEF LaidAs
<1>3. Low(tag) \in {0, 1} /\ (Low(tag) = 1 => Len(words) = w)
  BY DEF Low
<1> HIDE DEF w
<1>4. Len(regs) = Len(words) /\ Returned(regs, words, w, tag.byteOrder)
  BY <1>1, <1>2, ClientWords
<1> HIDE DEF regs
<1>5. Holds(regs, w, tag.byteOrder, Low(tag), byte)
  BY <1>1, <1>2, <1>4, LaidOut
<1> HIDE DEF byte
<1>6. InPlace(ordered, w, tag.byteOrder, byte)
  BY <1>1, <1>2, <1>3, <1>4, <1>5, OrderedBytes
<1>7. Len(ordered) = 2 * Len(regs) /\ n <= 2 * Len(regs)
  BY <1>1, <1>2, <1>4, BufferLength
<1> HIDE DEF ordered
<1>8. Len(b) = n /\ \A k \in 1..n : b[k] = ordered[k]
  <2>1. 2 * Len(regs) \in Nat
    BY <1>4
  <2> HIDE DEF n
  <2> QED BY <1>1, <1>7, <2>1, HeadOf
<1> HIDE DEF b
<1>9. ASSUME NEW k \in 1..n PROVE b[k] = ByteOf(v, Place(k, w, tag.byteOrder), n)
  <2>1. Place(k, w, tag.byteOrder) \in 1..n
    BY <1>1 DEF Place
  <2>2. b[k] = byte[Place(k, w, tag.byteOrder)]
    BY <1>6, <1>8, Zenon DEF InPlace
  <2> HIDE DEF n
  <2> QED BY <2>1, <2>2, Zenon DEF byte, BytesOf, n
<1>10. /\ v \in Int
      /\ (IF tag.type \in Signed THEN ToSigned(v % Power(n), n) ELSE v % Power(n)) = v
  BY <1>1, <1>2, NumbersRead
<1>11. x = v % Power(n)
  BY <1>1, <1>8, <1>9, <1>10, EndiansRead
<1> HIDE DEF x
<1> DEFINE number == IF tag.type \in Signed THEN ToSigned(x, n) ELSE x
<1>12. raw = Success(IF tag.type \in Floats THEN x ELSE Float64(number))
  <2>1. ~(Len(ordered) < n)
    BY <1>1, <1>7
  <2> QED BY <2>1, Zenon DEF decodeNumeric, x, b, w
<1>13. number = v
  BY <1>10, <1>11, Zenon
<1> HIDE DEF number
<1>14. tag.type \in Floats => x = v
  <2>1. tag.type \in Floats => tag.type \notin Signed
    BY DEF Floats, Signed
  <2> QED BY <1>13, <2>1 DEF number
<1> DEFINE y == IF tag.type \in Floats THEN v ELSE Float64(v)
<1>15. FromRegisters(regs, tag) =
         [ok |-> raw.ok, value |-> IF raw.ok THEN Scaled(raw.value[1], tag) ELSE <<>>]
  BY FromRegistersOrdered, Zenon DEF ordered
<1>16. raw = [ok |-> TRUE, value |-> <<y>>]
  BY <1>12, <1>13, <1>14, Zenon DEF Success
<1> HIDE DEF raw, y
<1>17. raw.ok = TRUE /\ raw.value[1] = y
  BY <1>16
<1>18. FromRegisters(regs, tag) = [ok |-> TRUE, value |-> Scaled(y, tag)]
  BY <1>15, <1>17, Zenon
<1>19. Scaled(y, tag) = <<y, tag.scale, tag.offset>> /\ Scaled(y, tag)[1] = y
  BY DEF Scaled
<1>20. IF tag.type \in Floats THEN y = v ELSE AsFloat(y, v)
  BY <1>10, Float64Near, Zenon DEF y
<1>21. Carries(Scaled(y, tag), v, tag)
  BY <1>19, <1>20, Zenon DEF Carries
<1>22. FromRegisters(regs, tag).ok = TRUE /\ FromRegisters(regs, tag).value = Scaled(y, tag)
  BY <1>18
<1> QED BY <1>21, <1>22, Zenon DEF regs

\* A tag that asks for too few words, or whose type is not supported, is an
\* error; any other is not.
LEMMA DecodeFails ==
  ASSUME NEW tag, NEW regs, Len(regs) \in Nat
  PROVE  /\ FromRegisters(regs, tag).ok \in BOOLEAN
         /\ FromRegisters(regs, tag).ok <=> tag.type \in Supported /\ Len(regs) >= TypeWidth(tag.type)
<1> DEFINE ordered == Ordered(regs, Low(tag))
           raw == decodeNumeric(ordered, tag.type, tag.byteOrder)
           w == TypeWidth(tag.type)
<1>1. Len(ordered) = 2 * Len(regs)
  BY BufferLength
<1> HIDE DEF ordered
<1>2. FromRegisters(regs, tag).ok = raw.ok
  <2> HIDE DEF raw
  <2>1. FromRegisters(regs, tag) =
         [ok |-> raw.ok, value |-> IF raw.ok THEN Scaled(raw.value[1], tag) ELSE <<>>]
    BY FromRegistersOrdered, Zenon DEF ordered, raw
  <2> QED BY <2>1
<1>3. w \in Nat
  BY DEF TypeWidth
<1>4. w = TypeWidth(tag.type)
  OBVIOUS
<1> HIDE DEF w
<1>5. CASE tag.type \in Supported /\ Len(regs) >= w
  <2>1. ~(Len(ordered) < 2 * w)
    BY <1>1, <1>3, <1>5
  <2>2. raw.ok = TRUE
    BY <1>4, <1>5, <2>1 DEF decodeNumeric, Success
  <2> QED BY <1>2, <1>4, <1>5, <2>2
<1>6. CASE ~(tag.type \in Supported /\ Len(regs) >= w)
  <2>1. tag.type \notin Supported \/ Len(ordered) < 2 * w
    BY <1>1, <1>3, <1>6
  <2>2. raw.ok = FALSE
    BY <1>4, <2>1 DEF decodeNumeric, Failure
  <2> QED BY <1>2, <1>4, <1>6, <2>2
<1> QED BY <1>5, <1>6

(***************************************************************************)
(* More about loops, and the loops of the seeder.                          *)
(***************************************************************************)
\* What no turn changes after the i-th is at the end as the i-th left it.
LEMMA KeptSince ==
  ASSUME NEW n \in Nat, NEW i \in 0..n, NEW r, \A k \in (i + 1)..n : r[k] = r[k - 1]
  PROVE  r[n] = r[i]
<1> DEFINE S == {d \in 0..(n - i) : r[i + d] = r[i]}
<1>1. 0 \in S /\ n - i \in Nat
  OBVIOUS
<1>2. ASSUME NEW d \in 1..(n - i), d - 1 \in S PROVE d \in S
  <2>1. i + d \in (i + 1)..n /\ (i + d) - 1 = i + (d - 1)
    BY <1>2
  <2>2. r[i + d] = r[i + (d - 1)]
    BY <2>1
  <2> QED BY <1>2, <2>2
<1>3. \A d \in 0..(n - i) : d \in S
  <2> HIDE DEF S
  <2> QED BY <1>1, <1>2, TurnByTurn
<1>4. n - i \in 0..(n - i) /\ i + (n - i) = n
  BY <1>1
<1> QED BY <1>3, <1>4

\* A set of turns that is not empty has a last one.
LEMMA LastOf ==
  ASSUME NEW n \in Nat, NEW T \in SUBSET (1..n), T # {}
  PROVE  \E m \in T : \A k \in T : k <= m
<1> DEFINE U == {i \in 0..n : n - i \in T}
<1>1. U \in SUBSET Nat /\ U # {}
  <2>1. PICK m \in T : TRUE
    OBVIOUS
  <2>2. n - m \in 0..n /\ n - (n - m) = m
    OBVIOUS
  <2>3. n - m \in U
    BY <2>2
  <2>4. U \in SUBSET Nat
    OBVIOUS
  <2> HIDE DEF U
  <2> QED BY <2>3, <2>4
<1>2. PICK i \in U : \A j \in U : i <= j
  <2> HIDE DEF U
  <2> QED BY <1>1, LeastNat
<1>3. ASSUME NEW k \in T PROVE k <= n - i
  <2>1. n - k \in 0..n /\ n - (n - k) = k
    OBVIOUS
  <2>2. i <= n - k
    BY <1>2, <2>1
  <2> QED BY <1>2, <2>2
<1> QED BY <1>2, <1>3

\* What holds at the end of a loop, and at a turn if it holds at the next, holds
\* at every turn.
LEMMA HeldBefore ==
  ASSUME NEW n \in Nat, NEW S, n \in S, \A k \in 1..n : k \in S => k - 1 \in S
  PROVE  \A k \in 0..n : k \in S
<1> DEFINE T == {d \in 0..n : n - d \in S}
<1>1. 0 \in T
  OBVIOUS
<1>2. ASSUME NEW d \in 1..n, d - 1 \in T PROVE d \in T
  <2>1. n - (d - 1) \in 1..n /\ (n - (d - 1)) - 1 = n - d /\ n - (d - 1) \in S
    BY <1>2
  <2>2. n - d \in S
    BY <2>1
  <2> QED BY <2>2
<1>3. \A d \in 0..n : d \in T
  <2> HIDE DEF T
  <2> QED BY <1>1, <1>2, TurnByTurn
<1>4. ASSUME NEW k \in 0..n PROVE k \in S
  <2>1. n - k \in 0..n /\ n - (n - k) = k
    OBVIOUS
  <2> QED BY <1>3, <2>1
<1> QED BY <1>4

\* The loop over the sources, turn by turn.
LEMMA SourceTurns ==
  ASSUME NEW t, NEW specs, Len(specs) \in Nat
  PROVE  \E u : /\ SeedSources(t, specs) = u[Len(specs)] /\ u[0] = t
                /\ \A k \in 1..Len(specs) : u[k] = upsertSource(u[k - 1], specs[k])
<1> DEFINE n == Len(specs)
           Rec(u, m) == u = [k \in 0..m |-> IF k = 0 THEN t ELSE upsertSource(u[k - 1], specs[k])]
           S == {m \in Nat : \E u : Rec(u, m)}
           loop == CHOOSE u : Rec(u, n)
<1>1. n \in Nat
  OBVIOUS
<1>2. SeedSources(t, specs) = loop[n]
  BY DEF SeedSources
<1> HIDE DEF n
<1>3. 0 \in S
  <2>1. Rec([k \in 0..0 |-> t], 0)
    OBVIOUS
  <2> QED BY <2>1
<1>4. ASSUME NEW m \in 1..n, m - 1 \in S PROVE m \in S
  <2>1. PICK p : Rec(p, m - 1)
    BY <1>4, SMTT(30)
  <2> DEFINE q == [k \in 0..m |-> IF k < m THEN p[k] ELSE upsertSource(p[m - 1], specs[m])]
  <2>2. Rec(q, m)
    BY <1>1, <2>1
  <2> HIDE DEF Rec, q
  <2> QED BY <1>1, <2>2
<1>5. n \in S
  <2> HIDE DEF S
  <2>1. \A k \in 0..n : k \in S
    BY <1>1, <1>3, <1>4, TurnByTurn
  <2> QED BY <1>1, <2>1
<1>6. Rec(loop, n)
  <2> HIDE DEF Rec
  <2> QED BY <1>5
<1> HIDE DEF loop
<1>7. loop[0] = t /\ \A k \in 1..n : loop[k] = upsertSource(loop[k - 1], specs[k])
  BY <1>1, <1>6
<1> QED BY <1>2, <1>7 DEF n

\* The loop over the loads, turn by turn.
LEMMA LoadTurns ==
  ASSUME NEW t, NEW file, Len(file.loads) \in Nat
  PROVE  \E u : /\ SeedLoads(t, file) = u[Len(file.loads)] /\ u[0] = t
                /\ \A k \in 1..Len(file.loads) : u[k] = SeedLoad(u[k - 1], file.loads[k], file)
<1> DEFINE n == Len(file.loads)
           Rec(u, m) == u = [k \in 0..m |-> IF k = 0 THEN t ELSE SeedLoad(u[k - 1], file.loads[k], file)]
           S == {m \in Nat : \E u : Rec(u, m)}
           loop == CHOOSE u : Rec(u, n)
<1>1. n \in Nat
  OBVIOUS
<1>2. SeedLoads(t, file) = loop[n]
  BY DEF SeedLoads
<1> HIDE DEF n
<1>3. 0 \in S
  <2>1. Rec([k \in 0..0 |-> t], 0)
    OBVIOUS
  <2> QED BY <2>1
<1>4. ASSUME NEW m \in 1..n, m - 1 \in S PROVE m \in S
  <2>1. PICK p : Rec(p, m - 1)
    BY <1>4
  <2> DEFINE q == [k \in 0..m |-> IF k < m THEN p[k] ELSE SeedLoad(p[m - 1], file.loads[m], file)]
  <2>2. Rec(q, m)
    BY <1>1, <2>1
  <2> HIDE DEF Rec, q
  <2> QED BY <1>1, <2>2
<1>5. n \in S
  <2> HIDE DEF S
  <2>1. \A k \in 0..n : k \in S
    BY <1>1, <1>3, <1>4, TurnByTurn
  <2> QED BY <1>1, <2>1
<1>6. Rec(loop, n)
  <2> HIDE DEF Rec
  <2> QED BY <1>5
<1> HIDE DEF loop
<1>7. loop[0] = t /\ \A k \in 1..n : loop[k] = SeedLoad(loop[k - 1], file.loads[k], file)
  BY <1>1, <1>6
<1> QED BY <1>2, <1>7 DEF n

(***************************************************************************)
(* One turn of the seeder's loops.                                         *)
(***************************************************************************)
\* The transaction's view of the tables.
Transactions == [ok : BOOLEAN, sources : [SourceNames -> SourceRows], loads : [LoadNames -> LoadRows],
                 tags : [LoadNames -> Seq(TagRows)], nodes : [LoadNames -> Seq(NodeRows)]]

\* A turn that fails leaves the tables alone.
LEMMA FailsType ==
  ASSUME NEW t \in Transactions
  PROVE  Fails(t) \in Transactions /\ Fails(t).ok = FALSE
BY DEF Fails, Transactions

\* What a row is switched to.
LEMMA BoolOrType ==
  ASSUME NEW p, NEW def \in BOOLEAN
  PROVE  /\ boolOr(p, def) \in BOOLEAN
         /\ p = "unset" => boolOr(p, def) = def
         /\ p # "unset" => boolOr(p, def) = (p = "yes")
BY DEF boolOr

\* What a turn of the loop over the sources does when it succeeds.
SourceStep(t, spec, u) ==
  LET s == spec.name
  IN /\ t.ok /\ s \in SourceNames
     /\ u.loads = t.loads /\ u.tags = t.tags /\ u.nodes = t.nodes
     /\ \A x \in SourceNames : x # s => u.sources[x] = t.sources[x]
     /\ u.sources[s].state = "live" /\ u.sources[s].kind = spec.kind
     /\ t.sources[s].state = "live" =>
          u.sources[s].enabled = boolOr(spec.enabled, t.sources[s].enabled)

\* One turn of the loop over the sources.
LEMMA SourceTurn ==
  ASSUME NEW t \in Transactions, NEW spec \in SourceSpecs
  PROVE  /\ upsertSource(t, spec) \in Transactions
         /\ upsertSource(t, spec).ok => SourceStep(t, spec, upsertSource(t, spec))
<1> DEFINE u == upsertSource(t, spec)  s == spec.name
<1>1. CASE ~t.ok \/ s = "" \/ spec.kind = ""
  <2>1. u = Fails(t)
    BY <1>1 DEF upsertSource
  <2> HIDE DEF u
  <2> QED BY <2>1, FailsType, Zenon DEF u
<1>2. CASE t.sources[s].state = "deleted"
  <2>1. u = Fails(t)
    BY <1>2 DEF upsertSource
  <2> HIDE DEF u
  <2> QED BY <2>1, FailsType, Zenon DEF u
<1>3. CASE ~(~t.ok \/ s = "" \/ spec.kind = "") /\ t.sources[s].state # "deleted"
  <2> DEFINE row == t.sources[s]
             on == IF row.state = "absent" THEN CreatedEnabled(boolOr(spec.enabled, TRUE))
                                           ELSE boolOr(spec.enabled, row.enabled)
             new == [state |-> "live", kind |-> spec.kind, enabled |-> on]
  <2>1. u = [t EXCEPT !.sources[s] = new]
    BY <1>3 DEF upsertSource
  <2>2. s \in SourceNames /\ spec.kind \in Texts /\ t.ok
    BY <1>3 DEF SourceSpecs
  <2>3. row \in SourceRows
    BY <2>2 DEF Transactions
  <2>4. row.enabled \in BOOLEAN
    BY <2>3 DEF SourceRows
  <2>5. on \in BOOLEAN /\ (row.state = "live" => on = boolOr(spec.enabled, row.enabled))
    <3> HIDE DEF row
    <3> QED BY <2>4, BoolOrType DEF CreatedEnabled
  <2>6. new \in SourceRows /\ new.state = "live" /\ new.kind = spec.kind /\ new.enabled = on
    <3> HIDE DEF on
    <3> QED BY <2>2, <2>5 DEF SourceRows, States
  <2> HIDE DEF new, u, on
  <2>7. u \in Transactions
    BY <2>1, <2>2, <2>6 DEF Transactions
  <2>8. /\ u.loads = t.loads /\ u.tags = t.tags /\ u.nodes = t.nodes
        /\ u.sources[s] = new
        /\ \A x \in SourceNames : x # s => u.sources[x] = t.sources[x]
    BY <2>1, <2>2 DEF Transactions
  <2> QED BY <2>2, <2>5, <2>6, <2>7, <2>8, Zenon DEF u, SourceStep
<1> QED BY <1>1, <1>2, <1>3

\* The parts of a file.
LEMMA FileParts ==
  ASSUME NEW file \in Files
  PROVE  /\ file.sources \in Seq(SourceSpecs) /\ file.loads \in Seq(LoadSpecs)
         /\ file.modbus \in Seq(TagSpecs) /\ file.opcua \in Seq(NodeSpecs)
BY FilesAssumption

\* The row of a tag; its quantity is never zero.
LEMMA TagRowType ==
  ASSUME NEW spec \in TagSpecs
  PROVE  TagRow(spec) \in TagRows
<1>1. defaultQuantity(spec) \in Nat \ {0}
  BY DEF defaultQuantity, Width, TagSpecs
<1>2. /\ CreatedScale(numberOr(spec.scale, 1)) \in Int /\ numberOr(spec.offset, 0) \in Int
  <2>1. spec.scale \in Seq(Int) /\ spec.offset \in Seq(Int)
    BY DEF TagSpecs
  <2>2. numberOr(spec.scale, 1) \in Int /\ numberOr(spec.offset, 0) \in Int
    BY <2>1 DEF numberOr
  <2> QED BY <2>2 DEF CreatedScale
<1>3. /\ stringOr(spec.byteOrder, "big") \in Texts
      /\ stringOr(spec.wordOrder, "high_first") \in Texts
      /\ spec.name \in Texts /\ spec.register \in Texts /\ spec.type \in Texts
  <2>1. /\ spec.byteOrder \in Texts /\ spec.wordOrder \in Texts
        /\ spec.name \in Texts /\ spec.register \in Texts /\ spec.type \in Texts
    BY DEF TagSpecs
  <2>2. ASSUME NEW x \in Texts, NEW y \in Texts PROVE stringOr(x, y) \in Texts
    BY Zenon DEF stringOr
  <2>3. "big" \in Texts /\ "high_first" \in Texts
    BY DEF Texts
  <2> QED BY <2>1, <2>2, <2>3, Zenon
<1>4. CreatedEnabled(boolOr(spec.enabled, TRUE)) \in BOOLEAN
  BY DEF CreatedEnabled
<1> QED BY <1>1, <1>2, <1>3, <1>4, Zenon DEF TagRow, TagRows

\* The row of a node.
LEMMA NodeRowType ==
  ASSUME NEW spec \in NodeSpecs
  PROVE  NodeRow(spec) \in NodeRows
<1>1. /\ CreatedScale(numberOr(spec.scale, 1)) \in Int /\ numberOr(spec.offset, 0) \in Int
  <2>1. spec.scale \in Seq(Int) /\ spec.offset \in Seq(Int)
    BY DEF NodeSpecs
  <2>2. numberOr(spec.scale, 1) \in Int /\ numberOr(spec.offset, 0) \in Int
    BY <2>1 DEF numberOr
  <2> QED BY <2>2 DEF CreatedScale
<1>2. spec.name \in Texts /\ spec.id \in Texts
  BY DEF NodeSpecs
<1>3. CreatedEnabled(boolOr(spec.enabled, TRUE)) \in BOOLEAN
  BY DEF CreatedEnabled
<1> QED BY <1>1, <1>2, <1>3, Zenon DEF NodeRow, NodeRows

\* The rows that the file has for a load.
LEMMA NewRowsType ==
  ASSUME NEW file \in Files, NEW l
  PROVE  /\ Of(file.modbus, l) \in Seq(TagSpecs) /\ Of(file.opcua, l) \in Seq(NodeSpecs)
         /\ Map(TagRow, Of(file.modbus, l)) \in Seq(TagRows)
         /\ Map(NodeRow, Of(file.opcua, l)) \in Seq(NodeRows)
<1> DEFINE m == Of(file.modbus, l)  o == Of(file.opcua, l)
<1>1. m \in Seq(TagSpecs) /\ o \in Seq(NodeSpecs)
  BY FileParts, PickedType DEF Of
<1> HIDE DEF m, o
<1>2. Map(TagRow, m) \in Seq(TagRows)
  <2>1. \A i \in 1..Len(m) : TagRow(m[i]) \in TagRows
    BY <1>1, TagRowType
  <2> QED BY <1>1, <2>1 DEF Map
<1>3. Map(NodeRow, o) \in Seq(NodeRows)
  <2>1. \A i \in 1..Len(o) : NodeRow(o[i]) \in NodeRows
    BY <1>1, NodeRowType, SMTT(30)
  <2> QED BY <1>1, <2>1 DEF Map
<1> QED BY <1>1, <1>2, <1>3 DEF m, o

\* Upserting a load.
LEMMA UpsertLoad ==
  ASSUME NEW t \in Transactions, NEW spec \in LoadSpecs
  PROVE  LET u == upsertLoad(t, spec)  l == spec.name
         IN /\ u \in Transactions
            /\ u.ok => /\ t.ok /\ l \in LoadNames
                       /\ u.sources = t.sources /\ u.tags = t.tags /\ u.nodes = t.nodes
                       /\ \A x \in LoadNames : x # l => u.loads[x] = t.loads[x]
                       /\ u.loads[l].state = "live"
                       /\ u.loads[l].source = spec.source /\ u.loads[l].body = spec.body
                       /\ t.loads[l].state = "live" =>
                            /\ u.loads[l].schema = spec.schema
                            /\ u.loads[l].enabled = boolOr(spec.enabled, t.loads[l].enabled)
<1> DEFINE u == upsertLoad(t, spec)  l == spec.name
<1>1. CASE ~t.ok \/ l = "" \/ spec.source \notin SourceNames
  <2>1. u = Fails(t)
    BY <1>1 DEF upsertLoad
  <2> HIDE DEF u
  <2> QED BY <2>1, FailsType, Zenon DEF u
<1>2. CASE t.sources[spec.source].state # "live" \/ t.loads[l].state = "deleted"
  <2>1. u = Fails(t)
    BY <1>2 DEF upsertLoad
  <2> HIDE DEF u
  <2> QED BY <2>1, FailsType, Zenon DEF u
<1>3. CASE /\ ~(~t.ok \/ l = "" \/ spec.source \notin SourceNames)
           /\ ~(t.sources[spec.source].state # "live" \/ t.loads[l].state = "deleted")
  <2> DEFINE row == t.loads[l]
             on == LoadEnabled(spec, row)
             schema == IF row.state = "absent" THEN CreatedSchema(spec.schema) ELSE spec.schema
             new == [state |-> "live", source |-> spec.source, body |-> spec.body,
                     schema |-> schema, enabled |-> on]
  <2>1. u = [t EXCEPT !.loads[l] = new]
    BY <1>3 DEF upsertLoad
  <2>2. l \in LoadNames /\ spec.source \in Texts /\ spec.body \in Int /\ spec.schema \in Texts /\ t.ok
    BY <1>3 DEF LoadSpecs
  <2>3. row \in LoadRows
    BY <2>2 DEF Transactions
  <2>4. row.enabled \in BOOLEAN
    BY <2>3 DEF LoadRows
  <2>5. on \in BOOLEAN /\ (row.state = "live" => on = boolOr(spec.enabled, row.enabled))
    <3> HIDE DEF row
    <3> QED BY <2>4, BoolOrType DEF CreatedEnabled, LoadEnabled
  <2>6. schema \in Texts /\ (row.state = "live" => schema = spec.schema)
    <3> HIDE DEF row
    <3>1. "dbo" \in Texts
      BY DEF Texts
    <3> QED BY <2>2, <3>1 DEF CreatedSchema
  <2>7. /\ new \in LoadRows /\ new.state = "live" /\ new.source = spec.source
        /\ new.body = spec.body /\ new.schema = schema /\ new.enabled = on
    <3> HIDE DEF on, schema, row
    <3>1. "live" \in States
      BY DEF States
    <3>2. /\ new.state = "live" /\ new.source = spec.source
          /\ new.body = spec.body /\ new.schema = schema /\ new.enabled = on
      OBVIOUS
    <3>3. new \in LoadRows
      BY <2>2, <2>5, <2>6, <3>1 DEF LoadRows
    <3> QED BY <3>2, <3>3
  <2> HIDE DEF new, u, on, schema
  <2>8. u \in Transactions
    BY <2>1, <2>2, <2>7 DEF Transactions
  <2>9. /\ u.sources = t.sources /\ u.tags = t.tags /\ u.nodes = t.nodes
        /\ u.loads[l] = new
        /\ \A x \in LoadNames : x # l => u.loads[x] = t.loads[x]
    BY <2>1, <2>2 DEF Transactions
  <2> QED BY <2>2, <2>5, <2>6, <2>7, <2>8, <2>9, Zenon DEF u
<1> QED BY <1>1, <1>2, <1>3

\* What a turn of the loop over the loads does when it succeeds.
LoadStep(t, spec, file, u) ==
  LET l == spec.name
  IN /\ t.ok /\ l \in LoadNames /\ u.sources = t.sources
     /\ \A x \in LoadNames : x # l => /\ u.loads[x] = t.loads[x]
                                      /\ u.tags[x] = t.tags[x] /\ u.nodes[x] = t.nodes[x]
     /\ u.tags[l] = Replaced(t.tags[l], Map(TagRow, Of(file.modbus, l)))
     /\ u.nodes[l] = Replaced(t.nodes[l], Map(NodeRow, Of(file.opcua, l)))
     /\ u.loads[l].state = "live"
     /\ u.loads[l].source = spec.source /\ u.loads[l].body = spec.body
     /\ t.loads[l].state = "live" =>
          /\ u.loads[l].schema = spec.schema
          /\ u.loads[l].enabled = boolOr(spec.enabled, t.loads[l].enabled)

\* One turn of the loop over the loads.
LEMMA LoadTurn ==
  ASSUME NEW t \in Transactions, NEW file \in Files, NEW spec \in LoadSpecs
  PROVE  /\ SeedLoad(t, spec, file) \in Transactions
         /\ SeedLoad(t, spec, file).ok => LoadStep(t, spec, file, SeedLoad(t, spec, file))
<1> DEFINE v == upsertLoad(t, spec)  u == SeedLoad(t, spec, file)  l == spec.name
           m == Map(TagRow, Of(file.modbus, l))  o == Map(NodeRow, Of(file.opcua, l))
           refused == ~TagsComplete(Of(file.modbus, l)) \/ ~NodesComplete(Of(file.opcua, l))
<1>1. /\ v \in Transactions
      /\ v.ok => /\ t.ok /\ l \in LoadNames
                 /\ v.sources = t.sources /\ v.tags = t.tags /\ v.nodes = t.nodes
                 /\ \A x \in LoadNames : x # l => v.loads[x] = t.loads[x]
                 /\ v.loads[l].state = "live"
                 /\ v.loads[l].source = spec.source /\ v.loads[l].body = spec.body
                 /\ t.loads[l].state = "live" =>
                      /\ v.loads[l].schema = spec.schema
                      /\ v.loads[l].enabled = boolOr(spec.enabled, t.loads[l].enabled)
  BY UpsertLoad
<1>2. u = IF ~v.ok \/ refused THEN Fails(v)
          ELSE [v EXCEPT !.tags[l] = Replaced(@, m), !.nodes[l] = Replaced(@, o)]
  BY DEF SeedLoad
<1>3. m \in Seq(TagRows) /\ o \in Seq(NodeRows)
  BY NewRowsType
<1> HIDE DEF v, u, m, o, refused
<1>4. CASE ~v.ok \/ refused
  <2>1. u \in Transactions /\ u.ok = FALSE
    BY <1>1, <1>2, <1>4, FailsType
  <2> QED BY <2>1, Zenon DEF u
<1>5. CASE ~(~v.ok \/ refused)
  <2> DEFINE tags2 == Replaced(v.tags[l], m)  nodes2 == Replaced(v.nodes[l], o)
  <2>1. u = [v EXCEPT !.tags[l] = tags2, !.nodes[l] = nodes2]
    BY <1>2, <1>5
  <2>2. l \in LoadNames
    BY <1>1, <1>5
  <2>3. tags2 \in Seq(TagRows) /\ nodes2 \in Seq(NodeRows)
    BY <1>1, <1>3, <2>2 DEF Replaced, Transactions
  <2> HIDE DEF tags2, nodes2
  <2>4. u \in Transactions
    BY <1>1, <2>1, <2>2, <2>3 DEF Transactions
  <2>5. /\ u.sources = v.sources /\ u.loads = v.loads
        /\ u.tags[l] = tags2 /\ u.nodes[l] = nodes2
        /\ \A x \in LoadNames : x # l => u.tags[x] = v.tags[x] /\ u.nodes[x] = v.nodes[x]
    BY <1>1, <2>1, <2>2 DEF Transactions
  <2>6. tags2 = Replaced(t.tags[l], m) /\ nodes2 = Replaced(t.nodes[l], o)
    BY <1>1, <1>5, Zenon DEF tags2, nodes2
  <2>7. /\ t.ok /\ u.sources = t.sources
        /\ u.loads[l].state = "live"
        /\ u.loads[l].source = spec.source /\ u.loads[l].body = spec.body
        /\ t.loads[l].state = "live" =>
             /\ u.loads[l].schema = spec.schema
             /\ u.loads[l].enabled = boolOr(spec.enabled, t.loads[l].enabled)
    BY <1>1, <1>5, <2>5, Zenon
  <2>8. ASSUME NEW x \in LoadNames, x # l
        PROVE  u.loads[x] = t.loads[x] /\ u.tags[x] = t.tags[x] /\ u.nodes[x] = t.nodes[x]
    <3>1. v.loads[x] = t.loads[x] /\ v.tags = t.tags /\ v.nodes = t.nodes
      BY <1>1, <1>5, <2>8, Zenon
    <3>2. u.loads = v.loads /\ u.tags[x] = v.tags[x] /\ u.nodes[x] = v.nodes[x]
      BY <2>5, <2>8, Zenon
    <3> QED BY <3>1, <3>2, Zenon
  <2>9. /\ u.tags[l] = Replaced(t.tags[l], m) /\ u.nodes[l] = Replaced(t.nodes[l], o)
    BY <2>5, <2>6, Zenon
  <2>10. LoadStep(t, spec, file, u)
    BY <2>2, <2>7, <2>8, <2>9, Zenon DEF m, o, LoadStep
  <2> QED BY <2>4, <2>10, Zenon DEF u
<1> QED BY <1>4, <1>5

(***************************************************************************)
(* The whole of the seeder's loops.                                        *)
(***************************************************************************)
\* What holds at turn i, and at a turn if it held at the one before, holds from i on.
LEMMA HeldAfter ==
  ASSUME NEW n \in Nat, NEW i \in 0..n, NEW S, i \in S, \A k \in (i + 1)..n : k - 1 \in S => k \in S
  PROVE  \A k \in i..n : k \in S
<1> DEFINE T == {d \in 0..(n - i) : i + d \in S}
<1>1. 0 \in T /\ n - i \in Nat
  OBVIOUS
<1>2. ASSUME NEW d \in 1..(n - i), d - 1 \in T PROVE d \in T
  <2>1. i + d \in (i + 1)..n /\ (i + d) - 1 = i + (d - 1) /\ i + (d - 1) \in S
    BY <1>2
  <2>2. i + d \in S
    BY <2>1
  <2> QED BY <1>2, <2>2
<1>3. \A d \in 0..(n - i) : d \in T
  <2> HIDE DEF T
  <2> QED BY <1>1, <1>2, TurnByTurn
<1>4. ASSUME NEW k \in i..n PROVE k \in S
  <2>1. k - i \in 0..(n - i) /\ i + (k - i) = k
    OBVIOUS
  <2> QED BY <1>3, <2>1
<1> QED BY <1>4

\* What the loop over the sources does with the i-th spec, when it succeeds.
SourceSeeded(t, specs, i, u) ==
  LET s == specs[i].name
  IN /\ s \in SourceNames /\ u.sources[s].state = "live"
     /\ IsLast(specs, i) => u.sources[s].kind = specs[i].kind
     /\ t.sources[s].state = "live" /\ IsLastFlag(specs, i) =>
          u.sources[s].enabled = (specs[i].enabled = "yes")

\* What it leaves as it was.
SourceKept(t, specs, s, u) ==
  /\ (\A i \in DOMAIN specs : specs[i].name # s) => u.sources[s] = t.sources[s]
  /\ t.sources[s].state = "live"
     /\ (\A i \in DOMAIN specs : specs[i].name = s => specs[i].enabled = "unset")
     => u.sources[s].enabled = t.sources[s].enabled

\* The loop over the sources.
LEMMA SourcesSeeded ==
  ASSUME NEW t \in Transactions, NEW specs \in Seq(SourceSpecs), NEW u, u = SeedSources(t, specs)
  PROVE  /\ u \in Transactions
         /\ u.ok => /\ u.loads = t.loads /\ u.tags = t.tags /\ u.nodes = t.nodes
                    /\ \A i \in DOMAIN specs : SourceSeeded(t, specs, i, u)
                    /\ \A s \in SourceNames : SourceKept(t, specs, s, u)
<1> DEFINE n == Len(specs)
<1>1. n \in Nat /\ DOMAIN specs = 1..n /\ \A k \in 1..n : specs[k] \in SourceSpecs
  OBVIOUS
<1>2. PICK w : /\ u = w[n] /\ w[0] = t
               /\ \A k \in 1..n : w[k] = upsertSource(w[k - 1], specs[k])
  BY SourceTurns
<1> HIDE DEF n
<1>3. \A k \in 0..n : w[k] \in Transactions
  <2> DEFINE S == {k \in 0..n : w[k] \in Transactions}
  <2>1. 0 \in S
    BY <1>1, <1>2
  <2>2. ASSUME NEW k \in 1..n, k - 1 \in S PROVE k \in S
    BY <1>1, <1>2, <2>2, SourceTurn
  <2>3. \A k \in 0..n : k \in S
    <3> HIDE DEF S
    <3> QED BY <1>1, <2>1, <2>2, TurnByTurn
  <2> QED BY <2>3
<1>4. u \in Transactions
  BY <1>1, <1>2, <1>3
<1> SUFFICES ASSUME u.ok
             PROVE  /\ u.loads = t.loads /\ u.tags = t.tags /\ u.nodes = t.nodes
                    /\ \A i \in DOMAIN specs : SourceSeeded(t, specs, i, u)
                    /\ \A s \in SourceNames : SourceKept(t, specs, s, u)
  BY <1>4, Zenon
<1>5. \A k \in 0..n : w[k].ok
  <2> DEFINE S == {k \in 0..n : w[k].ok}
  <2>1. n \in S
    BY <1>1, <1>2, SMTT(30)
  <2>2. ASSUME NEW k \in 1..n, k \in S PROVE k - 1 \in S
    <3>1. w[k - 1] \in Transactions /\ k - 1 \in 0..n
      BY <1>1, <1>3
    <3>2. w[k].ok /\ w[k] = upsertSource(w[k - 1], specs[k]) /\ specs[k] \in SourceSpecs
      BY <1>1, <1>2, <2>2
    <3>3. SourceStep(w[k - 1], specs[k], w[k])
      BY <3>1, <3>2, SourceTurn, Zenon
    <3> QED BY <3>1, <3>3 DEF SourceStep
  <2>3. \A k \in 0..n : k \in S
    <3> HIDE DEF S
    <3> QED BY <1>1, <2>1, <2>2, HeldBefore
  <2> QED BY <2>3
<1>6. ASSUME NEW k \in 1..n
      PROVE  LET s == specs[k].name
             IN /\ s \in SourceNames
                /\ w[k].loads = w[k - 1].loads /\ w[k].tags = w[k - 1].tags /\ w[k].nodes = w[k - 1].nodes
                /\ \A x \in SourceNames : x # s => w[k].sources[x] = w[k - 1].sources[x]
                /\ w[k].sources[s].state = "live" /\ w[k].sources[s].kind = specs[k].kind
                /\ w[k - 1].sources[s].state = "live" =>
                     w[k].sources[s].enabled = boolOr(specs[k].enabled, w[k - 1].sources[s].enabled)
  <2>1. w[k - 1] \in Transactions /\ w[k].ok /\ w[k] = upsertSource(w[k - 1], specs[k])
    BY <1>1, <1>2, <1>3, <1>5
  <2>2. specs[k] \in SourceSpecs
    BY <1>1
  <2>3. SourceStep(w[k - 1], specs[k], w[k])
    BY <2>1, <2>2, SourceTurn, Zenon
  <2> QED BY <2>3, Zenon DEF SourceStep
<1>7. u.loads = t.loads /\ u.tags = t.tags /\ u.nodes = t.nodes
  <2> DEFINE r == [k \in 0..n |-> <<w[k].loads, w[k].tags, w[k].nodes>>]
  <2>1. ASSUME NEW k \in (0 + 1)..n PROVE r[k] = r[k - 1]
    <3>1. k \in 1..n /\ k \in 0..n /\ k - 1 \in 0..n
      BY <1>1
    <3>2. w[k].loads = w[k - 1].loads /\ w[k].tags = w[k - 1].tags /\ w[k].nodes = w[k - 1].nodes
      BY <1>6, <3>1, Zenon
    <3> QED BY <3>1, <3>2
  <2>2. r[n] = <<u.loads, u.tags, u.nodes>> /\ r[0] = <<t.loads, t.tags, t.nodes>> /\ 0 \in 0..n
    BY <1>1, <1>2
  <2> HIDE DEF r
  <2>3. r[n] = r[0]
    BY <1>1, <2>1, <2>2, KeptSince
  <2> QED BY <2>2, <2>3
<1>8. ASSUME NEW s \in SourceNames, NEW i \in 0..n, \A k \in (i + 1)..n : specs[k].name # s
      PROVE  u.sources[s] = w[i].sources[s]
  <2> DEFINE r == [k \in 0..n |-> w[k].sources[s]]
  <2>1. ASSUME NEW k \in (i + 1)..n PROVE r[k] = r[k - 1]
    <3>1. k \in 1..n /\ k \in 0..n /\ k - 1 \in 0..n
      BY <1>1
    <3>2. w[k].sources[s] = w[k - 1].sources[s]
      BY <1>6, <1>8, <3>1
    <3> QED BY <3>1, <3>2
  <2>2. r[n] = u.sources[s] /\ r[i] = w[i].sources[s]
    BY <1>1, <1>2
  <2> HIDE DEF r
  <2>3. r[n] = r[i]
    BY <1>1, <2>1, KeptSince
  <2> QED BY <2>2, <2>3
<1>9. ASSUME NEW s \in SourceNames, NEW i \in 0..n, w[i].sources[s].state = "live"
      PROVE  \A k \in i..n : w[k].sources[s].state = "live"
  <2> DEFINE S == {k \in i..n : w[k].sources[s].state = "live"}
  <2>1. i \in S
    BY <1>1, <1>9
  <2>2. ASSUME NEW k \in (i + 1)..n, k - 1 \in S PROVE k \in S
    <3>1. k \in 1..n /\ k \in i..n
      BY <1>1, SMTT(30)
    <3>2. CASE specs[k].name = s
      BY <1>6, <3>1, <3>2, ZenonT(30)
    <3>3. CASE specs[k].name # s
      BY <1>6, <2>2, <3>1, <3>3
    <3> QED BY <3>2, <3>3
  <2>3. \A k \in i..n : k \in S
    <3> HIDE DEF S
    <3> QED BY <1>1, <2>1, <2>2, HeldAfter
  <2> QED BY <2>3
<1>10. ASSUME NEW s \in SourceNames, NEW i \in 0..n, w[i].sources[s].state = "live",
              \A k \in (i + 1)..n : specs[k].name = s => specs[k].enabled = "unset"
       PROVE  u.sources[s].enabled = w[i].sources[s].enabled
  <2> DEFINE r == [k \in 0..n |-> w[k].sources[s].enabled]
  <2>1. ASSUME NEW k \in (i + 1)..n PROVE r[k] = r[k - 1]
    <3>1. k \in 1..n /\ k \in 0..n /\ k - 1 \in 0..n /\ k - 1 \in i..n
      BY <1>1
    <3>2. w[k - 1].sources[s].state = "live"
      BY <1>9, <1>10, <3>1
    <3>3. CASE specs[k].name = s
      <4>1. w[k].sources[s].enabled = boolOr("unset", w[k - 1].sources[s].enabled)
        BY <1>6, <1>10, <3>1, <3>2, <3>3
      <4> QED BY <3>1, <4>1, SMTT(30) DEF boolOr
    <3>4. CASE specs[k].name # s
      <4>1. w[k].sources[s] = w[k - 1].sources[s]
        BY <1>6, <3>1, <3>4
      <4> QED BY <3>1, <4>1, SMTT(30)
    <3> QED BY <3>3, <3>4
  <2>2. r[n] = u.sources[s].enabled /\ r[i] = w[i].sources[s].enabled
    BY <1>1, <1>2, SMTT(30)
  <2> HIDE DEF r
  <2>3. r[n] = r[i]
    BY <1>1, <2>1, KeptSince
  <2> QED BY <2>2, <2>3
<1>11. ASSUME NEW i \in 1..n
       PROVE  LET s == specs[i].name
              IN /\ s \in SourceNames /\ u.sources[s].state = "live"
                 /\ IsLast(specs, i) => u.sources[s].kind = specs[i].kind
                 /\ t.sources[s].state = "live" /\ IsLastFlag(specs, i) =>
                      u.sources[s].enabled = (specs[i].enabled = "yes")
  <2> DEFINE s == specs[i].name
  <2>1. i \in 0..n /\ n \in i..n /\ i - 1 \in 0..n /\ 0 \in 0..n
    BY <1>1, SMTT(30)
  <2>2. s \in SourceNames /\ w[i].sources[s].state = "live" /\ w[i].sources[s].kind = specs[i].kind
    BY <1>6
  <2>3. u.sources[s].state = "live"
    BY <1>2, <1>9, <2>1, <2>2, SMTT(30)
  <2>4. ASSUME IsLast(specs, i) PROVE u.sources[s].kind = specs[i].kind
    <3>1. \A k \in (i + 1)..n : specs[k].name # s
      BY <1>1, <2>4 DEF IsLast
    <3>2. u.sources[s] = w[i].sources[s]
      BY <1>8, <2>1, <2>2, <3>1
    <3> QED BY <2>2, <3>2
  <2>5. ASSUME t.sources[s].state = "live", IsLastFlag(specs, i)
        PROVE  u.sources[s].enabled = (specs[i].enabled = "yes")
    <3>1. \A k \in (i + 1)..n : specs[k].name = s => specs[k].enabled = "unset"
      BY <1>1, <2>5 DEF IsLastFlag
    <3>2. u.sources[s].enabled = w[i].sources[s].enabled
      BY <1>10, <2>1, <2>2, <3>1
    <3>3. w[i - 1].sources[s].state = "live"
      BY <1>1, <1>2, <1>9, <2>1, <2>2, <2>5, SMTT(30)
    <3>4. w[i].sources[s].enabled = boolOr(specs[i].enabled, w[i - 1].sources[s].enabled)
      BY <1>6, <3>3
    <3>5. specs[i].enabled # "unset"
      BY <2>5 DEF IsLastFlag
    <3> QED BY <3>2, <3>4, <3>5 DEF boolOr
  <2> QED BY <2>2, <2>3, <2>4, <2>5
<1>12. ASSUME NEW s \in SourceNames, \A i \in 1..n : specs[i].name # s
       PROVE  u.sources[s] = t.sources[s]
  <2>1. 0 \in 0..n /\ \A k \in (0 + 1)..n : specs[k].name # s
    BY <1>1, <1>12
  <2> QED BY <1>2, <1>8, <2>1
<1>13. ASSUME NEW s \in SourceNames, t.sources[s].state = "live",
              \A i \in 1..n : specs[i].name = s => specs[i].enabled = "unset"
       PROVE  u.sources[s].enabled = t.sources[s].enabled
  <2>1. 0 \in 0..n /\ \A k \in (0 + 1)..n : specs[k].name = s => specs[k].enabled = "unset"
    BY <1>1, <1>13
  <2> QED BY <1>2, <1>10, <1>13, <2>1
<1>14. ASSUME NEW i \in DOMAIN specs PROVE SourceSeeded(t, specs, i, u)
  BY <1>1, <1>11, Zenon DEF SourceSeeded
<1>15. ASSUME NEW s \in SourceNames PROVE SourceKept(t, specs, s, u)
  BY <1>1, <1>12, <1>13, Zenon DEF SourceKept
<1> QED BY <1>7, <1>14, <1>15, Zenon

\* The turns `at` replace the rows by the new ones.
Replacing(r, n, at, new) ==
  \A k \in 1..n : r[k] = IF k \in at THEN Replaced(r[k - 1], new) ELSE r[k - 1]

\* Replacing the rows of a load in one or more turns is replacing them once.
LEMMA ReplacedOnce ==
  ASSUME NEW n \in Nat, NEW r, NEW at, NEW new, NEW i \in 1..n, i \in at,
         Replacing(r, n, at, new)
  PROVE  r[n] = Replaced(r[0], new)
<1>1. CASE new = <<>>
  <2>1. \A k \in (0 + 1)..n : r[k] = r[k - 1]
    BY <1>1 DEF Replaced, Replacing
  <2>2. r[n] = r[0]
    BY <2>1, KeptSince
  <2> QED BY <1>1, <2>2 DEF Replaced, Replacing
<1>2. CASE new # <<>>
  <2> DEFINE S == {k \in 1..n : r[k] = new}
  <2>1. i \in S
    BY <1>2 DEF Replaced, Replacing
  <2>2. ASSUME NEW k \in (i + 1)..n, k - 1 \in S PROVE k \in S
    BY <1>2, <2>2 DEF Replaced, Replacing
  <2>3. \A k \in i..n : k \in S
    <3> HIDE DEF S
    <3> QED BY <2>1, <2>2, HeldAfter
  <2>4. r[n] = new
    BY <2>3
  <2> QED BY <1>2, <2>4 DEF Replaced, Replacing
<1> QED BY <1>1, <1>2

\* What the loop over the loads does with the i-th spec, when it succeeds.
LoadSeeded(t, file, i, u) ==
  LET spec == file.loads[i]  l == spec.name
      m == Map(TagRow, Of(file.modbus, l))  o == Map(NodeRow, Of(file.opcua, l))
  IN /\ l \in LoadNames /\ u.loads[l].state = "live"
     /\ IsLast(file.loads, i) =>
          /\ u.loads[l].source = spec.source /\ u.loads[l].body = spec.body
          /\ t.loads[l].state = "live" => u.loads[l].schema = spec.schema
     /\ t.loads[l].state = "live" /\ IsLastFlag(file.loads, i) =>
          u.loads[l].enabled = (spec.enabled = "yes")
     /\ u.tags[l] = Replaced(t.tags[l], m) /\ u.nodes[l] = Replaced(t.nodes[l], o)

\* What it leaves as it was.
LoadKept(t, file, l, u) ==
  /\ (\A i \in DOMAIN file.loads : file.loads[i].name # l) =>
       u.loads[l] = t.loads[l] /\ u.tags[l] = t.tags[l] /\ u.nodes[l] = t.nodes[l]
  /\ t.loads[l].state = "live"
     /\ (\A i \in DOMAIN file.loads : file.loads[i].name = l => file.loads[i].enabled = "unset")
     => u.loads[l].enabled = t.loads[l].enabled

\* The loop over the loads.
LEMMA LoadsSeeded ==
  ASSUME NEW t \in Transactions, NEW file \in Files, NEW u, u = SeedLoads(t, file)
  PROVE  /\ u \in Transactions
         /\ u.ok => /\ t.ok /\ u.sources = t.sources
                    /\ \A i \in DOMAIN file.loads : LoadSeeded(t, file, i, u)
                    /\ \A l \in LoadNames : LoadKept(t, file, l, u)
<1> DEFINE specs == file.loads  n == Len(specs)
           M(l) == Map(TagRow, Of(file.modbus, l))
           O(l) == Map(NodeRow, Of(file.opcua, l))
<1>1. n \in Nat /\ DOMAIN specs = 1..n /\ \A k \in 1..n : specs[k] \in LoadSpecs
  BY FileParts
<1>2. PICK w : /\ u = w[n] /\ w[0] = t
               /\ \A k \in 1..n : w[k] = SeedLoad(w[k - 1], specs[k], file)
  BY <1>1, LoadTurns
<1> HIDE DEF n
<1>3. \A k \in 0..n : w[k] \in Transactions
  <2> DEFINE S == {k \in 0..n : w[k] \in Transactions}
  <2>1. 0 \in S
    BY <1>1, <1>2
  <2>2. ASSUME NEW k \in 1..n, k - 1 \in S PROVE k \in S
    BY <1>1, <1>2, <2>2, LoadTurn
  <2>3. \A k \in 0..n : k \in S
    <3> HIDE DEF S
    <3> QED BY <1>1, <2>1, <2>2, TurnByTurn
  <2> QED BY <2>3
<1>4. u \in Transactions
  BY <1>1, <1>2, <1>3
<1> HIDE DEF specs, M, O
<1>5. ASSUME u.ok, NEW k \in 1..n
      PROVE  LoadStep(w[k - 1], specs[k], file, w[k])
  <2>1. ASSUME NEW m \in 1..n, w[m].ok PROVE LoadStep(w[m - 1], specs[m], file, w[m])
    <3>1. w[m - 1] \in Transactions /\ w[m] = SeedLoad(w[m - 1], specs[m], file)
      BY <1>1, <1>2, <1>3
    <3>2. specs[m] \in LoadSpecs
      BY <1>1
    <3> QED BY <2>1, <3>1, <3>2, LoadTurn, Zenon
  <2> DEFINE S == {m \in 0..n : w[m].ok}
  <2>2. n \in S
    BY <1>1, <1>2, <1>5, SMTT(30)
  <2>3. ASSUME NEW m \in 1..n, m \in S PROVE m - 1 \in S
    <3>1. w[m - 1].ok
      BY <2>1, <2>3, ZenonT(30) DEF LoadStep
    <3>2. m - 1 \in 0..n
      BY <1>1
    <3> QED BY <3>1, <3>2
  <2>4. \A m \in 0..n : m \in S
    <3> HIDE DEF S
    <3> QED BY <1>1, <2>2, <2>3, HeldBefore
  <2> QED BY <1>1, <2>1, <2>4
<1>6. ASSUME u.ok, NEW l \in LoadNames, NEW i \in 0..n, \A k \in (i + 1)..n : specs[k].name # l
      PROVE  u.loads[l] = w[i].loads[l] /\ u.tags[l] = w[i].tags[l] /\ u.nodes[l] = w[i].nodes[l]
  <2> DEFINE r == [k \in 0..n |-> <<w[k].loads[l], w[k].tags[l], w[k].nodes[l]>>]
  <2>1. ASSUME NEW k \in (i + 1)..n PROVE r[k] = r[k - 1]
    <3>1. k \in 1..n /\ k \in 0..n /\ k - 1 \in 0..n
      BY <1>1
    <3>2. /\ w[k].loads[l] = w[k - 1].loads[l]
          /\ w[k].tags[l] = w[k - 1].tags[l] /\ w[k].nodes[l] = w[k - 1].nodes[l]
      BY <1>5, <1>6, <3>1, Zenon DEF LoadStep
    <3> QED BY <3>1, <3>2
  <2>2. /\ r[n] = <<u.loads[l], u.tags[l], u.nodes[l]>>
        /\ r[i] = <<w[i].loads[l], w[i].tags[l], w[i].nodes[l]>>
    BY <1>1, <1>2
  <2> HIDE DEF r
  <2>3. r[n] = r[i]
    BY <1>1, <2>1, KeptSince
  <2> QED BY <2>2, <2>3
<1>7. ASSUME u.ok, NEW l \in LoadNames, NEW i \in 0..n, w[i].loads[l].state = "live"
      PROVE  \A k \in i..n : w[k].loads[l].state = "live"
  <2> DEFINE S == {k \in i..n : w[k].loads[l].state = "live"}
  <2>1. i \in S
    BY <1>1, <1>7
  <2>2. ASSUME NEW k \in (i + 1)..n, k - 1 \in S PROVE k \in S
    <3>1. k \in 1..n /\ k \in i..n
      BY <1>1
    <3>2. LoadStep(w[k - 1], specs[k], file, w[k])
      BY <1>5, <1>7, <3>1
    <3>3. w[k].loads[l].state = "live"
      BY <2>2, <3>2, Zenon DEF LoadStep
    <3> QED BY <3>1, <3>3
  <2>3. \A k \in i..n : k \in S
    <3> HIDE DEF S
    <3> QED BY <1>1, <2>1, <2>2, HeldAfter
  <2> QED BY <2>3
<1>8. ASSUME u.ok, NEW l \in LoadNames, NEW i \in 0..n, w[i].loads[l].state = "live",
             \A k \in (i + 1)..n : specs[k].name = l => specs[k].enabled = "unset"
      PROVE  u.loads[l].enabled = w[i].loads[l].enabled
  <2> DEFINE r == [k \in 0..n |-> w[k].loads[l].enabled]
  <2>1. ASSUME NEW k \in (i + 1)..n PROVE r[k] = r[k - 1]
    <3>1. k \in 1..n /\ k \in 0..n /\ k - 1 \in 0..n /\ k - 1 \in i..n
      BY <1>1
    <3>2. w[k - 1].loads[l].state = "live"
      BY <1>7, <1>8, <3>1
    <3>3. LoadStep(w[k - 1], specs[k], file, w[k])
      BY <1>5, <1>8, <3>1
    <3>4. CASE specs[k].name = l
      <4>1. w[k].loads[l].enabled = boolOr("unset", w[k - 1].loads[l].enabled)
        BY <1>8, <3>2, <3>3, <3>4, Zenon DEF LoadStep
      <4> QED BY <3>1, <4>1 DEF boolOr
    <3>5. CASE specs[k].name # l
      <4>1. w[k].loads[l] = w[k - 1].loads[l]
        BY <3>3, <3>5, Zenon DEF LoadStep
      <4> QED BY <3>1, <4>1
    <3> QED BY <3>4, <3>5
  <2>2. r[n] = u.loads[l].enabled /\ r[i] = w[i].loads[l].enabled
    BY <1>1, <1>2
  <2> HIDE DEF r
  <2>3. r[n] = r[i]
    BY <1>1, <2>1, KeptSince
  <2> QED BY <2>2, <2>3
<1>9. ASSUME u.ok, NEW i \in 1..n, NEW l, l = specs[i].name
      PROVE  u.tags[l] = Replaced(t.tags[l], M(l)) /\ u.nodes[l] = Replaced(t.nodes[l], O(l))
  <2> DEFINE at == {k \in 1..n : specs[k].name = l}
             r == [k \in 0..n |-> w[k].tags[l]]
             q == [k \in 0..n |-> w[k].nodes[l]]
  <2>0. l \in LoadNames
    BY <1>5, <1>9, ZenonT(30) DEF LoadStep
  <2>1. ASSUME NEW k \in 1..n
        PROVE  /\ r[k] = IF k \in at THEN Replaced(r[k - 1], M(l)) ELSE r[k - 1]
               /\ q[k] = IF k \in at THEN Replaced(q[k - 1], O(l)) ELSE q[k - 1]
    <3>1. k \in 0..n /\ k - 1 \in 0..n
      BY <1>1
    <3>2. LoadStep(w[k - 1], specs[k], file, w[k])
      BY <1>5, <1>9
    <3>3. CASE specs[k].name = l
      <4>1. /\ w[k].tags[l] = Replaced(w[k - 1].tags[l], M(l))
            /\ w[k].nodes[l] = Replaced(w[k - 1].nodes[l], O(l))
        BY <3>2, <3>3, Zenon DEF LoadStep, M, O
      <4> QED BY <3>1, <3>3, <4>1, Zenon
    <3>4. CASE specs[k].name # l
      <4>1. w[k].tags[l] = w[k - 1].tags[l] /\ w[k].nodes[l] = w[k - 1].nodes[l]
        BY <2>0, <3>2, <3>4, Zenon DEF LoadStep
      <4> QED BY <3>1, <3>4, <4>1, Zenon
    <3> QED BY <3>3, <3>4
  <2>2. i \in at
    BY <1>9
  <2>3. /\ r[n] = u.tags[l] /\ r[0] = t.tags[l] /\ q[n] = u.nodes[l] /\ q[0] = t.nodes[l]
    BY <1>1, <1>2
  <2> HIDE DEF r, q, at
  <2>4. r[n] = Replaced(r[0], M(l)) /\ q[n] = Replaced(q[0], O(l))
    <3>1. Replacing(r, n, at, M(l)) /\ Replacing(q, n, at, O(l))
      BY <2>1, Zenon DEF Replacing
    <3> QED BY <1>1, <2>2, <3>1, ReplacedOnce
  <2> QED BY <2>3, <2>4, Zenon
<1>10. ASSUME u.ok, NEW i \in 1..n
       PROVE  LET spec == specs[i]  l == spec.name
              IN /\ l \in LoadNames /\ u.loads[l].state = "live"
                 /\ IsLast(specs, i) =>
                      /\ u.loads[l].source = spec.source /\ u.loads[l].body = spec.body
                      /\ t.loads[l].state = "live" => u.loads[l].schema = spec.schema
                 /\ t.loads[l].state = "live" /\ IsLastFlag(specs, i) =>
                      u.loads[l].enabled = (spec.enabled = "yes")
  <2> DEFINE l == specs[i].name
  <2>1. i \in 0..n /\ n \in i..n /\ i - 1 \in 0..n /\ 0 \in 0..n
    BY <1>1
  <2>2. LoadStep(w[i - 1], specs[i], file, w[i])
    BY <1>5, <1>10
  <2>3. /\ l \in LoadNames /\ w[i].loads[l].state = "live"
        /\ w[i].loads[l].source = specs[i].source /\ w[i].loads[l].body = specs[i].body
    BY <2>2, ZenonT(30) DEF LoadStep
  <2>4. u.loads[l].state = "live"
    <3>1. w[n].loads[l].state = "live"
      BY <1>7, <1>10, <2>1, <2>3, ZenonT(30)
    <3> QED BY <1>2, <3>1, Zenon
  <2>5. ASSUME t.loads[l].state = "live"
        PROVE  /\ w[i].loads[l].schema = specs[i].schema
               /\ w[i].loads[l].enabled = boolOr(specs[i].enabled, w[i - 1].loads[l].enabled)
    <3>1. w[i - 1].loads[l].state = "live"
      BY <1>1, <1>2, <1>7, <1>10, <2>1, <2>3, <2>5
    <3> QED BY <2>2, <3>1, Zenon DEF LoadStep
  <2>6. ASSUME IsLast(specs, i) PROVE u.loads[l] = w[i].loads[l]
    <3>1. \A k \in (i + 1)..n : specs[k].name # l
      BY <1>1, <2>6, SMTT(30) DEF IsLast
    <3> QED BY <1>6, <1>10, <2>1, <2>3, <3>1
  <2>7. ASSUME t.loads[l].state = "live", IsLastFlag(specs, i)
        PROVE  u.loads[l].enabled = (specs[i].enabled = "yes")
    <3>1. \A k \in (i + 1)..n : specs[k].name = l => specs[k].enabled = "unset"
      BY <1>1, <2>7, SMTT(30) DEF IsLastFlag
    <3>2. u.loads[l].enabled = w[i].loads[l].enabled
      BY <1>8, <1>10, <2>1, <2>3, <3>1
    <3>3. specs[i].enabled # "unset"
      BY <2>7 DEF IsLastFlag
    <3> QED BY <2>5, <2>7, <3>2, <3>3 DEF boolOr
  <2> QED BY <2>3, <2>4, <2>5, <2>6, <2>7, Zenon
<1>11. ASSUME u.ok, NEW l \in LoadNames, \A i \in 1..n : specs[i].name # l
       PROVE  u.loads[l] = t.loads[l] /\ u.tags[l] = t.tags[l] /\ u.nodes[l] = t.nodes[l]
  <2>1. 0 \in 0..n /\ \A k \in (0 + 1)..n : specs[k].name # l
    BY <1>1, <1>11
  <2> QED BY <1>2, <1>6, <1>11, <2>1
<1>12. ASSUME u.ok, NEW l \in LoadNames, t.loads[l].state = "live",
              \A i \in 1..n : specs[i].name = l => specs[i].enabled = "unset"
       PROVE  u.loads[l].enabled = t.loads[l].enabled
  <2>1. 0 \in 0..n /\ \A k \in (0 + 1)..n : specs[k].name = l => specs[k].enabled = "unset"
    BY <1>1, <1>12
  <2> QED BY <1>2, <1>8, <1>12, <2>1
<1>13. ASSUME u.ok PROVE t.ok /\ u.sources = t.sources
  <2>1. ASSUME NEW k \in (0 + 1)..n PROVE w[k].sources = w[k - 1].sources
    <3>1. k \in 1..n
      BY <1>1
    <3>2. LoadStep(w[k - 1], specs[k], file, w[k])
      BY <1>5, <1>13, <3>1
    <3> QED BY <3>2, ZenonT(30) DEF LoadStep
  <2>2. CASE n = 0
    BY <1>2, <1>13, <2>2
  <2>3. CASE n # 0
    <3> DEFINE s == [k \in 0..n |-> w[k].sources]
    <3>1. /\ \A k \in (0 + 1)..n : s[k] = s[k - 1]
          /\ s[n] = u.sources /\ s[0] = t.sources /\ 0 \in 0..n
      BY <1>1, <1>2, <2>1
    <3> HIDE DEF s
    <3>2. s[n] = s[0]
      BY <1>1, <3>1, KeptSince, SMTT(30)
    <3>3. t.ok
      <4>1. 1 \in 1..n /\ 1 - 1 = 0
        BY <1>1, <2>3
      <4>2. LoadStep(w[1 - 1], specs[1], file, w[1])
        BY <1>5, <1>13, <4>1
      <4> QED BY <1>2, <4>1, <4>2 DEF LoadStep
    <3> QED BY <3>1, <3>2, <3>3
  <2> QED BY <2>2, <2>3, SMTT(30)
<1>14. ASSUME u.ok, NEW i \in 1..n
       PROVE  LET l == specs[i].name
              IN u.tags[l] = Replaced(t.tags[l], M(l)) /\ u.nodes[l] = Replaced(t.nodes[l], O(l))
  BY <1>9, <1>14
<1>15. ASSUME u.ok, NEW i \in DOMAIN file.loads PROVE LoadSeeded(t, file, i, u)
  <2>1. i \in 1..n
    BY <1>1, Zenon DEF specs
  <2> QED BY <1>10, <1>14, <1>15, <2>1, Zenon DEF specs, M, O, LoadSeeded
<1>16. ASSUME u.ok, NEW l \in LoadNames PROVE LoadKept(t, file, l, u)
  <2>1. DOMAIN file.loads = 1..n
    BY <1>1, Zenon DEF specs
  <2> QED BY <1>11, <1>12, <1>16, <2>1, Zenon DEF specs, LoadKept
<1> QED BY <1>4, <1>13, <1>15, <1>16, Zenon

(***************************************************************************)
(* What an application leaves in the tables.                               *)
(***************************************************************************)
\* A name that has a spec has a last one.
LEMMA LastSpec ==
  ASSUME NEW X, NEW specs \in Seq(X), NEW i \in DOMAIN specs
  PROVE  \E j \in DOMAIN specs : specs[j].name = specs[i].name /\ IsLast(specs, j)
<1> DEFINE T == {j \in DOMAIN specs : specs[j].name = specs[i].name}
<1>1. DOMAIN specs = 1..Len(specs) /\ Len(specs) \in Nat
  OBVIOUS
<1>2. T \in SUBSET (1..Len(specs)) /\ T # {}
  BY <1>1
<1>3. PICK j \in T : \A k \in T : k <= j
  <2> HIDE DEF T
  <2> QED BY <1>1, <1>2, LastOf
<1>4. IsLast(specs, j)
  BY <1>1, <1>3 DEF IsLast
<1> QED BY <1>3, <1>4

\* A name whose flag some spec sets has a last spec that sets it.
LEMMA LastFlag ==
  ASSUME NEW X, NEW specs \in Seq(X), NEW i \in DOMAIN specs, specs[i].enabled # "unset"
  PROVE  \E j \in DOMAIN specs : specs[j].name = specs[i].name /\ IsLastFlag(specs, j)
<1> DEFINE T == {j \in DOMAIN specs : specs[j].name = specs[i].name /\ specs[j].enabled # "unset"}
<1>1. DOMAIN specs = 1..Len(specs) /\ Len(specs) \in Nat
  OBVIOUS
<1>2. T \in SUBSET (1..Len(specs)) /\ T # {}
  BY <1>1
<1>3. PICK j \in T : \A k \in T : k <= j
  <2> HIDE DEF T
  <2> QED BY <1>1, <1>2, LastOf
<1>4. IsLastFlag(specs, j)
  BY <1>1, <1>3 DEF IsLastFlag
<1> QED BY <1>3, <1>4

\* A load with specs in the file has rows from the file.
LEMMA NewRows ==
  ASSUME NEW file \in Files, NEW l, NEW old
  PROVE  LET m == Of(file.modbus, l)  o == Of(file.opcua, l)
         IN /\ m # <<>> => Replaced(old, Map(TagRow, m)) = Map(TagRow, m)
            /\ m = <<>> => Replaced(old, Map(TagRow, m)) = old
            /\ o # <<>> => Replaced(old, Map(NodeRow, o)) = Map(NodeRow, o)
            /\ o = <<>> => Replaced(old, Map(NodeRow, o)) = old
<1> DEFINE m == Of(file.modbus, l)  o == Of(file.opcua, l)
<1>1. m \in Seq(TagSpecs) /\ o \in Seq(NodeSpecs)
  BY NewRowsType
<1> HIDE DEF m, o
<1>2. m # <<>> => Map(TagRow, m) # <<>>
  <2>1. Len(Map(TagRow, m)) = Len(m)
    BY <1>1 DEF Map
  <2> QED BY <1>1, <2>1
<1>3. m = <<>> => Map(TagRow, m) = <<>>
  BY DEF Map
<1>4. o # <<>> => Map(NodeRow, o) # <<>>
  <2>1. Len(Map(NodeRow, o)) = Len(o)
    BY <1>1 DEF Map
  <2> QED BY <1>1, <2>1
<1>5. o = <<>> => Map(NodeRow, o) = <<>>
  BY DEF Map
<1> QED BY <1>2, <1>3, <1>4, <1>5, Zenon DEF m, o, Replaced

\* What the two loops do, when they succeed.
LEMMA BothLoops ==
  ASSUME NEW t \in Transactions, NEW file \in Files, NEW u,
         u = SeedLoads(SeedSources(t, file.sources), file), u.ok
  PROVE  /\ u \in Transactions
         /\ \A i \in DOMAIN file.sources : SourceSeeded(t, file.sources, i, u)
         /\ \A s \in SourceNames : SourceKept(t, file.sources, s, u)
         /\ \A i \in DOMAIN file.loads : LoadSeeded(t, file, i, u)
         /\ \A l \in LoadNames : LoadKept(t, file, l, u)
<1> DEFINE s == SeedSources(t, file.sources)
<1>1. file.sources \in Seq(SourceSpecs)
  BY FileParts
<1>2. /\ s \in Transactions
      /\ s.ok => /\ s.loads = t.loads /\ s.tags = t.tags /\ s.nodes = t.nodes
                 /\ \A i \in DOMAIN file.sources : SourceSeeded(t, file.sources, i, s)
                 /\ \A x \in SourceNames : SourceKept(t, file.sources, x, s)
  BY <1>1, SourcesSeeded, SMTT(30)
<1> HIDE DEF s
<1>3. /\ u \in Transactions /\ s.ok /\ u.sources = s.sources
      /\ \A i \in DOMAIN file.loads : LoadSeeded(s, file, i, u)
      /\ \A l \in LoadNames : LoadKept(s, file, l, u)
  <2>1. u = SeedLoads(s, file)
    BY DEF s
  <2> QED BY <1>2, <2>1, LoadsSeeded, ZenonT(30)
<1>4. ASSUME NEW i \in DOMAIN file.sources PROVE SourceSeeded(t, file.sources, i, u)
  BY <1>2, <1>3, Zenon DEF SourceSeeded
<1>5. ASSUME NEW x \in SourceNames PROVE SourceKept(t, file.sources, x, u)
  BY <1>2, <1>3, Zenon DEF SourceKept
<1>6. ASSUME NEW i \in DOMAIN file.loads PROVE LoadSeeded(t, file, i, u)
  BY <1>2, <1>3, Zenon DEF LoadSeeded
<1>7. ASSUME NEW l \in LoadNames PROVE LoadKept(t, file, l, u)
  <2>1. LoadKept(s, file, l, u)
    BY <1>3
  <2>2. s.loads = t.loads /\ s.tags = t.tags /\ s.nodes = t.nodes
    BY <1>2, <1>3, Zenon
  <2> QED BY <2>1, <2>2, ZenonT(30) DEF LoadKept
<1> QED BY <1>3, <1>4, <1>5, <1>6, <1>7

\* What one application leaves: the tables agree with the file; and if they did
\* before, they agree with its zero values too.
LEMMA SeededWritten ==
  ASSUME NEW t \in Transactions, NEW file \in Files, NEW u,
         u = SeedLoads(SeedSources(t, file.sources), file), u.ok
  PROVE  Written(file, u) /\ (Written(file, t) => Settled(file, u))
<1>1. /\ \A i \in DOMAIN file.sources : SourceSeeded(t, file.sources, i, u)
      /\ \A i \in DOMAIN file.loads : LoadSeeded(t, file, i, u)
  BY BothLoops
<1>2. ASSUME NEW i \in DOMAIN file.loads
      PROVE  LET l == file.loads[i].name
                 m == Of(file.modbus, l)  o == Of(file.opcua, l)
             IN /\ m # <<>> => u.tags[l] = Map(TagRow, m)
                /\ o # <<>> => u.nodes[l] = Map(NodeRow, o)
  <2> DEFINE l == file.loads[i].name
             m == Of(file.modbus, l)  o == Of(file.opcua, l)
  <2>1. /\ u.tags[l] = Replaced(t.tags[l], Map(TagRow, m))
        /\ u.nodes[l] = Replaced(t.nodes[l], Map(NodeRow, o))
    BY <1>1, Zenon DEF LoadSeeded
  <2>2. /\ m # <<>> => Replaced(t.tags[l], Map(TagRow, m)) = Map(TagRow, m)
        /\ o # <<>> => Replaced(t.nodes[l], Map(NodeRow, o)) = Map(NodeRow, o)
    BY NewRows, Zenon
  <2> QED BY <2>1, <2>2, Zenon
<1>3. Written(file, u)
  BY <1>1, <1>2, Zenon DEF Written, SourceSeeded, LoadSeeded
<1>4. ASSUME Written(file, t) PROVE Settled(file, u)
  BY <1>1, <1>4, Zenon DEF Written, Settled, SourceSeeded, LoadSeeded
<1> QED BY <1>3, <1>4, SMTT(30)

\* Rows of loads that agree in every column are the same.
LEMMA SameLoad ==
  ASSUME NEW a \in LoadRows, NEW b \in LoadRows, a.state = b.state, a.source = b.source,
         a.body = b.body, a.schema = b.schema, a.enabled = b.enabled
  PROVE  a = b
BY DEF LoadRows

\* Applied to tables that agree with it, zero values included, a file changes
\* nothing.
LEMMA SettledStays ==
  ASSUME NEW t \in Transactions, NEW file \in Files, NEW u,
         u = SeedLoads(SeedSources(t, file.sources), file), u.ok,
         Written(file, t), Settled(file, t)
  PROVE  /\ u.sources = t.sources /\ u.loads = t.loads
         /\ u.tags = t.tags /\ u.nodes = t.nodes
<1>1. /\ u \in Transactions
      /\ \A i \in DOMAIN file.sources : SourceSeeded(t, file.sources, i, u)
      /\ \A s \in SourceNames : SourceKept(t, file.sources, s, u)
      /\ \A i \in DOMAIN file.loads : LoadSeeded(t, file, i, u)
      /\ \A l \in LoadNames : LoadKept(t, file, l, u)
  BY BothLoops
<1>2. /\ Written(file, u) /\ Settled(file, u)
  BY SeededWritten
<1>3. file.sources \in Seq(SourceSpecs) /\ file.loads \in Seq(LoadSpecs)
  BY FileParts
<1>4. ASSUME NEW s \in SourceNames PROVE u.sources[s] = t.sources[s]
  <2>1. CASE \A i \in DOMAIN file.sources : file.sources[i].name # s
    BY <1>1, <2>1, ZenonT(30) DEF SourceKept
  <2>2. ASSUME NEW i \in DOMAIN file.sources, file.sources[i].name = s
        PROVE  u.sources[s] = t.sources[s]
    <3>1. PICK j \in DOMAIN file.sources : file.sources[j].name = s /\ IsLast(file.sources, j)
      BY <1>3, <2>2, LastSpec
    <3>2. u.sources[s].state = "live" /\ t.sources[s].state = "live"
      BY <1>2, <2>2, Zenon DEF Written
    <3>3. u.sources[s].kind = t.sources[s].kind
      <4>1. u.sources[s].kind = file.sources[j].kind
        BY <1>2, <3>1, ZenonT(30) DEF Written
      <4>2. t.sources[s].kind = file.sources[j].kind
        BY <3>1, ZenonT(30) DEF Written
      <4> QED BY <4>1, <4>2
    <3>4. u.sources[s].enabled = t.sources[s].enabled
      <4>1. CASE \A k \in DOMAIN file.sources :
                   file.sources[k].name = s => file.sources[k].enabled = "unset"
        BY <1>1, <3>2, <4>1, Zenon DEF SourceKept
      <4>2. ASSUME NEW k \in DOMAIN file.sources, file.sources[k].name = s,
                   file.sources[k].enabled # "unset"
            PROVE  u.sources[s].enabled = t.sources[s].enabled
        <5>1. PICK m \in DOMAIN file.sources :
                 file.sources[m].name = s /\ IsLastFlag(file.sources, m)
          BY <1>3, <4>2, LastFlag
        <5>2. u.sources[s].enabled = (file.sources[m].enabled = "yes")
          BY <1>2, <5>1, ZenonT(30) DEF Settled
        <5>3. t.sources[s].enabled = (file.sources[m].enabled = "yes")
          BY <5>1, ZenonT(30) DEF Settled
        <5> QED BY <5>2, <5>3, Zenon
      <4> QED BY <4>1, <4>2
    <3>5. u.sources[s] \in SourceRows /\ t.sources[s] \in SourceRows
      BY <1>1, SMTT(30) DEF Transactions
    <3> QED BY <3>2, <3>3, <3>4, <3>5, SMTT(30) DEF SourceRows
  <2> QED BY <2>1, <2>2
<1>5. ASSUME NEW l \in LoadNames
      PROVE  u.loads[l] = t.loads[l] /\ u.tags[l] = t.tags[l] /\ u.nodes[l] = t.nodes[l]
  <2>1. CASE \A i \in DOMAIN file.loads : file.loads[i].name # l
    BY <1>1, <2>1, Zenon DEF LoadKept
  <2>2. ASSUME NEW i \in DOMAIN file.loads, file.loads[i].name = l
        PROVE  u.loads[l] = t.loads[l] /\ u.tags[l] = t.tags[l] /\ u.nodes[l] = t.nodes[l]
    <3>1. PICK j \in DOMAIN file.loads : file.loads[j].name = l /\ IsLast(file.loads, j)
      BY <1>3, <2>2, LastSpec, SMTT(30)
    <3>2. u.loads[l].state = "live" /\ t.loads[l].state = "live"
      BY <1>2, <2>2, Zenon DEF Written
    <3>3. u.loads[l].source = t.loads[l].source /\ u.loads[l].body = t.loads[l].body
      <4>1. u.loads[l].source = file.loads[j].source /\ u.loads[l].body = file.loads[j].body
        BY <1>2, <3>1, ZenonT(30) DEF Written
      <4>2. t.loads[l].source = file.loads[j].source /\ t.loads[l].body = file.loads[j].body
        BY <3>1, ZenonT(30) DEF Written
      <4> QED BY <4>1, <4>2
    <3>4. u.loads[l].schema = t.loads[l].schema
      BY <1>2, <3>1, Zenon DEF Settled
    <3>5. u.loads[l].enabled = t.loads[l].enabled
      <4>1. CASE \A k \in DOMAIN file.loads : file.loads[k].name = l => file.loads[k].enabled = "unset"
        BY <1>1, <3>2, <4>1, Zenon DEF LoadKept
      <4>2. ASSUME NEW k \in DOMAIN file.loads, file.loads[k].name = l, file.loads[k].enabled # "unset"
            PROVE  u.loads[l].enabled = t.loads[l].enabled
        <5>1. PICK m \in DOMAIN file.loads : file.loads[m].name = l /\ IsLastFlag(file.loads, m)
          BY <1>3, <4>2, LastFlag, SMTT(30)
        <5>2. u.loads[l].enabled = (file.loads[m].enabled = "yes")
          BY <1>2, <5>1, ZenonT(30) DEF Settled
        <5>3. t.loads[l].enabled = (file.loads[m].enabled = "yes")
          BY <5>1, ZenonT(30) DEF Settled
        <5> QED BY <5>2, <5>3, Zenon
      <4> QED BY <4>1, <4>2
    <3>6. u.loads[l] \in LoadRows /\ t.loads[l] \in LoadRows
      BY <1>1, SMTT(30) DEF Transactions
    <3>7. u.loads[l] = t.loads[l]
      BY <3>2, <3>3, <3>4, <3>5, <3>6, SameLoad, ZenonT(30)
    <3> DEFINE m == Of(file.modbus, l)  o == Of(file.opcua, l)
    <3>8. /\ u.tags[l] = Replaced(t.tags[l], Map(TagRow, m))
          /\ u.nodes[l] = Replaced(t.nodes[l], Map(NodeRow, o))
      BY <1>1, <2>2, Zenon DEF LoadSeeded
    <3>9. /\ m = <<>> => Replaced(t.tags[l], Map(TagRow, m)) = t.tags[l]
          /\ o = <<>> => Replaced(t.nodes[l], Map(NodeRow, o)) = t.nodes[l]
      BY NewRows, Zenon
    <3>10. /\ m # <<>> => u.tags[l] = t.tags[l]
           /\ o # <<>> => u.nodes[l] = t.nodes[l]
      BY <1>2, <2>2, Zenon DEF Written
    <3> QED BY <3>7, <3>8, <3>9, <3>10, Zenon
  <2> QED BY <2>1, <2>2
<1>6. /\ DOMAIN u.sources = SourceNames /\ DOMAIN t.sources = SourceNames
      /\ u.sources = [s \in SourceNames |-> u.sources[s]] /\ t.sources = [s \in SourceNames |-> t.sources[s]]
      /\ u.loads = [l \in LoadNames |-> u.loads[l]] /\ t.loads = [l \in LoadNames |-> t.loads[l]]
      /\ u.tags = [l \in LoadNames |-> u.tags[l]] /\ t.tags = [l \in LoadNames |-> t.tags[l]]
      /\ u.nodes = [l \in LoadNames |-> u.nodes[l]] /\ t.nodes = [l \in LoadNames |-> t.nodes[l]]
  BY <1>1 DEF Transactions
<1>7. /\ [s \in SourceNames |-> u.sources[s]] = [s \in SourceNames |-> t.sources[s]]
      /\ [l \in LoadNames |-> u.loads[l]] = [l \in LoadNames |-> t.loads[l]]
      /\ [l \in LoadNames |-> u.tags[l]] = [l \in LoadNames |-> t.tags[l]]
      /\ [l \in LoadNames |-> u.nodes[l]] = [l \in LoadNames |-> t.nodes[l]]
  BY <1>4, <1>5, Zenon
<1> QED BY <1>6, <1>7, ZenonT(30)

(***************************************************************************)
(* The steps of the seeder.                                                *)
(***************************************************************************)
\* The tables are a transaction's view.
LEMMA TablesType ==
  ASSUME SeederTypeOK
  PROVE  Tables \in Transactions
BY DEF SeederTypeOK, Tables, Transactions

\* Empty tables satisfy the invariant.
LEMMA SeedInit == SeederInit => SeedInv
<1> SUFFICES ASSUME SeederInit PROVE SeedInv
  OBVIOUS
<1>1. NoSource \in SourceRows /\ NoLoad \in LoadRows
  BY DEF NoSource, NoLoad, SourceRows, LoadRows, States, Texts
<1>2. SeederTypeOK
  BY <1>1 DEF SeederInit, SeederTypeOK
<1> QED BY <1>2 DEF SeedInv, SeederInit

\* An application of a file: the tables are what the transaction computed.
LEMMA ApplySeeds ==
  ASSUME SeedInv, NEW file \in Files, Apply(file)
  PROVE  /\ SeedInv'
         /\ again' = 3 => UNCHANGED tables
         /\ last' = file
         /\ \A l \in LoadNames : LoadKept(Tables, file, l, Tables')
<1> DEFINE u == SeedLoads(SeedSources(Tables, file.sources), file)
<1>1. SeederTypeOK /\ Tables \in Transactions
  BY TablesType DEF SeedInv
<1>2. /\ u.ok /\ sources' = u.sources /\ loads' = u.loads /\ tags' = u.tags /\ nodes' = u.nodes
      /\ last' = file
      /\ again' = IF last = file /\ again < 3 THEN again + 1 ELSE IF last = file THEN 3 ELSE 1
  BY SMTT(30) DEF Apply, Seeded
<1> HIDE DEF u
<1>3. /\ u \in Transactions
      /\ \A l \in LoadNames : LoadKept(Tables, file, l, u)
  BY <1>1, <1>2, BothLoops, ZenonT(30) DEF u
<1>4. Written(file, u) /\ (Written(file, Tables) => Settled(file, u))
  BY <1>1, <1>2, SeededWritten DEF u
<1>5. Tables' = u
  <2>1. u = [ok |-> u.ok, sources |-> u.sources, loads |-> u.loads, tags |-> u.tags,
             nodes |-> u.nodes]
    BY <1>3 DEF Transactions
  <2>2. u.ok = TRUE
    <3>1. u.ok \in BOOLEAN
      BY <1>3 DEF Transactions
    <3> QED BY <1>2, <3>1, Zenon
  <2> QED BY <1>2, <2>1, <2>2, Zenon DEF Tables
<1>6. again \in 0..3 /\ again' \in 1..3
  BY <1>1, <1>2 DEF SeederTypeOK
<1>7. again' > 1 => again > 0 /\ last = file
  BY <1>2, <1>6
<1>8. SeederTypeOK'
  BY <1>2, <1>3, <1>6 DEF SeederTypeOK, Transactions
<1>9. Written(last', Tables')
  BY <1>2, <1>4, <1>5
<1>10. again' > 1 => Settled(last', Tables')
  <2>1. again > 0 => Written(last, Tables)
    BY DEF SeedInv
  <2> QED BY <1>2, <1>4, <1>5, <1>7, <2>1
<1>11. SeedInv'
  BY <1>8, <1>9, <1>10 DEF SeedInv
<1>12. ASSUME again' = 3 PROVE UNCHANGED tables
  <2>1. again > 1 /\ again > 0 /\ last = file
    BY <1>2, <1>6, <1>12
  <2>2. Written(file, Tables) /\ Settled(file, Tables)
    BY <2>1, SMTT(30) DEF SeedInv
  <2>3. /\ u.sources = Tables.sources /\ u.loads = Tables.loads
        /\ u.tags = Tables.tags /\ u.nodes = Tables.nodes
    BY <1>1, <1>2, <2>2, SettledStays DEF u
  <2>4. /\ Tables.sources = sources /\ Tables.loads = loads
        /\ Tables.tags = tags /\ Tables.nodes = nodes
    BY DEF Tables
  <2> QED BY <1>2, <2>3, <2>4 DEF tables
<1> QED BY <1>2, <1>3, <1>5, <1>11, <1>12

\* A change by another tool.
LEMMA EditSeeds ==
  ASSUME SeedInv,
         \/ \E l \in LoadNames : EditLoad(l)
         \/ \E s \in SourceNames : DeleteSource(s)
  PROVE  SeedInv' /\ again' = 0
<1>1. CASE \E l \in LoadNames : EditLoad(l)
  <2>1. PICK l \in LoadNames : EditLoad(l)
    BY <1>1
  <2>2. loads[l] \in LoadRows
    BY DEF SeedInv, SeederTypeOK
  <2>3. /\ [loads[l] EXCEPT !.enabled = ~@] \in LoadRows
        /\ [loads[l] EXCEPT !.state = "deleted"] \in LoadRows
    BY <2>2 DEF LoadRows, States
  <2>4. ASSUME NEW row \in LoadRows, Edit(l, row) PROVE SeedInv' /\ again' = 0
    <3>1. again' = 0 /\ SeederTypeOK'
      BY <2>4 DEF SeedInv, SeederTypeOK, Edit
    <3> QED BY <3>1 DEF SeedInv
  <2> QED BY <2>1, <2>3, <2>4 DEF EditLoad
<1>2. CASE \E s \in SourceNames : DeleteSource(s)
  <2>1. PICK s \in SourceNames : DeleteSource(s)
    BY <1>2
  <2>2. sources[s] \in SourceRows
    BY DEF SeedInv, SeederTypeOK
  <2>3. [sources[s] EXCEPT !.state = "deleted"] \in SourceRows
    BY <2>2 DEF SourceRows, States
  <2>4. again' = 0 /\ SeederTypeOK'
    BY <2>1, <2>3 DEF SeedInv, SeederTypeOK, DeleteSource
  <2> QED BY <2>4 DEF SeedInv
<1> QED BY <1>1, <1>2

\* A step that leaves the tables alone.
LEMMA SeedKept ==
  ASSUME SeedInv, UNCHANGED seedVars
  PROVE  SeedInv'
<1>1. /\ sources' = sources /\ loads' = loads /\ tags' = tags /\ nodes' = nodes
      /\ last' = last /\ again' = again
  BY DEF seedVars, tables
<1>2. SeederTypeOK' /\ Tables' = Tables
  BY <1>1 DEF SeedInv, SeederTypeOK, Tables
<1> QED BY <1>1, <1>2 DEF SeedInv

\* A tag row has what its spec asks for.
LEMMA TagsAsWanted ==
  ASSUME NEW spec \in TagSpecs
  PROVE  SameButZeros(TagRow(spec), TagWanted(spec))
<1> DEFINE row == TagRow(spec)  want == TagWanted(spec)
<1>1. spec.quantity \in Nat /\ spec.enabled \in Switches
  BY DEF TagSpecs
<1>2. DOMAIN want = {"name", "register", "type", "quantity", "byteOrder", "wordOrder", "scale",
                     "offset", "enabled"}
  BY DEF TagWanted
<1>3. /\ row.name = want.name /\ row.register = want.register /\ row.type = want.type
      /\ row.byteOrder = want.byteOrder /\ row.wordOrder = want.wordOrder
      /\ row.offset = want.offset
  BY DEF TagRow, TagWanted
<1>4. row.quantity = want.quantity
  <2>1. row.quantity = defaultQuantity(spec)
    BY DEF TagRow
  <2>2. want.quantity = IF spec.quantity = 0 THEN Width(spec.type) ELSE spec.quantity
    BY DEF TagWanted
  <2>3. spec.quantity > 0 <=> spec.quantity # 0
    BY <1>1
  <2> HIDE DEF row, want
  <2> QED BY <2>1, <2>2, <2>3 DEF defaultQuantity
<1>5. want.scale # 0 => row.scale = want.scale
  BY DEF TagRow, TagWanted, CreatedScale
<1>6. want.enabled => row.enabled
  BY DEF TagRow, TagWanted, CreatedEnabled
<1> HIDE DEF row, want
<1>7. ASSUME NEW c \in DOMAIN want \ {"scale", "enabled"} PROVE row[c] = want[c]
  BY <1>2, <1>3, <1>4
<1> QED BY <1>5, <1>6, <1>7, Zenon DEF SameButZeros, row, want

\* A node row has what its spec asks for.
LEMMA NodesAsWanted ==
  ASSUME NEW spec \in NodeSpecs
  PROVE  SameButZeros(NodeRow(spec), NodeWanted(spec))
<1> DEFINE row == NodeRow(spec)  want == NodeWanted(spec)
<1>1. DOMAIN want = {"name", "id", "scale", "offset", "enabled"}
  BY DEF NodeWanted
<1>2. row.name = want.name /\ row.id = want.id /\ row.offset = want.offset
  BY DEF NodeRow, NodeWanted
<1>3. want.scale # 0 => row.scale = want.scale
  BY DEF NodeRow, NodeWanted, CreatedScale
<1>4. want.enabled => row.enabled
  BY DEF NodeRow, NodeWanted, CreatedEnabled
<1> HIDE DEF row, want
<1>5. ASSUME NEW c \in DOMAIN want \ {"scale", "enabled"} PROVE row[c] = want[c]
  BY <1>1, <1>2
<1> QED BY <1>3, <1>4, <1>5, Zenon DEF SameButZeros, row, want

\* The points of a load that has some in the file.
LEMMA PointsAsWanted ==
  ASSUME NEW m \in Seq(TagSpecs), NEW o \in Seq(NodeSpecs)
  PROVE  /\ Len(Map(TagRow, m)) = Len(m)
         /\ \A j \in DOMAIN m : SameButZeros(Map(TagRow, m)[j], TagWanted(m[j]))
         /\ Len(Map(NodeRow, o)) = Len(o)
         /\ \A j \in DOMAIN o : SameButZeros(Map(NodeRow, o)[j], NodeWanted(o[j]))
<1>1. DOMAIN m = 1..Len(m) /\ Len(m) \in Nat /\ DOMAIN o = 1..Len(o) /\ Len(o) \in Nat
  OBVIOUS
<1>2. Len(Map(TagRow, m)) = Len(m) /\ Len(Map(NodeRow, o)) = Len(o)
  BY <1>1 DEF Map
<1>3. ASSUME NEW j \in DOMAIN m PROVE SameButZeros(Map(TagRow, m)[j], TagWanted(m[j]))
  <2>1. Map(TagRow, m)[j] = TagRow(m[j])
    BY <1>1 DEF Map
  <2>2. m[j] \in TagSpecs
    BY <1>1
  <2> QED BY <2>1, <2>2, TagsAsWanted
<1>4. ASSUME NEW j \in DOMAIN o PROVE SameButZeros(Map(NodeRow, o)[j], NodeWanted(o[j]))
  <2>1. Map(NodeRow, o)[j] = NodeRow(o[j])
    BY <1>1 DEF Map
  <2>2. o[j] \in NodeSpecs
    BY <1>1
  <2> QED BY <2>1, <2>2, NodesAsWanted
<1> QED BY <1>2, <1>3, <1>4

\* FileWins follows from the invariant: what Written and Settled say of the
\* tables, with the rows of the points compared column by column.
LEMMA InvFileWins == SeedInv => FileWins
<1> SUFFICES ASSUME SeedInv, again > 0 PROVE FileWins
  BY DEF FileWins
<1>1. last \in Files /\ Written(last, Tables) /\ (again > 1 => Settled(last, Tables))
  BY SMTT(30) DEF SeedInv, SeederTypeOK
<1>2. /\ Tables.sources = sources /\ Tables.loads = loads
      /\ Tables.tags = tags /\ Tables.nodes = nodes
  BY DEF Tables
<1>3. ASSUME NEW i \in DOMAIN last.sources
      PROVE  LET spec == last.sources[i]  row == sources[spec.name]
             IN /\ IsLast(last.sources, i) => row.state = "live" /\ row.kind = spec.kind
                /\ again > 1 /\ IsLastFlag(last.sources, i) =>
                     row.enabled = (spec.enabled = "yes")
  BY <1>1, <1>2, ZenonT(30) DEF Written, Settled
<1>4. ASSUME NEW i \in DOMAIN last.loads
      PROVE  LET spec == last.loads[i]  l == spec.name  row == loads[l]
                 m == Of(last.modbus, l)  o == Of(last.opcua, l)
             IN /\ IsLast(last.loads, i) =>
                     row.state = "live" /\ row.source = spec.source /\ row.body = spec.body
                /\ again > 1 /\ IsLast(last.loads, i) => row.schema = spec.schema
                /\ again > 1 /\ IsLastFlag(last.loads, i) => row.enabled = (spec.enabled = "yes")
                /\ m # <<>> => /\ Len(tags[l]) = Len(m)
                               /\ \A j \in DOMAIN m : SameButZeros(tags[l][j], TagWanted(m[j]))
                /\ o # <<>> => /\ Len(nodes[l]) = Len(o)
                               /\ \A j \in DOMAIN o : SameButZeros(nodes[l][j], NodeWanted(o[j]))
  <2> DEFINE spec == last.loads[i]  l == spec.name
             m == Of(last.modbus, l)  o == Of(last.opcua, l)
  <2>1. m \in Seq(TagSpecs) /\ o \in Seq(NodeSpecs)
    BY <1>1, NewRowsType
  <2>2. /\ loads[l].state = "live"
        /\ IsLast(last.loads, i) => loads[l].source = spec.source /\ loads[l].body = spec.body
        /\ m # <<>> => tags[l] = Map(TagRow, m)
        /\ o # <<>> => nodes[l] = Map(NodeRow, o)
    BY <1>1, <1>2, Zenon DEF Written
  <2>3. again > 1 => /\ IsLast(last.loads, i) => loads[l].schema = spec.schema
                     /\ IsLastFlag(last.loads, i) => loads[l].enabled = (spec.enabled = "yes")
    BY <1>1, <1>2, ZenonT(30) DEF Settled
  <2> HIDE DEF m, o
  <2>4. /\ Len(Map(TagRow, m)) = Len(m)
        /\ \A j \in DOMAIN m : SameButZeros(Map(TagRow, m)[j], TagWanted(m[j]))
        /\ Len(Map(NodeRow, o)) = Len(o)
        /\ \A j \in DOMAIN o : SameButZeros(Map(NodeRow, o)[j], NodeWanted(o[j]))
    BY <2>1, PointsAsWanted
  <2>5. m # <<>> => /\ Len(tags[l]) = Len(m)
                    /\ \A j \in DOMAIN m : SameButZeros(tags[l][j], TagWanted(m[j]))
    BY <2>2, <2>4, Zenon
  <2>6. o # <<>> => /\ Len(nodes[l]) = Len(o)
                    /\ \A j \in DOMAIN o : SameButZeros(nodes[l][j], NodeWanted(o[j]))
    BY <2>2, <2>4, Zenon
  <2> QED BY <2>2, <2>3, <2>5, <2>6, ZenonT(30) DEF m, o
<1> QED BY <1>3, <1>4, ZenonT(30) DEF FileWins
=============================================================================
