--------------------------- MODULE CounterProofs ---------------------------
(***************************************************************************)
(* The arithmetic that the other proofs rest on: division with remainder,  *)
(* induction on the natural numbers, and counter.hpp.  The word-level      *)
(* counter arithmetic computes addition and subtraction modulo Base^4, for *)
(* every base: one turn of the loop keeps the sum of word and carry, and   *)
(* the four turns telescope.                                               *)
(***************************************************************************)
EXTENDS CounterWords, WellFoundedInduction, TLAPS

---------------------------------------------------------------------------
(* Division with remainder.  The divisor is any positive number. *)

\* Division with remainder: the quotient and the remainder determine x.
LEMMA DivisionTheorem ==
  ASSUME NEW x \in Int, NEW m \in Nat \ {0}
  PROVE  /\ x = m * (x \div m) + (x % m)
         /\ (x % m) \in 0 .. m - 1
         /\ (x \div m) \in Int
  OBVIOUS

\* Quotient and remainder are unique.
LEMMA DivisionUnique ==
  ASSUME NEW q \in Int, NEW r \in Int, NEW q2 \in Int, NEW r2 \in Int, NEW m \in Nat \ {0},
         0 <= r, r < m, 0 <= r2, r2 < m, m * q + r = m * q2 + r2
  PROVE  q = q2 /\ r = r2
<1>1. CASE q = q2
  BY <1>1
<1>2. CASE q < q2
  <2>1. m * (q2 - q) >= m
    BY <1>2
  <2>2. m * (q2 - q) = r - r2
    OBVIOUS
  <2> QED BY <2>1, <2>2
<1>3. CASE q > q2
  <2>1. m * (q - q2) >= m
    BY <1>3
  <2>2. m * (q - q2) = r2 - r
    OBVIOUS
  <2> QED BY <2>1, <2>2
<1> QED BY <1>1, <1>2, <1>3

\* A number written as m * q + r with 0 <= r < m has quotient q, remainder r.
LEMMA DivisionCompute ==
  ASSUME NEW x \in Int, NEW q \in Int, NEW r \in Int, NEW m \in Nat \ {0},
         0 <= r, r < m, x = m * q + r
  PROVE  x % m = r /\ x \div m = q
<1>1. x = m * (x \div m) + (x % m) /\ (x % m) \in 0 .. m - 1 /\ (x \div m) \in Int
  BY DivisionTheorem
<1> QED BY <1>1, DivisionUnique

\* A remainder may be taken early: ((x mod m) + y) mod m = (x + y) mod m.
LEMMA ModAdd ==
  ASSUME NEW x \in Int, NEW y \in Int, NEW m \in Nat \ {0}
  PROVE  ((x % m) + y) % m = (x + y) % m
<1> DEFINE q == x \div m
           r == x % m
           s == x + y
           t == r + y
<1>1. x = m * q + r /\ q \in Int /\ r \in Int
  BY DivisionTheorem
<1>2. s \in Int /\ t \in Int
  BY <1>1
<1> HIDE DEF q, r
<1>3. s = m * q + t
  BY <1>1
<1> HIDE DEF s, t
<1> DEFINE p == t \div m
           u == t % m
<1>4. t = m * p + u /\ u \in 0 .. m - 1 /\ p \in Int
  BY <1>2, DivisionTheorem
<1> HIDE DEF p, u
<1>5. s = m * (q + p) + u
  BY <1>1, <1>2, <1>3, <1>4
<1>6. s % m = u
  BY <1>1, <1>2, <1>3, <1>4, <1>5, DivisionCompute
<1> QED BY <1>6 DEF s, t, r, u

\* A small number is its own remainder.
LEMMA ModSmall ==
  ASSUME NEW m \in Nat \ {0}, NEW x \in 0 .. m - 1
  PROVE  x % m = x
<1>1. x = m * 0 + x
  OBVIOUS
<1> QED BY <1>1, DivisionCompute

\* Word w of block b: its position modulo 4m is word w of block b modulo m.
LEMMA ModBlock ==
  ASSUME NEW m \in Nat \ {0}, NEW b \in Int, NEW w \in 0 .. 3
  PROVE  (4 * b + w) % (4 * m) = 4 * (b % m) + w
<1> DEFINE q == b \div m
           r == b % m
           d == 4 * m
           x == 4 * b + w
           y == 4 * r + w
<1>1. b = m * q + r /\ r \in 0 .. m - 1 /\ q \in Int
  BY DivisionTheorem
<1> HIDE DEF q, r
<1>2. x = d * q + y
  BY <1>1
<1>3. d \in Nat \ {0} /\ x \in Int /\ y \in Int /\ 0 <= y /\ y < d
  BY <1>1
<1> HIDE DEF d, x, y
<1>4. x % d = y
  BY <1>1, <1>2, <1>3, DivisionCompute
<1> QED BY <1>4 DEF d, x, y, r

\* A block number may be reduced modulo m before its words are counted.
LEMMA ModBlockAdd ==
  ASSUME NEW m \in Nat \ {0}, NEW b \in Int, NEW y \in Int
  PROVE  (4 * (b % m) + y) % (4 * m) = (4 * b + y) % (4 * m)
<1> DEFINE q == b \div m
           r == b % m
           d == 4 * m
           s == 4 * b + y
           t == 4 * r + y
<1>1. b = m * q + r /\ r \in 0 .. m - 1 /\ q \in Int
  BY DivisionTheorem
<1> HIDE DEF q, r
<1>2. s = d * q + t
  BY <1>1
<1>3. d \in Nat \ {0} /\ s \in Int /\ t \in Int
  BY <1>1
<1> HIDE DEF d, s, t
<1> DEFINE p == t \div d
           u == t % d
<1>4. t = d * p + u /\ u \in 0 .. d - 1 /\ p \in Int
  BY <1>3, DivisionTheorem
<1> HIDE DEF p, u
<1>5. s = d * (q + p) + u
  BY <1>1, <1>2, <1>3, <1>4
<1>6. s % d = u
  BY <1>1, <1>2, <1>3, <1>4, <1>5, DivisionCompute
<1> QED BY <1>6 DEF d, s, t, r, u

---------------------------------------------------------------------------
(* Induction, stated of a set of numbers. *)

\* Every set of natural numbers that is not empty has a least member.
LEMMA LeastNat ==
  ASSUME NEW T \in SUBSET Nat, T # {}
  PROVE  \E x \in T : \A y \in T : ~(y < x)
<1> DEFINE R == OpToRel(<, Nat)
<1>1. R = {ss \in Nat \X Nat : ss[1] < ss[2]}
  BY DEF OpToRel
<1>2. IsWellFoundedOn(R, Nat)
  BY NatLessThanWellFounded
<1> HIDE DEF R
<1>3. PICK x \in T : \A y \in T : ~(<<y, x>> \in R)
  BY <1>2, WFMin
<1>4. \A a, b \in Nat : a < b => <<a, b>> \in R
  BY <1>1
<1> QED BY <1>3, <1>4

\* A set with 0 and with the successors of its numbers holds them all.
LEMMA SetInduction ==
  ASSUME NEW S, 0 \in S, \A n \in Nat : n \in S => n + 1 \in S
  PROVE  Nat \subseteq S
<1> SUFFICES ASSUME Nat \ S # {} PROVE FALSE
  OBVIOUS
<1>1. PICK x \in Nat \ S : \A y \in Nat \ S : ~(y < x)
  BY LeastNat
<1>2. x # 0 /\ x - 1 \in Nat /\ x - 1 \in S
  BY <1>1
<1>3. (x - 1) + 1 = x
  BY <1>1
<1> QED BY <1>1, <1>2, <1>3

---------------------------------------------------------------------------
(* counter_add and counter_sub. *)

\* The base of the words, in the form the provers use it (BaseAssumption).
LEMMA BaseType == Base \in Nat /\ Base >= 2
  BY BaseAssumption

\* The high and the low part of a carry.
LEMMA CarrySplit ==
  ASSUME NEW k \in Nat
  PROVE  /\ k = Base * (k \div Base) + (k % Base)
         /\ (k % Base) \in 0 .. Base - 1
         /\ (k \div Base) \in Nat
<1>1. Base \in Nat \ {0}
  BY BaseType
<1>2. k = Base * (k \div Base) + (k % Base) /\ (k % Base) \in 0 .. Base - 1 /\ (k \div Base) \in Int
  BY <1>1, DivisionTheorem
<1> QED BY <1>1, <1>2

\* One turn of counter_add keeps c[i] + carry, in units of word i.
LEMMA AddTurnSum ==
  ASSUME NEW w \in Counter, NEW k \in Nat, NEW i \in 0 .. 3,
         NEW t, t = AddTurn([c |-> w, carry |-> k], i)
  PROVE  /\ t.c \in Counter
         /\ t.carry \in Nat
         /\ t = [c |-> t.c, carry |-> t.carry]
         /\ \A j \in 0 .. 3 : j # i => t.c[j] = w[j]
         /\ w[i] + k = t.c[i] + Base * t.carry
<1>1. w[i] \in 0 .. Base - 1 /\ Base \in Nat \ {0}
  BY BaseType DEF Counter, U32
<1>2. CASE k = 0
  <2>1. t = [c |-> w, carry |-> k]
    BY <1>2 DEF AddTurn
  <2> QED BY <1>1, <1>2, <2>1
<1>3. CASE k # 0
  <2> DEFINE hi  == k \div Base
             lo  == k % Base
             sum == w[i] + lo
             up  == sum \div Base
             d   == sum % Base
  <2>1. t = [c |-> [w EXCEPT ![i] = d], carry |-> hi + up]
    BY <1>3 DEF AddTurn
  <2>2. k = Base * hi + lo /\ lo \in 0 .. Base - 1
    BY CarrySplit
  <2>3. hi \in Nat
    BY CarrySplit
  <2> HIDE DEF hi, lo
  <2>4. sum \in Nat
    BY <1>1, <2>2
  <2> HIDE DEF sum
  <2>5. sum = Base * up + d /\ d \in 0 .. Base - 1 /\ up \in Int
    BY <1>1, <2>4, DivisionTheorem
  <2>6. up \in Nat
    BY <1>1, <2>4, <2>5
  <2> HIDE DEF up, d
  <2>7. w[i] + k = d + Base * (hi + up)
    BY <1>1, <2>2, <2>3, <2>5, <2>6 DEF sum
  <2>8. [w EXCEPT ![i] = d] \in Counter
    BY <2>5 DEF Counter, U32
  <2> QED BY <2>1, <2>3, <2>6, <2>7, <2>8 DEF Counter
<1> QED BY <1>2, <1>3

\* The difference of two words, wrapped to a u64: its low word and its sign.
LEMMA SignedDigit ==
  ASSUME NEW x \in Int, x <= Base - 1, x >= 1 - Base
  PROVE  LET diff == x % (Base * Base)
             d    == diff % Base
             b    == SignBit(diff)
         IN  d \in 0 .. Base - 1 /\ b \in {0, 1} /\ x = d - Base * b
<1> DEFINE sq == Base * Base
           diff == x % sq
<1>1. Base \in Nat \ {0} /\ Base >= 2 /\ sq \in Nat \ {0} /\ sq >= 2 * Base /\ sq = Base * Base
  BY BaseType
<1>2. SignBit(diff) = IF diff >= sq \div 2 THEN 1 ELSE 0
  BY DEF SignBit
<1> HIDE DEF sq
<1>3. CASE x >= 0
  <2>1. x \in 0 .. sq - 1 /\ x \in 0 .. Base - 1
    BY <1>1, <1>3
  <2>2. diff = x /\ x % Base = x
    BY <1>1, <2>1, ModSmall
  <2>3. ~(x >= sq \div 2)
    BY <1>1, <2>1
  <2>4. SignBit(diff) = 0
    BY <1>2, <2>2, <2>3
  <2> QED BY <1>1, <2>1, <2>2, <2>4 DEF sq
<1>4. CASE x < 0
  <2> DEFINE y == sq + x
             z == Base + x
             m == Base - 1
  <2>1. /\ y \in Int /\ 0 <= y /\ y < sq /\ x = sq * (-1) + y
        /\ z \in 0 .. Base - 1 /\ z \in Int /\ m \in Int /\ y = Base * m + z
        /\ -1 \in Int
    BY <1>1, <1>4
  <2>2. y >= sq \div 2
    BY <1>1, <1>4
  <2>3. x = z - Base * 1
    BY <1>1
  <2> HIDE DEF y, z, m
  <2>4. diff = y
    BY <1>1, <2>1, DivisionCompute
  <2>5. y % Base = z
    BY <1>1, <2>1, DivisionCompute
  <2>6. SignBit(diff) = 1
    BY <1>2, <2>2, <2>4
  <2> QED BY <1>1, <2>1, <2>3, <2>4, <2>5, <2>6 DEF sq
<1> QED BY <1>3, <1>4

\* One turn of counter_sub keeps c[i] - borrow.
LEMMA SubTurnDifference ==
  ASSUME NEW w \in Counter, NEW k \in Nat, NEW i \in 0 .. 3,
         NEW t, t = SubTurn([c |-> w, borrow |-> k], i)
  PROVE  /\ t.c \in Counter
         /\ t.borrow \in Nat
         /\ t = [c |-> t.c, borrow |-> t.borrow]
         /\ \A j \in 0 .. 3 : j # i => t.c[j] = w[j]
         /\ w[i] - k = t.c[i] - Base * t.borrow
<1>1. w[i] \in 0 .. Base - 1 /\ Base \in Nat \ {0} /\ Base >= 2
  BY BaseType DEF Counter, U32
<1>2. CASE k = 0
  <2>1. t = [c |-> w, borrow |-> k]
    BY <1>2 DEF SubTurn
  <2> QED BY <1>1, <1>2, <2>1
<1>3. CASE k # 0
  <2> DEFINE hi   == k \div Base
             lo   == k % Base
  <2>1. k = Base * hi + lo /\ lo \in 0 .. Base - 1 /\ hi \in Nat
    BY CarrySplit
  <2> DEFINE x    == w[i] - lo
             diff == x % (Base * Base)
             d    == diff % Base
             b    == SignBit(diff)
  <2>3. t = [c |-> [w EXCEPT ![i] = d], borrow |-> hi + b]
    BY <1>3 DEF SubTurn
  <2> HIDE DEF hi, lo
  <2>4. x \in Int /\ x <= Base - 1 /\ x >= 1 - Base
    BY <1>1, <2>1
  <2>5. x = w[i] - lo
    OBVIOUS
  <2> HIDE DEF x
  <2>6. d \in 0 .. Base - 1 /\ b \in {0, 1} /\ x = d - Base * b
    BY <2>4, SignedDigit
  <2> HIDE DEF diff, d, b
  <2>7. w[i] - k = d - Base * (hi + b) /\ hi + b \in Nat
    <3>1. /\ w[i] \in Int /\ k \in Int /\ lo \in Int /\ hi \in Int /\ d \in Int /\ b \in Int
          /\ b \in Nat /\ hi \in Nat
      BY <1>1, <2>1, <2>6
    <3> DEFINE u == w[i]
               v == Base * b
               z == Base * hi
    <3>2. u - lo = d - v /\ k = z + lo
      BY <2>1, <2>5, <2>6
    <3>3. u \in Int /\ v \in Int /\ z \in Int /\ Base * (hi + b) = z + v
      BY <1>1, <3>1
    <3> HIDE DEF u, v, z
    <3>4. u - k = d - (z + v)
      BY <3>1, <3>2, <3>3
    <3> QED BY <3>1, <3>3, <3>4 DEF u
  <2>8. [w EXCEPT ![i] = d] \in Counter
    BY <2>6 DEF Counter, U32
  <2> QED BY <2>3, <2>7, <2>8 DEF Counter
<1> QED BY <1>2, <1>3

---------------------------------------------------------------------------
(* Four turns telescope. *)

\* Horner's rule with a carry: word, carry out and the words above.
LEMMA HornerAdd ==
  ASSUME NEW u \in Int, NEW k \in Int, NEW d \in Int, NEW up \in Int, NEW rest \in Int,
         u + k = d + Base * up
  PROVE  (u + Base * rest) + k = d + Base * (rest + up)
<1>1. Base \in Int
  BY BaseType
<1>2. Base * (rest + up) = Base * rest + Base * up
  BY <1>1
<1> DEFINE x == Base * rest
           y == Base * up
<1>3. x \in Int /\ y \in Int /\ u + k = d + y /\ Base * (rest + up) = x + y
  BY <1>1, <1>2
<1> HIDE DEF x, y
<1> QED BY <1>3 DEF x

\* Four digits whose carries chain: their value, and what leaves the last.
LEMMA Telescope ==
  ASSUME NEW w \in [0 .. 3 -> Int], NEW r \in [0 .. 3 -> Int], NEW k \in [0 .. 4 -> Int],
         \A i \in 0 .. 3 : w[i] + k[i] = r[i] + Base * k[i + 1]
  PROVE  Value(w) + k[0] = Value(r) + Period * k[4]
<1> DEFINE w0 == w[0]
           w1 == w[1]
           w2 == w[2]
           w3 == w[3]
           r0 == r[0]
           r1 == r[1]
           r2 == r[2]
           r3 == r[3]
           k0 == k[1]
           k1 == k[2]
           k2 == k[3]
           k3 == k[4]
           delta == k[0]
<1>0. /\ w0 \in Int /\ w1 \in Int /\ w2 \in Int /\ w3 \in Int
      /\ r0 \in Int /\ r1 \in Int /\ r2 \in Int /\ r3 \in Int
      /\ k0 \in Int /\ k1 \in Int /\ k2 \in Int /\ k3 \in Int /\ delta \in Int
      /\ w0 + delta = r0 + Base * k0
      /\ w1 + k0 = r1 + Base * k1
      /\ w2 + k1 = r2 + Base * k2
      /\ w3 + k2 = r3 + Base * k3
  OBVIOUS
<1>a. /\ Value(w) = w0 + Base * (w1 + Base * (w2 + Base * w3))
      /\ Value(r) = r0 + Base * (r1 + Base * (r2 + Base * r3))
  BY DEF Value
<1> HIDE DEF w0, w1, w2, w3, r0, r1, r2, r3, k0, k1, k2, k3, delta
<1> USE <1>0
<1> DEFINE v2 == w2 + Base * w3
           v1 == w1 + Base * v2
           s2 == r2 + Base * r3
           s1 == r1 + Base * s2
           q1 == Base * k3
           q2 == Base * q1
           q3 == Base * q2
           q4 == Base * q3
<1>1. Base \in Int
  BY BaseType
<1>2. v2 \in Int /\ v1 \in Int /\ s2 \in Int /\ s1 \in Int
  BY <1>1
<1>3. q1 \in Int /\ q2 \in Int /\ q3 \in Int /\ q4 \in Int /\ Period * k3 = q4
  <2>1. q1 \in Int /\ q2 \in Int /\ q3 \in Int /\ q4 \in Int
    BY <1>1
  <2>2. q4 = (Base * (Base * (Base * Base))) * k3
    BY <1>1
  <2> QED BY <2>1, <2>2 DEF Period
<1>4. v2 + k1 = s2 + q2
  <2>1. v2 + k1 = r2 + Base * (w3 + k2)
    BY HornerAdd
  <2>2. Base * (r3 + q1) = Base * r3 + q2
    BY <1>1, <1>3
  <2> QED BY <1>1, <1>3, <2>1, <2>2
<1> HIDE DEF v2, s2, q1, q2, q3
<1>5. v1 + k0 = s1 + q3
  <2>1. v1 + k0 = r1 + Base * (v2 + k1)
    BY <1>2, HornerAdd
  <2>2. Base * (s2 + q2) = Base * s2 + q3
    BY <1>1, <1>2, <1>3 DEF q3
  <2> QED BY <1>1, <1>2, <1>3, <1>4, <2>1, <2>2
<1> HIDE DEF v1, s1, q4
<1>6. (w0 + Base * v1) + delta = (r0 + Base * s1) + q4
  <2>1. (w0 + Base * v1) + delta = r0 + Base * (v1 + k0)
    BY <1>2, HornerAdd
  <2>2. Base * (s1 + q3) = Base * s1 + q4
    BY <1>1, <1>2, <1>3 DEF q4
  <2> QED BY <1>1, <1>2, <1>3, <1>5, <2>1, <2>2
<1> QED BY <1>3, <1>6, <1>a DEF v1, v2, s1, s2, k3, delta

\* Every counter stands for a number below the period.
LEMMA ValueType ==
  ASSUME NEW w \in Counter
  PROVE  /\ Value(w) \in 0 .. Period - 1
         /\ Period \in Nat \ {0}
<1> DEFINE v2 == w[2] + Base * w[3]
           v1 == w[1] + Base * v2
           v0 == w[0] + Base * v1
           p2 == Base * Base
           p3 == Base * p2
           p4 == Base * p3
<1>1. /\ w[0] \in 0 .. Base - 1 /\ w[1] \in 0 .. Base - 1
      /\ w[2] \in 0 .. Base - 1 /\ w[3] \in 0 .. Base - 1
      /\ Base \in Nat /\ Base >= 2
  BY BaseType DEF Counter, U32
<1>2. \A d \in 0 .. Base - 1, p \in Nat : \A r \in 0 .. p - 1 :
        d + Base * r \in 0 .. Base * p - 1
  <2> SUFFICES ASSUME NEW d \in 0 .. Base - 1, NEW p \in Nat, NEW r \in 0 .. p - 1
               PROVE  d + Base * r \in 0 .. Base * p - 1
    OBVIOUS
  <2>1. Base * r <= Base * (p - 1) /\ Base * r >= 0
    BY <1>1
  <2>2. Base * (p - 1) = Base * p - Base
    BY <1>1
  <2> QED BY <1>1, <2>1, <2>2
<1>3. v2 \in 0 .. p2 - 1 /\ p2 \in Nat
  BY <1>1, <1>2
<1> HIDE DEF v2, p2
<1>4. v1 \in 0 .. p3 - 1 /\ p3 \in Nat
  BY <1>1, <1>2, <1>3
<1> HIDE DEF v1, p3
<1>5. v0 \in 0 .. p4 - 1 /\ p4 \in Nat
  BY <1>1, <1>2, <1>4
<1>6. Value(w) = v0 /\ Period = p4
  BY DEF Value, Period, v2, v1, p3, p2
<1> QED BY <1>5, <1>6

(***************************************************************************)
(* counter_add adds modulo the period.  (counter.hpp 18-25)                *)
(***************************************************************************)
THEOREM CounterAddCorrect ==
  ASSUME NEW w \in Counter, NEW delta \in Wide
  PROVE  /\ CounterAdd(w, delta) \in Counter
         /\ Value(CounterAdd(w, delta)) = (Value(w) + delta) % Period
<1> DEFINE t0 == AddTurn([c |-> w, carry |-> delta], 0)
           t1 == AddTurn(t0, 1)
           t2 == AddTurn(t1, 2)
           t3 == AddTurn(t2, 3)
<1>1. delta \in Nat /\ Base \in Nat
  BY BaseType DEF Wide
<1>2. CounterAdd(w, delta) = t3.c
  BY DEF CounterAdd
<1>3. /\ t0.c \in Counter /\ t0.carry \in Nat /\ t0 = [c |-> t0.c, carry |-> t0.carry]
      /\ w[0] + delta = t0.c[0] + Base * t0.carry
      /\ t0.c[1] = w[1] /\ t0.c[2] = w[2] /\ t0.c[3] = w[3]
  BY <1>1, AddTurnSum
<1> HIDE DEF t0
<1>4. /\ t1.c \in Counter /\ t1.carry \in Nat /\ t1 = [c |-> t1.c, carry |-> t1.carry]
      /\ t0.c[1] + t0.carry = t1.c[1] + Base * t1.carry
      /\ t1.c[0] = t0.c[0] /\ t1.c[2] = t0.c[2] /\ t1.c[3] = t0.c[3]
  <2>1. t1 = AddTurn([c |-> t0.c, carry |-> t0.carry], 1)
    BY <1>3
  <2> QED BY <1>3, <2>1, AddTurnSum
<1> HIDE DEF t1
<1>5. /\ t2.c \in Counter /\ t2.carry \in Nat /\ t2 = [c |-> t2.c, carry |-> t2.carry]
      /\ t1.c[2] + t1.carry = t2.c[2] + Base * t2.carry
      /\ t2.c[0] = t1.c[0] /\ t2.c[1] = t1.c[1] /\ t2.c[3] = t1.c[3]
  <2>1. t2 = AddTurn([c |-> t1.c, carry |-> t1.carry], 2)
    BY <1>4
  <2> QED BY <1>4, <2>1, AddTurnSum
<1> HIDE DEF t2
<1>6. /\ t3.c \in Counter /\ t3.carry \in Nat
      /\ t2.c[3] + t2.carry = t3.c[3] + Base * t3.carry
      /\ t3.c[0] = t2.c[0] /\ t3.c[1] = t2.c[1] /\ t3.c[2] = t2.c[2]
  <2>1. t3 = AddTurn([c |-> t2.c, carry |-> t2.carry], 3)
    BY <1>5
  <2> QED BY <1>5, <2>1, AddTurnSum
<1> HIDE DEF t3
<1> DEFINE r == t3.c
           k == [i \in 0 .. 4 |-> CASE i = 0 -> delta    [] i = 1 -> t0.carry [] i = 2 -> t1.carry
                                   [] i = 3 -> t2.carry [] i = 4 -> t3.carry]
<1>7. w \in [0 .. 3 -> Int] /\ r \in [0 .. 3 -> Int] /\ k \in [0 .. 4 -> Int] /\ t3.carry \in Int
  BY <1>1, <1>3, <1>4, <1>5, <1>6, BaseType DEF Counter, U32
<1>8. \A i \in 0 .. 3 : w[i] + k[i] = r[i] + Base * k[i + 1]
  BY <1>3, <1>4, <1>5, <1>6
<1>9. Value(w) + delta = Value(r) + Period * t3.carry
  <2>1. k[0] = delta /\ k[4] = t3.carry
    OBVIOUS
  <2> HIDE DEF r, k
  <2> QED BY <1>7, <1>8, <2>1, Telescope
<1> HIDE DEF r, k
<1>10. /\ Value(r) \in 0 .. Period - 1 /\ Period \in Nat \ {0}
       /\ Value(w) \in 0 .. Period - 1
  BY <1>6, ValueType DEF r
<1> DEFINE x == Value(w) + delta
           v == Value(r)
<1>11. x \in Int /\ v \in Int /\ 0 <= v /\ v < Period /\ x = Period * t3.carry + v
  BY <1>1, <1>7, <1>9, <1>10
<1> HIDE DEF x, v
<1>12. x % Period = v
  BY <1>7, <1>10, <1>11, DivisionCompute
<1> QED BY <1>2, <1>6, <1>12 DEF x, v, r

(***************************************************************************)
(* counter_sub subtracts modulo the period.  (counter.hpp 38-48)           *)
(***************************************************************************)
THEOREM CounterSubCorrect ==
  ASSUME NEW w \in Counter, NEW delta \in Wide
  PROVE  /\ CounterSub(w, delta) \in Counter
         /\ Value(CounterSub(w, delta)) = (Value(w) - delta) % Period
<1> DEFINE t0 == SubTurn([c |-> w, borrow |-> delta], 0)
           t1 == SubTurn(t0, 1)
           t2 == SubTurn(t1, 2)
           t3 == SubTurn(t2, 3)
<1>1. delta \in Nat /\ Base \in Nat
  BY BaseType DEF Wide
<1>2. CounterSub(w, delta) = t3.c
  BY DEF CounterSub
<1>3. /\ t0.c \in Counter /\ t0.borrow \in Nat /\ t0 = [c |-> t0.c, borrow |-> t0.borrow]
      /\ w[0] - delta = t0.c[0] - Base * t0.borrow
      /\ t0.c[1] = w[1] /\ t0.c[2] = w[2] /\ t0.c[3] = w[3]
  BY <1>1, SubTurnDifference
<1> HIDE DEF t0
<1>4. /\ t1.c \in Counter /\ t1.borrow \in Nat /\ t1 = [c |-> t1.c, borrow |-> t1.borrow]
      /\ t0.c[1] - t0.borrow = t1.c[1] - Base * t1.borrow
      /\ t1.c[0] = t0.c[0] /\ t1.c[2] = t0.c[2] /\ t1.c[3] = t0.c[3]
  <2>1. t1 = SubTurn([c |-> t0.c, borrow |-> t0.borrow], 1)
    BY <1>3
  <2> QED BY <1>3, <2>1, SubTurnDifference
<1> HIDE DEF t1
<1>5. /\ t2.c \in Counter /\ t2.borrow \in Nat /\ t2 = [c |-> t2.c, borrow |-> t2.borrow]
      /\ t1.c[2] - t1.borrow = t2.c[2] - Base * t2.borrow
      /\ t2.c[0] = t1.c[0] /\ t2.c[1] = t1.c[1] /\ t2.c[3] = t1.c[3]
  <2>1. t2 = SubTurn([c |-> t1.c, borrow |-> t1.borrow], 2)
    BY <1>4
  <2> QED BY <1>4, <2>1, SubTurnDifference
<1> HIDE DEF t2
<1>6. /\ t3.c \in Counter /\ t3.borrow \in Nat
      /\ t2.c[3] - t2.borrow = t3.c[3] - Base * t3.borrow
      /\ t3.c[0] = t2.c[0] /\ t3.c[1] = t2.c[1] /\ t3.c[2] = t2.c[2]
  <2>1. t3 = SubTurn([c |-> t2.c, borrow |-> t2.borrow], 3)
    BY <1>5
  <2> QED BY <1>5, <2>1, SubTurnDifference
<1> HIDE DEF t3
<1> DEFINE r == t3.c
           b == [i \in 0 .. 4 |-> CASE i = 0 -> delta     [] i = 1 -> t0.borrow [] i = 2 -> t1.borrow
                                   [] i = 3 -> t2.borrow [] i = 4 -> t3.borrow]
           k == [i \in 0 .. 4 |-> -b[i]]
<1>7. /\ w \in [0 .. 3 -> Int] /\ r \in [0 .. 3 -> Int] /\ b \in [0 .. 4 -> Int]
      /\ t3.borrow \in Int
  BY <1>1, <1>3, <1>4, <1>5, <1>6, BaseType DEF Counter, U32
<1>8. \A i \in 0 .. 3 : w[i] - b[i] = r[i] - Base * b[i + 1]
  BY <1>3, <1>4, <1>5, <1>6
<1>9. b[0] = delta /\ b[4] = t3.borrow
  OBVIOUS
<1> HIDE DEF r, b
<1>10. k \in [0 .. 4 -> Int] /\ k[0] = -delta /\ k[4] = -t3.borrow
  BY <1>7, <1>9
<1>11. \A i \in 0 .. 3 : w[i] + k[i] = r[i] + Base * k[i + 1]
  <2> SUFFICES ASSUME NEW i \in 0 .. 3 PROVE w[i] + k[i] = r[i] + Base * k[i + 1]
    OBVIOUS
  <2>1. /\ w[i] \in Int /\ r[i] \in Int /\ b[i] \in Int /\ b[i + 1] \in Int
        /\ k[i] = -b[i] /\ k[i + 1] = -b[i + 1]
    BY <1>7
  <2>2. Base * (-b[i + 1]) = -(Base * b[i + 1]) /\ Base * b[i + 1] \in Int
    BY <1>1, <2>1
  <2> QED BY <1>8, <2>1, <2>2
<1> HIDE DEF k
<1>12. Value(w) + k[0] = Value(r) + Period * k[4]
  BY <1>7, <1>10, <1>11, Telescope
<1>13. /\ Value(r) \in 0 .. Period - 1 /\ Period \in Nat \ {0}
       /\ Value(w) \in 0 .. Period - 1
  BY <1>6, ValueType DEF r
<1> DEFINE x == Value(w) - delta
           v == Value(r)
           q == -t3.borrow
<1>14. x \in Int /\ v \in Int /\ q \in Int /\ 0 <= v /\ v < Period /\ x = Period * q + v
  BY <1>1, <1>7, <1>10, <1>12, <1>13
<1> HIDE DEF x, v, q
<1>15. x % Period = v
  BY <1>13, <1>14, DivisionCompute
<1> QED BY <1>2, <1>6, <1>15 DEF x, v, r

\* Two counters that stand for the same number are the same.
LEMMA ValueInjective ==
  ASSUME NEW w \in Counter, NEW r \in Counter, Value(w) = Value(r)
  PROVE  w = r
<1> DEFINE w0 == w[0]  w1 == w[1]  w2 == w[2]  w3 == w[3]
           r0 == r[0]  r1 == r[1]  r2 == r[2]  r3 == r[3]
           v2 == w2 + Base * w3
           s2 == r2 + Base * r3
           v1 == w1 + Base * v2
           s1 == r1 + Base * s2
<1>1. /\ Base \in Nat \ {0}
      /\ w0 \in 0 .. Base - 1 /\ w1 \in 0 .. Base - 1 /\ w2 \in 0 .. Base - 1
      /\ w3 \in 0 .. Base - 1
      /\ r0 \in 0 .. Base - 1 /\ r1 \in 0 .. Base - 1 /\ r2 \in 0 .. Base - 1
      /\ r3 \in 0 .. Base - 1
  BY BaseType DEF Counter, U32
<1>2. w0 + Base * v1 = r0 + Base * s1
  BY DEF Value
<1> HIDE DEF w0, w1, w2, w3, r0, r1, r2, r3
<1>3. v2 \in Int /\ s2 \in Int /\ v1 \in Int /\ s1 \in Int
  BY <1>1
<1>4. v1 = w1 + Base * v2 /\ s1 = r1 + Base * s2 /\ v2 = w2 + Base * w3 /\ s2 = r2 + Base * r3
  OBVIOUS
<1> HIDE DEF v1, s1, v2, s2
<1>5. v1 = s1 /\ w0 = r0
  <2>1. Base * v1 + w0 = Base * s1 + r0
    BY <1>1, <1>2, <1>3
  <2> QED BY <1>1, <1>3, <2>1, DivisionUnique
<1>6. v2 = s2 /\ w1 = r1
  <2>1. Base * v2 + w1 = Base * s2 + r1
    BY <1>1, <1>3, <1>4, <1>5
  <2> QED BY <1>1, <1>3, <2>1, DivisionUnique
<1>7. w3 = r3 /\ w2 = r2
  <2>1. Base * w3 + w2 = Base * r3 + r2
    BY <1>1, <1>3, <1>4, <1>6
  <2> QED BY <1>1, <2>1, DivisionUnique
<1>8. \A i \in 0 .. 3 : w[i] = r[i]
  BY <1>5, <1>6, <1>7 DEF w0, w1, w2, w3, r0, r1, r2, r3
<1> QED BY <1>8 DEF Counter

\* Subtracting what was added, or adding what was subtracted, changes nothing.
LEMMA SubInvertsAdd ==
  ASSUME NEW w \in Counter, NEW delta \in Wide
  PROVE  /\ CounterSub(CounterAdd(w, delta), delta) = w
         /\ CounterAdd(CounterSub(w, delta), delta) = w
<1> DEFINE v == Value(w)
           up == v + delta
           down == v - delta
           minus == -delta
<1>1. v \in 0 .. Period - 1 /\ Period \in Nat \ {0} /\ delta \in Int /\ minus \in Int
  BY ValueType, BaseType DEF Wide
<1>2. up \in Int /\ down \in Int /\ up + minus = v /\ down + delta = v
  BY <1>1
<1>3. /\ CounterAdd(w, delta) \in Counter /\ Value(CounterAdd(w, delta)) = up % Period
      /\ CounterSub(w, delta) \in Counter /\ Value(CounterSub(w, delta)) = down % Period
  BY CounterAddCorrect, CounterSubCorrect
<1>4. /\ CounterSub(CounterAdd(w, delta), delta) \in Counter
      /\ Value(CounterSub(CounterAdd(w, delta), delta)) = ((up % Period) - delta) % Period
      /\ CounterAdd(CounterSub(w, delta), delta) \in Counter
      /\ Value(CounterAdd(CounterSub(w, delta), delta)) = ((down % Period) + delta) % Period
  BY <1>3, CounterAddCorrect, CounterSubCorrect
<1> HIDE DEF v, up, down
<1>5. (up % Period) - delta = (up % Period) + minus
  BY <1>1, <1>2, DivisionTheorem
<1> HIDE DEF minus
<1>6. ((up % Period) + minus) % Period = (up + minus) % Period
  BY <1>1, <1>2, ModAdd
<1>7. ((down % Period) + delta) % Period = (down + delta) % Period
  BY <1>1, <1>2, ModAdd
<1>8. v % Period = v
  BY <1>1, ModSmall
<1> QED BY <1>2, <1>4, <1>5, <1>6, <1>7, <1>8, ValueInjective DEF v

\* Two moves forwards are one.
LEMMA CounterAddAdd ==
  ASSUME NEW w \in Counter, NEW a \in Wide, NEW b \in Wide, a + b \in Wide
  PROVE  CounterAdd(CounterAdd(w, a), b) = CounterAdd(w, a + b)
<1> DEFINE v == Value(w)
           n == v + a
           m == Period
<1>1. /\ v \in Int /\ m \in Nat \ {0} /\ a \in Int /\ b \in Int /\ n \in Int
  BY ValueType, BaseType DEF Wide
<1>2. CounterAdd(w, a) \in Counter /\ Value(CounterAdd(w, a)) = n % m
  BY CounterAddCorrect
<1>3. /\ CounterAdd(CounterAdd(w, a), b) \in Counter
      /\ Value(CounterAdd(CounterAdd(w, a), b)) = ((n % m) + b) % m
  BY <1>2, CounterAddCorrect
<1>4. /\ CounterAdd(w, a + b) \in Counter
      /\ Value(CounterAdd(w, a + b)) = (v + (a + b)) % m
  BY CounterAddCorrect
<1> HIDE DEF v, m
<1>5. v + (a + b) = n + b
  BY <1>1
<1> HIDE DEF n
<1>6. ((n % m) + b) % m = (n + b) % m
  BY <1>1, ModAdd
<1> QED BY <1>3, <1>4, <1>5, <1>6, ValueInjective

\* A move by no block.
LEMMA CounterAddZero ==
  ASSUME NEW w \in Counter
  PROVE  CounterAdd(w, 0) = w
<1>1. 0 \in Wide
  <2>1. Base * Base >= 1
    BY BaseType
  <2> QED BY <2>1, BaseType DEF Wide
<1>2. Value(w) \in 0 .. Period - 1 /\ Period \in Nat \ {0}
  BY ValueType
<1> DEFINE v == Value(w)
<1>3. (v + 0) % Period = v
  <2>1. v \in 0 .. Period - 1 /\ v + 0 = v
    BY <1>2
  <2> HIDE DEF v
  <2> QED BY <1>2, <2>1, ModSmall
<1>4. CounterAdd(w, 0) \in Counter /\ Value(CounterAdd(w, 0)) = Value(w)
  BY <1>1, <1>3, CounterAddCorrect
<1> QED BY <1>4, ValueInjective

\* The words of a number, least significant first, stand for that number.
LEMMA CounterOfValue ==
  ASSUME NEW n \in 0 .. Period - 1
  PROVE  CounterOf(n) \in Counter /\ Value(CounterOf(n)) = n
<1> DEFINE q1 == n \div Base
           q2 == q1 \div Base
           q3 == q2 \div Base
           q4 == q3 \div Base
           d0 == n % Base
           d1 == q1 % Base
           d2 == q2 % Base
           d3 == q3 % Base
<1>1. Base \in Nat \ {0} /\ n \in Nat /\ n < Period
  <2>1. Period \in Int
    BY BaseType DEF Period
  <2> QED BY <2>1, BaseType
<1>2. n = Base * q1 + d0 /\ d0 \in 0 .. Base - 1 /\ q1 \in Nat
  BY <1>1, CarrySplit
<1>3. q1 = Base * q2 + d1 /\ d1 \in 0 .. Base - 1 /\ q2 \in Nat
  <2> HIDE DEF q1
  <2> QED BY <1>1, <1>2, CarrySplit
<1>4. q2 = Base * q3 + d2 /\ d2 \in 0 .. Base - 1 /\ q3 \in Nat
  <2> HIDE DEF q2
  <2> QED BY <1>1, <1>3, CarrySplit
<1>5. q3 = Base * q4 + d3 /\ d3 \in 0 .. Base - 1 /\ q4 \in Nat
  <2> HIDE DEF q3
  <2> QED BY <1>1, <1>4, CarrySplit
<1>6. CounterOf(n) = FourWords(d0, d1, d2, d3)
  BY DEF CounterOf
<1> HIDE DEF d0, d1, d2, d3, q1, q2, q3, q4
<1>7. CounterOf(n) \in Counter
  BY <1>2, <1>3, <1>4, <1>5, <1>6 DEF Counter, U32, FourWords
<1>8. /\ CounterOf(n)[0] = d0 /\ CounterOf(n)[1] = d1
      /\ CounterOf(n)[2] = d2 /\ CounterOf(n)[3] = d3
  BY <1>6 DEF FourWords
<1>9. q4 = 0
  <2> SUFFICES ASSUME q4 >= 1 PROVE FALSE
    BY <1>5
  <2>1. q3 >= Base
    <3>1. Base * q4 >= Base
      BY <1>1, <1>5
    <3> QED BY <1>1, <1>5, <3>1
  <2>2. q2 >= Base * Base
    <3>1. Base * q3 >= Base * Base
      BY <1>1, <1>4, <2>1
    <3> QED BY <1>1, <1>4, <3>1
  <2>3. q1 >= Base * (Base * Base)
    <3>1. Base * q2 >= Base * (Base * Base)
      BY <1>1, <1>3, <2>2
    <3> QED BY <1>1, <1>3, <3>1
  <2>4. n >= Period
    <3>1. Base * q1 >= Base * (Base * (Base * Base))
      BY <1>1, <1>2, <2>3
    <3> QED BY <1>1, <1>2, <3>1 DEF Period
  <2> QED BY <1>1, <2>4 DEF Period
<1>10. q3 = d3
  BY <1>1, <1>5, <1>9
<1>11. Value(CounterOf(n)) = n
  <2>1. d2 + Base * d3 = q2
    BY <1>1, <1>4, <1>10
  <2>2. d1 + Base * q2 = q1
    BY <1>1, <1>3, <1>4
  <2>3. d0 + Base * q1 = n
    BY <1>1, <1>2
  <2> QED BY <1>8, <2>1, <2>2, <2>3 DEF Value
<1> QED BY <1>7, <1>11
===========================================================================
