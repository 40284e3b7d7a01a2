--------------------------- MODULE KernelProofs ---------------------------
(***************************************************************************)
(* The kernels for any word size and any number of rounds: a lane of       *)
(* counter_lanes is the counter that many blocks on, every call returns,   *)
(* one of a multiple of preferred_blocks has no tail, and what is written  *)
(* is the stream, block by block, on every instruction set.                *)
(***************************************************************************)
EXTENDS Kernels, CounterProofs

\* One word of a lane: its sum with a carry, and the carry it passes on.
LEMMA WordCarry ==
  ASSUME NEW a \in U32, NEW k \in 0 .. Base - 1
  PROVE  /\ (a + k) % Base = IF a + k >= Base THEN a + k - Base ELSE a + k
         /\ (a + k) \div Base = IF a + k >= Base THEN 1 ELSE 0
         /\ (a + k) % Base \in U32
<1>1. Base \in Nat \ {0} /\ a \in 0 .. Base - 1
  BY BaseType DEF U32
<1>2. CASE a + k >= Base
  <2>1. a + k = Base * 1 + (a + k - Base) /\ a + k - Base \in Int /\ 0 <= a + k - Base /\ a + k - Base < Base
    BY <1>1, <1>2
  <2>2. (a + k) % Base = a + k - Base /\ (a + k) \div Base = 1
    BY <1>1, <2>1, DivisionCompute
  <2> QED BY <1>1, <1>2, <2>1, <2>2 DEF U32
<1>3. CASE ~(a + k >= Base)
  <2>1. a + k = Base * 0 + (a + k) /\ a + k \in Int /\ 0 <= a + k /\ a + k < Base
    BY <1>1, <1>3
  <2>2. (a + k) % Base = a + k /\ (a + k) \div Base = 0
    BY <1>1, <2>1, DivisionCompute
  <2> QED BY <1>1, <1>3, <2>1, <2>2 DEF U32
<1> QED BY <1>2, <1>3

\* The biased signed comparison of AVX2 is the unsigned one.
LEMMA BiasedLess ==
  ASSUME NEW a \in U32, NEW b \in U32, Base % 2 = 0
  PROVE  LessBiased(a, b) = LessUnsigned(a, b)
<1> DEFINE h == Base \div 2
<1>1. Base \in Nat \ {0, 1} /\ Base = 2 * h /\ h \in Nat \ {0}
  BY BaseType, DivisionTheorem
<1> HIDE DEF h
<1>2. \A x \in U32 : Signed(Biased(x)) = x - h
  <2> SUFFICES ASSUME NEW x \in U32 PROVE Signed(Biased(x)) = x - h
    OBVIOUS
  <2>1. h \in 0 .. Base - 1
    BY <1>1
  <2>2. (x + h) % Base = IF x + h >= Base THEN x + h - Base ELSE x + h
    BY <2>1, WordCarry
  <2>3. Biased(x) = IF x + h >= Base THEN x + h - Base ELSE x + h
    BY <2>2 DEF Biased, h
  <2>4. Signed(Biased(x)) = IF Biased(x) >= h THEN Biased(x) - Base ELSE Biased(x)
    BY DEF Signed, h
  <2> QED BY <1>1, <2>3, <2>4 DEF U32
<1>3. (Signed(Biased(b)) > Signed(Biased(a))) <=> (a < b)
  BY <1>1, <1>2 DEF U32
<1> QED BY <1>3 DEF LessBiased, LessUnsigned

\* With either comparison, a sum below its first operand is one that carried.
LEMMA CarryFound ==
  ASSUME NEW a \in U32, NEW k \in 0 .. Base - 1, NEW i, i = "avx2" => Base % 2 = 0
  PROVE  Less(i, (a + k) % Base, a) = (a + k) \div Base
<1>1. /\ (a + k) % Base = IF a + k >= Base THEN a + k - Base ELSE a + k
      /\ (a + k) \div Base = IF a + k >= Base THEN 1 ELSE 0
      /\ (a + k) % Base \in U32
  BY WordCarry
<1>2. Less(i, (a + k) % Base, a) = LessUnsigned((a + k) % Base, a)
  BY <1>1, BiasedLess DEF Less
<1>3. a \in 0 .. Base - 1 /\ Base \in Nat
  BY BaseType DEF U32
<1> QED BY <1>1, <1>2, <1>3 DEF LessUnsigned

\* A turn of counter_add with a carry of one word.
LEMMA TurnByWord ==
  ASSUME NEW w \in Counter, NEW k \in 0 .. Base - 1, NEW i \in 0 .. 3
  PROVE  AddTurn([c |-> w, carry |-> k], i) =
           [c |-> [w EXCEPT ![i] = (w[i] + k) % Base], carry |-> (w[i] + k) \div Base]
<1>1. w[i] \in U32 /\ w[i] \in 0 .. Base - 1 /\ Base \in Nat \ {0}
  BY BaseType DEF Counter, U32
<1>2. k % Base = k /\ k \div Base = 0
  <2>1. k \in Int /\ 0 <= k /\ k < Base
    BY <1>1
  <2>2. /\ k = Base * (k \div Base) + (k % Base)
        /\ (k % Base) \in 0 .. Base - 1 /\ (k \div Base) \in Int
    BY <1>1, <2>1, DivisionTheorem
  <2> DEFINE q == k \div Base
             r == k % Base
  <2>3. Base * q + r = Base * 0 + k /\ q \in Int /\ r \in Int /\ 0 <= r /\ r < Base
    BY <1>1, <2>1, <2>2
  <2> HIDE DEF q, r
  <2>4. q = 0 /\ r = k
    BY <1>1, <2>1, <2>3, DivisionUnique
  <2> QED BY <2>4 DEF q, r
<1>3. CASE k = 0
  <2> DEFINE a == w[i]
  <2>1. a \in U32 /\ a \in Int /\ ~(a + k >= Base) /\ a + k = a
    BY <1>1, <1>3
  <2> HIDE DEF a
  <2>3. (a + k) % Base = a /\ (a + k) \div Base = 0
    BY <2>1, WordCarry
  <2>4. (w[i] + k) % Base = w[i] /\ (w[i] + k) \div Base = 0
    BY <2>3 DEF a
  <2>2. [w EXCEPT ![i] = w[i]] = w
    BY DEF Counter
  <2> QED BY <1>3, <2>4, <2>2 DEF AddTurn
<1>4. CASE k # 0
  <2>1. (w[i] + k) \div Base \in Int
    BY <1>1, WordCarry
  <2> QED BY <1>2, <1>4, <2>1 DEF AddTurn
<1> QED BY <1>3, <1>4

\* The same, word for word.
LEMMA TurnWords ==
  ASSUME NEW w \in Counter, NEW k \in 0 .. Base - 1, NEW i \in 0 .. 3,
         NEW t, t = AddTurn([c |-> w, carry |-> k], i)
  PROVE  /\ t = [c |-> t.c, carry |-> t.carry]
         /\ t.c \in Counter /\ t.carry = (w[i] + k) \div Base
         /\ t.c[i] = (w[i] + k) % Base
         /\ \A n \in 0 .. 3 : n # i => t.c[n] = w[n]
<1> DEFINE d == (w[i] + k) % Base
           up == (w[i] + k) \div Base
           v  == [w EXCEPT ![i] = d]
<1>1. w[i] \in U32 /\ w \in [0 .. 3 -> U32]
  BY DEF Counter
<1>2. d \in U32
  BY <1>1, WordCarry
<1>3. t = [c |-> v, carry |-> up]
  BY TurnByWord
<1> HIDE DEF d, up, v
<1>4. t.c = v /\ t.carry = up
  BY <1>3
<1>5. t.c \in Counter /\ t.c[i] = d /\ \A n \in 0 .. 3 : n # i => t.c[n] = w[n]
  BY <1>1, <1>2, <1>4 DEF Counter, v
<1> QED BY <1>3, <1>4, <1>5 DEF d, up

(***************************************************************************)
(* Lane j of the registers of counter_lanes is the counter j blocks on,    *)
(* carries included, on every instruction set, in every (for AVX2 even)    *)
(* base and for every register no wider than the base.                     *)
(* (kernel_avx2.hpp 61-87, kernel_avx512.hpp 62-89, kernel_neon.hpp 86-105)*)
(***************************************************************************)
THEOREM LanesAreCounters ==
  ASSUME NEW w \in Counter, NEW i, i = "avx2" => Base % 2 = 0,
         NEW width \in 1 .. Base, NEW j \in 0 .. width - 1
  PROVE  \A n \in 0 .. 3 : Lanes(i, w, width)[n + 1][j] = CounterAdd(w, j)[n]
<1> DEFINE k1 == (w[0] + j) \div Base
           k2 == (w[1] + k1) \div Base
           k3 == (w[2] + k2) \div Base
           d0 == (w[0] + j) % Base
           d1 == (w[1] + k1) % Base
           d2 == (w[2] + k2) % Base
           d3 == (w[3] + k3) % Base
<1>1. /\ j \in 0 .. Base - 1 /\ {0, 1} \subseteq 0 .. Base - 1
      /\ \A n \in 0 .. 3 : w[n] \in U32
  BY BaseType DEF Counter
<1>2. k1 \in {0, 1} /\ k2 \in {0, 1} /\ k3 \in {0, 1}
  <2>1. k1 \in {0, 1}
    BY <1>1, WordCarry
  <2>2. k2 \in {0, 1}
    <3> HIDE DEF k1
    <3> QED BY <1>1, <2>1, WordCarry
  <2>3. k3 \in {0, 1}
    <3> HIDE DEF k2
    <3> QED BY <1>1, <2>2, WordCarry
  <2> QED BY <2>1, <2>2, <2>3
<1>3. /\ Less(i, d0, w[0]) = k1
      /\ Less(i, d1, w[1]) = k2
      /\ Less(i, d2, w[2]) = k3
  <2>1. Less(i, d0, w[0]) = k1
    BY <1>1, CarryFound
  <2>2. Less(i, d1, w[1]) = k2
    <3> HIDE DEF k1
    <3> QED BY <1>1, <1>2, CarryFound
  <2>3. Less(i, d2, w[2]) = k3
    <3> HIDE DEF k2
    <3> QED BY <1>1, <1>2, CarryFound
  <2> QED BY <2>1, <2>2, <2>3
<1>4. /\ Lanes(i, w, width)[1][j] = d0
      /\ Lanes(i, w, width)[2][j] = d1
      /\ Lanes(i, w, width)[3][j] = d2
      /\ Lanes(i, w, width)[4][j] = d3
  BY <1>3 DEF Lanes
<1>5. CounterAdd(w, j)[0] = d0 /\ CounterAdd(w, j)[1] = d1
      /\ CounterAdd(w, j)[2] = d2 /\ CounterAdd(w, j)[3] = d3
  <2> DEFINE t0 == AddTurn([c |-> w, carry |-> j], 0)
             t1 == AddTurn(t0, 1)
             t2 == AddTurn(t1, 2)
             t3 == AddTurn(t2, 3)
  <2>1. /\ t0 = [c |-> t0.c, carry |-> k1] /\ t0.c \in Counter
        /\ t0.c[0] = d0 /\ t0.c[1] = w[1] /\ t0.c[2] = w[2] /\ t0.c[3] = w[3]
    <3> HIDE DEF t0
    <3> QED BY <1>1, TurnWords DEF t0
  <2>2. /\ t1 = [c |-> t1.c, carry |-> k2] /\ t1.c \in Counter
        /\ t1.c[0] = d0 /\ t1.c[1] = d1 /\ t1.c[2] = w[2] /\ t1.c[3] = w[3]
    <3> HIDE DEF t0, k1, d0
    <3>1. t1 = AddTurn([c |-> t0.c, carry |-> k1], 1) /\ k1 \in 0 .. Base - 1
      BY <1>1, <1>2, <2>1
    <3> HIDE DEF t1
    <3> QED BY <2>1, <3>1, TurnWords
  <2>3. /\ t2 = [c |-> t2.c, carry |-> k3] /\ t2.c \in Counter
        /\ t2.c[0] = d0 /\ t2.c[1] = d1 /\ t2.c[2] = d2 /\ t2.c[3] = w[3]
    <3> HIDE DEF t1, k2, d0, d1
    <3>1. t2 = AddTurn([c |-> t1.c, carry |-> k2], 2) /\ k2 \in 0 .. Base - 1
      BY <1>1, <1>2, <2>2
    <3> HIDE DEF t2
    <3> QED BY <2>2, <3>1, TurnWords
  <2>4. t3.c[0] = d0 /\ t3.c[1] = d1 /\ t3.c[2] = d2 /\ t3.c[3] = d3
    <3> HIDE DEF t2, k3, d0, d1, d2
    <3>1. t3 = AddTurn([c |-> t2.c, carry |-> k3], 3) /\ k3 \in 0 .. Base - 1
      BY <1>1, <1>2, <2>3
    <3> HIDE DEF t3
    <3> QED BY <2>3, <3>1, TurnWords
  <2>5. CounterAdd(w, j) = t3.c
    BY DEF CounterAdd
  <2> HIDE DEF t3
  <2> QED BY <2>4, <2>5
<1> HIDE DEF d0, d1, d2, d3
<1> QED BY <1>4, <1>5

---------------------------------------------------------------------------
(* The loops. *)

(***************************************************************************)
(* Blocks are written up to block and never past the end of a loop; what   *)
(* the first loop has written is a multiple of its stride.                 *)
(***************************************************************************)
LoopInv ==
  /\ isa \in Isas /\ blocks \in Nat /\ block \in 0 .. blocks /\ round \in 0 .. Rounds
  /\ pc \in {"batches", "groups", "tail", "done"}
  /\ pc = "batches" => isa # "scalar" /\ block % Preferred(isa) = 0
  /\ pc = "groups" => isa = "neon"
  /\ groups # <<>> => InLoop /\ 1 \in DOMAIN groups
  /\ pc = "done" => block = blocks

IInv == LoopInv /\ PreferredHasNoTail

Vector == {"avx2", "avx512", "neon"}

\* The lanes of the vector kernels, and the blocks they take at once.
LEMMA Widths ==
  /\ Width("avx2") = 8 /\ Preferred("avx2") = 8
  /\ Width("avx512") = 16 /\ Preferred("avx512") = 16
  /\ Width("neon") = 4 /\ Preferred("neon") = 8
BY DEF Width, Preferred

\* What the vector loops may do together is at most what was asked for.
LEMMA BatchedBound ==
  ASSUME NEW i \in Vector, NEW n \in Nat
  PROVE  Batched(i, n) \in Nat /\ Batched(i, n) <= n
<1>1. CASE i = "avx2"
  BY <1>1, Widths DEF Batched
<1>2. CASE i = "avx512"
  BY <1>2, Widths DEF Batched
<1>3. CASE i = "neon"
  BY <1>3, Widths DEF Batched
<1> QED BY <1>1, <1>2, <1>3 DEF Vector

\* The first loop ends with nothing left if its stride divides the request.
LEMMA NothingLeft ==
  ASSUME NEW i \in Vector, NEW n \in Nat, NEW b \in 0 .. n,
         n % Preferred(i) = 0, b % Preferred(i) = 0, ~(b + Preferred(i) <= Batched(i, n))
  PROVE  b = n
<1>1. Preferred(i) \in {8, 16} /\ Batched(i, n) = n
  <2>1. CASE i = "avx2"
    BY <2>1, Widths DEF Batched
  <2>2. CASE i = "avx512"
    BY <2>2, Widths DEF Batched
  <2>3. CASE i = "neon"
    <3>1. n % 8 = 0
      BY <2>3, Widths
    <3>2. n = 8 * (n \div 8) /\ n \div 8 \in Int
      BY <3>1, DivisionTheorem
    <3>3. n = 4 * (2 * (n \div 8)) + 0
      BY <3>2
    <3>4. n % 4 = 0
      BY <3>2, <3>3, DivisionCompute
    <3>5. Batched("neon", n) = n - (n % 4) /\ n - 0 = n
      BY Widths DEF Batched
    <3>6. Batched("neon", n) = n
      BY <3>4, <3>5
    <3> QED BY <2>3, <3>6, Widths
  <2>4. i = "avx2" \/ i = "avx512" \/ i = "neon"
    BY DEF Vector
  <2> QED BY <2>1, <2>2, <2>3, <2>4
<1> DEFINE p == Preferred(i)
<1>2. PICK k \in Int, m \in Int : n = p * k /\ b = p * m
  <2>1. /\ n = p * (n \div p) + (n % p) /\ n \div p \in Int
        /\ b = p * (b \div p) + (b % p) /\ b \div p \in Int
    <3>1. p \in Nat \ {0}
      BY <1>1
    <3> HIDE DEF p
    <3> QED BY <3>1, DivisionTheorem
  <2> QED BY <1>1, <2>1
<1>3. b + p > n /\ b <= n
  BY <1>1
<1> HIDE DEF p
<1>4. CASE p = 8
  BY <1>2, <1>3, <1>4
<1>5. CASE p = 16
  BY <1>2, <1>3, <1>5
<1> QED BY <1>1, <1>4, <1>5

\* A stride in a loop: how long it is, and where it ends.
LEMMA StrideInLoop ==
  ASSUME LoopInv, InLoop
  PROVE  /\ isa \in Vector /\ Stride \in Nat \ {0}
         /\ block + Stride <= Batched(isa, blocks) /\ block + Stride \in 0 .. blocks
         /\ pc = "batches" => (block + Stride) % Preferred(isa) = 0
<1>1. isa \in Vector /\ pc \in {"batches", "groups"}
  BY KernelAssumption DEF LoopInv, InLoop, Vector
<1>2. /\ Stride \in Nat \ {0}
      /\ pc = "batches" => (block + Stride) % Preferred(isa) = 0
  <2>1. block \in Nat
    BY DEF LoopInv
  <2>2. CASE isa = "avx2"
    BY <1>1, <2>1, <2>2, Widths DEF Stride, LoopInv
  <2>3. CASE isa = "avx512"
    BY <1>1, <2>1, <2>3, Widths DEF Stride, LoopInv
  <2>4. CASE isa = "neon"
    BY <1>1, <2>1, <2>4, Widths DEF Stride, LoopInv
  <2> QED BY <1>1, <2>2, <2>3, <2>4 DEF Vector
<1>3. Batched(isa, blocks) \in Nat /\ Batched(isa, blocks) <= blocks
  BY <1>1, BatchedBound DEF LoopInv
<1> QED BY <1>1, <1>2, <1>3 DEF InLoop, LoopInv

\* A call starts with nothing written.
LEMMA InitInv == Init => IInv
<1> SUFFICES ASSUME Init PROVE IInv
  OBVIOUS
<1>1. blocks \in Nat /\ Rounds \in Nat /\ isa \in {"scalar", "avx2", "avx512", "neon"}
  BY KernelAssumption DEF Init
<1>2. isa # "scalar" => 0 % Preferred(isa) = 0
  BY <1>1, Widths
<1>3. LoopInv
  BY <1>1, <1>2 DEF Init, LoopInv
<1>4. PreferredHasNoTail
  BY DEF Init, PreferredHasNoTail
<1> QED BY <1>3, <1>4 DEF IInv

Descends == 0 <= Left' /\ Left' < Left

\* The room a group between load and store takes up in Left.
LEMMA Rooms ==
  ASSUME LoopInv
  PROVE  /\ Rounds \in Nat \ {0} /\ blocks - block \in Nat
         /\ (blocks - block) * (Rounds + 2) \in Nat
         /\ InLoop => (blocks - block) * (Rounds + 2) >= Rounds + 2
<1>1. Rounds \in Nat \ {0} /\ blocks - block \in Nat
  BY KernelAssumption DEF LoopInv
<1> DEFINE n == blocks - block
           r == Rounds + 2
<1>2. n \in Nat /\ r \in Nat
  BY <1>1
<1>3. InLoop => n >= 1
  BY StrideInLoop DEF LoopInv
<1> HIDE DEF n, r
<1>4. n * r \in Nat
  BY <1>2
<1>5. n >= 1 => n * r >= r
  <2> SUFFICES ASSUME n >= 1 PROVE n * r >= r
    OBVIOUS
  <2>1. (n - 1) * r \in Nat /\ n * r = (n - 1) * r + r
    BY <1>2
  <2> QED BY <1>2, <2>1
<1> QED BY <1>1, <1>3, <1>4, <1>5 DEF n, r

---------------------------------------------------------------------------

\* A group is loaded for a stride that the loop still has room for.
LEMMA LoadStep ==
  ASSUME IInv, Load
  PROVE  IInv' /\ Descends
<1>1. /\ UNCHANGED <<isa, blocks, block, pc>> /\ InLoop /\ groups = <<>> /\ round' = 0
      /\ groups' # <<>> /\ 1 \in DOMAIN groups'
  BY DEF Load, args
<1>2. InLoop' /\ Rounds \in Nat
  BY <1>1, KernelAssumption DEF InLoop, Stride
<1>3. IInv'
  BY <1>1, <1>2 DEF IInv, LoopInv, PreferredHasNoTail
<1>4. Descends
  <2> DEFINE left == (blocks - block) * (Rounds + 2)
  <2>1. left \in Nat /\ left >= Rounds + 2 /\ left' = left
    BY <1>1, Rooms DEF IInv
  <2> HIDE DEF left
  <2>2. Left = left + (IF pc = "batches" THEN 3 ELSE 2)
    BY <1>1, <2>1 DEF Left, left, InLoop
  <2>3. Left' = left - 1 + (IF pc = "batches" THEN 3 ELSE 2)
    BY <1>1, <2>1 DEF Left, left, InLoop
  <2> QED BY <1>2, <2>1, <2>2, <2>3 DEF Descends
<1> QED BY <1>3, <1>4

\* A round changes the registers only.
LEMMA RoundStep ==
  ASSUME IInv, Round
  PROVE  IInv' /\ Descends
<1>1. /\ UNCHANGED <<isa, blocks, block, pc>> /\ groups # <<>> /\ round < Rounds
      /\ round' = round + 1 /\ groups' = [i \in DOMAIN groups |-> RoundGroup(isa, groups[i])]
  BY DEF Round, args
<1>2. groups' # <<>> /\ 1 \in DOMAIN groups'
  BY <1>1 DEF IInv, LoopInv
<1>3. InLoop /\ InLoop' /\ Rounds \in Nat /\ round \in Nat
  BY <1>1, KernelAssumption DEF IInv, LoopInv, InLoop, Stride
<1>4. IInv'
  BY <1>1, <1>2, <1>3 DEF IInv, LoopInv, PreferredHasNoTail
<1>5. Descends
  <2> DEFINE left == (blocks - block) * (Rounds + 2)
             more == IF pc = "batches" THEN 3 ELSE 2
  <2>1. left \in Nat /\ left >= Rounds + 2 /\ left' = left
    BY <1>1, <1>3, Rooms DEF IInv
  <2> HIDE DEF left
  <2>2. Left = left - (round + 1) + more
    BY <1>1, <1>3 DEF Left, left, InLoop
  <2>3. Left' = left - (round + 2) + more
    BY <1>1, <1>2, <1>3, <2>1 DEF Left, left, InLoop
  <2> QED BY <1>1, <1>3, <2>1, <2>2, <2>3 DEF Descends
<1> QED BY <1>4, <1>5

\* A stride is written, and none of it lies past the request.
LEMMA StoreStep ==
  ASSUME IInv, Store
  PROVE  IInv' /\ Descends
<1>1. /\ UNCHANGED <<isa, blocks, round, pc>> /\ groups # <<>> /\ round = Rounds
      /\ groups' = <<>> /\ block' = block + Stride
  BY DEF Store, args
<1>2. InLoop /\ Rounds \in Nat
  BY <1>1, KernelAssumption DEF IInv, LoopInv
<1>3. /\ isa \in Vector /\ Stride \in Nat \ {0} /\ block + Stride \in 0 .. blocks
      /\ pc = "batches" => (block + Stride) % Preferred(isa) = 0
  BY <1>2, StrideInLoop DEF IInv
<1>4. LoopInv'
  BY <1>1, <1>2, <1>3 DEF IInv, LoopInv, InLoop
<1>5. PreferredHasNoTail'
  BY <1>1, <1>2, <1>3 DEF IInv, LoopInv, PreferredHasNoTail, InLoop
<1>6. Descends
  <2> DEFINE n    == blocks - block
             s    == Stride
             r    == Rounds + 2
             more == IF pc = "batches" THEN 3 ELSE 2
  <2>1. n \in Nat /\ s \in Nat \ {0} /\ n - s \in Nat /\ r \in Nat
    BY <1>2, <1>3 DEF IInv, LoopInv
  <2>2. Left = n * r - (Rounds + 1) + more
    BY <1>1, <1>2 DEF Left, InLoop
  <2>3. Left' = (n - s) * r + more
    <3>1. blocks' - block' = n - s
      BY <1>1, <2>1 DEF IInv, LoopInv
    <3> HIDE DEF n, s
    <3> QED BY <1>1, <1>2, <2>1, <3>1 DEF Left, InLoop
  <2> HIDE DEF n, s
  <2>4. n * r = (n - s) * r + s * r /\ (n - s) * r \in Nat
    BY <2>1
  <2>5. s * r >= r
    <3>1. s * r = (s - 1) * r + r /\ (s - 1) * r \in Nat
      BY <2>1
    <3> QED BY <2>1, <3>1
  <2>6. s * r \in Nat /\ more \in {2, 3}
    BY <2>1
  <2> QED BY <1>2, <2>1, <2>2, <2>3, <2>4, <2>5, <2>6 DEF Descends
<1> QED BY <1>4, <1>5, <1>6 DEF IInv

\* A loop ends with no group on the way, and with nothing left if it has no tail.
LEMMA LoopEndsStep ==
  ASSUME IInv, LoopEnds
  PROVE  IInv' /\ Descends
<1>1. /\ UNCHANGED <<isa, blocks, block, groups, round>> /\ ~InLoop /\ pc \in {"batches", "groups"}
      /\ pc' = IF pc = "batches" /\ isa = "neon" THEN "groups" ELSE "tail"
  BY DEF LoopEnds, args
<1>2. groups = <<>>
  BY <1>1 DEF IInv, LoopInv
<1>3. LoopInv'
  BY <1>1, <1>2 DEF IInv, LoopInv
<1>4. PreferredHasNoTail'
  <2> SUFFICES ASSUME blocks % Preferred(isa) = 0 PROVE block = blocks
    BY <1>1 DEF PreferredHasNoTail
  <2>1. CASE pc = "groups"
    BY <2>1 DEF IInv, LoopInv, PreferredHasNoTail
  <2>2. CASE pc = "batches"
    <3>1. isa \in Vector /\ block % Preferred(isa) = 0 /\ blocks \in Nat /\ block \in 0 .. blocks
      BY <2>2, KernelAssumption DEF IInv, LoopInv, Vector
    <3>2. ~(block + Preferred(isa) <= Batched(isa, blocks))
      BY <1>1, <2>2 DEF InLoop, Stride
    <3> QED BY <3>1, <3>2, NothingLeft
  <2> QED BY <1>1, <2>1, <2>2
<1>5. Descends
  <2> DEFINE left == (blocks - block) * (Rounds + 2)
  <2>1. left \in Nat /\ left' = left
    BY <1>1, Rooms DEF IInv
  <2> HIDE DEF left
  <2>2. Left = left + (IF pc = "batches" THEN 3 ELSE 2)
    BY <1>1, <1>2, <2>1 DEF Left, left
  <2>3. Left' = left + (IF pc' = "groups" THEN 2 ELSE 1)
    BY <1>1, <1>2, <2>1 DEF Left, left
  <2> QED BY <1>1, <2>1, <2>2, <2>3 DEF Descends
<1> QED BY <1>3, <1>4, <1>5 DEF IInv

\* The scalar loop writes one block, and there is one only if the rest is not empty.
LEMMA TailBlockStep ==
  ASSUME IInv, TailBlock
  PROVE  IInv' /\ Descends
<1>1. /\ UNCHANGED <<isa, blocks, groups, round, pc>> /\ pc = "tail" /\ block < blocks
      /\ block' = block + 1
  BY DEF TailBlock, args
<1>2. groups = <<>> /\ Rounds \in Nat
  BY <1>1, KernelAssumption DEF IInv, LoopInv, InLoop
<1>3. IInv'
  BY <1>1, <1>2 DEF IInv, LoopInv, PreferredHasNoTail
<1>4. Descends
  <2> DEFINE n == blocks - block
             r == Rounds + 2
  <2>1. n \in Nat \ {0} /\ r \in Nat \ {0} /\ blocks' - block' = n - 1
    BY <1>1, <1>2 DEF IInv, LoopInv
  <2>2. Left = n * r + 1
    BY <1>1, <1>2, Rooms DEF Left, IInv
  <2> HIDE DEF n
  <2>3. Left' = (n - 1) * r + 1
    BY <1>1, <1>2, <2>1 DEF Left
  <2>4. n * r = (n - 1) * r + r /\ (n - 1) * r \in Nat
    BY <2>1
  <2> QED BY <2>1, <2>2, <2>3, <2>4 DEF Descends
<1> QED BY <1>3, <1>4

\* The call returns when there is nothing left.
LEMMA ReturnStep ==
  ASSUME IInv, Return
  PROVE  IInv' /\ Descends
<1>1. /\ UNCHANGED <<isa, blocks, block, groups, round>> /\ pc = "tail" /\ pc' = "done"
      /\ block >= blocks
  BY DEF Return, args
<1>2. groups = <<>>
  BY <1>1 DEF IInv, LoopInv, InLoop
<1>3. IInv'
  BY <1>1, <1>2 DEF IInv, LoopInv, PreferredHasNoTail
<1>4. Descends
  <2> DEFINE left == (blocks - block) * (Rounds + 2)
  <2>1. left \in Nat /\ left' = left
    BY <1>1, Rooms DEF IInv
  <2> HIDE DEF left
  <2>2. Left = left + 1 /\ Left' = left
    BY <1>1, <1>2, <2>1 DEF Left, left
  <2> QED BY <2>1, <2>2 DEF Descends
<1> QED BY <1>3, <1>4

---------------------------------------------------------------------------

\* Every step keeps the invariant; one that changes anything brings the end nearer.
LEMMA NextStep == IInv /\ [Next]_vars => IInv' /\ (vars' # vars => Descends)
<1> SUFFICES ASSUME IInv, [Next]_vars PROVE IInv' /\ (vars' # vars => Descends)
  OBVIOUS
<1>1. CASE Step
  BY <1>1, LoadStep, RoundStep, StoreStep, LoopEndsStep, TailBlockStep, ReturnStep DEF Step
<1>2. CASE UNCHANGED vars
  BY <1>2 DEF vars, args, IInv, LoopInv, PreferredHasNoTail, InLoop, Stride
<1> QED BY <1>1, <1>2 DEF Next

\* The inductive invariant of the kernels' loops.  (kernel_neon.hpp 179-247)
THEOREM KernelInvariant == Spec => []IInv
BY InitInv, NextStep, PTL DEF Spec

\* A multiple of preferred_blocks never reaches the tail with work left.
THEOREM PreferredNeverHasTail == Spec => []PreferredHasNoTail
<1>1. IInv => PreferredHasNoTail
  BY DEF IInv
<1> QED BY <1>1, KernelInvariant, PTL

\* No call stops short of the blocks it was asked for, or goes on for ever.
THEOREM KernelCallsReturn == Spec => KernelReturns
<1>1. IInv /\ [Next]_vars => [0 <= Left' /\ Left' < Left]_vars
  BY NextStep DEF Descends
<1> QED BY <1>1, KernelInvariant, PTL DEF Spec, KernelReturns

---------------------------------------------------------------------------
(* The rounds. *)

\* The block and the key after each round are those of the loop.
LEMMA ProgressDef ==
  ASSUME NEW c, NEW k
  PROVE  Progress(c, k) =
           [r \in 1 .. Rounds |-> IF r = 1 THEN [c |-> PhiloxRound(c, k), k |-> k]
                                  ELSE LaterRound(Progress(c, k)[r - 1])]
<1> DEFINE one == [c |-> PhiloxRound(c, k), k |-> k]
           Run(f, n) == f = [r \in 1 .. n |-> IF r = 1 THEN one ELSE LaterRound(f[r - 1])]
           S == {n \in Nat : \E f : Run(f, n)}
<1> HIDE DEF one
<1>1. 0 \in S
  <2>1. Run([r \in 1 .. 0 |-> one], 0)
    OBVIOUS
  <2> QED BY <2>1
<1>2. \A n \in Nat : n \in S => n + 1 \in S
  <2> SUFFICES ASSUME NEW n \in Nat, NEW f, Run(f, n) PROVE \E g : Run(g, n + 1)
    OBVIOUS
  <2> DEFINE g == [r \in 1 .. n + 1 |-> IF r = 1 THEN one ELSE LaterRound(f[r - 1])]
  <2>1. \A r \in 1 .. n : g[r] = f[r]
    OBVIOUS
  <2>2. \A r \in 2 .. n + 1 : g[r - 1] = f[r - 1]
    BY <2>1
  <2>3. Run(g, n + 1)
    BY <2>2
  <2> QED BY <2>3
<1>3. Rounds \in S
  <2>1. Nat \subseteq S
    <3> HIDE DEF S
    <3> QED BY <1>1, <1>2, SetInduction
  <2>2. Rounds \in Nat
    BY KernelAssumption
  <2> HIDE DEF S
  <2> QED BY <2>1, <2>2
<1>4. Progress(c, k) = CHOOSE f : Run(f, Rounds)
  BY DEF Progress, one
<1>5. Run(Progress(c, k), Rounds)
  BY <1>3, <1>4
<1> QED BY <1>5 DEF one

\* What the registers of a lane hold after r rounds: the block, and the key of the next.
StateAt(c, k, r) ==
  IF r = 0 THEN [c |-> c, k |-> k]
  ELSE [c |-> Progress(c, k)[r].c, k |-> BumpKey(Progress(c, k)[r].k)]

\* A round of the vector kernels bumps the key after it, one of the scalar before it.
LEMMA StateStep ==
  ASSUME NEW c, NEW k, NEW r \in 0 .. Rounds - 1
  PROVE  StateAt(c, k, r + 1) = [c |-> PhiloxRound(StateAt(c, k, r).c, StateAt(c, k, r).k),
                                 k |-> BumpKey(StateAt(c, k, r).k)]
<1> DEFINE p == Progress(c, k)
<1>1. Rounds \in Nat /\ r + 1 \in 1 .. Rounds /\ r + 1 # 0
  BY KernelAssumption
<1>2. p[r + 1] = IF r + 1 = 1 THEN [c |-> PhiloxRound(c, k), k |-> k] ELSE LaterRound(p[(r + 1) - 1])
  <2>1. p = [q \in 1 .. Rounds |-> IF q = 1 THEN [c |-> PhiloxRound(c, k), k |-> k]
                                   ELSE LaterRound(p[q - 1])]
    BY ProgressDef
  <2> HIDE DEF p
  <2> QED BY <1>1, <2>1
<1>3. StateAt(c, k, r + 1) = [c |-> p[r + 1].c, k |-> BumpKey(p[r + 1].k)]
  BY <1>1 DEF StateAt
<1>4. CASE r = 0
  <2>1. p[r + 1] = [c |-> PhiloxRound(c, k), k |-> k]
    BY <1>2, <1>4
  <2>2. StateAt(c, k, r) = [c |-> c, k |-> k]
    BY <1>4 DEF StateAt
  <2> HIDE DEF p
  <2> QED BY <1>3, <2>1, <2>2
<1>5. CASE r # 0
  <2>1. p[r + 1] = LaterRound(p[r])
    <3>1. (r + 1) - 1 = r /\ r + 1 # 1
      BY <1>5
    <3> HIDE DEF p
    <3> QED BY <1>2, <3>1
  <2>2. StateAt(c, k, r) = [c |-> p[r].c, k |-> BumpKey(p[r].k)]
    BY <1>5 DEF StateAt
  <2> HIDE DEF p
  <2> QED BY <1>3, <2>1, <2>2 DEF LaterRound
<1> QED BY <1>4, <1>5

\* After the last round a lane holds a block of the stream.
LEMMA StateAtEnd ==
  ASSUME NEW c, NEW k
  PROVE  /\ StateAt(c, k, Rounds).c = Philox4x32(c, k)
         /\ Philox4x32(c, k) = [w \in 0 .. 3 |-> Philox4x32(c, k)[w]]
<1>1. Rounds \in Nat \ {0} /\ Rounds - 1 \in 0 .. Rounds - 1 /\ (Rounds - 1) + 1 = Rounds
  BY KernelAssumption
<1>2. StateAt(c, k, Rounds).c = Philox4x32(c, k)
  BY <1>1 DEF StateAt, Philox4x32
<1>3. PICK a, b : StateAt(c, k, Rounds) = [c |-> PhiloxRound(a, b), k |-> BumpKey(b)]
  <2>1. StateAt(c, k, (Rounds - 1) + 1) =
          [c |-> PhiloxRound(StateAt(c, k, Rounds - 1).c, StateAt(c, k, Rounds - 1).k),
           k |-> BumpKey(StateAt(c, k, Rounds - 1).k)]
    BY <1>1, StateStep
  <2> QED BY <1>1, <2>1
<1>4. Philox4x32(c, k) = PhiloxRound(a, b)
  BY <1>2, <1>3
<1>5. PhiloxRound(a, b) = [w \in 0 .. 3 |-> PhiloxRound(a, b)[w]]
  BY DEF PhiloxRound, FourWords
<1> QED BY <1>2, <1>4, <1>5

\* Both vector multiplications give every lane the two halves of its product.
LEMMA X86Lanes ==
  ASSUME NEW x, NEW m, NEW n \in {8, 16}, DOMAIN x = 0 .. n - 1
  PROVE  /\ DOMAIN X86Halves(x, m).lo = DOMAIN x /\ DOMAIN X86Halves(x, m).hi = DOMAIN x
         /\ \A j \in DOMAIN x : /\ X86Halves(x, m).lo[j] = MulLo(m, x[j])
                            /\ X86Halves(x, m).hi[j] = MulHi(m, x[j])
<1> DEFINE L == 0 .. n - 1
           down == ShiftDown(x)
           even == MulEven(x, m)
           odd  == MulEven(down, m)
<1>1. \A j \in L : /\ j % 2 \in {0, 1} /\ j % 2 = 0 => j + 1 \in L /\ (j + 1) % 2 = 1 /\ (j + 1) - 1 = j
                   /\ j % 2 # 0 => j - 1 \in L /\ (j - 1) % 2 = 0 /\ (j - 1) + 1 = j
  OBVIOUS
<1>2. DOMAIN down = L /\ \A j \in L : j % 2 = 0 => down[j] = x[j + 1]
  BY DEF ShiftDown
<1>3. DOMAIN even = L /\ \A j \in L : even[j] = IF j % 2 = 0 THEN (m * x[j]) % Base ELSE (m * x[j - 1]) \div Base
  BY DEF MulEven
<1> HIDE DEF down
<1>4. DOMAIN odd = L /\ \A j \in L : odd[j] = IF j % 2 = 0 THEN (m * down[j]) % Base ELSE (m * down[j - 1]) \div Base
  BY <1>2 DEF MulEven
<1> HIDE DEF even, odd
<1>5. PackLo(even, odd) = [j \in L |-> MulLo(m, x[j])]
  <2> DEFINE up == ShiftUp(odd)
  <2>1. DOMAIN up = L /\ \A j \in L : j % 2 = 1 => up[j] = odd[j - 1]
    BY <1>4 DEF ShiftUp
  <2> HIDE DEF up
  <2>2. BlendOdd(even, up) = [j \in L |-> IF j % 2 = 1 THEN up[j] ELSE even[j]]
    BY <1>3 DEF BlendOdd
  <2>3. \A j \in L : (IF j % 2 = 1 THEN up[j] ELSE even[j]) = (m * x[j]) % Base
    BY <1>1, <1>2, <1>3, <1>4, <2>1
  <2> QED BY <2>2, <2>3 DEF PackLo, MulLo, up
<1>6. PackHi(even, odd) = [j \in L |-> MulHi(m, x[j])]
  <2> DEFINE d == ShiftDown(even)
  <2>1. DOMAIN d = L /\ \A j \in L : j % 2 = 0 => d[j] = even[j + 1]
    BY <1>3 DEF ShiftDown
  <2> HIDE DEF d
  <2>2. BlendOdd(d, odd) = [j \in L |-> IF j % 2 = 1 THEN odd[j] ELSE d[j]]
    BY <2>1 DEF BlendOdd
  <2>3. \A j \in L : (IF j % 2 = 1 THEN odd[j] ELSE d[j]) = (m * x[j]) \div Base
    BY <1>1, <1>2, <1>3, <1>4, <2>1
  <2> QED BY <2>2, <2>3 DEF PackHi, MulHi, d
<1> QED BY <1>5, <1>6 DEF X86Halves, even, odd, down

\* The two halves of a product in NEON's four lanes are those of each lane.
LEMMA NeonLanes ==
  ASSUME NEW x, NEW m
  PROVE  /\ DOMAIN NeonHalves(x, m).lo = 0 .. 3 /\ DOMAIN NeonHalves(x, m).hi = 0 .. 3
         /\ \A j \in 0 .. 3 : /\ NeonHalves(x, m).lo[j] = MulLo(m, x[j])
                            /\ NeonHalves(x, m).hi[j] = MulHi(m, x[j])
<1> DEFINE low == MulLow(x, m)
           high == MulHigh(x, m)
<1>1. /\ low[0] = m * x[0] /\ low[1] = m * x[1]
      /\ high[0] = m * x[2] /\ high[1] = m * x[3]
  BY DEF MulLow, MulHigh
<1> HIDE DEF low, high
<1>2. \A j \in 0 .. 3 : (IF j < 2 THEN low[j] ELSE high[j - 2]) = m * x[j]
  <2> SUFFICES ASSUME NEW j \in 0 .. 3 PROVE (IF j < 2 THEN low[j] ELSE high[j - 2]) = m * x[j]
    OBVIOUS
  <2>1. CASE j = 0
    BY <1>1, <2>1
  <2>2. CASE j = 1
    BY <1>1, <2>2
  <2>3. CASE j = 2
    BY <1>1, <2>3
  <2>4. CASE j = 3
    BY <1>1, <2>4
  <2> QED BY <2>1, <2>2, <2>3, <2>4
<1>3. NarrowLow(low, high) = [j \in 0 .. 3 |-> (m * x[j]) % Base]
  BY <1>2 DEF NarrowLow
<1>4. NarrowHigh(low, high) = [j \in 0 .. 3 |-> (m * x[j]) \div Base]
  BY <1>2 DEF NarrowHigh
<1> QED BY <1>3, <1>4 DEF NeonHalves, low, high, MulLo, MulHi

\* The four registers of a group of isa i have its width.
IsGroup(i, g) == \A w \in 1 .. 4 : DOMAIN g.x[w] = 0 .. Width(i) - 1

\* Block of lane j.
LaneBlock(g, j) == [w \in 0 .. 3 |-> g.x[w + 1][j]]

(***************************************************************************)
(* A vector round is a scalar round of every lane.                         *)
(***************************************************************************)
LEMMA RoundOfLanes ==
  ASSUME NEW i \in Vector, NEW g, IsGroup(i, g)
  PROVE  /\ IsGroup(i, RoundGroup(i, g))
         /\ RoundGroup(i, g).k = BumpKey(g.k)
         /\ \A j \in 0 .. Width(i) - 1 :
              LaneBlock(RoundGroup(i, g), j) = PhiloxRound(LaneBlock(g, j), g.k)
<1> DEFINE L  == 0 .. Width(i) - 1
           p0 == IF i = "neon" THEN NeonHalves(g.x[1], M0) ELSE X86Halves(g.x[1], M0)
           p1 == IF i = "neon" THEN NeonHalves(g.x[3], M1) ELSE X86Halves(g.x[3], M1)
           r  == RoundGroup(i, g)
<1>1. /\ DOMAIN p0.lo = L /\ DOMAIN p0.hi = L /\ DOMAIN p1.lo = L /\ DOMAIN p1.hi = L
      /\ \A j \in L : /\ p0.lo[j] = MulLo(M0, g.x[1][j]) /\ p0.hi[j] = MulHi(M0, g.x[1][j])
                      /\ p1.lo[j] = MulLo(M1, g.x[3][j]) /\ p1.hi[j] = MulHi(M1, g.x[3][j])
  <2> DEFINE a == g.x[1]
             c == g.x[3]
             n == Width(i)
  <2>1. DOMAIN a = 0 .. n - 1 /\ DOMAIN c = 0 .. n - 1 /\ L = 0 .. n - 1
    BY DEF IsGroup
  <2> HIDE DEF a, c, n, L
  <2>2. CASE i = "neon"
    <3>1. p0 = NeonHalves(a, M0) /\ p1 = NeonHalves(c, M1) /\ n = 4
      BY <2>2, Widths DEF a, c, n
    <3> HIDE DEF p0, p1
    <3>2. L = 0 .. 3
      BY <2>1, <3>1
    <3> QED BY <3>1, <3>2, NeonLanes DEF a, c
  <2>3. CASE i # "neon"
    <3>1. p0 = X86Halves(a, M0) /\ p1 = X86Halves(c, M1)
      BY <2>3 DEF a, c
    <3>2. n \in {8, 16}
      BY <2>3, Widths DEF Vector, n
    <3> HIDE DEF p0, p1
    <3>5. \E l \in {8, 16} : DOMAIN a = 0 .. l - 1 /\ DOMAIN c = 0 .. l - 1
      BY <2>1, <3>2
    <3>3. /\ DOMAIN X86Halves(a, M0).lo = DOMAIN a /\ DOMAIN X86Halves(a, M0).hi = DOMAIN a
          /\ \A j \in DOMAIN a : /\ X86Halves(a, M0).lo[j] = MulLo(M0, a[j])
                                 /\ X86Halves(a, M0).hi[j] = MulHi(M0, a[j])
      BY <3>5, X86Lanes
    <3>4. /\ DOMAIN X86Halves(c, M1).lo = DOMAIN c /\ DOMAIN X86Halves(c, M1).hi = DOMAIN c
          /\ \A j \in DOMAIN c : /\ X86Halves(c, M1).lo[j] = MulLo(M1, c[j])
                                 /\ X86Halves(c, M1).hi[j] = MulHi(M1, c[j])
      BY <3>5, X86Lanes
    <3> QED BY <2>1, <3>1, <3>3, <3>4 DEF a, c
  <2> QED BY <2>2, <2>3
<1>2. r = [x |-> <<XorLanes(p1.hi, g.x[2], g.k[0]), p1.lo, XorLanes(p0.hi, g.x[4], g.k[1]), p0.lo>>,
           k |-> BumpKey(g.k)]
  BY DEF RoundGroup
<1> HIDE DEF p0, p1, r
<1>3. /\ DOMAIN r.x[1] = L /\ DOMAIN r.x[2] = L /\ DOMAIN r.x[3] = L /\ DOMAIN r.x[4] = L
      /\ \A j \in L : /\ r.x[1][j] = Xor(Xor(MulHi(M1, g.x[3][j]), g.x[2][j]), g.k[0])
                      /\ r.x[2][j] = MulLo(M1, g.x[3][j])
                      /\ r.x[3][j] = Xor(Xor(MulHi(M0, g.x[1][j]), g.x[4][j]), g.k[1])
                      /\ r.x[4][j] = MulLo(M0, g.x[1][j])
      /\ r.k = BumpKey(g.k)
  <2> HIDE DEF L
  <2> QED BY <1>1, <1>2 DEF XorLanes
<1>4. IsGroup(i, r)
  <2>1. /\ DOMAIN r.x[1] = L /\ DOMAIN r.x[2] = L
        /\ DOMAIN r.x[3] = L /\ DOMAIN r.x[4] = L
    <3> HIDE DEF L
    <3> QED BY <1>3
  <2> HIDE DEF L
  <2>2. \A w \in 1 .. 4 : DOMAIN r.x[w] = L
    BY <2>1
  <2> QED BY <2>2 DEF IsGroup, L
<1>5. ASSUME NEW j \in L PROVE LaneBlock(r, j) = PhiloxRound(LaneBlock(g, j), g.k)
  <2> DEFINE b == LaneBlock(g, j)
  <2>1. b[0] = g.x[1][j] /\ b[1] = g.x[2][j] /\ b[2] = g.x[3][j] /\ b[3] = g.x[4][j]
    BY DEF LaneBlock
  <2> HIDE DEF b, L
  <2>2. /\ r.x[1][j] = Xor(Xor(MulHi(M1, b[2]), b[1]), g.k[0])
        /\ r.x[2][j] = MulLo(M1, b[2])
        /\ r.x[3][j] = Xor(Xor(MulHi(M0, b[0]), b[3]), g.k[1])
        /\ r.x[4][j] = MulLo(M0, b[0])
    BY <1>3, <2>1
  <2> DEFINE q == PhiloxRound(b, g.k)
  <2>3. /\ q = [w \in 0 .. 3 |-> q[w]]
        /\ q[0] = Xor(Xor(MulHi(M1, b[2]), b[1]), g.k[0])
        /\ q[1] = MulLo(M1, b[2])
        /\ q[2] = Xor(Xor(MulHi(M0, b[0]), b[3]), g.k[1])
        /\ q[3] = MulLo(M0, b[0])
    BY DEF PhiloxRound, FourWords
  <2> HIDE DEF q
  <2>4. \A w \in 0 .. 3 : r.x[w + 1][j] = q[w]
    <3>1. /\ r.x[1][j] = q[0] /\ r.x[2][j] = q[1]
          /\ r.x[3][j] = q[2] /\ r.x[4][j] = q[3]
      BY <2>2, <2>3
    <3> QED BY <3>1
  <2>5. LaneBlock(r, j) = q
    BY <2>3, <2>4 DEF LaneBlock
  <2> QED BY <2>5 DEF q, b
<1> QED BY <1>3, <1>4, <1>5 DEF r

---------------------------------------------------------------------------
(* The stores. *)

\* The words of a 128-bit lane after the two 32-bit interleaves.
LEMMA Unpacked32 ==
  ASSUME NEW a, NEW b, NEW q \in Nat, \A v \in 0 .. 3 : 4 * q + v \in DOMAIN a
  PROVE  /\ UnpackLo32(a, b)[4 * q] = a[4 * q]         /\ UnpackLo32(a, b)[4 * q + 1] = b[4 * q]
         /\ UnpackLo32(a, b)[4 * q + 2] = a[4 * q + 1] /\ UnpackLo32(a, b)[4 * q + 3] = b[4 * q + 1]
         /\ UnpackHi32(a, b)[4 * q] = a[4 * q + 2]     /\ UnpackHi32(a, b)[4 * q + 1] = b[4 * q + 2]
         /\ UnpackHi32(a, b)[4 * q + 2] = a[4 * q + 3] /\ UnpackHi32(a, b)[4 * q + 3] = b[4 * q + 3]
<1> DEFINE i0 == 4 * q
           i1 == 4 * q + 1
           i2 == 4 * q + 2
           i3 == 4 * q + 3
<1>1. /\ i0 % 2 = 0 /\ i1 % 2 # 0 /\ i2 % 2 = 0 /\ i3 % 2 # 0
      /\ Quad(i0) + ((i0 % 4) \div 2) = i0 /\ Quad(i1) + ((i1 % 4) \div 2) = i0
      /\ Quad(i2) + ((i2 % 4) \div 2) = i1 /\ Quad(i3) + ((i3 % 4) \div 2) = i1
      /\ Quad(i0) + 2 + ((i0 % 4) \div 2) = i2 /\ Quad(i1) + 2 + ((i1 % 4) \div 2) = i2
      /\ Quad(i2) + 2 + ((i2 % 4) \div 2) = i3 /\ Quad(i3) + 2 + ((i3 % 4) \div 2) = i3
  BY DEF Quad
<1>2. {i0, i1, i2, i3} \subseteq DOMAIN a
  <2>1. 4 * q + 0 = i0
    OBVIOUS
  <2> QED BY <2>1
<1> HIDE DEF i0, i1, i2, i3
<1>3. /\ UnpackLo32(a, b)[i0] = a[i0] /\ UnpackLo32(a, b)[i1] = b[i0]
      /\ UnpackLo32(a, b)[i2] = a[i1] /\ UnpackLo32(a, b)[i3] = b[i1]
  BY <1>1, <1>2 DEF UnpackLo32
<1>4. /\ UnpackHi32(a, b)[i0] = a[i2] /\ UnpackHi32(a, b)[i1] = b[i2]
      /\ UnpackHi32(a, b)[i2] = a[i3] /\ UnpackHi32(a, b)[i3] = b[i3]
  BY <1>1, <1>2 DEF UnpackHi32
<1> QED BY <1>3, <1>4 DEF i0, i1, i2, i3

\* And after the 64-bit interleaves.
LEMMA Unpacked64 ==
  ASSUME NEW a, NEW b, NEW q \in Nat, \A v \in 0 .. 3 : 4 * q + v \in DOMAIN a
  PROVE  /\ UnpackLo64(a, b)[4 * q] = a[4 * q]         /\ UnpackLo64(a, b)[4 * q + 1] = a[4 * q + 1]
         /\ UnpackLo64(a, b)[4 * q + 2] = b[4 * q]     /\ UnpackLo64(a, b)[4 * q + 3] = b[4 * q + 1]
         /\ UnpackHi64(a, b)[4 * q] = a[4 * q + 2]     /\ UnpackHi64(a, b)[4 * q + 1] = a[4 * q + 3]
         /\ UnpackHi64(a, b)[4 * q + 2] = b[4 * q + 2] /\ UnpackHi64(a, b)[4 * q + 3] = b[4 * q + 3]
<1> DEFINE i0 == 4 * q
           i1 == 4 * q + 1
           i2 == 4 * q + 2
           i3 == 4 * q + 3
<1>1. /\ i0 % 4 < 2 /\ i1 % 4 < 2 /\ ~(i2 % 4 < 2) /\ ~(i3 % 4 < 2)
      /\ i0 + 2 = i2 /\ i1 + 2 = i3 /\ i2 - 2 = i0 /\ i3 - 2 = i1
  OBVIOUS
<1>2. {i0, i1, i2, i3} \subseteq DOMAIN a
  <2>1. 4 * q + 0 = i0
    OBVIOUS
  <2> QED BY <2>1
<1> HIDE DEF i0, i1, i2, i3
<1>3. /\ UnpackLo64(a, b)[i0] = a[i0] /\ UnpackLo64(a, b)[i1] = a[i1]
      /\ UnpackLo64(a, b)[i2] = b[i0] /\ UnpackLo64(a, b)[i3] = b[i1]
  BY <1>1, <1>2 DEF UnpackLo64
<1>4. /\ UnpackHi64(a, b)[i0] = a[i2] /\ UnpackHi64(a, b)[i1] = a[i3]
      /\ UnpackHi64(a, b)[i2] = b[i2] /\ UnpackHi64(a, b)[i3] = b[i3]
  BY <1>1, <1>2 DEF UnpackHi64
<1> QED BY <1>3, <1>4 DEF i0, i1, i2, i3

\* The four registers between the interleaves and the lane shuffles.
Transposed(x) ==
  LET t0 == UnpackLo32(x[1], x[2])   t1 == UnpackHi32(x[1], x[2])
      t2 == UnpackLo32(x[3], x[4])   t3 == UnpackHi32(x[3], x[4])
  IN  <<UnpackLo64(t0, t2), UnpackHi64(t0, t2), UnpackLo64(t1, t3), UnpackHi64(t1, t3)>>

\* Block r of a 128-bit lane, word by word.
LEMMA TransposedLane ==
  ASSUME NEW x, NEW D, \A w \in 1 .. 4 : DOMAIN x[w] = D,
         NEW q \in Nat, \A v \in 0 .. 3 : 4 * q + v \in D
  PROVE  /\ \A r \in 1 .. 4 : DOMAIN Transposed(x)[r] = D
         /\ \A r \in 0 .. 3, w \in 0 .. 3 : Transposed(x)[r + 1][4 * q + w] = x[w + 1][4 * q + r]
<1> DEFINE a == x[1]
           b == x[2]
           c == x[3]
           d == x[4]
           t0 == UnpackLo32(a, b)
           t1 == UnpackHi32(a, b)
           t2 == UnpackLo32(c, d)
           t3 == UnpackHi32(c, d)
           r0 == UnpackLo64(t0, t2)
           r1 == UnpackHi64(t0, t2)
           r2 == UnpackLo64(t1, t3)
           r3 == UnpackHi64(t1, t3)
<1>1. DOMAIN a = D /\ DOMAIN b = D /\ DOMAIN c = D /\ DOMAIN d = D
  OBVIOUS
<1>2. Transposed(x) = <<r0, r1, r2, r3>>
  BY DEF Transposed
<1> HIDE DEF a, b, c, d
<1>3. /\ t0[4 * q] = a[4 * q]         /\ t0[4 * q + 1] = b[4 * q]
      /\ t0[4 * q + 2] = a[4 * q + 1] /\ t0[4 * q + 3] = b[4 * q + 1]
      /\ t1[4 * q] = a[4 * q + 2]     /\ t1[4 * q + 1] = b[4 * q + 2]
      /\ t1[4 * q + 2] = a[4 * q + 3] /\ t1[4 * q + 3] = b[4 * q + 3]
  BY <1>1, Unpacked32
<1>4. /\ t2[4 * q] = c[4 * q]         /\ t2[4 * q + 1] = d[4 * q]
      /\ t2[4 * q + 2] = c[4 * q + 1] /\ t2[4 * q + 3] = d[4 * q + 1]
      /\ t3[4 * q] = c[4 * q + 2]     /\ t3[4 * q + 1] = d[4 * q + 2]
      /\ t3[4 * q + 2] = c[4 * q + 3] /\ t3[4 * q + 3] = d[4 * q + 3]
  BY <1>1, Unpacked32
<1>5. DOMAIN t0 = D /\ DOMAIN t1 = D
  BY <1>1 DEF UnpackLo32, UnpackHi32
<1> HIDE DEF t0, t1, t2, t3
<1>6. /\ r0[4 * q] = t0[4 * q]         /\ r0[4 * q + 1] = t0[4 * q + 1]
      /\ r0[4 * q + 2] = t2[4 * q]     /\ r0[4 * q + 3] = t2[4 * q + 1]
      /\ r1[4 * q] = t0[4 * q + 2]     /\ r1[4 * q + 1] = t0[4 * q + 3]
      /\ r1[4 * q + 2] = t2[4 * q + 2] /\ r1[4 * q + 3] = t2[4 * q + 3]
  BY <1>5, Unpacked64
<1>7. /\ r2[4 * q] = t1[4 * q]         /\ r2[4 * q + 1] = t1[4 * q + 1]
      /\ r2[4 * q + 2] = t3[4 * q]     /\ r2[4 * q + 3] = t3[4 * q + 1]
      /\ r3[4 * q] = t1[4 * q + 2]     /\ r3[4 * q + 1] = t1[4 * q + 3]
      /\ r3[4 * q + 2] = t3[4 * q + 2] /\ r3[4 * q + 3] = t3[4 * q + 3]
  BY <1>5, Unpacked64
<1>8. DOMAIN r0 = D /\ DOMAIN r1 = D /\ DOMAIN r2 = D /\ DOMAIN r3 = D
  BY <1>5 DEF UnpackLo64, UnpackHi64
<1> HIDE DEF r0, r1, r2, r3
<1>9. \A r \in 1 .. 4 : DOMAIN Transposed(x)[r] = D
  BY <1>2, <1>8
<1>10. ASSUME NEW r \in 0 .. 3, NEW w \in 0 .. 3
       PROVE  Transposed(x)[r + 1][4 * q + w] = x[w + 1][4 * q + r]
  <2>0. 4 * q + 0 = 4 * q
    OBVIOUS
  <2> DEFINE T(k, v) == Transposed(x)[k][v]
             X(k, v) == x[k][v]
  <2>1. CASE r = 0
    <3>1. T(1, 4 * q) = X(1, 4 * q) /\ T(1, 4 * q + 1) = X(2, 4 * q)
          /\ T(1, 4 * q + 2) = X(3, 4 * q) /\ T(1, 4 * q + 3) = X(4, 4 * q)
      BY <1>2, <1>3, <1>4, <1>6 DEF a, b, c, d
    <3> HIDE DEF T, X
    <3>2. T(r + 1, 4 * q + w) = X(w + 1, 4 * q + r)
      BY <2>0, <2>1, <3>1
    <3> QED BY <3>2 DEF T, X
  <2>2. CASE r = 1
    <3>1. T(2, 4 * q) = X(1, 4 * q + 1) /\ T(2, 4 * q + 1) = X(2, 4 * q + 1)
          /\ T(2, 4 * q + 2) = X(3, 4 * q + 1) /\ T(2, 4 * q + 3) = X(4, 4 * q + 1)
      BY <1>2, <1>3, <1>4, <1>6 DEF a, b, c, d
    <3> HIDE DEF T, X
    <3>2. T(r + 1, 4 * q + w) = X(w + 1, 4 * q + r)
      BY <2>0, <2>2, <3>1
    <3> QED BY <3>2 DEF T, X
  <2>3. CASE r = 2
    <3>1. T(3, 4 * q) = X(1, 4 * q + 2) /\ T(3, 4 * q + 1) = X(2, 4 * q + 2)
          /\ T(3, 4 * q + 2) = X(3, 4 * q + 2) /\ T(3, 4 * q + 3) = X(4, 4 * q + 2)
      BY <1>2, <1>3, <1>4, <1>7 DEF a, b, c, d
    <3> HIDE DEF T, X
    <3>2. T(r + 1, 4 * q + w) = X(w + 1, 4 * q + r)
      BY <2>0, <2>3, <3>1
    <3> QED BY <3>2 DEF T, X
  <2>4. CASE r = 3
    <3>1. T(4, 4 * q) = X(1, 4 * q + 3) /\ T(4, 4 * q + 1) = X(2, 4 * q + 3)
          /\ T(4, 4 * q + 2) = X(3, 4 * q + 3) /\ T(4, 4 * q + 3) = X(4, 4 * q + 3)
      BY <1>2, <1>3, <1>4, <1>7 DEF a, b, c, d
    <3> HIDE DEF T, X
    <3>2. T(r + 1, 4 * q + w) = X(w + 1, 4 * q + r)
      BY <2>0, <2>4, <3>1
    <3> QED BY <3>2 DEF T, X
  <2> QED BY <2>1, <2>2, <2>3, <2>4
<1> QED BY <1>9, <1>10

\* The four registers of a group of n lanes.
Registers(x, n) == \A w \in 1 .. 4 : DOMAIN x[w] = 0 .. n - 1

\* Both 128-bit halves of a permutation.
LEMMA Permuted ==
  ASSUME NEW a, NEW b, DOMAIN a = 0 .. 7, NEW w \in 0 .. 3
  PROVE  /\ Permute(a, b, 0)[w] = a[0 + w] /\ Permute(a, b, 0)[4 + w] = b[0 + w]
         /\ Permute(a, b, 1)[w] = a[4 + w] /\ Permute(a, b, 1)[4 + w] = b[4 + w]
<1>1. /\ w \in 0 .. 7 /\ w < 4 /\ 4 + w \in 0 .. 7 /\ ~(4 + w < 4) /\ (4 + w) - 4 = w
  OBVIOUS
<1> QED BY <1>1 DEF Permute

\* The four 128-bit lanes of a shuffle.
LEMMA Shuffled ==
  ASSUME NEW a, NEW b, DOMAIN a = 0 .. 15, NEW p \in 0 .. 3, NEW q \in 0 .. 3, NEW w \in 0 .. 3
  PROVE  /\ DOMAIN Shuffle(a, b, p, q) = 0 .. 15
         /\ Shuffle(a, b, p, q)[w] = a[4 * p + w]
         /\ Shuffle(a, b, p, q)[4 + w] = a[4 * q + w]
         /\ Shuffle(a, b, p, q)[8 + w] = b[4 * p + w]
         /\ Shuffle(a, b, p, q)[12 + w] = b[4 * q + w]
<1> DEFINE at(r, i) == r[4 * (IF (i \div 4) % 2 = 0 THEN p ELSE q) + (i % 4)]
<1>1. Shuffle(a, b, p, q) = [i \in 0 .. 15 |-> IF i < 8 THEN at(a, i) ELSE at(b, i)]
  BY DEF Shuffle
<1>2. \A r : /\ at(r, w) = r[4 * p + w] /\ at(r, 4 + w) = r[4 * q + w]
             /\ at(r, 8 + w) = r[4 * p + w] /\ at(r, 12 + w) = r[4 * q + w]
  <2>1. /\ (w \div 4) % 2 = 0 /\ w % 4 = w
        /\ ((4 + w) \div 4) % 2 # 0 /\ (4 + w) % 4 = w
        /\ ((8 + w) \div 4) % 2 = 0 /\ (8 + w) % 4 = w
        /\ ((12 + w) \div 4) % 2 # 0 /\ (12 + w) % 4 = w
    OBVIOUS
  <2> QED BY <2>1
<1> HIDE DEF at
<1>3. /\ w \in 0 .. 15 /\ w < 8 /\ 4 + w \in 0 .. 15 /\ 4 + w < 8
      /\ 8 + w \in 0 .. 15 /\ ~(8 + w < 8) /\ 12 + w \in 0 .. 15 /\ ~(12 + w < 8)
  OBVIOUS
<1> QED BY <1>1, <1>2, <1>3

\* A lane number, as a 128-bit lane and a place in it.
LEMMA LaneSplit ==
  ASSUME NEW m \in {2, 4}, NEW j \in 0 .. 4 * m - 1
  PROVE  \E q \in 0 .. m - 1, r \in 0 .. 3 : j = 4 * q + r
<1>1. j \div 4 \in 0 .. m - 1 /\ j % 4 \in 0 .. 3 /\ j = 4 * (j \div 4) + (j % 4)
  OBVIOUS
<1> QED BY <1>1


\* The 32 words of AVX2's stores are the blocks of the 8 lanes, one after another.
LEMMA StoreAvx2Blocks ==
  ASSUME NEW x, Registers(x, 8), NEW j \in 0 .. 7, NEW w \in 0 .. 3
  PROVE  StoreAvx2(x)[4 * j + w] = x[w + 1][j]
<1> DEFINE T   == Transposed(x)
           row == <<Permute(T[1], T[2], 0), Permute(T[3], T[4], 0),
                    Permute(T[1], T[2], 1), Permute(T[3], T[4], 1)>>
           S   == StoreAvx2(x)
<1>1. PICK q \in 0 .. 1, r \in 0 .. 3 : j = 4 * q + r
  <2>1. j \in 0 .. 4 * 2 - 1 /\ 2 - 1 = 1
    OBVIOUS
  <2> QED BY <2>1, LaneSplit
<1>2. S = [i \in 0 .. 31 |-> row[(i \div 8) + 1][i % 8]]
  BY DEF StoreAvx2, Transposed
<1>3. /\ \A k \in 1 .. 4 : DOMAIN T[k] = 0 .. 7
      /\ T[r + 1][4 * q + w] = x[w + 1][4 * q + r]
  <2> DEFINE D == 0 .. 7
  <2>1. \A k \in 1 .. 4 : DOMAIN x[k] = D
    BY DEF Registers
  <2>2. (\A v \in 0 .. 3 : 4 * q + v \in D) /\ q \in Nat
    OBVIOUS
  <2> HIDE DEF D
  <2>3. /\ \A k \in 1 .. 4 : DOMAIN T[k] = D
        /\ \A k \in 0 .. 3, v \in 0 .. 3 : T[k + 1][4 * q + v] = x[v + 1][4 * q + k]
    BY <2>1, <2>2, TransposedLane
  <2> HIDE DEF T
  <2> QED BY <2>3 DEF D
<1> HIDE DEF S, T
<1>4. /\ row[1][w] = T[1][0 + w] /\ row[1][4 + w] = T[2][0 + w]
      /\ row[3][w] = T[1][4 + w] /\ row[3][4 + w] = T[2][4 + w]
  <2>0. DOMAIN T[1] = 0 .. 7
    BY <1>3
  <2>1. /\ Permute(T[1], T[2], 0)[w] = T[1][0 + w]
        /\ Permute(T[1], T[2], 0)[4 + w] = T[2][0 + w]
        /\ Permute(T[1], T[2], 1)[w] = T[1][4 + w]
        /\ Permute(T[1], T[2], 1)[4 + w] = T[2][4 + w]
    BY <2>0, Permuted
  <2>2. row[1] = Permute(T[1], T[2], 0) /\ row[3] = Permute(T[1], T[2], 1)
    OBVIOUS
  <2> HIDE DEF row
  <2> QED BY <2>1, <2>2
<1>6. /\ row[2][w] = T[3][0 + w] /\ row[2][4 + w] = T[4][0 + w]
      /\ row[4][w] = T[3][4 + w] /\ row[4][4 + w] = T[4][4 + w]
  <2>0. DOMAIN T[3] = 0 .. 7
    BY <1>3
  <2>1. /\ Permute(T[3], T[4], 0)[w] = T[3][0 + w]
        /\ Permute(T[3], T[4], 0)[4 + w] = T[4][0 + w]
        /\ Permute(T[3], T[4], 1)[w] = T[3][4 + w]
        /\ Permute(T[3], T[4], 1)[4 + w] = T[4][4 + w]
    BY <2>0, Permuted
  <2>2. row[2] = Permute(T[3], T[4], 0) /\ row[4] = Permute(T[3], T[4], 1)
    OBVIOUS
  <2> HIDE DEF row
  <2> QED BY <2>1, <2>2
<1> HIDE DEF row
<1>5. S[4 * j + w] = T[r + 1][4 * q + w]
  <2>1. CASE q = 0 /\ r = 0
    <3>1. 4 * j + w = 0 + w /\ 0 + w \in 0 .. 31 /\ ((0 + w) \div 8) + 1 = 1 /\ (0 + w) % 8 = w
      BY <1>1, <2>1
    <3> QED BY <1>2, <1>4, <2>1, <3>1
  <2>2. CASE q = 0 /\ r = 1
    <3>1. 4 * j + w = 4 + w /\ 4 + w \in 0 .. 31 /\ ((4 + w) \div 8) + 1 = 1 /\ (4 + w) % 8 = 4 + w
      BY <1>1, <2>2
    <3> QED BY <1>2, <1>4, <2>2, <3>1
  <2>3. CASE q = 0 /\ r = 2
    <3>1. 4 * j + w = 8 + w /\ 8 + w \in 0 .. 31 /\ ((8 + w) \div 8) + 1 = 2 /\ (8 + w) % 8 = w
      BY <1>1, <2>3
    <3> QED BY <1>2, <1>6, <2>3, <3>1
  <2>4. CASE q = 0 /\ r = 3
    <3>1. 4 * j + w = 12 + w /\ 12 + w \in 0 .. 31 /\ ((12 + w) \div 8) + 1 = 2 /\ (12 + w) % 8 = 4 + w
      BY <1>1, <2>4
    <3> QED BY <1>2, <1>6, <2>4, <3>1
  <2>5. CASE q = 1 /\ r = 0
    <3>1. 4 * j + w = 16 + w /\ 16 + w \in 0 .. 31 /\ ((16 + w) \div 8) + 1 = 3 /\ (16 + w) % 8 = w
      BY <1>1, <2>5
    <3> QED BY <1>2, <1>4, <2>5, <3>1
  <2>6. CASE q = 1 /\ r = 1
    <3>1. 4 * j + w = 20 + w /\ 20 + w \in 0 .. 31 /\ ((20 + w) \div 8) + 1 = 3 /\ (20 + w) % 8 = 4 + w
      BY <1>1, <2>6
    <3> QED BY <1>2, <1>4, <2>6, <3>1
  <2>7. CASE q = 1 /\ r = 2
    <3>1. 4 * j + w = 24 + w /\ 24 + w \in 0 .. 31 /\ ((24 + w) \div 8) + 1 = 4 /\ (24 + w) % 8 = w
      BY <1>1, <2>7
    <3> QED BY <1>2, <1>6, <2>7, <3>1
  <2>8. CASE q = 1 /\ r = 3
    <3>1. 4 * j + w = 28 + w /\ 28 + w \in 0 .. 31 /\ ((28 + w) \div 8) + 1 = 4 /\ (28 + w) % 8 = 4 + w
      BY <1>1, <2>8
    <3> QED BY <1>2, <1>6, <2>8, <3>1
  <2> QED BY <2>1, <2>2, <2>3, <2>4, <2>5, <2>6, <2>7, <2>8
<1> QED BY <1>1, <1>3, <1>5 DEF S

\* The 64 words of AVX-512's stores are the blocks of the 16 lanes.
LEMMA StoreAvx512Blocks ==
  ASSUME NEW x, Registers(x, 16), NEW j \in 0 .. 15, NEW w \in 0 .. 3
  PROVE  StoreAvx512(x)[4 * j + w] = x[w + 1][j]
<1> DEFINE T   == Transposed(x)
           s0  == Shuffle(T[1], T[2], 0, 1)
           s1  == Shuffle(T[3], T[4], 0, 1)
           s2  == Shuffle(T[1], T[2], 2, 3)
           s3  == Shuffle(T[3], T[4], 2, 3)
           row == <<Shuffle(s0, s1, 0, 2), Shuffle(s0, s1, 1, 3),
                    Shuffle(s2, s3, 0, 2), Shuffle(s2, s3, 1, 3)>>
           S   == StoreAvx512(x)
<1>1. PICK q \in 0 .. 3, r \in 0 .. 3 : j = 4 * q + r
  <2>1. j \in 0 .. 4 * 4 - 1 /\ 4 - 1 = 3
    OBVIOUS
  <2> QED BY <2>1, LaneSplit
<1>2. S = [i \in 0 .. 63 |-> row[(i \div 16) + 1][i % 16]]
  BY DEF StoreAvx512, Transposed
<1>3. /\ \A k \in 1 .. 4 : DOMAIN T[k] = 0 .. 15
      /\ T[r + 1][4 * q + w] = x[w + 1][4 * q + r]
  <2> DEFINE D == 0 .. 15
  <2>1. \A k \in 1 .. 4 : DOMAIN x[k] = D
    BY DEF Registers
  <2>2. (\A v \in 0 .. 3 : 4 * q + v \in D) /\ q \in Nat
    OBVIOUS
  <2> HIDE DEF D
  <2>3. /\ \A k \in 1 .. 4 : DOMAIN T[k] = D
        /\ \A k \in 0 .. 3, v \in 0 .. 3 : T[k + 1][4 * q + v] = x[v + 1][4 * q + k]
    BY <2>1, <2>2, TransposedLane
  <2> HIDE DEF T
  <2> QED BY <2>3 DEF D
<1> HIDE DEF S, T
<1>4. /\ DOMAIN s0 = 0 .. 15
      /\ s0[w] = T[1][0 + w] /\ s0[4 + w] = T[1][4 + w]
      /\ s0[8 + w] = T[2][0 + w] /\ s0[12 + w] = T[2][4 + w]
  <2>1. DOMAIN T[1] = 0 .. 15
    BY <1>3
  <2>2. 4 * 0 = 0 /\ 4 * 1 = 4
    OBVIOUS
  <2> QED BY <2>1, <2>2, Shuffled, SMTT(30)
<1>5. /\ DOMAIN s1 = 0 .. 15
      /\ s1[w] = T[3][0 + w] /\ s1[4 + w] = T[3][4 + w]
      /\ s1[8 + w] = T[4][0 + w] /\ s1[12 + w] = T[4][4 + w]
  <2>1. DOMAIN T[3] = 0 .. 15
    BY <1>3
  <2>2. 4 * 0 = 0 /\ 4 * 1 = 4
    OBVIOUS
  <2> QED BY <2>1, <2>2, Shuffled, SMTT(30)
<1>6. /\ DOMAIN s2 = 0 .. 15
      /\ s2[w] = T[1][8 + w] /\ s2[4 + w] = T[1][12 + w]
      /\ s2[8 + w] = T[2][8 + w] /\ s2[12 + w] = T[2][12 + w]
  <2>1. DOMAIN T[1] = 0 .. 15
    BY <1>3
  <2>2. 4 * 2 = 8 /\ 4 * 3 = 12
    OBVIOUS
  <2> QED BY <2>1, <2>2, Shuffled, SMTT(30)
<1>7. /\ DOMAIN s3 = 0 .. 15
      /\ s3[w] = T[3][8 + w] /\ s3[4 + w] = T[3][12 + w]
      /\ s3[8 + w] = T[4][8 + w] /\ s3[12 + w] = T[4][12 + w]
  <2>1. DOMAIN T[3] = 0 .. 15
    BY <1>3
  <2>2. 4 * 2 = 8 /\ 4 * 3 = 12
    OBVIOUS
  <2> QED BY <2>1, <2>2, Shuffled, SMTT(30)
<1> HIDE DEF s0, s1, s2, s3
<1>8. /\ row[1][w] = T[1][0 + w] /\ row[1][4 + w] = T[2][0 + w]
      /\ row[1][8 + w] = T[3][0 + w] /\ row[1][12 + w] = T[4][0 + w]
  <2> DEFINE u == Shuffle(s0, s1, 0, 2)
  <2>1. /\ u[w] = s0[0 + w] /\ u[4 + w] = s0[8 + w]
        /\ u[8 + w] = s1[0 + w] /\ u[12 + w] = s1[8 + w]
    BY <1>4, Shuffled
  <2>2. row[1] = u
    OBVIOUS
  <2> HIDE DEF u, row
  <2> QED BY <1>4, <1>5, <2>1, <2>2
<1>9. /\ row[2][w] = T[1][4 + w] /\ row[2][4 + w] = T[2][4 + w]
      /\ row[2][8 + w] = T[3][4 + w] /\ row[2][12 + w] = T[4][4 + w]
  <2> DEFINE u == Shuffle(s0, s1, 1, 3)
  <2>1. /\ u[w] = s0[4 + w] /\ u[4 + w] = s0[12 + w]
        /\ u[8 + w] = s1[4 + w] /\ u[12 + w] = s1[12 + w]
    BY <1>4, Shuffled
  <2>2. row[2] = u
    OBVIOUS
  <2> HIDE DEF u, row
  <2> QED BY <1>4, <1>5, <2>1, <2>2
<1>10. /\ row[3][w] = T[1][8 + w] /\ row[3][4 + w] = T[2][8 + w]
      /\ row[3][8 + w] = T[3][8 + w] /\ row[3][12 + w] = T[4][8 + w]
  <2> DEFINE u == Shuffle(s2, s3, 0, 2)
  <2>1. /\ u[w] = s2[0 + w] /\ u[4 + w] = s2[8 + w]
        /\ u[8 + w] = s3[0 + w] /\ u[12 + w] = s3[8 + w]
    BY <1>6, Shuffled
  <2>2. row[3] = u
    OBVIOUS
  <2> HIDE DEF u, row
  <2> QED BY <1>6, <1>7, <2>1, <2>2
<1>11. /\ row[4][w] = T[1][12 + w] /\ row[4][4 + w] = T[2][12 + w]
      /\ row[4][8 + w] = T[3][12 + w] /\ row[4][12 + w] = T[4][12 + w]
  <2> DEFINE u == Shuffle(s2, s3, 1, 3)
  <2>1. /\ u[w] = s2[4 + w] /\ u[4 + w] = s2[12 + w]
        /\ u[8 + w] = s3[4 + w] /\ u[12 + w] = s3[12 + w]
    BY <1>6, Shuffled
  <2>2. row[4] = u
    OBVIOUS
  <2> HIDE DEF u, row
  <2> QED BY <1>6, <1>7, <2>1, <2>2
<1> HIDE DEF row
<1>12. S[4 * j + w] = T[r + 1][4 * q + w]
  <2>1. CASE q = 0 /\ r = 0
    <3>1. 4 * j + w = 0 + w /\ 0 + w \in 0 .. 63 /\ ((0 + w) \div 16) + 1 = 1 /\ (0 + w) % 16 = 0 + w
      BY <1>1, <2>1
    <3> QED BY <1>2, <1>8, <2>1, <3>1
  <2>2. CASE q = 0 /\ r = 1
    <3>1. 4 * j + w = 4 + w /\ 4 + w \in 0 .. 63 /\ ((4 + w) \div 16) + 1 = 1 /\ (4 + w) % 16 = 4 + w
      BY <1>1, <2>2
    <3> QED BY <1>2, <1>8, <2>2, <3>1
  <2>3. CASE q = 0 /\ r = 2
    <3>1. 4 * j + w = 8 + w /\ 8 + w \in 0 .. 63 /\ ((8 + w) \div 16) + 1 = 1 /\ (8 + w) % 16 = 8 + w
      BY <1>1, <2>3
    <3> QED BY <1>2, <1>8, <2>3, <3>1
  <2>4. CASE q = 0 /\ r = 3
    <3>1. 4 * j + w = 12 + w /\ 12 + w \in 0 .. 63 /\ ((12 + w) \div 16) + 1 = 1 /\ (12 + w) % 16 = 12 + w
      BY <1>1, <2>4
    <3> QED BY <1>2, <1>8, <2>4, <3>1
  <2>5. CASE q = 1 /\ r = 0
    <3>1. 4 * j + w = 16 + w /\ 16 + w \in 0 .. 63 /\ ((16 + w) \div 16) + 1 = 2 /\ (16 + w) % 16 = 0 + w
      BY <1>1, <2>5
    <3> QED BY <1>2, <1>9, <2>5, <3>1
  <2>6. CASE q = 1 /\ r = 1
    <3>1. 4 * j + w = 20 + w /\ 20 + w \in 0 .. 63 /\ ((20 + w) \div 16) + 1 = 2 /\ (20 + w) % 16 = 4 + w
      BY <1>1, <2>6
    <3> QED BY <1>2, <1>9, <2>6, <3>1
  <2>7. CASE q = 1 /\ r = 2
    <3>1. 4 * j + w = 24 + w /\ 24 + w \in 0 .. 63 /\ ((24 + w) \div 16) + 1 = 2 /\ (24 + w) % 16 = 8 + w
      BY <1>1, <2>7
    <3> QED BY <1>2, <1>9, <2>7, <3>1
  <2>8. CASE q = 1 /\ r = 3
    <3>1. 4 * j + w = 28 + w /\ 28 + w \in 0 .. 63 /\ ((28 + w) \div 16) + 1 = 2 /\ (28 + w) % 16 = 12 + w
      BY <1>1, <2>8
    <3> QED BY <1>2, <1>9, <2>8, <3>1
  <2>9. CASE q = 2 /\ r = 0
    <3>1. 4 * j + w = 32 + w /\ 32 + w \in 0 .. 63 /\ ((32 + w) \div 16) + 1 = 3 /\ (32 + w) % 16 = 0 + w
      BY <1>1, <2>9
    <3> QED BY <1>2, <1>10, <2>9, <3>1
  <2>10. CASE q = 2 /\ r = 1
    <3>1. 4 * j + w = 36 + w /\ 36 + w \in 0 .. 63 /\ ((36 + w) \div 16) + 1 = 3 /\ (36 + w) % 16 = 4 + w
      BY <1>1, <2>10
    <3> QED BY <1>2, <1>10, <2>10, <3>1
  <2>11. CASE q = 2 /\ r = 2
    <3>1. 4 * j + w = 40 + w /\ 40 + w \in 0 .. 63 /\ ((40 + w) \div 16) + 1 = 3 /\ (40 + w) % 16 = 8 + w
      BY <1>1, <2>11
    <3> QED BY <1>2, <1>10, <2>11, <3>1
  <2>12. CASE q = 2 /\ r = 3
    <3>1. 4 * j + w = 44 + w /\ 44 + w \in 0 .. 63 /\ ((44 + w) \div 16) + 1 = 3 /\ (44 + w) % 16 = 12 + w
      BY <1>1, <2>12
    <3> QED BY <1>2, <1>10, <2>12, <3>1
  <2>13. CASE q = 3 /\ r = 0
    <3>1. 4 * j + w = 48 + w /\ 48 + w \in 0 .. 63 /\ ((48 + w) \div 16) + 1 = 4 /\ (48 + w) % 16 = 0 + w
      BY <1>1, <2>13
    <3> QED BY <1>2, <1>11, <2>13, <3>1
  <2>14. CASE q = 3 /\ r = 1
    <3>1. 4 * j + w = 52 + w /\ 52 + w \in 0 .. 63 /\ ((52 + w) \div 16) + 1 = 4 /\ (52 + w) % 16 = 4 + w
      BY <1>1, <2>14
    <3> QED BY <1>2, <1>11, <2>14, <3>1
  <2>15. CASE q = 3 /\ r = 2
    <3>1. 4 * j + w = 56 + w /\ 56 + w \in 0 .. 63 /\ ((56 + w) \div 16) + 1 = 4 /\ (56 + w) % 16 = 8 + w
      BY <1>1, <2>15
    <3> QED BY <1>2, <1>11, <2>15, <3>1
  <2>16. CASE q = 3 /\ r = 3
    <3>1. 4 * j + w = 60 + w /\ 60 + w \in 0 .. 63 /\ ((60 + w) \div 16) + 1 = 4 /\ (60 + w) % 16 = 12 + w
      BY <1>1, <2>16
    <3> QED BY <1>2, <1>11, <2>16, <3>1
  <2> QED BY <2>1, <2>2, <2>3, <2>4, <2>5, <2>6, <2>7, <2>8, <2>9, <2>10, <2>11, <2>12, <2>13, <2>14, <2>15, <2>16
<1> QED BY <1>1, <1>3, <1>12 DEF S

\* vst4q writes the blocks of its four lanes.
LEMMA StoreNeonBlocks ==
  ASSUME NEW x, NEW j \in 0 .. 3, NEW w \in 0 .. 3
  PROVE  Interleave(x)[4 * j + w] = x[w + 1][j]
<1>1. 4 * j + w \in 0 .. 15 /\ (4 * j + w) % 4 = w /\ (4 * j + w) \div 4 = j
  OBVIOUS
<1> QED BY <1>1 DEF Interleave

(***************************************************************************)
(* What a group stores are the blocks of its lanes, in order.              *)
(***************************************************************************)
LEMMA StoredBlocks ==
  ASSUME NEW i \in Vector, NEW g, IsGroup(i, g)
  PROVE  \A j \in 0 .. Width(i) - 1, w \in 0 .. 3 :
           StoreBlocks(i, g.x)[4 * j + w] = LaneBlock(g, j)[w]
<1> DEFINE x == g.x
<1>1. CASE i = "avx2"
  <2>1. StoreBlocks(i, x) = StoreAvx2(x) /\ Width(i) = 8
    BY <1>1, Widths DEF StoreBlocks
  <2>2. Registers(x, 8)
    BY <2>1 DEF IsGroup, Registers
  <2> QED BY <2>1, <2>2, StoreAvx2Blocks DEF LaneBlock
<1>2. CASE i = "avx512"
  <2>1. StoreBlocks(i, x) = StoreAvx512(x) /\ Width(i) = 16
    BY <1>2, Widths DEF StoreBlocks
  <2>2. Registers(x, 16)
    BY <2>1 DEF IsGroup, Registers
  <2> QED BY <2>1, <2>2, StoreAvx512Blocks DEF LaneBlock
<1>3. CASE i = "neon"
  <2>1. StoreBlocks(i, x) = Interleave(x) /\ Width(i) = 4
    BY <1>3, Widths DEF StoreBlocks
  <2> QED BY <2>1, StoreNeonBlocks DEF LaneBlock
<1> QED BY <1>1, <1>2, <1>3 DEF Vector

---------------------------------------------------------------------------
(* What has been written, and what the registers hold on the way there. *)

\* Where the loops are in the stream.
PlaceInv ==
  /\ pc \in {"batches", "groups"} => base = CounterAdd(first, block) /\ block % Width(isa) = 0
  /\ pc \in {"tail", "done"} => block >= Batched(isa, blocks)

\* Every lane is a counter of the stream, as many rounds on.
GroupInv ==
  groups # <<>> =>
    /\ DOMAIN groups = 1 .. Len(groups) /\ Len(groups) \in {1, 2}
    /\ Len(groups) * Width(isa) = Stride
    /\ \A n \in DOMAIN groups :
         /\ IsGroup(isa, groups[n])
         /\ \A j \in 0 .. Width(isa) - 1 :
              LET s == StateAt(CounterAdd(first, block + (n - 1) * Width(isa) + j), key, round)
              IN  LaneBlock(groups[n], j) = s.c /\ groups[n].k = s.k

\* The blocks written are those of the stream, and nothing lies behind them.
OutInv ==
  /\ DOMAIN out = 0 .. 4 * (MaxBlocks + 16) - 1
  /\ \A b \in 0 .. block - 1, w \in 0 .. 3 :
       out[4 * b + w] = Philox4x32(CounterAdd(first, b), key)[w]
  /\ \A i \in 4 * block .. 4 * (MaxBlocks + 16) - 1 : out[i] = Untouched

CallInv == first \in Bases /\ key \in Keys /\ blocks \in Lengths

DataInv == CallInv /\ PlaceInv /\ GroupInv /\ OutInv

\* The arguments of a call, as the lemmas on counters want them.
LEMMA CallTypes ==
  ASSUME CallInv
  PROVE  /\ first \in Counter /\ blocks \in 0 .. MaxBlocks /\ MaxBlocks \in Nat
         /\ 0 .. MaxBlocks \subseteq Wide
BY KernelAssumption, BaseType DEF CallInv, Wide

\* The widths of the vector kernels.
LEMMA VectorWidth ==
  ASSUME NEW i \in Vector
  PROVE  Width(i) \in {4, 8, 16} /\ Width(i) \in 1 .. Base
<1>1. Base \in Nat /\ Base >= 16
  BY KernelAssumption, BaseType
<1>2. Width(i) \in {4, 8, 16}
  BY Widths DEF Vector
<1> QED BY <1>1, <1>2

\* A group is loaded with the counters of its lanes.
LEMMA LoadedGroup ==
  ASSUME isa \in Vector, NEW c \in Counter
  PROVE  /\ IsGroup(isa, LoadGroup(c)) /\ LoadGroup(c).k = key
         /\ \A j \in 0 .. Width(isa) - 1 : LaneBlock(LoadGroup(c), j) = CounterAdd(c, j)
<1> DEFINE x == Lanes(isa, c, Width(isa))
<1>1. LoadGroup(c).x = x /\ LoadGroup(c).k = key
  BY DEF LoadGroup
<1>2. Width(isa) \in 1 .. Base /\ Width(isa) \in {4, 8, 16} /\ Base % 2 = 0 /\ Base >= 16 /\ Base \in Nat
  BY VectorWidth, KernelAssumption, BaseType
<1>3. IsGroup(isa, LoadGroup(c))
  <2>1. /\ DOMAIN x[1] = 0 .. Width(isa) - 1 /\ DOMAIN x[2] = 0 .. Width(isa) - 1
        /\ DOMAIN x[3] = 0 .. Width(isa) - 1 /\ DOMAIN x[4] = 0 .. Width(isa) - 1
    BY DEF Lanes
  <2> HIDE DEF x
  <2>2. \A w \in 1 .. 4 : DOMAIN x[w] = 0 .. Width(isa) - 1
    BY <2>1
  <2> QED BY <1>1, <2>2 DEF IsGroup
<1>4. ASSUME NEW j \in 0 .. Width(isa) - 1 PROVE LaneBlock(LoadGroup(c), j) = CounterAdd(c, j)
  <2>1. \A n \in 0 .. 3 : x[n + 1][j] = CounterAdd(c, j)[n]
    BY <1>2, LanesAreCounters
  <2>2. j \in Wide
    <3>1. Base * Base >= Base
      BY <1>2
    <3> QED BY <1>2, <3>1 DEF Wide
  <2>3. CounterAdd(c, j) = [n \in 0 .. 3 |-> CounterAdd(c, j)[n]]
    BY <2>2, CounterAddCorrect DEF Counter
  <2> HIDE DEF x
  <2> QED BY <1>1, <2>1, <2>3 DEF LaneBlock
<1> QED BY <1>1, <1>3, <1>4

\* A call starts at its first counter.
LEMMA DataInit == Init => DataInv
<1> SUFFICES ASSUME Init PROVE DataInv
  OBVIOUS
<1>1. CallInv /\ groups = <<>> /\ block = 0 /\ base = first
  BY DEF Init, CallInv
<1>2. first \in Counter /\ blocks \in Nat /\ MaxBlocks \in Nat
  BY <1>1, CallTypes
<1>3. PlaceInv
  <2>1. isa # "scalar" => isa \in Vector
    BY KernelAssumption DEF Init, Vector
  <2>2. isa # "scalar" => 0 % Width(isa) = 0
    <3> SUFFICES ASSUME isa # "scalar" PROVE 0 % Width(isa) = 0
      OBVIOUS
    <3> DEFINE n == Width(isa)
    <3>1. n \in {4, 8, 16}
      BY <2>1, VectorWidth
    <3> HIDE DEF n
    <3>2. 0 % n = 0
      BY <3>1
    <3> QED BY <3>2 DEF n
  <2>3. Batched("scalar", blocks) = 0
    BY DEF Batched
  <2> QED BY <1>1, <1>2, <2>2, <2>3, CounterAddZero DEF PlaceInv, Init
<1>4. OutInv
  BY <1>1, <1>2 DEF OutInv, Init
<1> QED BY <1>1, <1>3, <1>4 DEF DataInv, GroupInv

\* Loading takes the counters of the next stride.
LEMMA DataLoad ==
  ASSUME IInv, DataInv, Load
  PROVE  DataInv'
<1> DEFINE W == Width(isa)
           one == LoadGroup(base)
           two == LoadGroup(CounterAdd(base, W))
<1>1. /\ UNCHANGED <<isa, first, key, blocks, base, block, out, pc>> /\ InLoop /\ round' = 0
      /\ groups' = IF Stride = W THEN <<one>> ELSE <<one, two>>
  BY DEF Load, args
<1>2. /\ isa \in Vector /\ pc \in {"batches", "groups"} /\ block \in Nat
      /\ block + Stride <= blocks
  BY <1>1, StrideInLoop DEF IInv, LoopInv, InLoop
<1>3. W \in {4, 8, 16}
  BY <1>2, VectorWidth
<1>4. Stride = W \/ Stride = 2 * W
  <2>1. Width(isa) = Preferred(isa) \/ 2 * Width(isa) = Preferred(isa)
    BY <1>2, Widths DEF Vector
  <2> QED BY <2>1, <1>3 DEF Stride
<1>5. /\ first \in Counter /\ blocks \in 0 .. MaxBlocks /\ MaxBlocks \in Nat
      /\ 0 .. MaxBlocks \subseteq Wide /\ base = CounterAdd(first, block)
  BY <1>2, CallTypes DEF DataInv, PlaceInv
<1>6. \A n \in {1, 2}, j \in 0 .. W - 1 :
        n * W <= Stride => block + (n - 1) * W + j \in 0 .. MaxBlocks
  BY <1>2, <1>3, <1>4, <1>5
<1>7. /\ base \in Counter
      /\ IsGroup(isa, one) /\ one.k = key
      /\ \A j \in 0 .. W - 1 : LaneBlock(one, j) = CounterAdd(first, block + j)
  <2>1. base \in Counter
    <3>1. block \in Wide
      BY <1>2, <1>5, StrideInLoop, <1>1 DEF IInv
    <3> QED BY <1>5, <3>1, CounterAddCorrect
  <2>2. /\ IsGroup(isa, one) /\ one.k = key
        /\ \A j \in 0 .. W - 1 : LaneBlock(one, j) = CounterAdd(base, j)
    BY <1>2, <2>1, LoadedGroup
  <2>3. ASSUME NEW j \in 0 .. W - 1 PROVE CounterAdd(base, j) = CounterAdd(first, block + j)
    <3>1. block \in Wide /\ j \in Wide /\ block + j \in Wide
      BY <1>2, <1>3, <1>4, <1>5
    <3> QED BY <1>5, <3>1, CounterAddAdd
  <2> QED BY <2>1, <2>2, <2>3
<1>8. ASSUME Stride = 2 * W
      PROVE  /\ IsGroup(isa, two) /\ two.k = key
             /\ \A j \in 0 .. W - 1 : LaneBlock(two, j) = CounterAdd(first, block + W + j)
  <2>1. /\ block \in Wide /\ W \in Wide /\ block + W \in Wide
    BY <1>2, <1>3, <1>5, <1>8
  <2>2. CounterAdd(base, W) = CounterAdd(first, block + W)
    BY <1>5, <2>1, CounterAddAdd
  <2>3. CounterAdd(first, block + W) \in Counter
    BY <1>5, <2>1, CounterAddCorrect
  <2>4. /\ IsGroup(isa, two) /\ two.k = key
        /\ \A j \in 0 .. W - 1 : LaneBlock(two, j) = CounterAdd(CounterAdd(first, block + W), j)
    BY <1>2, <2>2, <2>3, LoadedGroup
  <2>5. ASSUME NEW j \in 0 .. W - 1
        PROVE  CounterAdd(CounterAdd(first, block + W), j) = CounterAdd(first, block + W + j)
    <3>1. j \in Wide /\ block + W + j \in Wide /\ (block + W) + j = block + W + j
      BY <1>2, <1>3, <1>5, <1>8
    <3> QED BY <1>5, <2>1, <3>1, CounterAddAdd
  <2> QED BY <2>4, <2>5
<1> HIDE DEF one, two
<1>9. /\ DOMAIN groups' = 1 .. Len(groups') /\ Len(groups') \in {1, 2}
      /\ Len(groups') * W = Stride
      /\ groups'[1] = one
      /\ Len(groups') = 2 => Stride = 2 * W /\ groups'[2] = two
  <2>1. CASE Stride = W
    <3>1. groups' = <<one>>
      BY <1>1, <2>1
    <3> QED BY <1>3, <2>1, <3>1
  <2>2. CASE Stride = 2 * W
    <3>1. groups' = <<one, two>>
      BY <1>1, <1>3, <2>2
    <3> QED BY <1>3, <2>2, <3>1
  <2> QED BY <1>4, <2>1, <2>2
<1>10. \A c : StateAt(c, key, 0) = [c |-> c, k |-> key]
  BY DEF StateAt
<1>11. ASSUME NEW n \in DOMAIN groups', NEW j \in 0 .. W - 1
       PROVE  /\ IsGroup(isa, groups'[n]) /\ groups'[n].k = key
              /\ LaneBlock(groups'[n], j) = CounterAdd(first, block + (n - 1) * W + j)
  <2>1. CASE n = 1
    <3>1. block + (n - 1) * W + j = block + j
      BY <1>2, <1>3, <2>1
    <3>2. groups'[n] = one
      BY <1>9, <2>1
    <3> HIDE DEF W
    <3>3. LaneBlock(one, j) = CounterAdd(first, block + j) /\ IsGroup(isa, one) /\ one.k = key
      BY <1>7
    <3> QED BY <3>1, <3>2, <3>3
  <2>2. CASE n = 2
    <3>1. block + (n - 1) * W + j = block + W + j /\ Len(groups') = 2
      BY <1>2, <1>3, <1>9, <1>11, <2>2
    <3>2. groups'[n] = two /\ Stride = 2 * W
      BY <1>9, <2>2, <3>1
    <3>3. LaneBlock(two, j) = CounterAdd(first, block + W + j) /\ IsGroup(isa, two) /\ two.k = key
      BY <1>8, <3>2
    <3> HIDE DEF W
    <3> QED BY <3>1, <3>2, <3>3
  <2> QED BY <1>9, <2>1, <2>2
<1>12. Stride' = Stride
  BY <1>1 DEF Stride
<1>13. GroupInv'
  <2> SUFFICES ASSUME groups' # <<>>
               PROVE  /\ DOMAIN groups' = 1 .. Len(groups') /\ Len(groups') \in {1, 2}
                      /\ Len(groups') * W = Stride
                      /\ \A n \in DOMAIN groups' :
                           /\ IsGroup(isa, groups'[n])
                           /\ \A j \in 0 .. W - 1 :
                                LET s == StateAt(CounterAdd(first, block + (n - 1) * W + j), key, 0)
                                IN  LaneBlock(groups'[n], j) = s.c /\ groups'[n].k = s.k
    BY <1>1, <1>12 DEF GroupInv
  <2>1. \A n \in DOMAIN groups' : IsGroup(isa, groups'[n])
    <3>1. 0 \in 0 .. W - 1
      BY <1>3
    <3> HIDE DEF W
    <3> QED BY <1>11, <3>1
  <2> HIDE DEF W
  <2> QED BY <1>9, <1>10, <1>11, <2>1
<1>14. CallInv' /\ PlaceInv' /\ OutInv'
  BY <1>1 DEF DataInv, CallInv, PlaceInv, OutInv
<1> QED BY <1>13, <1>14 DEF DataInv

\* A round takes every lane a round on.
LEMMA DataRound ==
  ASSUME IInv, DataInv, Round
  PROVE  DataInv'
<1> DEFINE W == Width(isa)
<1>1. /\ UNCHANGED <<isa, first, key, blocks, base, block, out, pc>> /\ groups # <<>>
      /\ round < Rounds /\ round' = round + 1
      /\ groups' = [i \in DOMAIN groups |-> RoundGroup(isa, groups[i])]
  BY DEF Round, args
<1>2. isa \in Vector /\ round \in 0 .. Rounds - 1
  BY <1>1, StrideInLoop, KernelAssumption DEF IInv, LoopInv
<1>3. /\ DOMAIN groups = 1 .. Len(groups) /\ Len(groups) \in {1, 2} /\ Len(groups) * W = Stride
      /\ \A n \in DOMAIN groups :
         /\ IsGroup(isa, groups[n])
         /\ \A j \in 0 .. W - 1 :
              LET s == StateAt(CounterAdd(first, block + (n - 1) * W + j), key, round)
              IN  LaneBlock(groups[n], j) = s.c /\ groups[n].k = s.k
  BY <1>1 DEF DataInv, GroupInv
<1>4. DOMAIN groups' = DOMAIN groups /\ Len(groups') = Len(groups)
  <2>1. DOMAIN groups' = 1 .. Len(groups) /\ Len(groups) \in Nat
    BY <1>1, <1>3
  <2> QED BY <1>3, <2>1
<1>5. ASSUME NEW n \in DOMAIN groups, NEW j \in 0 .. W - 1
      PROVE  LET s == StateAt(CounterAdd(first, block + (n - 1) * W + j), key, round + 1)
             IN  /\ IsGroup(isa, groups'[n])
                 /\ LaneBlock(groups'[n], j) = s.c /\ groups'[n].k = s.k
  <2> DEFINE c == CounterAdd(first, block + (n - 1) * W + j)
             s == StateAt(c, key, round)
             g == groups[n]
  <2>1. IsGroup(isa, g) /\ LaneBlock(g, j) = s.c /\ g.k = s.k
    BY <1>3
  <2>2. groups'[n] = RoundGroup(isa, g)
    BY <1>1
  <2>3. StateAt(c, key, round + 1) = [c |-> PhiloxRound(s.c, s.k), k |-> BumpKey(s.k)]
    BY <1>2, StateStep
  <2> HIDE DEF g, s, c
  <2>4. /\ IsGroup(isa, RoundGroup(isa, g)) /\ RoundGroup(isa, g).k = BumpKey(g.k)
        /\ LaneBlock(RoundGroup(isa, g), j) = PhiloxRound(LaneBlock(g, j), g.k)
    BY <1>2, <2>1, RoundOfLanes
  <2>5. LET t == StateAt(c, key, round + 1)
        IN  /\ IsGroup(isa, groups'[n])
            /\ LaneBlock(groups'[n], j) = t.c /\ groups'[n].k = t.k
    BY <2>1, <2>2, <2>3, <2>4
  <2> QED BY <2>5 DEF c
<1>6. Stride' = Stride
  BY <1>1 DEF Stride
<1>7. GroupInv'
  <2>1. \A n \in DOMAIN groups : IsGroup(isa, groups'[n])
    <3>1. 0 \in 0 .. W - 1
      BY <1>2, VectorWidth
    <3> HIDE DEF W
    <3> QED BY <1>5, <3>1
  <2>2. \A n \in DOMAIN groups, j \in 0 .. W - 1 :
          LET s == StateAt(CounterAdd(first, block + (n - 1) * W + j), key, round + 1)
          IN  LaneBlock(groups'[n], j) = s.c /\ groups'[n].k = s.k
    BY <1>5
  <2>3. /\ DOMAIN groups' = 1 .. Len(groups') /\ Len(groups') \in {1, 2}
        /\ Len(groups') * W = Stride
    BY <1>3, <1>4
  <2> QED BY <1>1, <1>4, <1>6, <2>1, <2>2, <2>3 DEF GroupInv
<1>8. CallInv' /\ PlaceInv' /\ OutInv'
  BY <1>1 DEF DataInv, CallInv, PlaceInv, OutInv
<1> QED BY <1>7, <1>8 DEF DataInv

\* Where word w of lane j of group n lies among the words stored.
LEMMA StoredPlace ==
  ASSUME NEW W \in {4, 8, 16}, NEW l \in {1, 2}, NEW n \in 1 .. l, NEW j \in 0 .. W - 1,
         NEW w \in 0 .. 3
  PROVE  LET i == 4 * ((n - 1) * W + j) + w
         IN  i \in 0 .. (4 * W) * l - 1 /\ i \div (4 * W) = n - 1 /\ i % (4 * W) = 4 * j + w
<1> DEFINE s == 4 * W
           r == 4 * j + w
           i == 4 * ((n - 1) * W + j) + w
           q == n - 1
<1>1. s \in Nat \ {0} /\ r \in Int /\ 0 <= r /\ r < s /\ q \in Int
  OBVIOUS
<1>2. i \in Int /\ i = s * q + r
  <2>1. CASE W = 4
    BY <2>1
  <2>2. CASE W = 8
    BY <2>2
  <2>3. CASE W = 16
    BY <2>3
  <2> QED BY <2>1, <2>2, <2>3
<1>3. i \in 0 .. s * l - 1
  <2>1. CASE l = 1
    BY <1>1, <1>2, <2>1
  <2>2. CASE l = 2
    BY <1>1, <1>2, <2>2
  <2> QED BY <2>1, <2>2
<1> HIDE DEF s, r, i, q
<1>4. i % s = r /\ i \div s = q
  BY <1>1, <1>2, DivisionCompute
<1> QED BY <1>3, <1>4 DEF s, r, i, q

\* A place behind block, as a group and a lane.
LEMMA PlaceInStride ==
  ASSUME NEW W \in {4, 8, 16}, NEW l \in {1, 2}, NEW d \in 0 .. l * W - 1
  PROVE  \E n \in 1 .. l, j \in 0 .. W - 1 : d = (n - 1) * W + j
<1>1. CASE d < W
  <2>1. d \in 0 .. W - 1 /\ d = (1 - 1) * W + d /\ 1 \in 1 .. l
    BY <1>1
  <2> QED BY <2>1
<1>2. CASE d >= W
  <2>1. d - W \in 0 .. W - 1 /\ d = (2 - 1) * W + (d - W) /\ 2 \in 1 .. l
    BY <1>2
  <2> QED BY <2>1
<1> QED BY <1>1, <1>2

\* The stores write the blocks of the stride, in order, and nothing else.
LEMMA DataStore ==
  ASSUME IInv, DataInv, Store
  PROVE  DataInv'
<1> DEFINE W      == Width(isa)
           l      == Len(groups)
           size   == 4 * Width(isa)
           stored == [i \in DOMAIN groups |-> StoreBlocks(isa, groups[i].x)]
           words  == [i \in 0 .. size * l - 1 |-> stored[(i \div size) + 1][i % size]]
           end    == 4 * (MaxBlocks + 16)
<1>1. /\ UNCHANGED <<isa, first, key, blocks, pc>> /\ groups # <<>> /\ round = Rounds
      /\ out' = Written(block, words) /\ base' = CounterAdd(base, Stride)
      /\ block' = block + Stride /\ groups' = <<>>
  BY DEF Store, args
<1>2. /\ isa \in Vector /\ pc \in {"batches", "groups"} /\ block \in Nat /\ Stride \in Nat \ {0}
      /\ block + Stride <= blocks
  BY <1>1, StrideInLoop DEF IInv, LoopInv, InLoop
<1>3. W \in {4, 8, 16} /\ Rounds \in Nat
  BY <1>2, VectorWidth, KernelAssumption
<1>4. /\ DOMAIN groups = 1 .. l /\ l \in {1, 2} /\ l * W = Stride
      /\ \A n \in DOMAIN groups :
         /\ IsGroup(isa, groups[n])
         /\ \A j \in 0 .. W - 1 :
              LET s == StateAt(CounterAdd(first, block + (n - 1) * W + j), key, round)
              IN  LaneBlock(groups[n], j) = s.c /\ groups[n].k = s.k
  BY <1>1 DEF DataInv, GroupInv
<1>5. /\ first \in Counter /\ blocks \in 0 .. MaxBlocks /\ MaxBlocks \in Nat
      /\ 0 .. MaxBlocks \subseteq Wide /\ base = CounterAdd(first, block)
      /\ block % W = 0
  BY <1>2, CallTypes DEF DataInv, PlaceInv
<1>6. ASSUME NEW n \in 1 .. l, NEW j \in 0 .. W - 1, NEW w \in 0 .. 3
      PROVE  LET i == 4 * ((n - 1) * W + j) + w
             IN  /\ i \in DOMAIN words
                 /\ words[i] = Philox4x32(CounterAdd(first, block + (n - 1) * W + j), key)[w]
  <2> DEFINE i == 4 * ((n - 1) * W + j) + w
             c == CounterAdd(first, block + (n - 1) * W + j)
  <2>1. i \in 0 .. size * l - 1 /\ i \div size = n - 1 /\ i % size = 4 * j + w
    BY <1>3, <1>4, StoredPlace
  <2>2. words[i] = stored[(i \div size) + 1][i % size] /\ i \in DOMAIN words
    BY <2>1
  <2>3. (i \div size) + 1 = n
    <3>1. (n - 1) + 1 = n
      BY <1>4
    <3> HIDE DEF size, i
    <3> QED BY <2>1, <3>1
  <2>4. words[i] = stored[n][4 * j + w]
    <3> HIDE DEF words, stored, size, i
    <3> QED BY <2>1, <2>2, <2>3
  <2>5. stored[n] = StoreBlocks(isa, groups[n].x)
    BY <1>4
  <2>6. /\ IsGroup(isa, groups[n])
        /\ LaneBlock(groups[n], j) = StateAt(c, key, round).c
    BY <1>4
  <2>7. StoreBlocks(isa, groups[n].x)[4 * j + w] = LaneBlock(groups[n], j)[w]
    BY <1>2, <2>6, StoredBlocks
  <2> HIDE DEF words, stored, i, c
  <2>8. StateAt(c, key, round).c = Philox4x32(c, key)
    BY <1>1, StateAtEnd
  <2>9. words[i] = Philox4x32(c, key)[w]
    BY <2>4, <2>5, <2>6, <2>7, <2>8
  <2> QED BY <2>2, <2>9 DEF i, c
<1>7. /\ DOMAIN out = 0 .. end - 1
      /\ \A b \in 0 .. block - 1, w \in 0 .. 3 :
           out[4 * b + w] = Philox4x32(CounterAdd(first, b), key)[w]
      /\ \A i \in 4 * block .. end - 1 : out[i] = Untouched
  BY DEF DataInv, OutInv
<1>8. /\ DOMAIN out' = DOMAIN out
      /\ \A i \in DOMAIN out : out'[i] = IF i - 4 * block \in DOMAIN words THEN words[i - 4 * block] ELSE out[i]
  <2> HIDE DEF words
  <2> QED BY <1>1 DEF Written
<1>9. DOMAIN words = 0 .. 4 * Stride - 1
  <2>1. size * l = 4 * Stride
    BY <1>3, <1>4
  <2>2. DOMAIN words = 0 .. size * l - 1
    OBVIOUS
  <2> HIDE DEF words, size, l
  <2> QED BY <2>1, <2>2
<1>10. ASSUME NEW b \in 0 .. block + Stride - 1, NEW w \in 0 .. 3
       PROVE  out'[4 * b + w] = Philox4x32(CounterAdd(first, b), key)[w]
  <2> DEFINE x == 4 * b + w
             y == x - 4 * block
             B == Philox4x32(CounterAdd(first, b), key)[w]
  <2> HIDE DEF words
  <2>1. x \in DOMAIN out /\ out'[x] = IF y \in DOMAIN words THEN words[y] ELSE out[x]
    <3>1. x \in DOMAIN out
      <4> HIDE DEF W
      <4> QED BY <1>2, <1>5, <1>7
    <3> HIDE DEF x
    <3> QED BY <1>8, <3>1
  <2>2. CASE b < block
    <3>1. y \notin DOMAIN words /\ b \in 0 .. block - 1
      BY <1>2, <1>9, <2>2
    <3>2. out[x] = B
      BY <1>7, <3>1
    <3> HIDE DEF x, y, B
    <3>3. out'[x] = B
      BY <2>1, <3>1, <3>2
    <3> QED BY <3>3 DEF x, B
  <2>3. CASE b >= block
    <3>1. b - block \in 0 .. l * W - 1
      BY <1>2, <1>4, <2>3
    <3>2. PICK n \in 1 .. l, j \in 0 .. W - 1 : b - block = (n - 1) * W + j
      BY <1>3, <1>4, <3>1, PlaceInStride
    <3> DEFINE d == (n - 1) * W + j
    <3>3. d \in Int /\ b - block = d
      <4>1. W \in Int
        BY <1>3
      <4>2. l \in {1, 2}
        BY <1>4
      <4> HIDE DEF W, l
      <4>3. n \in Int /\ j \in Int
        BY <4>1, <4>2
      <4>4. (n - 1) * W + j \in Int
        BY <4>1, <4>3
      <4> QED BY <3>2, <4>4
    <3>4. 4 * d + w \in DOMAIN words /\ words[4 * d + w] = Philox4x32(CounterAdd(first, block + (n - 1) * W + j), key)[w]
      BY <1>6
    <3>5. block + (n - 1) * W + j = b /\ y = 4 * d + w
      <4>1. block + (n - 1) * W + j = block + d
        <5>1. (n - 1) * W \in Int /\ j \in Int
          BY <1>3, <1>4
        <5> QED BY <1>2, <5>1
      <4> HIDE DEF d
      <4> QED BY <1>2, <3>3, <4>1
    <3>6. y \in DOMAIN words /\ words[y] = B
      <4> HIDE DEF y, d
      <4> QED BY <3>4, <3>5
    <3> HIDE DEF x, y, B
    <3>7. out'[x] = B
      BY <2>1, <3>6
    <3> QED BY <3>7 DEF x, B
  <2> QED BY <1>2, <2>2, <2>3
<1>11. ASSUME NEW i \in 4 * (block + Stride) .. end - 1 PROVE out'[i] = Untouched
  <2> HIDE DEF words
  <2>1. i \in DOMAIN out /\ i \in 4 * block .. end - 1 /\ i - 4 * block \notin DOMAIN words
    BY <1>2, <1>5, <1>7, <1>9
  <2> QED BY <1>7, <1>8, <2>1
<1>12. OutInv'
  <2>1. /\ DOMAIN out' = 0 .. end - 1
        /\ \A b \in 0 .. block' - 1, w \in 0 .. 3 :
             out'[4 * b + w] = Philox4x32(CounterAdd(first, b), key)[w]
        /\ \A i \in 4 * block' .. end - 1 : out'[i] = Untouched
    <3> HIDE DEF words, W, l, end
    <3>1. block' = block + Stride
      BY <1>1
    <3>2. DOMAIN out' = 0 .. end - 1
      BY <1>7, <1>8
    <3>3. \A b \in 0 .. block' - 1, w \in 0 .. 3 :
             out'[4 * b + w] = Philox4x32(CounterAdd(first, b), key)[w]
      <4> SUFFICES ASSUME NEW b \in 0 .. block' - 1, NEW w \in 0 .. 3
                   PROVE  out'[4 * b + w] = Philox4x32(CounterAdd(first, b), key)[w]
        OBVIOUS
      <4>1. b \in 0 .. block + Stride - 1
        BY <1>2, <3>1
      <4> QED BY <1>10, <4>1
    <3>4. \A i \in 4 * block' .. end - 1 : out'[i] = Untouched
      BY <1>11, <3>1
    <3> QED BY <3>2, <3>3, <3>4
  <2> QED BY <1>1, <2>1 DEF OutInv
<1>13. PlaceInv'
  <2>1. CounterAdd(base, Stride) = CounterAdd(first, block + Stride)
    <3>1. block \in Wide /\ Stride \in Wide /\ block + Stride \in Wide
      BY <1>2, <1>5
    <3> QED BY <1>5, <3>1, CounterAddAdd
  <2>2. (block + Stride) % W = 0
    <3>1. CASE W = 4
      BY <1>2, <1>4, <1>5, <3>1
    <3>2. CASE W = 8
      BY <1>2, <1>4, <1>5, <3>2
    <3>3. CASE W = 16
      BY <1>2, <1>4, <1>5, <3>3
    <3> QED BY <1>3, <3>1, <3>2, <3>3
  <2> QED BY <1>1, <1>2, <2>1, <2>2 DEF PlaceInv
<1>14. CallInv' /\ GroupInv'
  BY <1>1 DEF DataInv, CallInv, GroupInv
<1> QED BY <1>12, <1>13, <1>14 DEF DataInv

\* What is left after the vector loops starts where they stopped.
LEMMA DataLoopEnds ==
  ASSUME IInv, DataInv, LoopEnds
  PROVE  DataInv'
<1> DEFINE W == Width(isa)
<1>1. /\ UNCHANGED <<isa, first, key, blocks, base, block, groups, round, out>> /\ ~InLoop
      /\ pc \in {"batches", "groups"}
      /\ pc' = IF pc = "batches" /\ isa = "neon" THEN "groups" ELSE "tail"
  BY DEF LoopEnds, args
<1>2. isa \in Vector /\ block \in Nat /\ blocks \in Nat
  BY <1>1, KernelAssumption DEF IInv, LoopInv, Vector
<1>3. base = CounterAdd(first, block) /\ block % W = 0 /\ W \in {4, 8, 16}
  BY <1>1, <1>2, VectorWidth DEF DataInv, PlaceInv
<1>4. pc' = "tail" => block >= Batched(isa, blocks)
  <2> SUFFICES ASSUME pc' = "tail" PROVE block >= Batched(isa, blocks)
    OBVIOUS
  <2>1. Stride = W
    BY <1>1, <1>2, Widths DEF Stride, Vector
  <2>2. Batched(isa, blocks) = blocks - (blocks % W)
    BY <1>2 DEF Batched, Vector
  <2>3. ~(block + W <= blocks - (blocks % W))
    BY <1>1, <2>1, <2>2 DEF InLoop
  <2> HIDE DEF W
  <2>4. block >= blocks - (blocks % W)
    <3>1. CASE W = 4
      BY <1>2, <1>3, <2>3, <3>1
    <3>2. CASE W = 8
      BY <1>2, <1>3, <2>3, <3>2
    <3>3. CASE W = 16
      BY <1>2, <1>3, <2>3, <3>3
    <3> QED BY <1>3, <3>1, <3>2, <3>3
  <2> QED BY <2>2, <2>4
<1>5. PlaceInv'
  BY <1>1, <1>3, <1>4 DEF PlaceInv
<1>6. groups = <<>>
  BY <1>1 DEF IInv, LoopInv
<1>7. CallInv' /\ GroupInv' /\ OutInv'
  BY <1>1, <1>6 DEF DataInv, CallInv, GroupInv, OutInv
<1> QED BY <1>5, <1>7 DEF DataInv

\* The scalar loop goes on from there, a block at a time.
LEMMA DataTailBlock ==
  ASSUME IInv, DataInv, TailBlock
  PROVE  DataInv'
<1> DEFINE batched == Batched(isa, blocks)
           words   == Philox4x32(CounterAdd(CounterAdd(first, batched), block - batched), key)
           end     == 4 * (MaxBlocks + 16)
<1>1. /\ UNCHANGED <<isa, first, key, blocks, base, groups, round, pc>> /\ pc = "tail"
      /\ block < blocks /\ out' = Written(block, words) /\ block' = block + 1
  BY DEF TailBlock, args
<1>2. /\ first \in Counter /\ blocks \in 0 .. MaxBlocks /\ MaxBlocks \in Nat
      /\ 0 .. MaxBlocks \subseteq Wide /\ block >= batched /\ groups = <<>> /\ block \in Nat
  BY <1>1, CallTypes DEF DataInv, PlaceInv, IInv, LoopInv, InLoop
<1>3. batched \in Nat
  <2>1. isa = "scalar" => batched = 0
    BY DEF Batched
  <2>2. isa # "scalar" => isa \in Vector
    BY KernelAssumption DEF IInv, LoopInv, Vector
  <2>3. isa \in Vector => batched \in Nat
    BY <1>2, BatchedBound
  <2> QED BY <2>1, <2>2, <2>3
<1>4. words = Philox4x32(CounterAdd(first, block), key)
  <2> DEFINE d == block - batched
  <2>1. batched \in Wide /\ d \in Wide /\ batched + d = block /\ block \in Wide
    BY <1>1, <1>2, <1>3
  <2> HIDE DEF d, batched
  <2>2. CounterAdd(CounterAdd(first, batched), d) = CounterAdd(first, block)
    BY <1>2, <2>1, CounterAddAdd
  <2> QED BY <2>2 DEF d
<1> HIDE DEF words, batched
<1>5. DOMAIN words = 0 .. 3
  <2>1. words = [w \in 0 .. 3 |-> words[w]]
    BY <1>4, StateAtEnd
  <2> QED BY <2>1
<1>6. /\ DOMAIN out = 0 .. end - 1
      /\ \A b \in 0 .. block - 1, w \in 0 .. 3 :
           out[4 * b + w] = Philox4x32(CounterAdd(first, b), key)[w]
      /\ \A i \in 4 * block .. end - 1 : out[i] = Untouched
  BY DEF DataInv, OutInv
<1>7. /\ DOMAIN out' = DOMAIN out
      /\ \A i \in DOMAIN out : out'[i] = IF i - 4 * block \in DOMAIN words THEN words[i - 4 * block] ELSE out[i]
  BY <1>1 DEF Written
<1>8. ASSUME NEW b \in 0 .. block, NEW w \in 0 .. 3
      PROVE  out'[4 * b + w] = Philox4x32(CounterAdd(first, b), key)[w]
  <2> DEFINE x == 4 * b + w
             y == x - 4 * block
             B == Philox4x32(CounterAdd(first, b), key)[w]
  <2>1. out'[x] = IF y \in 0 .. 3 THEN words[y] ELSE out[x]
    <3>1. x \in DOMAIN out
      BY <1>1, <1>2, <1>6
    <3> HIDE DEF x
    <3> QED BY <1>5, <1>7, <3>1
  <2>2. CASE b < block
    <3>1. y \notin 0 .. 3 /\ b \in 0 .. block - 1
      BY <1>2, <2>2
    <3>2. out[x] = B
      BY <1>6, <3>1
    <3> HIDE DEF x, y, B
    <3>3. out'[x] = B
      BY <2>1, <3>1, <3>2
    <3> QED BY <3>3 DEF x, B
  <2>3. CASE b = block
    <3>1. y = w /\ words[w] = B
      BY <1>2, <1>4, <2>3
    <3> HIDE DEF x, y, B
    <3>2. out'[x] = B
      BY <2>1, <3>1
    <3> QED BY <3>2 DEF x, B
  <2> QED BY <1>2, <2>2, <2>3
<1>9. ASSUME NEW i \in 4 * (block + 1) .. end - 1 PROVE out'[i] = Untouched
  <2>1. i \in DOMAIN out /\ i \in 4 * block .. end - 1 /\ i - 4 * block \notin 0 .. 3
    BY <1>2, <1>6
  <2> QED BY <1>5, <1>6, <1>7, <2>1
<1>10. OutInv'
  <2>1. (block + 1) - 1 = block
    BY <1>2
  <2> QED BY <1>1, <1>6, <1>7, <1>8, <1>9, <2>1 DEF OutInv
<1>11. PlaceInv'
  BY <1>1, <1>2, <1>3 DEF PlaceInv, batched
<1>12. CallInv' /\ GroupInv'
  BY <1>1, <1>2 DEF DataInv, CallInv, GroupInv
<1> QED BY <1>10, <1>11, <1>12 DEF DataInv

\* Returning writes nothing.
LEMMA DataReturn ==
  ASSUME IInv, DataInv, Return
  PROVE  DataInv'
<1>1. /\ UNCHANGED <<isa, first, key, blocks, base, block, groups, round, out>> /\ pc = "tail"
      /\ pc' = "done"
  BY DEF Return, args
<1>2. groups = <<>>
  BY <1>1 DEF IInv, LoopInv, InLoop
<1> QED BY <1>1, <1>2 DEF DataInv, CallInv, PlaceInv, GroupInv, OutInv

\* Every step keeps what has been written to the stream.
LEMMA DataStep == IInv /\ DataInv /\ [Next]_vars => DataInv'
<1> SUFFICES ASSUME IInv, DataInv, [Next]_vars PROVE DataInv'
  OBVIOUS
<1>1. CASE Step
  BY <1>1, DataLoad, DataRound, DataStore, DataLoopEnds, DataTailBlock, DataReturn DEF Step
<1>2. CASE UNCHANGED vars
  BY <1>2 DEF vars, args, DataInv, CallInv, PlaceInv, GroupInv, OutInv, Stride
<1> QED BY <1>1, <1>2 DEF Next

\* The block on from a counter, as Reference has it.
LEMMA NextCounters ==
  ASSUME NEW c \in Counter, NEW b \in Wide
  PROVE  CounterAdd(c, b) = CounterOf((Value(c) + b) % Period)
<1> DEFINE n == (Value(c) + b) % Period
<1>1. CounterAdd(c, b) \in Counter /\ Value(CounterAdd(c, b)) = n
  BY CounterAddCorrect
<1>2. n \in 0 .. Period - 1
  BY <1>1, ValueType
<1> HIDE DEF n
<1>3. CounterOf(n) \in Counter /\ Value(CounterOf(n)) = n
  BY <1>2, CounterOfValue
<1>4. CounterAdd(c, b) = CounterOf(n)
  BY <1>1, <1>3, ValueInjective
<1> QED BY <1>4 DEF n

(***************************************************************************)
(* The kernel contract: block i of the output is philox4x32(base + i, key) *)
(* on every instruction set, and no word behind the blocks written is      *)
(* touched.  (kernel_scalar.hpp 66-72)                                     *)
(***************************************************************************)
THEOREM KernelOutput == Spec => []OutputIsStream
<1>1. IInv /\ DataInv => OutputIsStream
  <2> SUFFICES ASSUME IInv, DataInv PROVE OutputIsStream
    OBVIOUS
  <2>1. /\ first \in Counter /\ blocks \in 0 .. MaxBlocks /\ MaxBlocks \in Nat
        /\ 0 .. MaxBlocks \subseteq Wide /\ first \in Bases /\ key \in Keys
        /\ block \in 0 .. blocks
    BY CallTypes DEF DataInv, CallInv, IInv, LoopInv
  <2>2. ASSUME NEW b \in 0 .. block - 1
        PROVE  <<first, key, b, [w \in 0 .. 3 |-> out[4 * b + w]]>> \in Reference
    <3> DEFINE block4 == Philox4x32(CounterAdd(first, b), key)
    <3>1. b \in 0 .. MaxBlocks /\ b \in Wide
      BY <2>1
    <3>2. \A w \in 0 .. 3 : out[4 * b + w] = block4[w]
      BY DEF DataInv, OutInv
    <3>3. block4 = [w \in 0 .. 3 |-> block4[w]]
      BY StateAtEnd
    <3> HIDE DEF block4
    <3>4. [w \in 0 .. 3 |-> out[4 * b + w]] = block4
      BY <3>2, <3>3
    <3>5. CounterAdd(first, b) = CounterOf((Value(first) + b) % Period)
      BY <2>1, <3>1, NextCounters
    <3>6. block4 = Philox4x32(CounterOf((Value(first) + b) % Period), key)
      BY <3>5 DEF block4
    <3> QED BY <2>1, <3>1, <3>4, <3>6 DEF Reference
  <2>3. \A i \in 4 * block .. 4 * (MaxBlocks + 16) - 1 : out[i] = Untouched
    BY DEF DataInv, OutInv
  <2>4. pc = "done" => block = blocks
    BY DEF IInv, LoopInv
  <2> QED BY <2>2, <2>3, <2>4 DEF OutputIsStream
<1> QED BY <1>1, DataInit, DataStep, KernelInvariant, PTL DEF Spec
===========================================================================
