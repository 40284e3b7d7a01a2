---------------------------- MODULE Intrinsics ----------------------------
(***************************************************************************)
(* The vector instructions the kernels are written with, on registers of   *)
(* words in base Base (functions from lanes).  A 64-bit lane is a pair of  *)
(* words, the low one first; a 128-bit lane is four words.                 *)
(***************************************************************************)
EXTENDS CounterLanes

Quad(i) == 4 * (i \div 4)     \* first word of the 128-bit lane of word i

\* _mm*_mul_epu32: the even words, multiplied to 64 bits.
MulEven(a, m) ==
  [i \in DOMAIN a |-> IF i % 2 = 0 THEN (m * a[i]) % Base ELSE (m * a[i - 1]) \div Base]

\* _mm*_srli_epi64 and _mm*_slli_epi64 by 32 bits.
ShiftDown(a) == [i \in DOMAIN a |-> IF i % 2 = 0 THEN a[i + 1] ELSE 0]
ShiftUp(a)   == [i \in DOMAIN a |-> IF i % 2 = 1 THEN a[i - 1] ELSE 0]

\* _mm*_blend_epi32 with the mask 0xAA: the odd words of b.
BlendOdd(a, b) == [i \in DOMAIN a |-> IF i % 2 = 1 THEN b[i] ELSE a[i]]

\* _mm*_unpack{lo,hi}_epi{32,64}: interleave inside each 128-bit lane.
UnpackLo32(a, b) ==
  [i \in DOMAIN a |-> LET q == Quad(i) + ((i % 4) \div 2) IN IF i % 2 = 0 THEN a[q] ELSE b[q]]
UnpackHi32(a, b) ==
  [i \in DOMAIN a |-> LET q == Quad(i) + 2 + ((i % 4) \div 2) IN IF i % 2 = 0 THEN a[q] ELSE b[q]]
UnpackLo64(a, b) ==
  [i \in DOMAIN a |-> IF i % 4 < 2 THEN a[i] ELSE b[i - 2]]
UnpackHi64(a, b) ==
  [i \in DOMAIN a |-> IF i % 4 < 2 THEN a[i + 2] ELSE b[i]]

\* permute2x128: lane n of a beside lane n of b, n being 0 (0x20) or 1 (0x31).
Permute(a, b, n) ==
  [i \in DOMAIN a |-> IF i < 4 THEN a[4 * n + i] ELSE b[4 * n + (i - 4)]]

\* shuffle_i32x4: lanes p and q of a, then lanes p and q of b.
Shuffle(a, b, p, q) ==
  LET lane(r, i) == r[4 * (IF (i \div 4) % 2 = 0 THEN p ELSE q) + (i % 4)]
  IN  [i \in DOMAIN a |-> IF i < 8 THEN lane(a, i) ELSE lane(b, i)]

\* vmull and vmull_high: the products of the low and of the high pair of words.
MulLow(a, m)  == [p \in 0 .. 1 |-> m * a[p]]
MulHigh(a, m) == [p \in 0 .. 1 |-> m * a[p + 2]]

\* vmovn with vmovn_high, vshrn with vshrn_high: one half of each product.
NarrowLow(l, h)  == [j \in 0 .. 3 |-> (IF j < 2 THEN l[j] ELSE h[j - 2]) % Base]
NarrowHigh(l, h) == [j \in 0 .. 3 |-> (IF j < 2 THEN l[j] ELSE h[j - 2]) \div Base]

\* vst4q: lane j of the four registers becomes four consecutive words.
Interleave(x) == [i \in 0 .. 15 |-> x[(i % 4) + 1][i \div 4]]
=============================================================================
