--------------------------- MODULE CounterLanes ---------------------------
(***************************************************************************)
(* How the vector kernels expand one counter into a register per word,     *)
(* lane j holding the counter j blocks on (counter_lanes in kernel_avx2,   *)
(* kernel_avx512 and kernel_neon).  A register is a function from its      *)
(* lanes to words; less(a, b) is the 0 or 1 that the lane comparison of    *)
(* the instruction set yields.                                             *)
(***************************************************************************)
EXTENDS CounterWords

\* The unsigned comparisons of AVX-512 and NEON.
LessUnsigned(a, b) == IF a < b THEN 1 ELSE 0

Signed(a) == IF a >= Base \div 2 THEN a - Base ELSE a
Biased(a) == (a + (Base \div 2)) % Base

\* Mutant: the operands of the signed comparison are not biased.
LessBiased_NoBias(a, b) == IF Signed(b) > Signed(a) THEN 1 ELSE 0

\* cmplt_epu32: AVX2 compares signed only, so both sides are biased.
LessBiased(a, b) == IF Signed(Biased(b)) > Signed(Biased(a)) THEN 1 ELSE 0

Less(isa, a, b) == IF isa = "avx2" THEN LessBiased(a, b) ELSE LessUnsigned(a, b)

\* The four registers x0, ..., x3; each word's carry goes into the next.
Lanes(isa, c, width) ==
  LET x0 == [j \in 0 .. width - 1 |-> (c[0] + j) % Base]
      c0 == [j \in 0 .. width - 1 |-> Less(isa, x0[j], c[0])]
      x1 == [j \in 0 .. width - 1 |-> (c[1] + c0[j]) % Base]
      c1 == [j \in 0 .. width - 1 |-> Less(isa, x1[j], c[1])]
      x2 == [j \in 0 .. width - 1 |-> (c[2] + c1[j]) % Base]
      c2 == [j \in 0 .. width - 1 |-> Less(isa, x2[j], c[2])]
      x3 == [j \in 0 .. width - 1 |-> (c[3] + c2[j]) % Base]
  IN  <<x0, x1, x2, x3>>
=============================================================================
