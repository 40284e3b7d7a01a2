----------------------------- MODULE Kernels -----------------------------
(***************************************************************************)
(* The four kernels (include/vphilox/detail/kernel_*.hpp): one call of     *)
(* generate(base, k, out, blocks), one action per iteration of its loops.  *)
(* Words are digits in base Base (2^32 in the code), so that carries,      *)
(* wide products and the wrap-around of the key happen with small numbers. *)
(***************************************************************************)
EXTENDS Intrinsics, Sequences

CONSTANTS
  M0, M1,     \* the multipliers
  W0, W1,     \* the key increments
  Rounds,
  Isas,       \* the backends: "scalar", "avx2", "avx512", "neon"
  Bases,      \* the counters a call starts from
  Keys,
  Lengths,    \* the numbers of blocks asked for
  MaxBlocks,  \* the largest of them
  Untouched

ASSUME KernelAssumption ==
  /\ {M0, M1, W0, W1} \subseteq U32
  /\ Rounds \in 1 .. 16
  /\ Isas \subseteq {"scalar", "avx2", "avx512", "neon"}
  /\ Bases \subseteq Counter
  /\ Keys \subseteq [0 .. 1 -> U32]
  /\ MaxBlocks \in Wide /\ Lengths \subseteq 0 .. MaxBlocks
  /\ Base % 2 = 0 /\ Base >= 16   \* a sign bit; more words than a register has lanes

VARIABLES
  isa, first, key, blocks,  \* the arguments of the call
  base,                     \* the counter of the next batch
  block,                    \* blocks written
  groups,                   \* the lane groups between load and store
  round,                    \* rounds they have been through
  out,
  pc                        \* "batches", "groups", "tail" or "done"

args == <<isa, first, key, blocks>>
vars == <<args, base, block, groups, round, out, pc>>

---------------------------------------------------------------------------
(* kernel_scalar.hpp *)

MulHi(a, b) == (a * b) \div Base
MulLo(a, b) == (a * b) % Base

\* Exclusive or on words.
XorOf[a \in U32, b \in U32] ==
  IF a = 0 THEN b ELSE ((a + b) % 2) + (2 * XorOf[a \div 2, b \div 2])
Xor(a, b) == XorOf[a, b]

PhiloxRound(c, k) ==
  FourWords(Xor(Xor(MulHi(M1, c[2]), c[1]), k[0]), MulLo(M1, c[2]),
            Xor(Xor(MulHi(M0, c[0]), c[3]), k[1]), MulLo(M0, c[0]))

BumpKey(k) == [w \in 0 .. 1 |-> (k[w] + (IF w = 0 THEN W0 ELSE W1)) % Base]

\* The block and the key after each round; the first uses the key as it is.
LaterRound(s) ==
  LET bumped == BumpKey(s.k) IN [c |-> PhiloxRound(s.c, bumped), k |-> bumped]

Progress(c, k) ==
  LET after[r \in 1 .. Rounds] ==
        IF r = 1 THEN [c |-> PhiloxRound(c, k), k |-> k] ELSE LaterRound(after[r - 1])
  IN  after

Philox4x32(c, k) == Progress(c, k)[Rounds].c

---------------------------------------------------------------------------
(* The vector kernels' rounds: a group is four registers and the running key. *)

XorLanes(a, b, k) == [j \in DOMAIN a |-> Xor(Xor(a[j], b[j]), k)]

\* The low and the high halves of products split across the even and odd lanes.
PackLo(even, odd) == BlendOdd(even, ShiftUp(odd))
PackHi(even, odd) == BlendOdd(ShiftDown(even), odd)

\* The two halves of x * m in every lane.
X86Halves(x, m) ==
  LET even == MulEven(x, m)   odd == MulEven(ShiftDown(x), m)
  IN  [lo |-> PackLo(even, odd), hi |-> PackHi(even, odd)]

NeonHalves(x, m) ==
  LET low == MulLow(x, m)   high == MulHigh(x, m)
  IN  [lo |-> NarrowLow(low, high), hi |-> NarrowHigh(low, high)]

RoundGroup(i, g) ==
  LET p0 == IF i = "neon" THEN NeonHalves(g.x[1], M0) ELSE X86Halves(g.x[1], M0)
      p1 == IF i = "neon" THEN NeonHalves(g.x[3], M1) ELSE X86Halves(g.x[3], M1)
  IN  [x |-> <<XorLanes(p1.hi, g.x[2], g.k[0]), p1.lo, XorLanes(p0.hi, g.x[4], g.k[1]), p0.lo>>,
       k |-> BumpKey(g.k)]

---------------------------------------------------------------------------
(* Writing the registers back block by block. *)

StoreAvx2(x) ==
  LET t0  == UnpackLo32(x[1], x[2])   t1  == UnpackHi32(x[1], x[2])
      t2  == UnpackLo32(x[3], x[4])   t3  == UnpackHi32(x[3], x[4])
      b04 == UnpackLo64(t0, t2)       b15 == UnpackHi64(t0, t2)
      b26 == UnpackLo64(t1, t3)       b37 == UnpackHi64(t1, t3)
      row == <<Permute(b04, b15, 0), Permute(b26, b37, 0),
               Permute(b04, b15, 1), Permute(b26, b37, 1)>>
  IN  [i \in 0 .. 31 |-> row[(i \div 8) + 1][i % 8]]

StoreAvx512(x) ==
  LET t0  == UnpackLo32(x[1], x[2])   t1  == UnpackHi32(x[1], x[2])
      t2  == UnpackLo32(x[3], x[4])   t3  == UnpackHi32(x[3], x[4])
      r0  == UnpackLo64(t0, t2)       r1  == UnpackHi64(t0, t2)
      r2  == UnpackLo64(t1, t3)       r3  == UnpackHi64(t1, t3)
      s0  == Shuffle(r0, r1, 0, 1)    s1  == Shuffle(r2, r3, 0, 1)
      s2  == Shuffle(r0, r1, 2, 3)    s3  == Shuffle(r2, r3, 2, 3)
      row == <<Shuffle(s0, s1, 0, 2), Shuffle(s0, s1, 1, 3),
               Shuffle(s2, s3, 0, 2), Shuffle(s2, s3, 1, 3)>>
  IN  [i \in 0 .. 63 |-> row[(i \div 16) + 1][i % 16]]

StoreBlocks(i, x) ==
  CASE i = "avx2" -> StoreAvx2(x) [] i = "avx512" -> StoreAvx512(x) [] i = "neon" -> Interleave(x)

---------------------------------------------------------------------------
(* generate and its loops. *)

Width(i)     == CASE i = "avx512" -> 16 [] i = "avx2" -> 8 [] i = "neon" -> 4 [] OTHER -> 1
Preferred(i) == IF i = "neon" THEN 8 ELSE Width(i)

\* out with words stored from block b on.
Written(b, words) ==
  [i \in DOMAIN out |-> IF i - 4 * b \in DOMAIN words THEN words[i - 4 * b] ELSE out[i]]

\* Mutant: the split is made at the width dispatch advertises.
Batched_AtTwiceTheWidth(i, n) == n - (n % (2 * Width(i)))

\* blocks & ~(width - 1): what the vector loops do; the rest is the tail.
Batched(i, n) == IF i = "scalar" THEN 0 ELSE n - (n % Width(i))

TypeOK ==
  /\ isa \in Isas /\ first \in Bases /\ key \in Keys /\ blocks \in Lengths
  /\ base \in Counter
  /\ block \in 0 .. blocks
  /\ Len(groups) \in 0 .. 2
  /\ \A i \in DOMAIN groups, w \in 1 .. 4 : groups[i].x[w] \in [0 .. Width(isa) - 1 -> U32]
  /\ round \in 0 .. Rounds
  /\ out \in [0 .. 4 * (MaxBlocks + 16) - 1 -> U32 \cup {Untouched}]
  /\ pc \in {"batches", "groups", "tail", "done"}

Init ==
  /\ isa \in Isas /\ first \in Bases /\ key \in Keys /\ blocks \in Lengths
  /\ base = first
  /\ block = 0
  /\ groups = <<>>
  /\ round = 0
  /\ out = [i \in 0 .. 4 * (MaxBlocks + 16) - 1 |-> Untouched]
  /\ pc = IF isa = "scalar" THEN "tail" ELSE "batches"

\* Blocks taken by one iteration of the loop at hand; only NEON pairs groups.
Stride == IF pc = "batches" THEN Preferred(isa) ELSE Width(isa)

InLoop == pc \in {"batches", "groups"} /\ block + Stride <= Batched(isa, blocks)

LoadGroup(c) == [x |-> Lanes(isa, c, Width(isa)), k |-> key]

Load ==
  /\ InLoop
  /\ groups = <<>>
  /\ groups' = IF Stride = Width(isa) THEN <<LoadGroup(base)>>
               ELSE <<LoadGroup(base), LoadGroup(CounterAdd(base, Width(isa)))>>
  /\ round' = 0
  /\ UNCHANGED <<args, base, block, out, pc>>

Round ==
  /\ groups # <<>>
  /\ round < Rounds
  /\ groups' = [i \in DOMAIN groups |-> RoundGroup(isa, groups[i])]
  /\ round' = round + 1
  /\ UNCHANGED <<args, base, block, out, pc>>

\* Mutant: block is not moved on.
Store_NotAdvanced ==
  LET size   == 4 * Width(isa)
      stored == [i \in DOMAIN groups |-> StoreBlocks(isa, groups[i].x)]
  IN  /\ groups # <<>>
      /\ round = Rounds
      /\ out' = Written(block, [i \in 0 .. size * Len(groups) - 1 |->
                                  stored[(i \div size) + 1][i % size]])
      /\ base' = CounterAdd(base, Stride)
      /\ groups' = <<>>
      /\ UNCHANGED <<args, block, round, pc>>

\* The transposed stores, and the end of the iteration.
Store ==
  LET size   == 4 * Width(isa)
      stored == [i \in DOMAIN groups |-> StoreBlocks(isa, groups[i].x)]
  IN  /\ groups # <<>>
      /\ round = Rounds
      /\ out' = Written(block, [i \in 0 .. size * Len(groups) - 1 |->
                                  stored[(i \div size) + 1][i % size]])
      /\ base' = CounterAdd(base, Stride)
      /\ block' = block + Stride
      /\ groups' = <<>>
      /\ UNCHANGED <<args, round, pc>>

\* A vector loop ends; the tail starts from base advanced by what was batched.
LoopEnds ==
  /\ pc \in {"batches", "groups"}
  /\ ~InLoop
  /\ pc' = IF pc = "batches" /\ isa = "neon" THEN "groups" ELSE "tail"
  /\ UNCHANGED <<args, base, block, groups, round, out>>

\* kernel_scalar::generate on counter_advanced(base, batched), block by block.
TailBlock ==
  LET batched == Batched(isa, blocks)
      start   == CounterAdd(first, batched)
  IN  /\ pc = "tail"
      /\ block < blocks
      /\ out' = Written(block, Philox4x32(CounterAdd(start, block - batched), key))
      /\ block' = block + 1
      /\ UNCHANGED <<args, base, groups, round, pc>>

Return ==
  /\ pc = "tail"
  /\ block >= blocks
  /\ pc' = "done"
  /\ UNCHANGED <<args, base, block, groups, round, out>>

Step == Load \/ Round \/ Store \/ LoopEnds \/ TailBlock \/ Return
Next == Step \/ (pc = "done" /\ UNCHANGED vars)
Spec == Init /\ [][Next]_vars

---------------------------------------------------------------------------

\* Call from counter f under key k: block b of its output.
Reference ==
  {<<f, k, b, Philox4x32(CounterOf((Value(f) + b) % Period), k)>> :
     f \in Bases, k \in Keys, b \in 0 .. MaxBlocks}

(***************************************************************************)
(* The kernel contract (kernel_scalar.hpp 66-72): block i of the output is *)
(* philox4x32(base + i, key) on every instruction set, after any number of *)
(* iterations, and no word after the blocks written is touched.  Wide      *)
(* products, carries and transposes agree with the scalar code bit by bit. *)
(***************************************************************************)
OutputIsStream ==
  /\ \A b \in 0 .. block - 1 : <<first, key, b, [w \in 0 .. 3 |-> out[4 * b + w]]>> \in Reference
  /\ \A i \in 4 * block .. 4 * (MaxBlocks + 16) - 1 : out[i] = Untouched
  /\ pc = "done" => block = blocks

(***************************************************************************)
(* A request that is a multiple of preferred_blocks "runs without a tail"  *)
(* (kernel_scalar.hpp 71): the scalar loop, and NEON's single group, are   *)
(* never reached with work left.                                           *)
(***************************************************************************)
PreferredHasNoTail ==
  isa # "scalar" /\ blocks % Preferred(isa) = 0 /\ pc \in {"groups", "tail"} => block = blocks

\* The steps a call still has before it, at most.
Left ==
  (blocks - block) * (Rounds + 2) - (IF groups = <<>> THEN 0 ELSE round + 1)
    + (CASE pc = "batches" -> 3 [] pc = "groups" -> 2 [] pc = "tail" -> 1 [] pc = "done" -> 0)

(***************************************************************************)
(* Every call returns: each step of its loops brings the end nearer, and   *)
(* none stops short of it, the only state without a step being the one     *)
(* in which all blocks are written.  (kernel_avx2.hpp 141-215,             *)
(* kernel_avx512.hpp 142-224, kernel_neon.hpp 179-247)                     *)
(***************************************************************************)
KernelReturns == [][0 <= Left' /\ Left' < Left]_vars
=============================================================================
