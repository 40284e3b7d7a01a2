--------------------------- MODULE CounterWords ---------------------------
(***************************************************************************)
(* The 128-bit counter arithmetic of include/vphilox/counter.hpp, word by  *)
(* word.  A counter is four words, least significant first; a word is a    *)
(* digit in base Base (2^32 in the code) and a u64 is two digits wide.     *)
(***************************************************************************)
EXTENDS Integers

CONSTANT Base

ASSUME BaseAssumption == Base \in Nat \ {0, 1}

U32     == 0 .. Base - 1
Wide    == 0 .. Base * Base - 1        \* u64
Counter == [0 .. 3 -> U32]             \* counter4

FourWords(a, b, c, d) ==
  [w \in 0 .. 3 |-> IF w = 0 THEN a ELSE IF w = 1 THEN b ELSE IF w = 2 THEN c ELSE d]

\* The number a counter stands for, the number of counters, and the counter
\* that stands for n.
Value(c) == c[0] + Base * (c[1] + Base * (c[2] + Base * c[3]))
Period   == Base * (Base * (Base * Base))
CounterOf(n) ==
  FourWords(n % Base, (n \div Base) % Base, ((n \div Base) \div Base) % Base,
            (((n \div Base) \div Base) \div Base) % Base)

---------------------------------------------------------------------------
(* counter_add: one turn of the loop, from the counter and the carry it    *)
(* finds.  A carry of 0 ends the loop; the turns after it change nothing.  *)

\* Mutant: only the low word of the carry is taken on.
AddTurn_HighCarryLost(s, i) ==
  LET sum == s.c[i] + (s.carry % Base)
  IN  IF s.carry = 0 THEN s
      ELSE [c |-> [s.c EXCEPT ![i] = sum % Base], carry |-> sum \div Base]

AddTurn(s, i) ==
  LET sum == s.c[i] + (s.carry % Base)
  IN  IF s.carry = 0 THEN s
      ELSE [c     |-> [s.c EXCEPT ![i] = sum % Base],
            carry |-> (s.carry \div Base) + (sum \div Base)]

CounterAdd(c, delta) ==
  AddTurn(AddTurn(AddTurn(AddTurn([c |-> c, carry |-> delta], 0), 1), 2), 3).c

---------------------------------------------------------------------------
(* counter_sub: the subtraction wraps modulo 2^64, and the sign bit of the *)
(* result is the borrow of the next word.                                  *)

SignBit(x) == IF x >= (Base * Base) \div 2 THEN 1 ELSE 0

\* Mutant: the next word owes nothing when the high half is zero.
SubTurn_BorrowLost(s, i) ==
  LET diff == (s.c[i] - (s.borrow % Base)) % (Base * Base)
  IN  IF s.borrow = 0 THEN s
      ELSE [c |-> [s.c EXCEPT ![i] = diff % Base], borrow |-> s.borrow \div Base]

SubTurn(s, i) ==
  LET diff == (s.c[i] - (s.borrow % Base)) % (Base * Base)
  IN  IF s.borrow = 0 THEN s
      ELSE [c      |-> [s.c EXCEPT ![i] = diff % Base],
            borrow |-> (s.borrow \div Base) + SignBit(diff)]

CounterSub(c, delta) ==
  SubTurn(SubTurn(SubTurn(SubTurn([c |-> c, borrow |-> delta], 0), 1), 2), 3).c
=============================================================================
