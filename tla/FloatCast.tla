----------------------------- MODULE FloatCast -----------------------------
(***************************************************************************)
(* include/vphilox/float_cast.hpp: a word becomes a number in [0, 1) by    *)
(* way of the mantissa of a number in [1, 2), on a grid of 2^-23 for a     *)
(* float and of 2^-52 for a double.  A number is its numerator over the    *)
(* size of the grid, which both the injection and the subtraction of 1     *)
(* keep exact.                                                             *)
(***************************************************************************)
EXTENDS Integers

CONSTANTS
  FloatGrid, FloatDrop,    \* 2^23 mantissas; a word loses 9 bits, a factor of 2^9
  DoubleGrid, DoubleDrop   \* 2^52 and 2^12, out of two words

WordCount == FloatGrid * FloatDrop

ASSUME CastAssumption ==
  /\ {FloatGrid, FloatDrop, DoubleGrid, DoubleDrop} \subseteq Nat \ {0}
  /\ DoubleGrid * DoubleDrop = WordCount * WordCount

\* 1.0 and the mantissa in it, less 1.0.
ToFloat01(u)  == (FloatGrid + (u \div FloatDrop)) - FloatGrid
ToDouble01(u) == (DoubleGrid + (u \div DoubleDrop)) - DoubleGrid

\* next_double(): the first word drawn is the low half.
DoubleOf(lo, hi) == ToDouble01((hi * WordCount) + lo)
=============================================================================
