---------------------------- MODULE MCKernels ----------------------------
(***************************************************************************)
(* Kernels with hexadecimal digits for words: a register of 16 lanes still *)
(* wraps its low word at most once.                                        *)
(***************************************************************************)
EXTENDS Kernels

\* No carry, a carry into each word, across the sign bit, and the full wrap.
MCBases == {FourWords(0, 0, 0, 0), FourWords(3, 7, 0, 1), FourWords(7, 0, 0, 0),
            FourWords(14, 15, 15, 15), FourWords(9, 15, 7, 2), FourWords(13, 15, 15, 6)}
MCKeys == {[i \in 0 .. 1 |-> IF i = 0 THEN 9 ELSE 14]}
=============================================================================
