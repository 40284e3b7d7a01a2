-------------------------- MODULE MCCurandParity --------------------------
(***************************************************************************)
(* CurandParity with octal words: pairs of cases that start in the middle  *)
(* of a block, at a carry out of the low word, just past one, in the last  *)
(* subsequence and at a 64-bit seed, six words each.                       *)
(***************************************************************************)
EXTENDS CurandParity

MCPhilox(c, k) == [w \in 0 .. 3 |-> <<c, k, w>>]
MCKey  == (0 .. 7) \X (0 .. 7)
MCWord == ((0 .. 4095) \X MCKey \X (0 .. 3)) \cup {Zero}

Spec8(seed, subseq, offset) == [seed |-> seed, subseq |-> subseq, offset |-> offset]
MCCases == {Spec8(0, 0, 0), Spec8(63, 0, 3), Spec8(12, 0, 4), Spec8(12, 1, 30),
            Spec8(7, 8, 28), Spec8(7, 63, 33), Spec8(42, 63, 63)}
MCLists == {<<a, b>> : a, b \in MCCases}
=============================================================================
