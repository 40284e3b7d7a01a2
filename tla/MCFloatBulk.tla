---------------------------- MODULE MCFloatBulk ----------------------------
(***************************************************************************)
(* FloatBulk with six-bit words that lose one bit on their way to a float; *)
(* the 28 words of the stream still give 28 floats, none of them 0.  The   *)
(* tile is as wide as the buffer and one direct call together, the         *)
(* narrowest for which the claim about the direct path holds; in the code  *)
(* there is room to spare.  What is untouched is a number no word equals,  *)
(* so that converting it is defined.                                       *)
(***************************************************************************)
EXTENDS FloatBulk

MCPhilox(c, k) == [w \in 0 .. 3 |-> (2 * (4 * c + w + 1)) + (w % 2)]
MCWord == 0 .. 63
=============================================================================
