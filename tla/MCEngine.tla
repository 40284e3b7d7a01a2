----------------------------- MODULE MCEngine -----------------------------
(***************************************************************************)
(* Engine with symbolic words: the word of counter c, key k and lane w is  *)
(* the triple itself, so two words are equal only if they are the same     *)
(* word of the same stream.                                                *)
(***************************************************************************)
EXTENDS Engine

MCPhilox(c, k) == [w \in 0 .. 3 |-> <<c, k, w>>]
MCWord == (Counter \X Key \X (0 .. 3)) \cup {Zero}

\* discard(): nothing, inside the buffer, past it, and past a whole period.
MCSkips == 0 .. RefillWords + 5 \cup {Period + 3}
\* In range, and the out-of-range offsets of a damaged checkpoint.
MCOffsets == {0, 1, 3, 6}
=============================================================================
