---------------------------- MODULE MCCheckpoint ----------------------------
(***************************************************************************)
(* Checkpoint with symbolic words, and words of the text below 5 written   *)
(* in base 3: an offset outside a block and a number outside a word exist. *)
(***************************************************************************)
EXTENDS Checkpoint

MCPhilox(c, k) == [w \in 0 .. 3 |-> <<c, k, w>>]
MCWord == ((0 .. CounterPeriod - 1) \X Key \X (0 .. 3)) \cup {Zero}
\* Every key: a damaged text may name any.
MCKey == TextWord \X TextWord
MCSeeds == {<<1, 4>>}

Format(w, l, f) == [width |-> w, left |-> l, fill |-> f]
Plain  == Format(0, FALSE, Space)

\* Nothing set, and padded with spaces behind the text.
MCFormats == {Plain, Format(24, TRUE, Space)}
=============================================================================
