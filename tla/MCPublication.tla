--------------------------- MODULE MCPublication ---------------------------
(***************************************************************************)
(* Publication with the matrix and the perf run of one machine, two        *)
(* commits of which the first has no scaling suite yet, and one result     *)
(* that was archived by hand.  The machine has two CPUs, which are found   *)
(* with different governors, or shows none; a script that restored the     *)
(* first's leaves both with one governor to the next.                      *)
(***************************************************************************)
EXTENDS Publication

CONSTANTS old, new, avx2, scalar, cpu0, cpu1

MCHasRows == [v \in Versions |-> IF v = old THEN {"engines"} ELSE Benches]
MCSuites  == {<<"engines", FALSE>>, <<"scaling", TRUE>>}
MCMachines ==
  {[c \in Cpus |-> IF c = First THEN "powersave" ELSE Performance],
   [c \in Cpus |-> Unavailable]}
MCOrder   == <<"baseline", "icache", "matrix">>
MCElderNumbers ==
  [run |-> 0, version |-> old, cycles |-> TRUE, mpki |-> FALSE,
   backend |-> None]
MCSharedLines == [run |-> 0, sha |-> old, governor |-> Performance, backend |-> None]
=============================================================================
