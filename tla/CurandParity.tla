--------------------------- MODULE CurandParity ---------------------------
(***************************************************************************)
(* tools/vphilox_curand_parity.cpp: cuRAND's Philox generator and an       *)
(* engine started from the state cuRAND reports, compared word by word,    *)
(* and that state compared with the one predicted from cuRAND's            *)
(* (seed, subsequence, offset).                                            *)
(*                                                                         *)
(* The engine is that of Engine; next to the number its counter stands for *)
(* runs the counter itself, four words moved by counter.hpp.  cuRAND is    *)
(* external: what the tool says of it (lines 99-102, 148-150), or one that *)
(* departs from it in its seeding or in its counter.                       *)
(***************************************************************************)
EXTENDS Engine, Sequences, FiniteSets

CONSTANTS
  Base,          \* values of a word, 2^32 in the code
  Lists,         \* the lists of cases
  Libraries,     \* the cuRANDs: "documented" and departures from it
  WordsPerCase   \* words_per_case

Wide == 0 .. Base * Base - 1      \* unsigned long long

ASSUME ParityAssumption ==
  /\ Base \in Nat \ {0, 1}
  /\ CounterPeriod = Base * Base * Base * Base
  /\ Key = (0 .. Base - 1) \X (0 .. Base - 1)
  /\ Libraries \subseteq {"documented", "offset_in_blocks", "sequence_below", "no_carry"}
  /\ WordsPerCase \in Nat \ {0} /\ MaxRequest >= WordsPerCase + 3
  /\ RefillBlocks \in Wide /\ MaxRequest \in Wide
  /\ \A list \in Lists : list \in Seq([seed : Wide, subseq : Wide, offset : Wide])

VARIABLES
  library,   \* which cuRAND the tool was built with
  cases,     \* the list of cases
  stage,     \* of the turn: "seed", "draw", "engine" or "compare"; then "exited"
  st,        \* cuRAND's state: ctr, key and STATE
  reported,  \* st as captured before a word is drawn
  ref,       \* the words drawn
  counter,   \* the engine's counter_, word by word
  core, mapping,  \* core_failures, mapping_failures
  status,    \* the exit status
  compared   \* history: the reported state and the words of each case

tool  == <<library, cases, stage, st, reported, ref, core, mapping, status, compared>>
pvars == <<vars, counter, tool>>

\* counter.hpp, on the four words of the counter.
Words == INSTANCE CounterWords

Case == cases[Len(compared) + 1]

---------------------------------------------------------------------------
(* cuRAND, external. *)

CurandInit(s) ==
  LET blocks == IF library = "offset_in_blocks" THEN s.offset ELSE s.offset \div 4
      unit   == IF library = "sequence_below" THEN 1 ELSE Base * Base
  IN  [ctr   |-> Words!CounterOf(((s.subseq * unit) + blocks) % CounterPeriod),
       key   |-> <<s.seed % Base, s.seed \div Base>>,
       index |-> IF library = "offset_in_blocks" THEN 0 ELSE s.offset % 4]

\* The word curand() returns, and the state it leaves.
CurandWord(s) == Philox(Words!Value(s.ctr), s.key)[s.index]

AfterCurand(s) ==
  LET next == IF library = "no_carry" THEN [s.ctr EXCEPT ![0] = (@ + 1) % Base]
              ELSE Words!CounterOf((Words!Value(s.ctr) + 1) % CounterPeriod)
  IN  IF s.index < 3 THEN [s EXCEPT !.index = @ + 1]
      ELSE [ctr |-> next, key |-> s.key, index |-> 0]

---------------------------------------------------------------------------
(* The tool. *)

PredictedCounter(subseq, offset) ==
  LET lo == offset \div 4
  IN  [i \in 0 .. 3 |-> <<lo % Base, lo \div Base, subseq % Base, subseq \div Base>>[i + 1]]

PredictedKey(seed) == <<seed % Base, seed \div Base>>

PInit ==
  /\ eng = Construct(<<0, 0>>, 0) /\ counter = Words!CounterOf(0)
  /\ pc = "idle" /\ mem = Fresh /\ at = 0 /\ asked = 0 /\ refills = 0
  /\ library \in Libraries
  /\ cases \in Lists
  /\ stage = "seed"
  /\ st = [ctr |-> Words!CounterOf(0), key |-> <<0, 0>>, index |-> 0]
  /\ reported = st
  /\ ref = <<>>
  /\ core = 0 /\ mapping = 0 /\ status = 0
  /\ compared = <<>>

Begin ==
  /\ stage = "seed"
  /\ Len(compared) < Len(cases)
  /\ st' = CurandInit(Case)
  /\ reported' = st'
  /\ ref' = <<>>
  /\ stage' = "draw"
  /\ UNCHANGED <<vars, counter, library, cases, core, mapping, status, compared>>

Draw ==
  /\ stage = "draw"
  /\ ref' = Append(ref, CurandWord(st))
  /\ st' = AfterCurand(st)
  /\ stage' = IF Len(ref') = WordsPerCase THEN "engine" ELSE "draw"
  /\ UNCHANGED <<vars, counter, library, cases, reported, core, mapping, status, compared>>

\* Mutant: room and words for the words compared only.
Start_NoExtraWords ==
  /\ stage = "engine"
  /\ eng' = Construct(reported.key, Words!Value(reported.ctr))
  /\ counter' = reported.ctr
  /\ mem' = Fresh /\ at' = 0 /\ asked' = WordsPerCase /\ refills' = 0
  /\ pc' = "drain"
  /\ stage' = "compare"
  /\ UNCHANGED <<library, cases, st, reported, ref, core, mapping, status, compared>>

\* A fresh engine where cuRAND says it is; generate_n fills the words to skip, too.
Start ==
  /\ stage = "engine"
  /\ eng' = Construct(reported.key, Words!Value(reported.ctr))
  /\ counter' = reported.ctr
  /\ mem' = Fresh /\ at' = 0 /\ asked' = WordsPerCase + reported.index /\ refills' = 0
  /\ pc' = "drain"
  /\ stage' = "compare"
  /\ UNCHANGED <<library, cases, st, reported, ref, core, mapping, status, compared>>

\* The engine's loop, and the counter_add that goes with each step of it.
EngineStep ==
  /\ \/ Drain /\ counter' = counter
     \/ Direct /\ counter' = Words!CounterAdd(counter, left \div BlockWords)
     \/ DoRefill /\ counter' = Words!CounterAdd(counter, RefillBlocks)
  /\ UNCHANGED tool

Compare ==
  LET coreOk    == \A i \in 1 .. WordsPerCase : mem[i - 1 + reported.index] = ref[i]
      mappingOk == /\ PredictedCounter(Case.subseq, Case.offset) = reported.ctr
                   /\ PredictedKey(Case.seed) = reported.key
                   /\ Case.offset % 4 = reported.index
  IN  /\ stage = "compare"
      /\ pc = "idle"
      /\ core' = core + (IF coreOk THEN 0 ELSE 1)
      /\ mapping' = mapping + (IF mappingOk THEN 0 ELSE 1)
      /\ compared' = Append(compared, [state |-> reported, words |-> ref])
      /\ stage' = "seed"
      /\ UNCHANGED <<vars, counter, library, cases, st, reported, ref, status>>

Verdict ==
  /\ stage = "seed"
  /\ Len(compared) = Len(cases)
  /\ status' = IF core = 0 /\ mapping = 0 THEN 0 ELSE 1
  /\ stage' = "exited"
  /\ UNCHANGED <<vars, counter, library, cases, st, reported, ref, core, mapping, compared>>

Exited == stage = "exited" /\ UNCHANGED pvars

PNext == Begin \/ Draw \/ Start \/ EngineStep \/ Compare \/ Verdict \/ Exited
PSpec == PInit /\ [][PNext]_pvars

---------------------------------------------------------------------------

\* WordsPerCase words of stream k from position p on.
StreamFrom(k, p) == [i \in 1 .. WordsPerCase |-> StreamWord(k, (p + i - 1) % Period)]

\* The words a user of (seed, subsequence, offset) is told to expect.
Promised(s) ==
  StreamFrom(PredictedKey(s.seed), (4 * Base * Base * s.subseq + s.offset) % Period)

\* What cuRAND did in case t does not follow from the state it reported.
Departs(t) ==
  LET s == compared[t].state
  IN  compared[t].words # StreamFrom(s.key, (4 * Words!Value(s.ctr) + s.index) % Period)

(***************************************************************************)
(* The tool says IDENTICAL of a cuRAND exactly when subsequence and offset *)
(* name the same words in both libraries, mid-block offsets and carries    *)
(* out of the low word included, and it blames the core exactly for the    *)
(* cases in which cuRAND leaves the stream of its own state.               *)
(* (vphilox_curand_parity.cpp 21-30, 98-111, 138-209)                      *)
(***************************************************************************)
VerdictIsTrue ==
  stage = "exited" =>
    /\ status = 0 <=> \A t \in DOMAIN cases : compared[t].words = Promised(cases[t])
    /\ core = Cardinality({t \in DOMAIN cases : Departs(t)})

(***************************************************************************)
(* The engine's four counter words stand for the number of the block it    *)
(* generates next, after every refill and every direct call of the kernel, *)
(* and would after any other move: the carries of a 64-bit delta go as far *)
(* as they must.  (counter.hpp 16-28, philox.hpp 164-181)                  *)
(***************************************************************************)
CounterStandsForPosition ==
  /\ counter \in Words!Counter
  /\ Words!Value(counter) = eng.next
  /\ \A delta \in Wide :
       Words!Value(Words!CounterAdd(counter, delta)) = (eng.next + delta) % CounterPeriod

\* counter_sub is "the exact inverse of counter_add".  (counter.hpp 33)
SubUndoesAdd ==
  \A delta \in Wide :
    /\ Words!CounterSub(Words!CounterAdd(counter, delta), delta) = counter
    /\ Words!CounterAdd(Words!CounterSub(counter, delta), delta) = counter
=============================================================================
