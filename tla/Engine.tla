------------------------------ MODULE Engine ------------------------------
(***************************************************************************)
(* One engine and its caller (include/vphilox/philox.hpp).                 *)
(*                                                                         *)
(* The short operations are one action each.  generate_n(u32*, count) is   *)
(* the loop of the source, one action per branch of its body: Drain the    *)
(* buffer, hand the wide middle to the kernel (Direct), or Refill and go   *)
(* round again.  The engine is not shared between threads ("Not            *)
(* thread-safe as an object"), so nothing happens between those steps      *)
(* except the steps themselves.                                            *)
(***************************************************************************)
EXTENDS EngineOps

CONSTANTS
  PreferredBlocks,  \* dispatch_entry::preferred_blocks of the selected kernel
  MaxRequest,       \* largest count a caller passes to generate_n
  Skips,            \* the arguments of discard()
  Offsets,          \* the word offsets found in a restored state
  Untouched         \* what a cell of memory holds that nobody wrote

ASSUME CallerAssumption ==
  /\ PreferredBlocks \in Nat \ {0}
  /\ MaxRequest \in Nat \ {0, 1}
  /\ Skips \subseteq Nat
  /\ Offsets \subseteq Nat

VARIABLES
  eng,     \* the engine
  pc,      \* where generate_n is: "idle", "drain", "wide" or "refill"
  mem,     \* the array at dst, with one cell past the largest request
  at,      \* how far dst has been advanced
  asked,   \* the count the caller passed
  refills  \* refills made by the current call to generate_n: 0, 1, or 2 for more

vars == <<eng, pc, mem, at, asked, refills>>
caller == <<mem, at, asked>>

Fresh == [i \in 0 .. MaxRequest |-> Untouched]
left  == asked - at

\* The count of refills stops here: only "more than one" matters.
MoreThanOne == 2

\* array with words[0], ..., words[m-1] stored from index a on.
Stored(array, a, m, words) ==
  [i \in 0 .. MaxRequest |-> IF i \in a .. a + m - 1 THEN words[i - a] ELSE array[i]]

TypeOK ==
  /\ eng \in EngineValue
  /\ pc \in {"idle", "drain", "wide", "refill"}
  /\ mem \in [0 .. MaxRequest -> Word \cup {Untouched}]
  /\ at \in 0 .. asked
  /\ asked \in 0 .. MaxRequest
  /\ refills \in 0 .. MoreThanOne

Init ==
  /\ eng \in {Construct(k, c) : k \in Key, c \in Counter}
  /\ pc = "idle"
  /\ mem = Fresh
  /\ at = 0
  /\ asked = 0
  /\ refills = 0

---------------------------------------------------------------------------
(* The operations that return in one step. *)

\* No call is running and the caller has used the words of the last one.
Free == pc = "idle" /\ asked = 0

Call ==
  /\ Free
  /\ eng' = AfterCall(eng)
  /\ mem' = Stored(mem, 0, 1, [i \in 0 .. 0 |-> CallWord(eng)])
  /\ at' = 1
  /\ asked' = 1
  /\ UNCHANGED <<pc, refills>>

\* next_double(): the low word is the first of two calls.
NextDouble ==
  LET second == AfterCall(eng)
  IN  /\ Free
      /\ eng' = AfterCall(second)
      /\ mem' = Stored(mem, 0, 2, [i \in 0 .. 1 |-> IF i = 0 THEN CallWord(eng)
                                                          ELSE CallWord(second)])
      /\ at' = 2
      /\ asked' = 2
      /\ UNCHANGED <<pc, refills>>

DoDiscard(n) ==
  /\ Free
  /\ eng' = Discard(eng, n)
  /\ UNCHANGED <<pc, refills, caller>>

DoSeed(k) ==
  /\ Free
  /\ eng' = Seed(eng, k)
  /\ UNCHANGED <<pc, refills, caller>>

DoReset ==
  /\ Free
  /\ eng' = Reset(eng)
  /\ UNCHANGED <<pc, refills, caller>>

DoSetState(st) ==
  /\ Free
  /\ eng' = SetState(eng, st)
  /\ UNCHANGED <<pc, refills, caller>>

\* The caller uses the words and hands the array to a later call.
Take ==
  /\ pc = "idle"
  /\ asked # 0
  /\ mem' = Fresh
  /\ at' = 0
  /\ asked' = 0
  /\ refills' = 0
  /\ UNCHANGED <<eng, pc>>

---------------------------------------------------------------------------
(* generate_n(u32* dst, size_t count) *)

Generate(n) ==
  /\ Free
  /\ pc' = "drain"
  /\ asked' = n
  /\ UNCHANGED <<eng, mem, at, refills>>

\* Mutant: a wide request goes straight to the kernel.
Drain_SkippedWhenWide ==
  LET available == RefillWords - eng.cursor
      buffered  == IF left < available THEN left
                   ELSE IF left >= RefillWords THEN 0 ELSE available
  IN  /\ pc = "drain"
      /\ mem' = Stored(mem, at, buffered,
                       [i \in 0 .. buffered - 1 |-> eng.buffer[eng.cursor + i]])
      /\ eng' = [eng EXCEPT !.cursor = @ + buffered]
      /\ at' = at + buffered
      /\ pc' = IF left = buffered THEN "idle" ELSE "wide"
      /\ UNCHANGED <<asked, refills>>

Drain ==
  LET available == RefillWords - eng.cursor
      buffered  == IF left < available THEN left ELSE available
  IN  /\ pc = "drain"
      /\ mem' = Stored(mem, at, buffered,
                       [i \in 0 .. buffered - 1 |-> eng.buffer[eng.cursor + i]])
      /\ eng' = [eng EXCEPT !.cursor = @ + buffered]
      /\ at' = at + buffered
      /\ pc' = IF left = buffered THEN "idle" ELSE "wide"
      /\ UNCHANGED <<asked, refills>>

\* Mutant: the width is taken for a number of words.
WideEnough_InWords == left \div BlockWords >= PreferredBlocks * BlockWords

\* Wide enough to fill the kernel's tail-free width.
WideEnough == left \div BlockWords >= PreferredBlocks

\* Mutant: the counter is left where it was.
Direct_CounterNotAdvanced ==
  LET words == (left \div BlockWords) * BlockWords
  IN  /\ pc = "wide"
      /\ WideEnough
      /\ mem' = Stored(mem, at, words,
                       [i \in 0 .. words - 1 |-> KernelWord(eng.next, eng.key, i)])
      /\ at' = at + words
      /\ pc' = IF left = words THEN "idle" ELSE "refill"
      /\ UNCHANGED <<eng, asked, refills>>

Direct ==
  LET blocks == left \div BlockWords
      words  == blocks * BlockWords
  IN  /\ pc = "wide"
      /\ WideEnough
      /\ mem' = Stored(mem, at, words,
                       [i \in 0 .. words - 1 |-> KernelWord(eng.next, eng.key, i)])
      /\ eng' = [eng EXCEPT !.next = CounterAdd(@, blocks)]
      /\ at' = at + words
      /\ pc' = IF left = words THEN "idle" ELSE "refill"
      /\ UNCHANGED <<asked, refills>>

\* Mutant: the cursor is left at the end of the buffer.
DoRefill_CursorKept ==
  /\ \/ pc = "wide" /\ ~WideEnough
     \/ pc = "refill"
  /\ eng' = [Refill(eng) EXCEPT !.cursor = RefillWords]
  /\ refills' = IF refills < MoreThanOne THEN refills + 1 ELSE refills
  /\ pc' = "drain"
  /\ UNCHANGED caller

DoRefill ==
  /\ \/ pc = "wide" /\ ~WideEnough
     \/ pc = "refill"
  /\ eng' = Refill(eng)
  /\ refills' = IF refills < MoreThanOne THEN refills + 1 ELSE refills
  /\ pc' = "drain"
  /\ UNCHANGED caller

Step == Drain \/ Direct \/ DoRefill

Checkpoint == [key : Key, counter : Counter, offset : Offsets]

Next ==
  \/ Call
  \/ NextDouble
  \/ \E n \in Skips : DoDiscard(n)
  \/ \E k \in Key : DoSeed(k)
  \/ DoReset
  \/ Take
  \/ \E st \in Checkpoint : DoSetState(st)
  \/ \E n \in 0 .. MaxRequest : Generate(n)
  \/ Step

Safety == Init /\ [][Next]_vars

\* A thread inside generate_n keeps running until the call returns.
Spec == Safety /\ WF_vars(Step)

---------------------------------------------------------------------------
(* The stream position, and the abstract specification it is a position of. *)

Period == BlockWords * CounterPeriod
StreamWord(k, p) == Philox(p \div BlockWords, k)[p % BlockWords]

\* The position state() reports.
Position(e) == State(e).counter * BlockWords + State(e).offset

Abstract == INSTANCE Stream WITH key <- eng.key, pos <- Position(eng)

(***************************************************************************)
(* The engine implements the stream: generate_n, operator(), next_double() *)
(* hand out consecutive stream words from the position state() reports,    *)
(* each once and in order, and write no cell outside the request; no call  *)
(* leaves the position anywhere else.  (philox.hpp 130-183, 289-296)       *)
(***************************************************************************)
ImplementsStream == Abstract!Spec

(***************************************************************************)
(* Every word still to be read from the buffer is the stream word of its   *)
(* position under the current key: no seed, reset, restore, discard or     *)
(* bulk call leaves stale words readable.  (philox.hpp 150-183, 231-331)   *)
(***************************************************************************)
BufferIsStream ==
  \A i \in eng.cursor .. RefillWords - 1 :
    eng.buffer[i] =
      StreamWord(eng.key, (Position(eng) + (i - eng.cursor)) % Period)

(***************************************************************************)
(* The kernel and the refill run only on an empty buffer: words already    *)
(* buffered are never overtaken by later ones.  (philox.hpp 164-181)       *)
(***************************************************************************)
BufferDrainedFirst == pc \in {"wide", "refill"} => eng.cursor = RefillWords

(***************************************************************************)
(* No backend ever has to split a refill (philox.hpp 29-31): one call to   *)
(* generate_n refills at most once when a refill is at least as wide as    *)
(* the kernel's preferred width.                                           *)
(***************************************************************************)
OneRefillPerCall == PreferredBlocks <= RefillBlocks => refills <= 1

(***************************************************************************)
(* discard(n) is n calls to operator(), whatever part of n the buffer      *)
(* covers, and leaves the key alone.  (philox.hpp 231-247)                 *)
(***************************************************************************)
DiscardIsExact ==
  \A n \in Skips :
    /\ Position(Discard(eng, n)) = (Position(eng) + n) % Period
    /\ Discard(eng, n).key = eng.key

(***************************************************************************)
(* Seeding and reset go to word 0, and a restored checkpoint goes to the   *)
(* word it names, its offset taken modulo the block size, from whatever    *)
(* buffer and cursor the engine had before.  (philox.hpp 250-281, 304-315) *)
(***************************************************************************)
RestoreIsExact ==
  /\ \A k \in Key : Position(Seed(eng, k)) = 0 /\ Seed(eng, k).key = k
  /\ Position(Reset(eng)) = 0
  /\ \A st \in Checkpoint :
       /\ Position(SetState(eng, st)) = st.counter * BlockWords + (st.offset % BlockWords)
       /\ SetState(eng, st).key = st.key

\* Every call to generate_n returns: its while (true) loop always advances.
CallReturns == pc # "idle" ~> pc = "idle"
=============================================================================
