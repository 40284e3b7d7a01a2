---------------------------- MODULE EngineOps ----------------------------
(***************************************************************************)
(* The operations of vphilox::basic_engine (include/vphilox/philox.hpp) as *)
(* operators on one engine value, a record with the class's four members.  *)
(*                                                                         *)
(* A 128-bit counter is a number below CounterPeriod (CounterProofs ties   *)
(* the four words of the code to that number).  The Philox function is     *)
(* the constant operator Philox: Philox(c, k) is the block of four words   *)
(* of counter c under key k.                                               *)
(***************************************************************************)
EXTENDS Integers

CONSTANTS
  Key,            \* the 64-bit keys
  Word,           \* the 32-bit words
  Zero,           \* the word 0, which a fresh buffer is filled with
  Philox(_, _),   \* Philox(counter, key): one block, a function on 0..3
  CounterPeriod,  \* 2^128 in the code
  RefillBlocks    \* blocks generated per refill (16 in the code)

BlockWords  == 4
RefillWords == RefillBlocks * BlockWords
Counter     == 0 .. CounterPeriod - 1

ASSUME EngineAssumption ==
  /\ CounterPeriod \in Nat \ {0}
  /\ RefillBlocks \in Nat \ {0}
  /\ Zero \in Word
  /\ \A c \in Counter, k \in Key : Philox(c, k) \in [0 .. 3 -> Word]

\* Mutant: the counter grows past its 128 bits.
CounterAdd_NoWrap(c, delta) == c + delta

CounterAdd(c, delta) == (c + delta) % CounterPeriod
CounterSub(c, delta) == (c - delta) % CounterPeriod

(***************************************************************************)
(* The contract every kernel meets: called as fn(c, k, dst, blocks), it    *)
(* writes block i of the stream from counter c at dst[4i .. 4i+3].         *)
(* KernelWord(c, k, i) is the word it leaves at dst[i].                    *)
(***************************************************************************)
KernelWord(c, k, i) ==
  Philox(CounterAdd(c, i \div BlockWords), k)[i % BlockWords]

EngineValue == [cursor : 0 .. RefillWords,
                key    : Key,
                next   : Counter,
                buffer : [0 .. RefillWords - 1 -> Word]]

\* basic_engine(key2, counter4); the other constructors start at counter 0.
Construct(k, start) ==
  [cursor |-> RefillWords, key |-> k, next |-> start,
   buffer |-> [i \in 0 .. RefillWords - 1 |-> Zero]]

Refill(e) ==
  [cursor |-> 0, key |-> e.key, next |-> CounterAdd(e.next, RefillBlocks),
   buffer |-> [i \in 0 .. RefillWords - 1 |-> KernelWord(e.next, e.key, i)]]

\* operator(): the engine the word is read from, the word, the engine left.
Ready(e)     == IF e.cursor >= RefillWords THEN Refill(e) ELSE e
CallWord(e)  == Ready(e).buffer[Ready(e).cursor]
AfterCall(e) == [Ready(e) EXCEPT !.cursor = @ + 1]

\* Mutant: what the buffer still covers is not taken off n.
Discard_BufferNotCounted(e, n) ==
  IF n < RefillWords - e.cursor
  THEN [e EXCEPT !.cursor = @ + n]
  ELSE [Refill([e EXCEPT !.next = CounterAdd(e.next, n \div BlockWords)])
          EXCEPT !.cursor = n % BlockWords]

Discard(e, n) ==
  LET remaining == RefillWords - e.cursor
      beyond    == n - remaining
      skipped   == [e EXCEPT !.next = CounterAdd(e.next, beyond \div BlockWords)]
  IN  IF n < remaining
      THEN [e EXCEPT !.cursor = @ + n]
      ELSE [Refill(skipped) EXCEPT !.cursor = beyond % BlockWords]

\* Mutant: the words buffered for the old position stay readable.
At_BufferKept(e, k, c) == [cursor |-> e.cursor, key |-> k, next |-> c, buffer |-> e.buffer]

\* The engine positioned at block c of stream k, its buffer spent.
At(e, k, c) == [cursor |-> RefillWords, key |-> k, next |-> c, buffer |-> e.buffer]

Reset(e)   == At(e, e.key, 0)
Seed(e, k) == At(e, k, 0)

(***************************************************************************)
(* state() and set_state(): the position a checkpoint holds, and the       *)
(* engine a checkpoint restores.                                           *)
(***************************************************************************)
\* Mutant: reports the counter of the next refill, as counter() does.
State_NextRefill(e) ==
  [key |-> e.key, counter |-> e.next, offset |-> e.cursor % BlockWords]

State(e) ==
  [key     |-> e.key,
   counter |-> CounterSub(e.next, RefillBlocks - (e.cursor \div BlockWords)),
   offset  |-> e.cursor % BlockWords]

\* Mutant: the offset of a damaged checkpoint is not reduced.
SetState_OffsetNotReduced(e, st) ==
  IF st.offset # 0 THEN Discard(At(e, st.key, st.counter), st.offset)
  ELSE At(e, st.key, st.counter)

SetState(e, st) ==
  LET placed == At(e, st.key, st.counter)
      offset == st.offset % BlockWords
  IN  IF offset # 0 THEN Discard(placed, offset) ELSE placed
=============================================================================
