--------------------------- MODULE EngineProofs ---------------------------
(***************************************************************************)
(* Proofs about the engine and the two programs built on it: Engine, the   *)
(* bulk float path of FloatBulk and the parity tool of CurandParity.  They *)
(* hold for every refill size, kernel width, counter period, request size, *)
(* tile, width of word and list of cases, and every Philox function.       *)
(***************************************************************************)
EXTENDS FloatBulk, CurandParity, FiniteSetTheorems, TLAPS

\* The lemmas on the four counter words, in the base of the parity tool; and those on
\* quotients and remainders, which are about no base and are taken at base 2.
Counters == INSTANCE CounterProofs
Binary   == INSTANCE CounterProofs WITH Base <- 2

USE DEF BlockWords

---------------------------------------------------------------------------
(* Quotients and remainders. *)

\* What the instance at base 2 assumes.
LEMMA TwoIsABase == 2 \in Nat \ {0, 1}
  OBVIOUS

\* Division with remainder: the quotient and the remainder determine x.
LEMMA DivisionTheorem ==
  ASSUME NEW x \in Int, NEW m \in Nat \ {0}
  PROVE  /\ x = m * (x \div m) + (x % m)
         /\ (x % m) \in 0 .. m - 1
         /\ (x \div m) \in Int
  BY TwoIsABase, Binary!DivisionTheorem

\* Quotient and remainder are unique.
LEMMA DivisionUnique ==
  ASSUME NEW q \in Int, NEW r \in Int, NEW q2 \in Int, NEW r2 \in Int, NEW m \in Nat \ {0},
         0 <= r, r < m, 0 <= r2, r2 < m, m * q + r = m * q2 + r2
  PROVE  q = q2 /\ r = r2
  BY TwoIsABase, Binary!DivisionUnique

\* A remainder may be taken early: ((x mod m) + y) mod m = (x + y) mod m.
LEMMA ModAdd ==
  ASSUME NEW x \in Int, NEW y \in Int, NEW m \in Nat \ {0}
  PROVE  ((x % m) + y) % m = (x + y) % m
  BY TwoIsABase, Binary!ModAdd

\* A small number is its own remainder.
LEMMA ModSmall ==
  ASSUME NEW m \in Nat \ {0}, NEW x \in 0 .. m - 1
  PROVE  x % m = x
  BY TwoIsABase, Binary!ModSmall

\* Word w of block b: its position modulo 4m is word w of block b modulo m.
LEMMA ModBlock ==
  ASSUME NEW m \in Nat \ {0}, NEW b \in Int, NEW w \in 0 .. 3
  PROVE  (4 * b + w) % (4 * m) = 4 * (b % m) + w
  BY TwoIsABase, Binary!ModBlock

\* A block number may be reduced modulo m before its words are counted.
LEMMA ModBlockAdd ==
  ASSUME NEW m \in Nat \ {0}, NEW b \in Int, NEW y \in Int
  PROVE  (4 * (b % m) + y) % (4 * m) = (4 * b + y) % (4 * m)
  BY TwoIsABase, Binary!ModBlockAdd

---------------------------------------------------------------------------
(* The operations are well typed. *)

\* Advancing a counter gives a counter.
LEMMA CounterAddType ==
  ASSUME NEW c \in Int, NEW d \in Int
  PROVE  CounterAdd(c, d) \in Counter /\ CounterSub(c, d) \in Counter
<1> DEFINE a == c + d
           b == c - d
<1>1. a \in Int /\ b \in Int /\ CounterPeriod \in Nat \ {0}
  BY EngineAssumption
<1> HIDE DEF a, b
<1>2. a % CounterPeriod \in 0 .. CounterPeriod - 1 /\ b % CounterPeriod \in 0 .. CounterPeriod - 1
  BY <1>1, DivisionTheorem
<1> QED BY <1>2 DEF CounterAdd, CounterSub, Counter, a, b

\* What a kernel writes are words.
LEMMA KernelWordType ==
  ASSUME NEW c \in Counter, NEW k \in Key, NEW i \in Nat
  PROVE  KernelWord(c, k, i) \in Word
<1>1. i \div 4 \in Int /\ i % 4 \in 0 .. 3 /\ c \in Int
  BY EngineAssumption DEF Counter
<1>2. CounterAdd(c, i \div 4) \in Counter
  BY <1>1, CounterAddType
<1>3. Philox(CounterAdd(c, i \div 4), k) \in [0 .. 3 -> Word]
  BY <1>2, EngineAssumption
<1> QED BY <1>1, <1>3 DEF KernelWord

\* Moving the cursor keeps an engine an engine.
LEMMA CursorType ==
  ASSUME NEW e \in EngineValue, NEW c \in 0 .. RefillWords
  PROVE  /\ [e EXCEPT !.cursor = c] \in EngineValue
         /\ [e EXCEPT !.cursor = c].cursor = c
         /\ [e EXCEPT !.cursor = c].key = e.key
         /\ [e EXCEPT !.cursor = c].next = e.next
         /\ [e EXCEPT !.cursor = c].buffer = e.buffer
  BY DEF EngineValue

\* Moving the next counter keeps an engine an engine.
LEMMA NextType ==
  ASSUME NEW e \in EngineValue, NEW c \in Counter
  PROVE  /\ [e EXCEPT !.next = c] \in EngineValue
         /\ [e EXCEPT !.next = c].cursor = e.cursor
         /\ [e EXCEPT !.next = c].key = e.key
         /\ [e EXCEPT !.next = c].next = c
         /\ [e EXCEPT !.next = c].buffer = e.buffer
  BY DEF EngineValue

\* A refill of an engine is an engine.
LEMMA RefillType ==
  ASSUME NEW e \in EngineValue
  PROVE  /\ Refill(e) \in EngineValue
         /\ Refill(e).cursor = 0
         /\ Refill(e).key = e.key
         /\ Refill(e).next = CounterAdd(e.next, RefillBlocks)
         /\ \A i \in 0 .. RefillWords - 1 : Refill(e).buffer[i] = KernelWord(e.next, e.key, i)
<1>1. e.next \in Counter /\ e.key \in Key /\ e.next \in Int /\ RefillBlocks \in Int
  BY EngineAssumption DEF EngineValue, Counter
<1>2. [i \in 0 .. RefillWords - 1 |-> KernelWord(e.next, e.key, i)] \in [0 .. RefillWords - 1 -> Word]
  BY <1>1, KernelWordType
<1>3. CounterAdd(e.next, RefillBlocks) \in Counter
  BY <1>1, CounterAddType
<1>4. RefillWords \in Nat \ {0}
  BY EngineAssumption DEF RefillWords
<1> QED BY <1>1, <1>2, <1>3, <1>4 DEF Refill, EngineValue

\* operator() leaves an engine, and hands out a word.
LEMMA ReadyType ==
  ASSUME NEW e \in EngineValue
  PROVE  /\ Ready(e) \in EngineValue
         /\ Ready(e).cursor \in 0 .. RefillWords - 1
         /\ Ready(e).key = e.key
         /\ CallWord(e) \in Word
         /\ AfterCall(e) \in EngineValue
<1>1. RefillWords \in Nat \ {0}
  BY EngineAssumption DEF RefillWords
<1>2. /\ Ready(e) \in EngineValue
      /\ Ready(e).cursor \in 0 .. RefillWords - 1
      /\ Ready(e).key = e.key
  BY <1>1, RefillType DEF Ready, EngineValue
<1>3. CallWord(e) \in Word
  BY <1>2 DEF CallWord, EngineValue
<1>4. AfterCall(e) \in EngineValue
  BY <1>1, <1>2, SMTT(20) DEF AfterCall, EngineValue
<1> QED BY <1>2, <1>3, <1>4

\* What discard() leaves: a moved cursor, or a refill from the target block.
LEMMA DiscardType ==
  ASSUME NEW e \in EngineValue, NEW n \in Nat
  PROVE  /\ Discard(e, n) \in EngineValue
         /\ Discard(e, n).key = e.key
<1> DEFINE remaining == RefillWords - e.cursor
           beyond    == n - remaining
           skipped   == [e EXCEPT !.next = CounterAdd(e.next, beyond \div 4)]
           filled    == Refill(skipped)
           offset    == beyond % 4
<1>1. RefillWords \in Nat /\ RefillWords >= 4 /\ e.cursor \in 0 .. RefillWords
  BY EngineAssumption DEF RefillWords, EngineValue
<1>2. CASE n < remaining
  <2>1. e.cursor + n \in 0 .. RefillWords
    BY <1>1, <1>2
  <2>2. Discard(e, n) = [e EXCEPT !.cursor = e.cursor + n]
    BY <1>2 DEF Discard, EngineValue
  <2> QED BY <2>1, <2>2, CursorType
<1>3. CASE ~(n < remaining)
  <2>1. beyond \div 4 \in Int /\ offset \in 0 .. RefillWords
    BY <1>1, <1>3
  <2>2. e.next \in Int
    BY EngineAssumption DEF EngineValue, Counter
  <2>3. CounterAdd(e.next, beyond \div 4) \in Counter
    BY <2>1, <2>2, CounterAddType
  <2>4. skipped \in EngineValue /\ skipped.key = e.key
    BY <2>3, NextType
  <2> HIDE DEF skipped
  <2>5. filled \in EngineValue /\ filled.key = e.key
    BY <2>4, RefillType
  <2>6. Discard(e, n) = [filled EXCEPT !.cursor = offset]
    BY <1>3 DEF Discard, skipped
  <2> HIDE DEF filled, offset
  <2> QED BY <2>1, <2>5, <2>6, CursorType
<1> QED BY <1>2, <1>3

\* Repositioning an engine gives an engine.
LEMMA AtType ==
  ASSUME NEW e \in EngineValue, NEW k \in Key, NEW c \in Counter
  PROVE  At(e, k, c) \in EngineValue
<1>1. RefillWords \in Nat
  BY EngineAssumption DEF RefillWords
<1> QED BY <1>1 DEF At, EngineValue

\* Seeding and reset give engines.
LEMMA SeedType ==
  ASSUME NEW e \in EngineValue, NEW k \in Key
  PROVE  Seed(e, k) \in EngineValue /\ Reset(e) \in EngineValue
<1>1. 0 \in Counter /\ e.key \in Key
  BY EngineAssumption DEF Counter, EngineValue
<1> QED BY <1>1, AtType DEF Seed, Reset

\* Restoring a checkpoint gives an engine.
LEMMA SetStateType ==
  ASSUME NEW e \in EngineValue, NEW saved \in Checkpoint
  PROVE  SetState(e, saved) \in EngineValue
<1> DEFINE placed == At(e, saved.key, saved.counter)
           offset == saved.offset % 4
<1>1. saved.key \in Key /\ saved.counter \in Counter /\ saved.offset \in Nat
  BY CallerAssumption DEF Checkpoint
<1>2. placed \in EngineValue
  BY <1>1, AtType
<1>3. offset \in Nat
  BY <1>1
<1> HIDE DEF placed, offset
<1>4. Discard(placed, offset) \in EngineValue
  BY <1>2, <1>3, DiscardType
<1> QED BY <1>2, <1>4 DEF SetState, placed, offset

---------------------------------------------------------------------------
(* Positions.  Word i of the buffer of e is word 4 (next - RefillBlocks) + i *)
(* of the stream, reduced modulo the period.                               *)

BufferPosition(e, i) == (4 * (e.next - RefillBlocks) + i) % Period

BufferOK(e) ==
  \A i \in e.cursor .. RefillWords - 1 : e.buffer[i] = StreamWord(e.key, BufferPosition(e, i))

\* The sizes, in the form the provers use them (EngineAssumption).
LEMMA PeriodType == Period \in Nat \ {0} /\ CounterPeriod \in Nat \ {0} /\ RefillBlocks \in Nat \ {0}
  BY EngineAssumption DEF Period

\* The words of a kernel call are consecutive words of the stream.
LEMMA KernelIsStream ==
  ASSUME NEW c \in Int, NEW k \in Key, NEW i \in Nat
  PROVE  KernelWord(c, k, i) = StreamWord(k, (4 * c + i) % Period)
<1> DEFINE b == c + (i \div 4)
           w == i % 4
           r == b % CounterPeriod
           p == (4 * c + i) % Period
<1>1. b \in Int /\ w \in 0 .. 3 /\ 4 * c + i = 4 * b + w
  OBVIOUS
<1>2. KernelWord(c, k, i) = Philox(r, k)[w]
  BY DEF KernelWord, CounterAdd
<1>3. Period = 4 * CounterPeriod
  BY EngineAssumption DEF Period
<1> HIDE DEF b, w
<1>4. r \in 0 .. CounterPeriod - 1
  BY <1>1, DivisionTheorem, PeriodType
<1>5. p = 4 * r + w
  BY <1>1, <1>3, ModBlock, PeriodType
<1> HIDE DEF r, p
<1>6. p \div 4 = r /\ p % 4 = w
  BY <1>1, <1>4, <1>5
<1>7. StreamWord(k, p) = Philox(r, k)[w]
  BY <1>6 DEF StreamWord
<1> QED BY <1>2, <1>7 DEF p

\* The position state() reports is that of the word under the cursor.
LEMMA PositionOfCursor ==
  ASSUME NEW e \in EngineValue
  PROVE  /\ Position(e) = BufferPosition(e, e.cursor)
         /\ Position(e) \in 0 .. Period - 1
<1> DEFINE b == e.next - (RefillBlocks - (e.cursor \div 4))
           w == e.cursor % 4
           r == b % CounterPeriod
           s == 4 * (e.next - RefillBlocks) + e.cursor
<1>1. e.next \in Int /\ e.cursor \in Nat
  BY PeriodType DEF EngineValue, Counter
<1>2. b \in Int /\ w \in 0 .. 3 /\ s = 4 * b + w
  BY <1>1, PeriodType
<1>3. Position(e) = r * 4 + w
  BY DEF Position, State, CounterSub
<1>4. Period = 4 * CounterPeriod
  BY PeriodType DEF Period
<1> HIDE DEF b, w
<1>5. r \in 0 .. CounterPeriod - 1
  BY <1>2, DivisionTheorem, PeriodType
<1>6. s % Period = 4 * r + w
  BY <1>2, <1>4, ModBlock, PeriodType
<1> HIDE DEF r
<1>7. Position(e) = s % Period
  BY <1>2, <1>3, <1>5, <1>6
<1>8. Position(e) \in 0 .. Period - 1
  BY <1>2, <1>3, <1>4, <1>5, PeriodType
<1> QED BY <1>7, <1>8 DEF BufferPosition

\* A distance from the cursor is a distance from the position.
LEMMA PositionAhead ==
  ASSUME NEW e \in EngineValue, NEW d \in Int
  PROVE  (Position(e) + d) % Period = BufferPosition(e, e.cursor + d)
<1> DEFINE s == 4 * (e.next - RefillBlocks) + e.cursor
<1>1. s \in Int
  BY PeriodType DEF EngineValue, Counter
<1>2. Position(e) = s % Period
  BY PositionOfCursor DEF BufferPosition
<1>3. s + d = 4 * (e.next - RefillBlocks) + (e.cursor + d)
  BY PeriodType DEF EngineValue, Counter
<1> HIDE DEF s
<1>4. ((s % Period) + d) % Period = (s + d) % Period
  BY <1>1, ModAdd, PeriodType
<1> QED BY <1>2, <1>3, <1>4 DEF BufferPosition

\* After a refill from counter c, word i of the buffer is word 4c + i.
LEMMA PositionAfterRefill ==
  ASSUME NEW e \in EngineValue, NEW c \in Int, NEW i \in Int,
         e.next = CounterAdd(c, RefillBlocks)
  PROVE  BufferPosition(e, i) = (4 * c + i) % Period
<1> DEFINE b == c + RefillBlocks
           y == i - 4 * RefillBlocks
           r == b % CounterPeriod
<1>1. b \in Int /\ y \in Int /\ 4 * b + y = 4 * c + i
  BY PeriodType
<1>2. e.next = r /\ r \in Int
  BY <1>1, DivisionTheorem, PeriodType DEF CounterAdd
<1>3. 4 * (e.next - RefillBlocks) + i = 4 * r + y
  BY <1>2, PeriodType
<1>4. Period = 4 * CounterPeriod
  BY PeriodType DEF Period
<1> HIDE DEF b, y
<1>5. (4 * (b % CounterPeriod) + y) % (4 * CounterPeriod) = (4 * b + y) % (4 * CounterPeriod)
  BY <1>1, ModBlockAdd, PeriodType
<1> HIDE DEF r
<1> QED BY <1>1, <1>3, <1>4, <1>5 DEF BufferPosition, r

\* A refill buffers the words from the position it starts at.
LEMMA RefillBuffer ==
  ASSUME NEW e \in EngineValue
  PROVE  /\ BufferOK(Refill(e))
         /\ \A i \in Int : BufferPosition(Refill(e), i) = (4 * e.next + i) % Period
<1> DEFINE f == Refill(e)
<1>1. /\ f \in EngineValue
      /\ f.cursor = 0
      /\ f.key = e.key
      /\ f.next = CounterAdd(e.next, RefillBlocks)
      /\ \A i \in 0 .. RefillWords - 1 : f.buffer[i] = KernelWord(e.next, e.key, i)
  BY RefillType
<1>2. e.next \in Int /\ e.key \in Key
  BY PeriodType DEF EngineValue, Counter
<1> HIDE DEF f
<1>3. \A i \in Int : BufferPosition(f, i) = (4 * e.next + i) % Period
  BY <1>1, <1>2, PositionAfterRefill
<1>4. ASSUME NEW i \in 0 .. RefillWords - 1
      PROVE  f.buffer[i] = StreamWord(f.key, BufferPosition(f, i))
  <2>1. i \in Nat /\ i \in Int
    BY PeriodType DEF RefillWords
  <2>2. KernelWord(e.next, e.key, i) = StreamWord(e.key, (4 * e.next + i) % Period)
    BY <1>2, <2>1, KernelIsStream
  <2> QED BY <1>1, <1>3, <2>1, <2>2
<1>5. BufferOK(f)
  BY <1>1, <1>4 DEF BufferOK
<1> QED BY <1>3, <1>5 DEF f

\* An engine whose buffer is spent stands where its next refill will start.
LEMMA SpentPosition ==
  ASSUME NEW e \in EngineValue, e.cursor = RefillWords
  PROVE  /\ Position(e) = (4 * e.next) % Period
         /\ Position(Refill(e)) = Position(e)
<1>1. e.next \in Int /\ RefillBlocks \in Int
  BY PeriodType DEF EngineValue, Counter
<1>2. 4 * (e.next - RefillBlocks) + e.cursor = 4 * e.next /\ 4 * e.next + 0 = 4 * e.next
  BY <1>1 DEF RefillWords
<1>3. Position(e) = (4 * e.next) % Period
  BY <1>2, PositionOfCursor DEF BufferPosition
<1>4. Refill(e) \in EngineValue /\ Refill(e).cursor = 0
  BY RefillType
<1>5. Position(Refill(e)) = BufferPosition(Refill(e), 0)
  BY <1>4, PositionOfCursor
<1>6. BufferPosition(Refill(e), 0) = (4 * e.next + 0) % Period
  BY RefillBuffer
<1> QED BY <1>2, <1>3, <1>5, <1>6

\* Making the engine ready to be read leaves its position alone.
LEMMA ReadyPosition ==
  ASSUME NEW e \in EngineValue, BufferOK(e)
  PROVE  /\ BufferOK(Ready(e))
         /\ Position(Ready(e)) = Position(e)
<1>1. CASE e.cursor >= RefillWords
  <2>1. e.cursor = RefillWords
    BY <1>1, PeriodType DEF EngineValue, RefillWords
  <2>2. Ready(e) = Refill(e)
    BY <1>1 DEF Ready
  <2> QED BY <2>1, <2>2, RefillBuffer, SpentPosition
<1>2. CASE ~(e.cursor >= RefillWords)
  BY <1>2 DEF Ready
<1> QED BY <1>1, <1>2

\* Moving the cursor forward over d words moves the position by d.
LEMMA CursorAdvance ==
  ASSUME NEW e \in EngineValue, BufferOK(e), NEW d \in Nat, e.cursor + d <= RefillWords
  PROVE  /\ [e EXCEPT !.cursor = e.cursor + d] \in EngineValue
         /\ [e EXCEPT !.cursor = e.cursor + d].key = e.key
         /\ BufferOK([e EXCEPT !.cursor = e.cursor + d])
         /\ Position([e EXCEPT !.cursor = e.cursor + d]) = (Position(e) + d) % Period
<1> DEFINE c == e.cursor + d
           f == [e EXCEPT !.cursor = c]
<1>1. c \in 0 .. RefillWords /\ e.cursor \in Nat
  BY PeriodType DEF EngineValue, RefillWords
<1>2. /\ f \in EngineValue
      /\ f.cursor = c
      /\ f.key = e.key
      /\ f.next = e.next
      /\ f.buffer = e.buffer
  BY <1>1, CursorType
<1>3. Position(f) = BufferPosition(f, c)
  BY <1>2, PositionOfCursor
<1>4. (Position(e) + d) % Period = BufferPosition(e, c)
  BY PositionAhead
<1> HIDE DEF f
<1>5. \A i : BufferPosition(f, i) = BufferPosition(e, i)
  BY <1>2 DEF BufferPosition
<1>6. c .. RefillWords - 1 \subseteq e.cursor .. RefillWords - 1
  BY <1>1
<1> HIDE DEF c
<1>7. BufferOK(f)
  BY <1>2, <1>5, <1>6 DEF BufferOK
<1> QED BY <1>2, <1>3, <1>4, <1>5, <1>7 DEF f, c

\* operator() returns the word at the position and moves one word on.
LEMMA CallPosition ==
  ASSUME NEW e \in EngineValue, BufferOK(e)
  PROVE  /\ CallWord(e) = StreamWord(e.key, Position(e))
         /\ AfterCall(e) \in EngineValue
         /\ AfterCall(e).key = e.key
         /\ BufferOK(AfterCall(e))
         /\ Position(AfterCall(e)) = (Position(e) + 1) % Period
<1> DEFINE f == Ready(e)
<1>1. /\ f \in EngineValue
      /\ f.cursor \in 0 .. RefillWords - 1
      /\ f.key = e.key
  BY ReadyType
<1>2. BufferOK(f) /\ Position(f) = Position(e)
  BY ReadyPosition
<1>3. CallWord(e) = f.buffer[f.cursor] /\ AfterCall(e) = [f EXCEPT !.cursor = f.cursor + 1]
  BY DEF CallWord, AfterCall
<1> HIDE DEF f
<1>4. f.buffer[f.cursor] = StreamWord(f.key, BufferPosition(f, f.cursor))
  BY <1>1, <1>2, PeriodType DEF BufferOK, RefillWords
<1>5. BufferPosition(f, f.cursor) = Position(f)
  BY <1>1, PositionOfCursor
<1>6. f.cursor + 1 <= RefillWords
  BY <1>1, PeriodType DEF RefillWords
<1> DEFINE g == [f EXCEPT !.cursor = f.cursor + 1]
<1>7. g \in EngineValue /\ g.key = f.key /\ BufferOK(g) /\ Position(g) = (Position(f) + 1) % Period
  <2>1. 1 \in Nat
    OBVIOUS
  <2> QED BY <1>1, <1>2, <1>6, <2>1, CursorAdvance
<1> QED BY <1>1, <1>2, <1>3, <1>4, <1>5, <1>7

(***************************************************************************)
(* discard(n) moves the position by exactly n, inside the buffer or past   *)
(* it, and leaves a buffer that holds the stream.  (philox.hpp 231-247)    *)
(***************************************************************************)
LEMMA DiscardPosition ==
  ASSUME NEW e \in EngineValue, BufferOK(e), NEW n \in Nat
  PROVE  /\ BufferOK(Discard(e, n))
         /\ Position(Discard(e, n)) = (Position(e) + n) % Period
<1> DEFINE remaining == RefillWords - e.cursor
           beyond    == n - remaining
           blocks    == beyond \div 4
           offset    == beyond % 4
           skipped   == [e EXCEPT !.next = CounterAdd(e.next, blocks)]
           filled    == Refill(skipped)
           landed    == [filled EXCEPT !.cursor = offset]
<1>1. /\ RefillWords = 4 * RefillBlocks
      /\ RefillWords \in Nat
      /\ RefillBlocks \in Nat \ {0}
      /\ e.cursor \in 0 .. RefillWords
      /\ e.next \in Int
  BY PeriodType DEF RefillWords, EngineValue, Counter
<1>2. CASE n < remaining
  <2>1. e.cursor + n <= RefillWords
    BY <1>1, <1>2
  <2>2. Discard(e, n) = [e EXCEPT !.cursor = e.cursor + n]
    BY <1>2 DEF Discard
  <2> QED BY <2>1, <2>2, CursorAdvance
<1>3. CASE ~(n < remaining)
  <2>1. blocks \in Nat /\ offset \in 0 .. 3 /\ beyond = 4 * blocks + offset /\ beyond \in Nat
    BY <1>1, <1>3
  <2>2. Discard(e, n) = landed
    BY <1>3 DEF Discard
  <2>3. beyond = n - (RefillWords - e.cursor)
    OBVIOUS
  <2> HIDE DEF beyond, blocks, offset
  <2>4. 4 * (e.next + blocks) + offset = 4 * (e.next - RefillBlocks) + (e.cursor + n)
    BY <1>1, <2>1, <2>3
  <2>5. CounterAdd(e.next, blocks) \in Counter
    BY <1>1, <2>1, CounterAddType
  <2>6. skipped \in EngineValue /\ skipped.next = CounterAdd(e.next, blocks)
    BY <2>5, NextType
  <2> HIDE DEF skipped
  <2>7. /\ filled \in EngineValue
        /\ filled.cursor = 0
        /\ BufferOK(filled)
        /\ \A i \in Int : BufferPosition(filled, i) = (4 * skipped.next + i) % Period
    BY <2>6, RefillType, RefillBuffer
  <2> HIDE DEF filled
  <2>8. filled.cursor + offset <= RefillWords /\ offset \in Nat /\ filled.cursor + offset = offset
    BY <1>1, <2>1, <2>7
  <2>9. BufferOK(landed) /\ Position(landed) = (Position(filled) + offset) % Period
    BY <2>7, <2>8, CursorAdvance
  <2>10. (Position(filled) + offset) % Period = BufferPosition(filled, offset)
    BY <2>7, <2>8, PositionAhead
  <2>11. BufferPosition(filled, offset) = (4 * skipped.next + offset) % Period
    BY <2>7, <2>8
  <2>12. Period = 4 * CounterPeriod
    BY PeriodType DEF Period
  <2> DEFINE b == e.next + blocks
  <2>13. b \in Int /\ offset \in Int /\ skipped.next = b % CounterPeriod
    BY <1>1, <2>1, <2>6 DEF CounterAdd
  <2> HIDE DEF b
  <2>14. (4 * skipped.next + offset) % Period = (4 * b + offset) % Period
    BY <2>12, <2>13, ModBlockAdd, PeriodType
  <2>15. (4 * b + offset) % Period = BufferPosition(e, e.cursor + n)
    BY <2>4 DEF b, BufferPosition
  <2>16. BufferPosition(e, e.cursor + n) = (Position(e) + n) % Period
    BY PositionAhead
  <2> QED BY <2>2, <2>9, <2>10, <2>11, <2>14, <2>15, <2>16
<1> QED BY <1>2, <1>3

---------------------------------------------------------------------------
(* Seeding, reset and restore. *)

\* Repositioning an engine puts it at word 0 of the block.
LEMMA AtPosition ==
  ASSUME NEW e \in EngineValue, NEW k \in Key, NEW c \in Counter
  PROVE  /\ BufferOK(At(e, k, c))
         /\ Position(At(e, k, c)) = 4 * c
<1>1. /\ At(e, k, c) \in EngineValue
      /\ At(e, k, c).cursor = RefillWords
      /\ At(e, k, c).next = c
  BY AtType DEF At
<1>2. Position(At(e, k, c)) = (4 * c) % Period
  BY <1>1, SpentPosition
<1>3. c \in Int /\ c \in 0 .. CounterPeriod - 1 /\ Period = 4 * CounterPeriod
  BY PeriodType DEF Counter, Period
<1> DEFINE w == 0
<1>4. w \in 0 .. 3
  OBVIOUS
<1> HIDE DEF w
<1>5. (4 * c + w) % (4 * CounterPeriod) = 4 * (c % CounterPeriod) + w /\ c % CounterPeriod = c
  BY <1>3, <1>4, ModBlock, ModSmall, PeriodType
<1>6. (4 * c) % Period = 4 * c
  BY <1>3, <1>5 DEF w
<1>7. BufferOK(At(e, k, c))
  BY <1>1, PeriodType DEF BufferOK, RefillWords
<1> QED BY <1>2, <1>6, <1>7

\* Seeding and reset put the engine at word 0 of the stream.
LEMMA SeedPosition ==
  ASSUME NEW e \in EngineValue, NEW k \in Key
  PROVE  /\ BufferOK(Seed(e, k)) /\ Position(Seed(e, k)) = 0 /\ Seed(e, k).key = k
         /\ BufferOK(Reset(e)) /\ Position(Reset(e)) = 0 /\ Reset(e).key = e.key
<1>1. 0 \in Counter /\ e.key \in Key
  BY PeriodType DEF Counter, EngineValue
<1>2. At(e, k, 0).key = k /\ At(e, e.key, 0).key = e.key
  BY DEF At
<1> QED BY <1>1, <1>2, AtPosition DEF Seed, Reset

(***************************************************************************)
(* set_state(saved) puts the engine at word saved.offset mod 4 of block    *)
(* saved.counter under saved.key, whatever the engine held before.         *)
(* (philox.hpp 304-315)                                                    *)
(***************************************************************************)
LEMMA SetStatePosition ==
  ASSUME NEW e \in EngineValue, NEW saved \in Checkpoint
  PROVE  /\ BufferOK(SetState(e, saved))
         /\ Position(SetState(e, saved)) = saved.counter * 4 + (saved.offset % 4)
         /\ SetState(e, saved).key = saved.key
<1> DEFINE placed == At(e, saved.key, saved.counter)
           offset == saved.offset % 4
           c      == saved.counter
<1>1. saved.key \in Key /\ c \in Counter /\ saved.offset \in Nat
  BY CallerAssumption DEF Checkpoint
<1>2. offset \in 0 .. 3 /\ offset \in Nat
  BY <1>1
<1>3. SetState(e, saved) = IF offset # 0 THEN Discard(placed, offset) ELSE placed
  BY DEF SetState
<1>4. /\ placed \in EngineValue /\ placed.key = saved.key
      /\ BufferOK(placed) /\ Position(placed) = 4 * c
  BY <1>1, AtType, AtPosition DEF At
<1>5. c \in 0 .. CounterPeriod - 1 /\ c \in Int /\ Period = 4 * CounterPeriod
  BY <1>1, PeriodType DEF Counter, Period
<1> HIDE DEF placed, offset, c
<1>6. CASE offset = 0
  BY <1>3, <1>4, <1>5, <1>6 DEF offset, c
<1>7. CASE offset # 0
  <2>1. SetState(e, saved) = Discard(placed, offset)
    BY <1>3, <1>7
  <2>2. /\ BufferOK(SetState(e, saved))
        /\ Position(SetState(e, saved)) = (4 * c + offset) % Period
        /\ SetState(e, saved).key = saved.key
    BY <1>2, <1>4, <2>1, DiscardPosition, DiscardType
  <2>3. (4 * c + offset) % (4 * CounterPeriod) = 4 * (c % CounterPeriod) + offset
    BY <1>2, <1>5, ModBlock, PeriodType
  <2>4. c % CounterPeriod = c
    BY <1>5, ModSmall, PeriodType
  <2> QED BY <1>2, <1>5, <2>2, <2>3, <2>4 DEF offset, c
<1> QED BY <1>6, <1>7

---------------------------------------------------------------------------
(* The inductive invariant. *)

\* Storing words keeps the caller's array an array.
LEMMA StoredType ==
  ASSUME NEW array \in [0 .. MaxRequest -> Word \cup {Untouched}], NEW a \in Nat, NEW m \in Nat,
         NEW words \in [0 .. m - 1 -> Word]
  PROVE  Stored(array, a, m, words) \in [0 .. MaxRequest -> Word \cup {Untouched}]
<1> SUFFICES ASSUME NEW i \in 0 .. MaxRequest
             PROVE  (IF i \in a .. a + m - 1 THEN words[i - a] ELSE array[i]) \in Word \cup {Untouched}
  BY DEF Stored
<1>1. CASE i \in a .. a + m - 1
  <2>1. i - a \in 0 .. m - 1
    BY <1>1
  <2> QED BY <1>1, <2>1
<1>2. CASE i \notin a .. a + m - 1
  BY <1>2
<1> QED BY <1>1, <1>2

LoopInv ==
  /\ pc = "idle" => at = asked
  /\ pc \in {"wide", "refill"} => at < asked
  /\ pc = "refill" => left < 4
  /\ asked = 0 => refills = 0

OneRefillInv ==
  PreferredBlocks <= RefillBlocks =>
    /\ refills <= 1
    /\ pc \in {"wide", "refill"} => refills = 0
    /\ pc = "drain" /\ refills = 1 => left <= RefillWords - eng.cursor

IInv ==
  /\ TypeOK
  /\ BufferOK(eng)
  /\ BufferDrainedFirst
  /\ LoopInv
  /\ OneRefillInv

\* A constructed engine satisfies the invariant.
LEMMA InitInv == Init => IInv
<1> SUFFICES ASSUME Init PROVE IInv
  OBVIOUS
<1>1. RefillWords \in Nat /\ MaxRequest \in Nat
  BY EngineAssumption, CallerAssumption DEF RefillWords
<1>2. PICK k \in Key, c \in Counter : eng = Construct(k, c)
  BY DEF Init
<1>3. eng \in EngineValue /\ eng.cursor = RefillWords
  BY <1>1, <1>2, EngineAssumption DEF Construct, EngineValue
<1>4. BufferOK(eng)
  BY <1>1, <1>3 DEF BufferOK
<1>5. TypeOK
  BY <1>1, <1>3 DEF Init, TypeOK, Fresh, MoreThanOne
<1> QED BY <1>3, <1>4, <1>5 DEF Init, IInv, BufferDrainedFirst, LoopInv, OneRefillInv

---------------------------------------------------------------------------
(* Each action preserves the invariant and is a step of the stream, or a   *)
(* step the stream does not see.                                           *)

\* The types of an engine and its members, unfolded.
LEMMA Types ==
  ASSUME TypeOK
  PROVE  /\ at \in Nat /\ asked \in Nat /\ at <= asked /\ asked <= MaxRequest
         /\ left \in Nat /\ left = asked - at
         /\ RefillWords \in Nat /\ RefillWords = 4 * RefillBlocks
         /\ eng.cursor \in 0 .. RefillWords /\ eng.next \in Counter /\ eng.next \in Int
         /\ eng.key \in Key
  BY PeriodType, CallerAssumption DEF TypeOK, left, RefillWords, EngineValue, Counter

\* Storing stream words is what the abstract delivery does.
LEMMA StoredIsStream ==
  ASSUME NEW a \in Nat, NEW m \in Nat, NEW words,
         \A i \in 0 .. m - 1 : words[i] = StreamWord(eng.key, (Position(eng) + i) % Period)
  PROVE  Stored(mem, a, m, words) = Abstract!Stored(mem, a, m)
<1>1. ASSUME NEW i \in 0 .. MaxRequest
      PROVE  (IF i \in a .. a + m - 1 THEN words[i - a] ELSE mem[i])
             = (IF i \in a .. a + m - 1
                THEN StreamWord(eng.key, (Position(eng) + (i - a)) % Period) ELSE mem[i])
  <2>1. CASE i \in a .. a + m - 1
    <3>1. i - a \in 0 .. m - 1
      BY <2>1
    <3> QED BY <2>1, <3>1
  <2>2. CASE i \notin a .. a + m - 1
    BY <2>2
  <2> QED BY <2>1, <2>2
<1> QED BY <1>1 DEF Stored, Abstract!Stored

\* operator() keeps the invariant and reads one word of the stream.
LEMMA CallStep ==
  ASSUME IInv, Call
  PROVE  IInv' /\ Abstract!Read(1)
<1> DEFINE words == [i \in 0 .. 0 |-> CallWord(eng)]
<1>1. /\ eng \in EngineValue /\ BufferOK(eng) /\ mem \in [0 .. MaxRequest -> Word \cup {Untouched}]
      /\ pc = "idle" /\ asked = 0 /\ refills = 0
      /\ eng' = AfterCall(eng) /\ mem' = Stored(mem, 0, 1, words)
      /\ at' = 1 /\ asked' = 1 /\ pc' = "idle" /\ refills' = 0
  BY DEF IInv, TypeOK, LoopInv, Call, Free
<1>2. /\ CallWord(eng) = StreamWord(eng.key, Position(eng))
      /\ AfterCall(eng) \in EngineValue
      /\ AfterCall(eng).key = eng.key
      /\ BufferOK(AfterCall(eng))
      /\ Position(AfterCall(eng)) = (Position(eng) + 1) % Period
      /\ CallWord(eng) \in Word
  BY <1>1, CallPosition, ReadyType
<1>3. words \in [0 .. 1 - 1 -> Word] /\ 1 \in Nat /\ 0 \in Nat
  BY <1>2
<1>4. \A i \in 0 .. 1 - 1 : words[i] = StreamWord(eng.key, (Position(eng) + i) % Period)
  <2>1. Position(eng) \in 0 .. Period - 1
    BY <1>1, PositionOfCursor
  <2>2. Position(eng) % Period = Position(eng)
    BY <2>1, ModSmall, PeriodType
  <2> QED BY <1>2, <2>1, <2>2, PeriodType
<1> HIDE DEF words
<1>5. mem' = Abstract!Stored(mem, 0, 1)
  BY <1>1, <1>3, <1>4, StoredIsStream
<1>6. mem' \in [0 .. MaxRequest -> Word \cup {Untouched}]
  BY <1>1, <1>3, StoredType
<1>7. IInv'
  BY <1>1, <1>2, <1>6, CallerAssumption
  DEF IInv, TypeOK, BufferDrainedFirst, LoopInv, OneRefillInv, BufferOK, BufferPosition
<1>8. Abstract!Read(1)
  BY <1>1, <1>2, <1>5 DEF Abstract!Read, Abstract!Idle
<1> QED BY <1>7, <1>8

\* next_double() keeps the invariant and reads two words.
LEMMA NextDoubleStep ==
  ASSUME IInv, NextDouble
  PROVE  IInv' /\ Abstract!Read(2)
<1> DEFINE second == AfterCall(eng)
           words  == [i \in 0 .. 1 |-> IF i = 0 THEN CallWord(eng) ELSE CallWord(second)]
           p      == Position(eng)
<1>1. /\ eng \in EngineValue /\ BufferOK(eng) /\ mem \in [0 .. MaxRequest -> Word \cup {Untouched}]
      /\ pc = "idle" /\ asked = 0 /\ refills = 0
      /\ eng' = AfterCall(second) /\ mem' = Stored(mem, 0, 2, words)
      /\ at' = 2 /\ asked' = 2 /\ pc' = "idle" /\ refills' = 0
  BY DEF IInv, TypeOK, LoopInv, NextDouble, Free
<1>2. /\ CallWord(eng) = StreamWord(eng.key, p) /\ CallWord(eng) \in Word
      /\ second \in EngineValue /\ second.key = eng.key /\ BufferOK(second)
      /\ Position(second) = (p + 1) % Period
  BY <1>1, CallPosition, ReadyType
<1> HIDE DEF second
<1>3. /\ CallWord(second) = StreamWord(eng.key, (p + 1) % Period) /\ CallWord(second) \in Word
      /\ eng' \in EngineValue /\ eng'.key = eng.key /\ BufferOK(AfterCall(second))
      /\ Position(eng') = (Position(second) + 1) % Period
  BY <1>1, <1>2, CallPosition, ReadyType
<1>4. p \in 0 .. Period - 1 /\ p \in Int
  BY <1>1, PositionOfCursor, PeriodType
<1> HIDE DEF p
<1>5. p % Period = p /\ (((p + 1) % Period) + 1) % Period = (p + 2) % Period
  <2> DEFINE s == p + 1
           y == 1
  <2>1. s \in Int /\ y \in Int /\ s + y = p + 2
    BY <1>4
  <2> HIDE DEF s, y
  <2>2. ((s % Period) + y) % Period = (s + y) % Period
    BY <2>1, ModAdd, PeriodType
  <2>3. p % Period = p
    BY <1>4, ModSmall, PeriodType
  <2> QED BY <2>1, <2>2, <2>3 DEF s, y
<1>6. words \in [0 .. 2 - 1 -> Word] /\ 2 \in Nat /\ 0 \in Nat
  BY <1>2, <1>3
<1>7. \A i \in 0 .. 2 - 1 : words[i] = StreamWord(eng.key, (Position(eng) + i) % Period)
  <2>1. words[0] = StreamWord(eng.key, (p + 0) % Period) /\ words[1] = StreamWord(eng.key, (p + 1) % Period)
    BY <1>2, <1>3, <1>4, <1>5
  <2>2. \A i \in 0 .. 2 - 1 : i = 0 \/ i = 1
    OBVIOUS
  <2> HIDE DEF words
  <2> QED BY <2>1, <2>2 DEF p
<1> HIDE DEF words
<1>8. mem' = Abstract!Stored(mem, 0, 2)
  BY <1>1, <1>6, <1>7, StoredIsStream
<1>9. mem' \in [0 .. MaxRequest -> Word \cup {Untouched}]
  BY <1>1, <1>6, StoredType
<1>10. IInv'
  BY <1>1, <1>3, <1>9, CallerAssumption
  DEF IInv, TypeOK, BufferDrainedFirst, LoopInv, OneRefillInv, BufferOK, BufferPosition
<1>11. Abstract!Read(2)
  BY <1>1, <1>2, <1>3, <1>5, <1>8 DEF Abstract!Read, Abstract!Idle, p
<1> QED BY <1>10, <1>11

\* The operations that only move the engine, while no call is running.
LEMMA MoveInv ==
  ASSUME IInv, pc = "idle", UNCHANGED <<pc, refills, caller>>,
         eng' \in EngineValue, BufferOK(eng')
  PROVE  IInv'
  BY DEF IInv, TypeOK, BufferDrainedFirst, LoopInv, OneRefillInv, BufferOK, BufferPosition,
         caller, left

\* discard() keeps the invariant and skips.
LEMMA DiscardStep ==
  ASSUME IInv, NEW n \in Skips, DoDiscard(n)
  PROVE  IInv' /\ Abstract!Next
<1>1. eng \in EngineValue /\ BufferOK(eng) /\ n \in Nat
  BY CallerAssumption DEF IInv, TypeOK
<1>2. /\ eng' \in EngineValue /\ eng'.key = eng.key /\ BufferOK(eng')
      /\ Position(eng') = (Position(eng) + n) % Period
  BY <1>1, DiscardType, DiscardPosition DEF DoDiscard
<1>3. IInv'
  BY <1>2, MoveInv DEF DoDiscard, Free
<1>4. /\ Position(eng') \in 0 .. Period - 1
      /\ Position(eng) \in 0 .. Period - 1
  BY <1>1, <1>2, PositionOfCursor
<1>5. eng'.key \in Key
  BY <1>2 DEF EngineValue
<1>6. Abstract!Jump(eng'.key, Position(eng'))
  BY DEF DoDiscard, Free, caller, Abstract!Jump, Abstract!Idle
<1> QED BY <1>3, <1>4, <1>5, <1>6 DEF Abstract!Next, Abstract!Position

\* Seeding, reset and set_state() keep the invariant and jump.
LEMMA RestoreStep ==
  ASSUME IInv, DoReset \/ (\E k \in Key : DoSeed(k)) \/ (\E saved \in Checkpoint : DoSetState(saved))
  PROVE  IInv' /\ Abstract!Next
<1>1. eng \in EngineValue /\ eng.key \in Key
  BY DEF IInv, TypeOK, EngineValue
<1>2. /\ Free
      /\ UNCHANGED <<pc, refills, caller>>
      /\ \/ eng' = Reset(eng)
         \/ \E k \in Key : eng' = Seed(eng, k)
         \/ \E saved \in Checkpoint : eng' = SetState(eng, saved)
  BY DEF DoReset, DoSeed, DoSetState
<1>3. eng' \in EngineValue /\ BufferOK(eng')
  BY <1>1, <1>2, SeedType, SeedPosition, SetStateType, SetStatePosition
<1>4. IInv'
  BY <1>2, <1>3, MoveInv DEF Free
<1>5. Position(eng') \in 0 .. Period - 1 /\ eng'.key \in Key
  BY <1>3, PositionOfCursor DEF EngineValue
<1>6. Abstract!Jump(eng'.key, Position(eng'))
  BY <1>2 DEF Free, caller, Abstract!Jump, Abstract!Idle
<1> QED BY <1>4, <1>5, <1>6 DEF Abstract!Next, Abstract!Position

\* Using the words keeps the invariant.
LEMMA TakeStep ==
  ASSUME IInv, Take
  PROVE  IInv' /\ Abstract!Take
<1>1. IInv'
  BY CallerAssumption
  DEF IInv, TypeOK, MoreThanOne, Take, BufferDrainedFirst, LoopInv, OneRefillInv, BufferOK, BufferPosition, Fresh
<1>2. Abstract!Take
  BY DEF IInv, LoopInv, Take, Fresh, Abstract!Take, Abstract!Fresh
<1> QED BY <1>1, <1>2

\* Calling generate_n keeps the invariant and asks.
LEMMA GenerateStep ==
  ASSUME IInv, NEW n \in 0 .. MaxRequest, Generate(n)
  PROVE  IInv' /\ [Abstract!Next]_Abstract!vars
<1>1. at = 0 /\ asked = 0 /\ refills = 0 /\ n \in Nat
  BY CallerAssumption DEF IInv, TypeOK, LoopInv, Generate, Free
<1>2. IInv'
  BY <1>1 DEF IInv, TypeOK, Generate, BufferDrainedFirst, LoopInv, OneRefillInv, BufferOK, BufferPosition, left
<1>3. CASE n = 0
  BY <1>1, <1>2, <1>3 DEF Generate, Abstract!vars
<1>4. CASE n # 0
  <2>1. n \in 1 .. MaxRequest
    BY <1>4
  <2>2. Abstract!Ask(n)
    BY DEF Generate, Free, Abstract!Ask, Abstract!Idle
  <2> QED BY <1>2, <2>1, <2>2 DEF Abstract!Next
<1> QED BY <1>3, <1>4

\* Draining the buffer keeps the invariant and delivers.
LEMMA DrainStep ==
  ASSUME IInv, Drain
  PROVE  IInv' /\ [Abstract!Next]_Abstract!vars
<1> DEFINE available == RefillWords - eng.cursor
           m     == IF left < available THEN left ELSE available
           words == [i \in 0 .. m - 1 |-> eng.buffer[eng.cursor + i]]
<1>1. TypeOK /\ eng \in EngineValue /\ BufferOK(eng) /\ LoopInv /\ OneRefillInv
  BY DEF IInv, TypeOK
<1>2. /\ m \in Nat /\ m <= left /\ eng.cursor + m <= RefillWords
      /\ m # left => eng.cursor + m = RefillWords
      /\ left <= available => m = left
  BY <1>1, Types
<1>3. /\ pc = "drain" /\ at' = at + m /\ mem' = Stored(mem, at, m, words)
      /\ eng' = [eng EXCEPT !.cursor = eng.cursor + m]
      /\ pc' = IF left = m THEN "idle" ELSE "wide"
      /\ asked' = asked /\ refills' = refills
  BY DEF Drain
<1>4. left <= available <=> left <= RefillWords - eng.cursor
  OBVIOUS
<1> HIDE DEF m, available
<1>5. /\ eng' \in EngineValue /\ eng'.key = eng.key /\ BufferOK(eng')
      /\ Position(eng') = (Position(eng) + m) % Period
  BY <1>1, <1>2, <1>3, CursorAdvance
<1>6. eng'.cursor = eng.cursor + m
  <2>1. eng.cursor + m \in 0 .. RefillWords
    BY <1>1, <1>2, Types
  <2> QED BY <1>1, <1>3, <2>1, CursorType
<1>7. ASSUME NEW i \in 0 .. m - 1
      PROVE  words[i] \in Word /\ words[i] = StreamWord(eng.key, (Position(eng) + i) % Period)
  <2>1. eng.cursor + i \in eng.cursor .. RefillWords - 1 /\ eng.cursor + i \in 0 .. RefillWords - 1 /\ i \in Int
    BY <1>1, <1>2, Types
  <2>2. eng.buffer[eng.cursor + i] = StreamWord(eng.key, BufferPosition(eng, eng.cursor + i))
    BY <1>1, <2>1 DEF BufferOK
  <2>3. (Position(eng) + i) % Period = BufferPosition(eng, eng.cursor + i)
    BY <1>1, <2>1, PositionAhead
  <2>4. eng.buffer[eng.cursor + i] \in Word
    BY <1>1, <2>1 DEF EngineValue
  <2> QED BY <2>2, <2>3, <2>4
<1>8. words \in [0 .. m - 1 -> Word]
  BY <1>7
<1> HIDE DEF words
<1>9. mem' = Abstract!Stored(mem, at, m)
  BY <1>1, <1>2, <1>3, <1>7, StoredIsStream, Types
<1>10. mem' \in [0 .. MaxRequest -> Word \cup {Untouched}]
  BY <1>1, <1>2, <1>3, <1>8, StoredType, Types DEF TypeOK
<1>11. IInv'
  <2>1. at' \in 0 .. asked' /\ left' = left - m /\ left' \in Nat
    BY <1>1, <1>2, <1>3, Types DEF left
  <2>2. TypeOK'
    BY <1>1, <1>3, <1>5, <1>10, <2>1 DEF TypeOK
  <2>3. BufferDrainedFirst'
    BY <1>2, <1>3, <1>6 DEF BufferDrainedFirst
  <2>4. LoopInv'
    BY <1>1, <1>2, <1>3, <2>1, Types DEF LoopInv, left
  <2>5. OneRefillInv'
    BY <1>1, <1>2, <1>3, <1>4, Types DEF OneRefillInv, TypeOK
  <2>6. BufferOK(eng)'
    BY <1>5 DEF BufferOK, BufferPosition
  <2> QED BY <2>2, <2>3, <2>4, <2>5, <2>6 DEF IInv
<1>12. CASE m = 0
  <2>1. eng' = eng
    BY <1>1, <1>3, <1>12, Types DEF EngineValue
  <2>2. at' = at /\ mem' = mem
    BY <1>1, <1>3, <1>12, Types DEF Stored, TypeOK
  <2> QED BY <1>3, <1>11, <2>1, <2>2 DEF Abstract!vars
<1>13. CASE m # 0
  <2>1. m \in 1 .. MaxRequest
    BY <1>1, <1>2, <1>13, CallerAssumption, Types
  <2>2. Abstract!Deliver(m)
    BY <1>1, <1>2, <1>3, <1>5, <1>9, Types DEF Abstract!Deliver
  <2> QED BY <1>11, <2>1, <2>2 DEF Abstract!Next
<1> QED BY <1>12, <1>13

\* The wide middle keeps the invariant and delivers.
LEMMA DirectStep ==
  ASSUME IInv, Direct
  PROVE  IInv' /\ Abstract!Next
<1> DEFINE blocks == left \div 4
           m      == blocks * 4
           words  == [i \in 0 .. m - 1 |-> KernelWord(eng.next, eng.key, i)]
           moved  == [eng EXCEPT !.next = CounterAdd(eng.next, blocks)]
<1>1. /\ TypeOK /\ eng \in EngineValue /\ BufferOK(eng) /\ LoopInv /\ OneRefillInv
      /\ eng.cursor = RefillWords /\ at < asked
  BY DEF IInv, TypeOK, BufferDrainedFirst, LoopInv, Direct
<1>2. /\ blocks \in Nat /\ m \in Nat /\ m <= left /\ left - m < 4 /\ blocks >= PreferredBlocks
      /\ m = 4 * blocks
  <2>1. left \in Nat
    BY <1>1, Types
  <2>2. blocks >= PreferredBlocks
    BY DEF Direct, WideEnough
  <2> QED BY <2>1, <2>2
<1>3. m \in 1 .. MaxRequest
  BY <1>1, <1>2, CallerAssumption, Types
<1>4. /\ pc = "wide" /\ at' = at + m /\ mem' = Stored(mem, at, m, words)
      /\ eng' = moved
      /\ pc' = IF left = m THEN "idle" ELSE "refill"
      /\ asked' = asked /\ refills' = refills
  BY DEF Direct
<1>5. CounterAdd(eng.next, blocks) \in Counter
  BY <1>1, <1>2, CounterAddType, Types
<1>6. /\ moved \in EngineValue /\ moved.cursor = RefillWords /\ moved.key = eng.key
      /\ moved.next = CounterAdd(eng.next, blocks)
  BY <1>1, <1>5, NextType
<1> HIDE DEF blocks, m, moved
<1>7. Position(eng) = (4 * eng.next) % Period /\ Position(moved) = (4 * moved.next) % Period
  BY <1>1, <1>6, SpentPosition
<1> DEFINE s == 4 * eng.next
<1>8. s \in Int /\ Period = 4 * CounterPeriod
  BY <1>1, Types, PeriodType DEF Period
<1>9. ASSUME NEW i \in 0 .. m - 1
      PROVE  words[i] \in Word /\ words[i] = StreamWord(eng.key, (Position(eng) + i) % Period)
  <2>1. i \in Nat /\ i \in Int
    BY <1>2
  <2>2. KernelWord(eng.next, eng.key, i) \in Word
    BY <1>1, <2>1, KernelWordType, Types
  <2>3. KernelWord(eng.next, eng.key, i) = StreamWord(eng.key, (s + i) % Period)
    BY <1>1, <2>1, KernelIsStream, Types
  <2> HIDE DEF s
  <2>4. ((s % Period) + i) % Period = (s + i) % Period
    BY <1>8, <2>1, ModAdd, PeriodType
  <2> QED BY <1>7, <2>2, <2>3, <2>4 DEF s
<1>10. words \in [0 .. m - 1 -> Word]
  BY <1>9
<1>11. Position(eng') = (Position(eng) + m) % Period
  <2> DEFINE b == eng.next + blocks
             y == 0
  <2>1. b \in Int /\ y \in Int /\ s + m = 4 * b + y /\ moved.next = b % CounterPeriod
    BY <1>1, <1>2, <1>6, Types DEF CounterAdd
  <2> HIDE DEF b, y
  <2>2. (4 * (b % CounterPeriod) + y) % (4 * CounterPeriod) = (4 * b + y) % (4 * CounterPeriod)
    BY <2>1, ModBlockAdd, PeriodType
  <2>3. 4 * (b % CounterPeriod) + y = 4 * (b % CounterPeriod)
    BY <2>1, DivisionTheorem, PeriodType DEF y
  <2> HIDE DEF s, words
  <2>4. m \in Int
    BY <1>2
  <2>5. ((s % Period) + m) % Period = (s + m) % Period
    BY <1>8, <2>4, ModAdd, PeriodType
  <2> QED BY <1>4, <1>7, <1>8, <2>1, <2>2, <2>3, <2>5 DEF s
<1> HIDE DEF words
<1>12. mem' = Abstract!Stored(mem, at, m)
  BY <1>1, <1>2, <1>4, <1>9, StoredIsStream, Types
<1>13. mem' \in [0 .. MaxRequest -> Word \cup {Untouched}]
  BY <1>1, <1>2, <1>4, <1>10, StoredType, Types DEF TypeOK
<1>14. IInv'
  <2>1. at' \in 0 .. asked' /\ left' = left - m /\ left' \in Nat
    BY <1>1, <1>2, <1>4, Types DEF left
  <2>2. TypeOK'
    BY <1>1, <1>4, <1>6, <1>13, <2>1 DEF TypeOK
  <2>3. BufferDrainedFirst'
    BY <1>4, <1>6 DEF BufferDrainedFirst
  <2>4. LoopInv'
    BY <1>1, <1>2, <1>4, <2>1, Types DEF LoopInv, left
  <2>5. OneRefillInv'
    BY <1>1, <1>4 DEF OneRefillInv
  <2>6. BufferOK(eng)'
    BY <1>4, <1>6, Types, <1>1 DEF BufferOK
  <2> QED BY <2>2, <2>3, <2>4, <2>5, <2>6 DEF IInv
<1>15. Abstract!Deliver(m)
  BY <1>1, <1>2, <1>4, <1>6, <1>11, <1>12, Types DEF Abstract!Deliver
<1> QED BY <1>3, <1>14, <1>15 DEF Abstract!Next

\* A refill keeps the invariant and is invisible to the caller.
LEMMA RefillStep ==
  ASSUME IInv, DoRefill
  PROVE  IInv' /\ UNCHANGED Abstract!vars
<1>1. /\ TypeOK /\ eng \in EngineValue /\ LoopInv /\ OneRefillInv
      /\ pc \in {"wide", "refill"} /\ eng.cursor = RefillWords /\ at < asked
      /\ eng' = Refill(eng) /\ pc' = "drain"
      /\ refills' = IF refills < MoreThanOne THEN refills + 1 ELSE refills
      /\ mem' = mem /\ at' = at /\ asked' = asked
      /\ pc = "wide" => ~(left \div 4 >= PreferredBlocks)
  BY DEF IInv, TypeOK, BufferDrainedFirst, LoopInv, DoRefill, WideEnough, caller
<1>2. /\ eng' \in EngineValue /\ eng'.cursor = 0 /\ eng'.key = eng.key /\ BufferOK(eng')
      /\ Position(eng') = Position(eng)
  BY <1>1, RefillType, RefillBuffer, SpentPosition
<1>3. IInv'
  <2>1. TypeOK'
    BY <1>1, <1>2 DEF TypeOK, MoreThanOne
  <2>2. BufferDrainedFirst'
    BY <1>1 DEF BufferDrainedFirst
  <2>3. LoopInv'
    BY <1>1, Types DEF LoopInv
  <2>4. OneRefillInv'
    <3>1. PreferredBlocks <= RefillBlocks => left < RefillWords \/ left < 4
      BY <1>1, Types, CallerAssumption, PeriodType DEF LoopInv
    <3>2. RefillWords >= 4 /\ left \in Nat /\ left' = left
      BY <1>1, Types, PeriodType DEF left
    <3> QED BY <1>1, <1>2, <3>1, <3>2, Types DEF OneRefillInv, TypeOK, MoreThanOne
  <2>5. BufferOK(eng)'
    BY <1>2 DEF BufferOK, BufferPosition
  <2> QED BY <2>1, <2>2, <2>3, <2>4, <2>5 DEF IInv
<1>4. UNCHANGED Abstract!vars
  BY <1>1, <1>2 DEF Abstract!vars
<1> QED BY <1>3, <1>4

---------------------------------------------------------------------------
(* The theorems. *)

\* Every step keeps the invariant and implements the stream.
LEMMA NextStep ==
  ASSUME IInv, Next
  PROVE  IInv' /\ [Abstract!Next]_Abstract!vars
<1>1. CASE Call
  BY <1>1, CallStep DEF Abstract!Next
<1>2. CASE NextDouble
  BY <1>2, NextDoubleStep DEF Abstract!Next
<1>3. CASE \E n \in Skips : DoDiscard(n)
  BY <1>3, DiscardStep
<1>4. CASE DoReset \/ (\E k \in Key : DoSeed(k)) \/ (\E saved \in Checkpoint : DoSetState(saved))
  BY <1>4, RestoreStep
<1>5. CASE Take
  BY <1>5, TakeStep DEF Abstract!Next
<1>6. CASE \E n \in 0 .. MaxRequest : Generate(n)
  BY <1>6, GenerateStep
<1>7. CASE Drain
  BY <1>7, DrainStep
<1>8. CASE Direct
  BY <1>8, DirectStep
<1>9. CASE DoRefill
  BY <1>9, RefillStep
<1> QED BY <1>1, <1>2, <1>3, <1>4, <1>5, <1>6, <1>7, <1>8, <1>9 DEF Next, Step

(***************************************************************************)
(* The inductive invariant: what the buffer holds, where the loop of       *)
(* generate_n is, and how many refills it has made.  (philox.hpp 130-331)  *)
(***************************************************************************)
THEOREM EngineInvariant == Safety => []IInv
<1>1. IInv /\ UNCHANGED vars => IInv'
  BY DEF vars, IInv, TypeOK, BufferOK, BufferPosition, BufferDrainedFirst, LoopInv, OneRefillInv, left
<1>2. IInv /\ [Next]_vars => IInv'
  BY <1>1, NextStep
<1> QED BY <1>2, InitInv, PTL DEF Safety

\* Every variable keeps its type, at every refill size and counter period.
THEOREM EngineTypeCorrect == Safety => []TypeOK
<1>1. IInv => TypeOK
  BY DEF IInv
<1> QED BY <1>1, EngineInvariant, PTL

(***************************************************************************)
(* What is left in the buffer is always the stream from the position on:   *)
(* seeding, restoring, discarding and bulk calls leave no stale word that  *)
(* a later call could return.  (philox.hpp 150-331)                        *)
(***************************************************************************)
THEOREM BufferHoldsStream == Safety => []BufferIsStream
<1>1. ASSUME IInv PROVE BufferIsStream
  <2>1. eng \in EngineValue /\ BufferOK(eng)
    BY <1>1 DEF IInv, TypeOK
  <2> SUFFICES ASSUME NEW i \in eng.cursor .. RefillWords - 1
               PROVE  eng.buffer[i] =
                        StreamWord(eng.key, (Position(eng) + (i - eng.cursor)) % Period)
    BY DEF BufferIsStream
  <2>2. i - eng.cursor \in Int /\ eng.cursor + (i - eng.cursor) = i
    BY <2>1, PeriodType DEF EngineValue, RefillWords
  <2>3. (Position(eng) + (i - eng.cursor)) % Period = BufferPosition(eng, i)
    BY <2>1, <2>2, PositionAhead
  <2> QED BY <2>1, <2>3 DEF BufferOK
<1> QED BY <1>1, EngineInvariant, PTL

\* The kernel and the refill never overtake buffered words.  (philox.hpp 164-181)
THEOREM BufferDrainedBeforeKernel == Safety => []BufferDrainedFirst
<1>1. IInv => BufferDrainedFirst
  BY DEF IInv
<1> QED BY <1>1, EngineInvariant, PTL

\* One call to generate_n refills at most once.  (philox.hpp 29-31, 150-183)
THEOREM AtMostOneRefill == Safety => []OneRefillPerCall
<1>1. IInv => OneRefillPerCall
  BY DEF IInv, OneRefillInv, OneRefillPerCall
<1> QED BY <1>1, EngineInvariant, PTL

(***************************************************************************)
(* From every reachable engine discard(n) lands exactly n words on, for    *)
(* every n the caller may pass.  (philox.hpp 231-247)                      *)
(***************************************************************************)
THEOREM DiscardLandsExactly == Safety => []DiscardIsExact
<1>1. ASSUME IInv PROVE DiscardIsExact
  <2>1. eng \in EngineValue /\ BufferOK(eng) /\ Skips \subseteq Nat
    BY <1>1, CallerAssumption DEF IInv, TypeOK
  <2> QED BY <2>1, DiscardPosition, DiscardType DEF DiscardIsExact
<1> QED BY <1>1, EngineInvariant, PTL

(***************************************************************************)
(* From every reachable engine, seeding and reset go to word 0 and a       *)
(* checkpoint restores the word it names.  (philox.hpp 250-281, 304-315)   *)
(***************************************************************************)
THEOREM RestoreLandsExactly == Safety => []RestoreIsExact
<1>1. ASSUME IInv PROVE RestoreIsExact
  <2>1. eng \in EngineValue /\ eng.key \in Key
    BY <1>1 DEF IInv, TypeOK, EngineValue
  <2> QED BY <2>1, SeedPosition, SetStatePosition DEF RestoreIsExact
<1> QED BY <1>1, EngineInvariant, PTL

(***************************************************************************)
(* The engine implements the abstract stream: every step is a step of      *)
(* Stream, or invisible to it.                                             *)
(***************************************************************************)
THEOREM EngineImplementsStream == Safety => ImplementsStream
<1>1. Init => Abstract!Init
  <2> SUFFICES ASSUME Init PROVE Abstract!Init
    OBVIOUS
  <2>1. eng \in EngineValue
    BY InitInv DEF IInv, TypeOK
  <2>2. Position(eng) \in 0 .. Period - 1 /\ eng.key \in Key
    BY <2>1, PositionOfCursor DEF EngineValue
  <2> QED BY <2>2 DEF Init, Fresh, Abstract!Init, Abstract!Fresh, Abstract!Position
<1>2. ASSUME IInv, [Next]_vars PROVE [Abstract!Next]_Abstract!vars
  <2>1. CASE Next
    BY <1>2, <2>1, NextStep
  <2>2. CASE UNCHANGED vars
    BY <2>2 DEF vars, Abstract!vars
  <2> QED BY <1>2, <2>1, <2>2
<1> QED BY <1>1, <1>2, EngineInvariant, PTL DEF Safety, ImplementsStream, Abstract!Spec

---------------------------------------------------------------------------
(* The float casts and the bulk float path. *)

\* The quotients by d of the numbers below n * d lie below n, and d numbers have each of them.
LEMMA QuotientOnGrid ==
  ASSUME NEW n \in Nat \ {0}, NEW d \in Nat \ {0}, NEW u \in 0 .. (n * d) - 1
  PROVE  /\ u \div d \in 0 .. n - 1
         /\ \A g \in 0 .. n - 1 : u \div d = g <=> u \in (d * g) .. (d * g) + (d - 1)
<1> DEFINE q == u \div d
           r == u % d
<1>1. u = d * q + r /\ r \in 0 .. d - 1 /\ q \in Int
  BY DivisionTheorem
<1> HIDE DEF q, r
<1>2. q >= 0
  <2> SUFFICES ASSUME q <= -1 PROVE FALSE
    BY <1>1
  <2>1. d * q <= -d
    BY <1>1
  <2> QED BY <1>1, <2>1
<1>3. q < n
  <2> SUFFICES ASSUME q >= n PROVE FALSE
    BY <1>1
  <2>1. d * q >= n * d
    BY <1>1
  <2> QED BY <1>1, <2>1
<1>4. ASSUME NEW g \in 0 .. n - 1, q = g PROVE u \in (d * g) .. (d * g) + (d - 1)
  BY <1>1, <1>4
<1>5. ASSUME NEW g \in 0 .. n - 1, u \in (d * g) .. (d * g) + (d - 1) PROVE q = g
  <2>1. u - (d * g) \in 0 .. d - 1 /\ u = d * g + (u - (d * g))
    BY <1>5
  <2> QED BY <2>1, <1>1, DivisionUnique
<1> QED BY <1>1, <1>2, <1>3, <1>4, <1>5 DEF q

\* There are words to convert.
LEMMA WordsArePositive == WordCount \in Nat \ {0}
<1>1. FloatGrid \in Nat \ {0} /\ FloatDrop \in Nat \ {0}
  BY CastAssumption
<1>2. FloatGrid * FloatDrop \in Nat /\ FloatGrid * FloatDrop > 0
  BY <1>1
<1> QED BY <1>2 DEF WordCount

(***************************************************************************)
(* A float is "in [0, 1)" (float_cast.hpp 30), whatever the word: it never *)
(* becomes 1.0 and is never negative.                                      *)
(***************************************************************************)
THEOREM FloatBelowOne == \A u \in 0 .. WordCount - 1 : ToFloat01(u) \in 0 .. FloatGrid - 1
<1> TAKE u \in 0 .. WordCount - 1
<1>1. u \div FloatDrop \in 0 .. FloatGrid - 1
  BY CastAssumption, QuotientOnGrid DEF WordCount
<1> QED BY <1>1, CastAssumption DEF ToFloat01

(***************************************************************************)
(* Floats are "uniform on a 2^-23 grid" (float_cast.hpp 15-16): each       *)
(* number of the grid is made of FloatDrop words and of no other.          *)
(***************************************************************************)
THEOREM FloatIsUniform ==
  \A u \in 0 .. WordCount - 1, g \in 0 .. FloatGrid - 1 :
    ToFloat01(u) = g <=> u \in (FloatDrop * g) .. (FloatDrop * g) + (FloatDrop - 1)
<1> TAKE u \in 0 .. WordCount - 1, g \in 0 .. FloatGrid - 1
<1>1. u \div FloatDrop \in 0 .. FloatGrid - 1
  BY CastAssumption, QuotientOnGrid DEF WordCount
<1>2. u \div FloatDrop = g <=> u \in (FloatDrop * g) .. (FloatDrop * g) + (FloatDrop - 1)
  BY CastAssumption, QuotientOnGrid DEF WordCount
<1>3. ToFloat01(u) = u \div FloatDrop
  BY <1>1, CastAssumption DEF ToFloat01
<1> QED BY <1>2, <1>3

\* The two words of next_double() make a number of twice the width, each pair another one.
LEMMA PairIsWide ==
  ASSUME NEW lo \in 0 .. WordCount - 1, NEW hi \in 0 .. WordCount - 1
  PROVE  (hi * WordCount) + lo \in 0 .. (DoubleGrid * DoubleDrop) - 1
<1> DEFINE w == WordCount
<1>1. w \in Nat \ {0} /\ DoubleGrid * DoubleDrop = w * w
  BY WordsArePositive, CastAssumption
<1>2. lo \in 0 .. w - 1 /\ hi \in 0 .. w - 1
  OBVIOUS
<1> HIDE DEF w
<1>3. hi * w \in Nat /\ hi * w <= (w - 1) * w /\ (w - 1) * w = (w * w) - w
  BY <1>1, <1>2
<1>4. (hi * w) + lo \in 0 .. (w * w) - 1
  BY <1>1, <1>2, <1>3
<1> QED BY <1>1, <1>4 DEF w

(***************************************************************************)
(* next_double() stays below 1.0 too, whichever two words it draws, and    *)
(* makes every number of its grid out of DoubleDrop pairs.                 *)
(* (philox.hpp 221-226, float_cast.hpp 36-40)                              *)
(***************************************************************************)
THEOREM DoubleIsUniform ==
  \A lo \in 0 .. WordCount - 1, hi \in 0 .. WordCount - 1 :
    /\ DoubleOf(lo, hi) \in 0 .. DoubleGrid - 1
    /\ \A g \in 0 .. DoubleGrid - 1 :
         DoubleOf(lo, hi) = g
           <=> (hi * WordCount) + lo \in (DoubleDrop * g) .. (DoubleDrop * g) + (DoubleDrop - 1)
<1> TAKE lo \in 0 .. WordCount - 1, hi \in 0 .. WordCount - 1
<1> DEFINE u == (hi * WordCount) + lo
<1>1. u \in 0 .. (DoubleGrid * DoubleDrop) - 1
  BY PairIsWide
<1> HIDE DEF u
<1>2. /\ u \div DoubleDrop \in 0 .. DoubleGrid - 1
      /\ \A g \in 0 .. DoubleGrid - 1 :
           u \div DoubleDrop = g <=> u \in (DoubleDrop * g) .. (DoubleDrop * g) + (DoubleDrop - 1)
  BY <1>1, CastAssumption, QuotientOnGrid
<1>3. ToDouble01(u) = u \div DoubleDrop
  BY <1>2, CastAssumption DEF ToDouble01
<1>4. DoubleOf(lo, hi) = ToDouble01(u)
  BY DEF DoubleOf, u
<1> QED BY <1>2, <1>3, <1>4 DEF u
---------------------------------------------------------------------------
(* The tiles.  The reader's position is the engine's less the words that   *)
(* are in the tile.                                                        *)

FloatPos == (Position(eng) - at) % Period

\* What the tile holds so far are the words from the reader's position on.
TileHolds == \A i \in 0 .. at - 1 : mem[i] = StreamWord(eng.key, (FloatPos + i) % Period)

\* Where in the request the tile is.
TileInv ==
  /\ want \in 0 .. MaxFloats
  /\ done \in 0 .. want
  /\ asked <= want - done
  /\ asked <= TileWords
  /\ pc # "idle" => asked # 0
  /\ want = 0 => floats = NoFloats

RoomyTile == TileWords >= RefillWords + (PreferredBlocks * 4)

\* A full tile drains, goes direct, and refills for less than a block.
DirectInv ==
  RoomyTile /\ asked = TileWords =>
    /\ pc = "drain" /\ refills = 0 => at = 0
    /\ pc = "wide" => refills = 0 /\ at <= RefillWords
    /\ pc = "drain" /\ refills # 0 => left < 4 /\ eng.cursor = 0

FInv ==
  /\ IInv
  /\ TileInv
  /\ TileHolds
  /\ DirectInv

\* The types of the variables, unfolded.
LEMMA FloatTypes ==
  ASSUME FInv
  PROVE  /\ at \in Nat /\ asked \in Nat /\ at <= asked /\ asked <= MaxRequest
         /\ left \in Nat /\ left = asked - at
         /\ want \in Nat /\ done \in Nat /\ done <= want /\ want <= MaxFloats
         /\ eng \in EngineValue /\ BufferOK(eng) /\ eng.key \in Key
         /\ Position(eng) \in 0 .. Period - 1 /\ Position(eng) \in Int
         /\ FloatPos \in 0 .. Period - 1
         /\ refills \in Nat
<1>1. /\ TypeOK /\ eng \in EngineValue /\ BufferOK(eng) /\ refills \in Nat
      /\ want \in 0 .. MaxFloats /\ done \in 0 .. want
  BY DEF FInv, IInv, TileInv, TypeOK, MoreThanOne
<1>2. want \in Nat /\ done \in Nat /\ done <= want /\ want <= MaxFloats
  BY <1>1, FloatAssumption
<1>3. Position(eng) \in 0 .. Period - 1 /\ Period \in Nat \ {0}
  BY <1>1, PositionOfCursor, PeriodType
<1>4. Position(eng) \in Int
  BY <1>3
<1> DEFINE d == Position(eng) - at
<1>5. d \in Int
  BY <1>1, <1>4, Types
<1> HIDE DEF d
<1>6. d % Period \in 0 .. Period - 1
  BY <1>3, <1>5, DivisionTheorem
<1> QED BY <1>1, <1>2, <1>3, <1>4, <1>6, Types DEF FloatPos, d

\* The word i places on from the reader is the word i - at places on from the engine.
LEMMA AheadOfReader ==
  ASSUME FInv, NEW i \in Int
  PROVE  (FloatPos + i) % Period = (Position(eng) + (i - at)) % Period
<1> DEFINE d == Position(eng) - at
<1>1. d \in Int /\ d + i = Position(eng) + (i - at)
  BY FloatTypes
<1> HIDE DEF d
<1>2. ((d % Period) + i) % Period = (d + i) % Period
  BY <1>1, ModAdd, PeriodType
<1> QED BY <1>1, <1>2 DEF FloatPos, d

\* With an empty tile the reader stands where the engine does.
LEMMA EmptyTile ==
  ASSUME NEW e \in EngineValue
  PROVE  (Position(e) - 0) % Period = Position(e)
<1>1. Position(e) \in 0 .. Period - 1
  BY PositionOfCursor
<1>2. Position(e) - 0 = Position(e)
  BY <1>1, PeriodType
<1> QED BY <1>1, <1>2, ModSmall, PeriodType

\* A step of the engine's loop appends stream words to the array and moves on by as many.
LEMMA StepDelivers ==
  ASSUME IInv, Step, asked # 0
  PROVE  /\ IInv'
         /\ asked' = asked
         /\ eng'.key = eng.key
         /\ \E m \in Nat :
              /\ at' = at + m
              /\ Position(eng') = (Position(eng) + m) % Period
              /\ mem' = Abstract!Stored(mem, at, m)
<1>1. asked' = asked
  BY DEF Step, Drain, Direct, DoRefill, caller
<1>2. IInv' /\ [Abstract!Next]_Abstract!vars
  BY DrainStep, DirectStep, RefillStep DEF Step
<1>3. TypeOK /\ Position(eng) \in 0 .. Period - 1 /\ at \in Nat
  BY PositionOfCursor, Types DEF IInv, TypeOK
<1>4. CASE UNCHANGED Abstract!vars
  <2>1. eng'.key = eng.key /\ Position(eng') = Position(eng) /\ mem' = mem /\ at' = at
    BY <1>4 DEF Abstract!vars
  <2>2. (Position(eng) + 0) % Period = Position(eng)
    BY <1>3, ModSmall, PeriodType
  <2>3. Abstract!Stored(mem, at, 0) = mem
    BY <1>3 DEF Abstract!Stored, TypeOK
  <2> QED BY <1>1, <1>2, <1>3, <2>1, <2>2, <2>3
<1>5. CASE Abstract!Next
  <2>1. PICK m \in 1 .. MaxRequest : Abstract!Deliver(m)
    BY <1>1, <1>5 DEF Abstract!Next, Abstract!Read, Abstract!Ask, Abstract!Take, Abstract!Jump, Abstract!Idle
  <2>2. m \in Nat
    BY CallerAssumption
  <2> QED BY <1>1, <1>2, <2>1, <2>2 DEF Abstract!Deliver
<1> QED BY <1>2, <1>4, <1>5
---------------------------------------------------------------------------
(* Each action of a float request preserves the invariant and is a step of *)
(* the stream of floats, or a step that stream does not see.               *)

\* A constructed engine satisfies the invariant, and the stream starts where it stands.
LEMMA FInitInv == FInit => FInv /\ Floats!Init
<1> SUFFICES ASSUME FInit PROVE FInv /\ Floats!Init
  OBVIOUS
<1>1. IInv /\ at = 0 /\ asked = 0 /\ pc = "idle" /\ want = 0 /\ done = 0 /\ floats = NoFloats
  BY InitInv DEF FInit, Init
<1>2. TileInv
  BY <1>1, FloatAssumption DEF TileInv
<1>3. TileHolds
  BY <1>1 DEF TileHolds
<1>4. FInv
  BY <1>1, <1>2, <1>3 DEF FInv, DirectInv
<1>5. FloatPos \in 0 .. Period - 1 /\ eng.key \in Key
  BY <1>4, FloatTypes
<1> QED BY <1>1, <1>4, <1>5 DEF Floats!Init, Floats!Fresh, Floats!Position, NoFloats, FloatPos

\* Between the calls the array of the tile is free.
LEMMA NoCall ==
  ASSUME FInv, want = 0
  PROVE  /\ pc = "idle" /\ asked = 0 /\ at = 0 /\ refills = 0 /\ done = 0 /\ FloatPos = Position(eng)
         /\ floats = NoFloats
<1>1. pc = "idle" /\ asked = 0 /\ at = 0 /\ done = 0 /\ floats = NoFloats
  BY FloatTypes DEF FInv, TileInv
<1>2. refills = 0
  BY <1>1 DEF FInv, IInv, LoopInv
<1> QED BY <1>1, <1>2, EmptyTile, FloatTypes DEF FloatPos

\* The engine moved while no call runs: the invariant holds, the reader stands where it does.
LEMMA MovedEngine ==
  ASSUME FInv, IInv', want = 0, UNCHANGED <<pc, refills, caller>>,
         NEW w \in 0 .. MaxFloats, want' = w, done' = w, w = 0 => floats' = NoFloats
  PROVE  FInv' /\ FloatPos' = Position(eng')
<1>1. pc' = "idle" /\ asked' = 0 /\ at' = 0
  BY NoCall DEF caller
<1>2. eng' \in EngineValue
  BY DEF IInv, TypeOK
<1>3. TileInv' /\ TileHolds' /\ DirectInv'
  <2>1. TileInv'
    <3>1. w \in Nat /\ w - w = 0 /\ TileWords \in Nat
      BY FloatAssumption, CallerAssumption
    <3> QED BY <1>1, <3>1 DEF TileInv
  <2>2. TileHolds'
    BY <1>1 DEF TileHolds
  <2>3. TileWords # 0
    BY FloatAssumption, CallerAssumption
  <2> QED BY <1>1, <2>1, <2>2, <2>3 DEF DirectInv
<1>4. FloatPos' = Position(eng')
  <2>1. FloatPos' = (Position(eng') - at') % Period
    BY DEF FloatPos, Position, State
  <2> QED BY <1>1, <1>2, <2>1, EmptyTile
<1> QED BY <1>3, <1>4 DEF FInv

\* Moving the engine between the calls is a jump.
LEMMA BetweenStep ==
  ASSUME FInv, Between
  PROVE  FInv' /\ Floats!Next
<1>1. PICK n \in Skips : DoDiscard(n)
  BY DEF Between
<1>2. IInv' /\ want = 0 /\ UNCHANGED <<pc, refills, caller>> /\ want' = want /\ UNCHANGED result
  BY <1>1, DiscardStep DEF FInv, Between, DoDiscard, result
<1>3. FInv' /\ FloatPos' = Position(eng')
  BY <1>2, NoCall, MovedEngine, FloatAssumption DEF result
<1>4. eng' \in EngineValue
  BY <1>2 DEF IInv, TypeOK
<1>5. Position(eng') \in 0 .. Period - 1 /\ eng'.key \in Key
  BY <1>4, PositionOfCursor DEF EngineValue
<1>6. Floats!Jump(eng'.key, Position(eng'))
  BY <1>2, <1>3 DEF Floats!Jump, Floats!Idle, result, FloatPos
<1> QED BY <1>3, <1>5, <1>6 DEF Floats!Next, Floats!Position

\* next_float() reads one float.
LEMMA NextFloatStep ==
  ASSUME FInv, NextFloat
  PROVE  FInv' /\ Floats!Next
<1>1. /\ pc = "idle" /\ asked = 0 /\ at = 0 /\ done = 0 /\ FloatPos = Position(eng)
      /\ floats = NoFloats
      /\ want = 0 /\ want' = 1 /\ done' = 1
      /\ eng' = AfterCall(eng) /\ UNCHANGED <<pc, refills, caller>>
      /\ floats' = [NoFloats EXCEPT ![0] = ToFloat01(CallWord(eng))]
  BY NoCall DEF NextFloat
<1>2. eng \in EngineValue /\ BufferOK(eng) /\ Position(eng) \in 0 .. Period - 1
  BY FloatTypes
<1>3. /\ CallWord(eng) = StreamWord(eng.key, Position(eng))
      /\ eng' \in EngineValue /\ eng'.key = eng.key /\ BufferOK(eng')
      /\ Position(eng') = (Position(eng) + 1) % Period
  BY <1>1, <1>2, CallPosition
<1>4. IInv'
  BY <1>1, <1>3, MoveInv DEF FInv
<1>5. FInv' /\ FloatPos' = Position(eng')
  <2>1. want' \in 0 .. MaxFloats
    BY <1>1, FloatAssumption
  <2> QED BY <1>1, <1>4, <2>1, MovedEngine
<1>6. floats' = Floats!Stored(floats, 0, 1)
  <2>1. (Position(eng) + (0 - 0)) % Period = Position(eng)
    BY <1>2, ModSmall, PeriodType
  <2>2. ToFloat01(CallWord(eng)) = FloatWord(eng.key, (FloatPos + (0 - 0)) % Period)
    BY <1>1, <1>3, <2>1 DEF FloatWord
  <2>3. \A i \in 0 .. MaxFloats : i \in 0 .. 0 + 1 - 1 <=> i = 0
    BY FloatAssumption
  <2>4. floats' = [i \in 0 .. MaxFloats |-> IF i = 0 THEN ToFloat01(CallWord(eng)) ELSE floats[i]]
    BY <1>1 DEF NoFloats
  <2>5. floats' = [i \in 0 .. MaxFloats |->
                     IF i \in 0 .. 0 + 1 - 1 THEN FloatWord(eng.key, (FloatPos + (i - 0)) % Period)
                     ELSE floats[i]]
    BY <2>2, <2>3, <2>4
  <2> QED BY <2>5 DEF Floats!Stored, FloatPos
<1>7. Floats!Read(1)
  BY <1>1, <1>3, <1>5, <1>6 DEF Floats!Read, Floats!Idle, FloatPos
<1> QED BY <1>5, <1>7 DEF Floats!Next
\* Asking for floats asks; asking for none is not seen.
LEMMA FAskStep ==
  ASSUME FInv, NEW n \in 0 .. MaxFloats, FAsk(n)
  PROVE  FInv' /\ [Floats!Next]_Floats!vars
<1>1. want = 0 /\ want' = n /\ UNCHANGED <<vars, floats, done>> /\ at' = at /\ asked' = asked
  BY DEF FAsk, vars
<1>2. /\ pc = "idle" /\ asked = 0 /\ at = 0 /\ done = 0 /\ floats = NoFloats
      /\ n \in Nat /\ n <= MaxFloats
  BY <1>1, NoCall, FloatAssumption
<1>3. IInv' /\ TileHolds' /\ DirectInv'
  BY <1>1, <1>2
  DEF FInv, IInv, TypeOK, BufferOK, BufferPosition, BufferDrainedFirst, LoopInv, OneRefillInv, left,
      TileHolds, DirectInv, vars
<1>4. TileInv'
  BY <1>1, <1>2, FloatAssumption DEF TileInv, vars
<1>5. UNCHANGED <<eng, floats, done, FloatPos>>
  BY <1>1 DEF vars, FloatPos
<1>6. CASE n = 0
  BY <1>1, <1>3, <1>4, <1>5, <1>6 DEF FInv, Floats!vars, FloatPos
<1>7. CASE n # 0
  <2>1. n \in 1 .. MaxFloats
    BY <1>2, <1>7
  <2>2. Floats!Ask(n)
    BY <1>1, <1>5 DEF Floats!Ask, Floats!Idle, FloatPos
  <2> QED BY <1>3, <1>4, <2>1, <2>2 DEF FInv, Floats!Next
<1> QED BY <1>6, <1>7

\* Asking for the words of a tile is not seen.
LEMMA TileStep ==
  ASSUME FInv, Tile
  PROVE  FInv' /\ UNCHANGED Floats!vars
<1> DEFINE n == IF want - done < TileWords THEN want - done ELSE TileWords
<1>1. /\ done < want /\ Generate(n) /\ UNCHANGED result
      /\ want \in Nat /\ done \in Nat /\ TileWords \in Nat \ {0} /\ TileWords <= MaxRequest
  BY FloatTypes, FloatAssumption, CallerAssumption DEF Tile
<1>2. n \in 0 .. MaxRequest /\ n # 0 /\ n <= want - done /\ n <= TileWords
  BY <1>1, CallerAssumption
<1>3. IInv' /\ UNCHANGED <<eng, mem, at, refills, floats, done, want>> /\ asked' = n /\ asked = 0
  <2> HIDE DEF n
  <2> QED BY <1>1, <1>2, GenerateStep DEF FInv, Generate, Free, result
<1> HIDE DEF n
<1>4. at = 0 /\ refills = 0
  BY <1>3, FloatTypes DEF FInv, IInv, LoopInv
<1>5. TileInv'
  BY <1>1, <1>2, <1>3 DEF FInv, TileInv
<1>6. TileHolds'
  BY <1>3, <1>4 DEF TileHolds
<1>7. DirectInv'
  BY <1>1, <1>3, <1>4 DEF DirectInv, Generate
<1>8. UNCHANGED Floats!vars
  BY <1>3 DEF Floats!vars, FloatPos
<1> QED BY <1>3, <1>5, <1>6, <1>7, <1>8 DEF FInv

\* The loop of generate_n works in the tile, which the caller does not see.
LEMMA FillStep ==
  ASSUME FInv, Fill
  PROVE  FInv' /\ UNCHANGED Floats!vars
<1>1. IInv /\ Step /\ UNCHANGED <<floats, done, want>> /\ asked # 0 /\ pc # "idle"
  BY DEF FInv, Fill, result, TileInv, Step, Drain, Direct, DoRefill
<1>2. IInv' /\ asked' = asked /\ eng'.key = eng.key
  BY <1>1, StepDelivers
<1>3. PICK m \in Nat : /\ at' = at + m
                       /\ Position(eng') = (Position(eng) + m) % Period
                       /\ mem' = Abstract!Stored(mem, at, m)
  BY <1>1, StepDelivers
<1>4. /\ at' <= asked /\ asked <= MaxRequest /\ asked \in Nat /\ at \in Nat /\ at' \in Nat
      /\ Position(eng) \in Int /\ MaxRequest \in Nat
  <2>1. at' \in 0 .. asked'
    BY <1>2 DEF IInv, TypeOK
  <2> QED BY <1>2, <2>1, FloatTypes, CallerAssumption
<1>5. FloatPos' = FloatPos
  <2> DEFINE s == Position(eng) + m
             y == -(at + m)
  <2>1. s \in Int /\ y \in Int /\ s + y = Position(eng) - at
    BY <1>4
  <2>2. FloatPos' = (Position(eng') - at') % Period
    BY DEF FloatPos, Position, State
  <2> HIDE DEF s
  <2>3. Position(eng') - at' = (s % Period) + y
    <3>1. s % Period \in Int
      BY <2>1, DivisionTheorem, PeriodType
    <3> QED BY <1>3, <1>4, <3>1 DEF s
  <2> HIDE DEF y
  <2>4. ((s % Period) + y) % Period = (s + y) % Period
    BY <2>1, ModAdd, PeriodType
  <2> QED BY <2>1, <2>2, <2>3, <2>4 DEF FloatPos
<1>6. TileHolds'
  <2> SUFFICES ASSUME NEW i \in 0 .. at' - 1
               PROVE  mem'[i] = StreamWord(eng'.key, (FloatPos' + i) % Period)
    BY DEF TileHolds
  <2>1. i \in 0 .. MaxRequest /\ i \in Int
    BY <1>3, <1>4
  <2>2. mem'[i] = IF i \in at .. at + m - 1
                  THEN StreamWord(eng.key, (Position(eng) + (i - at)) % Period) ELSE mem[i]
    BY <1>3, <2>1 DEF Abstract!Stored
  <2>3. CASE i \in at .. at + m - 1
    BY <1>2, <1>5, <2>1, <2>2, <2>3, AheadOfReader
  <2>4. CASE i \notin at .. at + m - 1
    <3>1. i \in 0 .. at - 1
      BY <1>3, <1>4, <2>4
    <3> QED BY <1>2, <1>5, <2>2, <2>4, <3>1 DEF FInv, TileHolds
  <2> QED BY <2>3, <2>4
<1>7. TileInv'
  BY <1>1, <1>2 DEF FInv, TileInv
<1>8. DirectInv'
  <2> SUFFICES ASSUME RoomyTile, asked = TileWords
               PROVE  /\ pc' = "drain" /\ refills' = 0 => at' = 0
                      /\ pc' = "wide" => refills' = 0 /\ at' <= RefillWords
                      /\ pc' = "drain" /\ refills' # 0 => left' < 4 /\ eng'.cursor = 0
    BY <1>2 DEF DirectInv, RoomyTile
  <2>1. /\ pc = "drain" /\ refills = 0 => at = 0
        /\ pc = "wide" => refills = 0 /\ at <= RefillWords
        /\ pc = "drain" /\ refills # 0 => left < 4 /\ eng.cursor = 0
        /\ pc = "refill" => left < 4
    BY DEF FInv, DirectInv, IInv, LoopInv
  <2>2. /\ left \in Nat /\ asked \in Nat /\ left = asked - at /\ left' = asked - at' /\ at \in Nat /\ refills \in Nat
        /\ RefillWords \in Nat /\ RefillWords >= 4 /\ eng.cursor \in 0 .. RefillWords
        /\ PreferredBlocks \in Nat /\ eng \in EngineValue
    BY <1>2, FloatTypes, Types, PeriodType, CallerAssumption DEF FInv, IInv, left
  <2>3. CASE Drain
    <3> DEFINE available == RefillWords - eng.cursor
               n         == IF left < available THEN left ELSE available
    <3>1. /\ pc = "drain" /\ at' = at + n /\ refills' = refills
          /\ pc' = IF left = n THEN "idle" ELSE "wide"
      BY <2>3 DEF Drain
    <3>2. n <= RefillWords /\ n \in Nat
      BY <2>2
    <3>3. left < 4 /\ eng.cursor = 0 => n = left
      BY <2>2
    <3> HIDE DEF n
    <3> QED BY <2>1, <2>2, <3>1, <3>2, <3>3
  <2>4. CASE Direct
    BY <2>4 DEF Direct
  <2>5. CASE DoRefill
    <3>1. pc' = "drain" /\ refills' # 0 /\ at' = at
      BY <2>2, <2>5 DEF DoRefill, caller, MoreThanOne
    <3>2. eng'.cursor = 0
      BY <2>2, <2>5, RefillType DEF DoRefill
    <3>3. pc = "refill"
      <4> SUFFICES ASSUME pc = "wide", ~WideEnough PROVE FALSE
        BY <2>5 DEF DoRefill
      <4>1. left >= PreferredBlocks * 4
        BY <2>1, <2>2 DEF RoomyTile
      <4> QED BY <2>2, <4>1 DEF WideEnough
    <3> QED BY <2>1, <2>2, <3>1, <3>2, <3>3
  <2> QED BY <1>1, <2>3, <2>4, <2>5 DEF Step
<1>9. UNCHANGED Floats!vars
  BY <1>1, <1>2, <1>5 DEF Floats!vars, FloatPos
<1> QED BY <1>2, <1>6, <1>7, <1>8, <1>9 DEF FInv
\* Converting a tile delivers as many floats as it holds.
LEMMA ConvertStep ==
  ASSUME FInv, Convert
  PROVE  FInv' /\ Floats!Next
<1>1. /\ pc = "idle" /\ asked # 0 /\ floats' = Converted(mem, asked) /\ done' = done + asked
      /\ at' = 0 /\ asked' = 0 /\ refills' = 0 /\ UNCHANGED <<eng, pc, mem, want>>
  BY DEF Convert
<1>2. at = asked
  BY <1>1 DEF FInv, IInv, LoopInv
<1>3. /\ asked \in Nat /\ want \in Nat /\ done \in Nat /\ asked <= want - done /\ want <= MaxFloats
      /\ MaxFloats \in Nat /\ want # 0
  BY <1>1, FloatTypes, FloatAssumption DEF FInv, TileInv
<1>4. IInv'
  BY <1>1, CallerAssumption
  DEF FInv, IInv, TypeOK, MoreThanOne, BufferDrainedFirst, LoopInv, OneRefillInv, BufferOK, BufferPosition
<1>5. TileInv' /\ TileHolds' /\ DirectInv'
  <2>1. TileInv'
    BY <1>1, <1>3, FloatAssumption, CallerAssumption DEF FInv, TileInv
  <2>2. TileHolds'
    BY <1>1 DEF TileHolds
  <2>3. TileWords # 0
    BY FloatAssumption, CallerAssumption
  <2> QED BY <1>1, <2>1, <2>2, <2>3 DEF DirectInv
<1>6. FloatPos' = (FloatPos + asked) % Period
  <2>1. FloatPos' = (Position(eng) - 0) % Period
    BY <1>1 DEF FloatPos, Position, State
  <2>2. (FloatPos + asked) % Period = (Position(eng) + (asked - at)) % Period
    BY <1>3, AheadOfReader
  <2>3. Position(eng) + (asked - at) = Position(eng) - 0
    BY <1>2, FloatTypes
  <2> QED BY <2>1, <2>2, <2>3
<1>7. floats' = Floats!Stored(floats, done, asked)
  <2>1. ASSUME NEW i \in 0 .. MaxFloats
        PROVE  (IF i \in done .. done + asked - 1 THEN ToFloat01(mem[i - done]) ELSE floats[i])
               = (IF i \in done .. done + asked - 1
                  THEN FloatWord(eng.key, (FloatPos + (i - done)) % Period) ELSE floats[i])
    <3>1. CASE i \in done .. done + asked - 1
      <4>1. i - done \in 0 .. at - 1
        BY <1>2, <1>3, <3>1
      <4>2. mem[i - done] = StreamWord(eng.key, (FloatPos + (i - done)) % Period)
        BY <4>1 DEF FInv, TileHolds
      <4> QED BY <3>1, <4>2 DEF FloatWord
    <3>2. CASE i \notin done .. done + asked - 1
      BY <3>2
    <3> QED BY <3>1, <3>2
  <2> QED BY <1>1, <2>1 DEF Converted, Floats!Stored, FloatPos
<1>8. asked \in 1 .. MaxFloats
  BY <1>1, <1>3
<1>9. Floats!Deliver(asked)
  BY <1>1, <1>3, <1>6, <1>7 DEF Floats!Deliver, FloatPos
<1> QED BY <1>4, <1>5, <1>8, <1>9 DEF FInv, Floats!Next

\* Using the floats is taking them.
LEMMA FTakeStep ==
  ASSUME FInv, FTake
  PROVE  FInv' /\ Floats!Next
<1>1. /\ want # 0 /\ done = want /\ asked = 0 /\ floats' = NoFloats /\ done' = 0 /\ want' = 0
      /\ mem' = Fresh /\ UNCHANGED <<eng, pc, at, asked, refills>>
  BY DEF FTake
<1>2. pc = "idle" /\ at = 0
  BY <1>1, FloatTypes DEF FInv, TileInv
<1>3. IInv'
  BY <1>1, <1>2, CallerAssumption
  DEF FInv, IInv, TypeOK, BufferDrainedFirst, LoopInv, OneRefillInv, BufferOK, BufferPosition, Fresh
<1>4. TileInv' /\ TileHolds' /\ DirectInv'
  <2>1. TileInv'
    BY <1>1, <1>2, FloatAssumption, CallerAssumption DEF TileInv
  <2>2. TileHolds'
    BY <1>1, <1>2 DEF TileHolds
  <2>3. TileWords # 0
    BY FloatAssumption, CallerAssumption
  <2> QED BY <1>1, <2>1, <2>2, <2>3 DEF DirectInv
<1>5. Floats!Take
  BY <1>1 DEF Floats!Take, Floats!Fresh, NoFloats, FloatPos
<1> QED BY <1>3, <1>4, <1>5 DEF FInv, Floats!Next

\* Every step keeps the invariant and implements the stream of floats.
LEMMA FNextStep ==
  ASSUME FInv, [FNext]_fvars
  PROVE  FInv' /\ [Floats!Next]_Floats!vars
<1>1. CASE FNext
  <2>1. CASE Between
    BY <2>1, BetweenStep
  <2>2. CASE NextFloat
    BY <2>2, NextFloatStep
  <2>3. CASE \E n \in 0 .. MaxFloats : FAsk(n)
    BY <2>3, FAskStep
  <2>4. CASE Tile
    BY <2>4, TileStep
  <2>5. CASE Fill
    BY <2>5, FillStep
  <2>6. CASE Convert
    BY <2>6, ConvertStep
  <2>7. CASE FTake
    BY <2>7, FTakeStep
  <2> QED BY <1>1, <2>1, <2>2, <2>3, <2>4, <2>5, <2>6, <2>7 DEF FNext, FStep
<1>2. CASE UNCHANGED fvars
  <2>1. UNCHANGED <<eng, pc, mem, at, asked, refills, floats, done, want>>
    BY <1>2 DEF fvars, vars, result
  <2>2. IInv' /\ TileInv' /\ TileHolds' /\ DirectInv'
    BY <2>1
    DEF FInv, IInv, TypeOK, BufferOK, BufferPosition, BufferDrainedFirst, LoopInv, OneRefillInv, left,
        TileInv, TileHolds, DirectInv, FloatPos
  <2>3. UNCHANGED Floats!vars
    BY <2>1 DEF Floats!vars, FloatPos
  <2> QED BY <2>2, <2>3 DEF FInv
<1> QED BY <1>1, <1>2

---------------------------------------------------------------------------

(***************************************************************************)
(* The inductive invariant of a float request: the engine's, what the tile *)
(* holds, and what its loop knows of a full tile.  (philox.hpp 188-219)    *)
(***************************************************************************)
THEOREM FloatInvariant == FSpec => []FInv
<1>1. FInit => FInv
  BY FInitInv
<1> QED BY <1>1, FNextStep, PTL DEF FSpec

(***************************************************************************)
(* Whatever the width of the tile, of the refill and of the kernel, floats *)
(* are the stream of words converted one by one, across the seams of the   *)
(* tiles, and the engine is left behind the last word used.                *)
(* (philox.hpp 188-219, float_bulk.hpp 47-84)                              *)
(***************************************************************************)
THEOREM FloatsImplementStream == FSpec => FloatsAreStream
<1>1. FInit => Floats!Init
  BY FInitInv
<1>2. FInv /\ [FNext]_fvars => [Floats!Next]_Floats!vars
  BY FNextStep
<1> QED BY <1>1, <1>2, FloatInvariant, PTL DEF FSpec, FloatsAreStream, Floats!Spec

(***************************************************************************)
(* A full tile no narrower than a refill and one direct call goes to the   *)
(* kernel before any refill, and a refill serves less than a block of it.  *)
(* (philox.hpp 63-67)                                                      *)
(***************************************************************************)
THEOREM TileGoesDirect == FSpec => []FullTileGoesDirect
<1>1. ASSUME FInv PROVE FullTileGoesDirect
  <2> SUFFICES ASSUME RoomyTile, asked = TileWords
               PROVE  /\ pc = "wide" /\ refills = 0 => WideEnough
                      /\ pc = "drain" /\ refills > 0 => left < 4
    BY DEF FullTileGoesDirect, RoomyTile
  <2>1. /\ left \in Nat /\ left = asked - at /\ at \in Nat /\ asked \in Nat /\ refills \in Nat
        /\ RefillWords \in Nat /\ PreferredBlocks \in Nat
    BY <1>1, FloatTypes, Types, CallerAssumption DEF FInv, IInv
  <2>2. /\ pc = "wide" => at <= RefillWords
        /\ pc = "drain" /\ refills # 0 => left < 4
    BY <1>1 DEF FInv, DirectInv
  <2>3. at <= RefillWords => left >= PreferredBlocks * 4
    BY <2>1 DEF RoomyTile
  <2>4. left >= PreferredBlocks * 4 => WideEnough
    BY <2>1 DEF WideEnough
  <2> QED BY <2>1, <2>2, <2>3, <2>4
<1> QED BY <1>1, FloatInvariant, PTL

---------------------------------------------------------------------------
(* The four counter words of the parity tool's engine. *)

\* The tool's counter words and those of CounterProofs are words of one base.
LEMMA BaseInstance ==
  /\ Base \in Nat \ {0, 1}
  /\ Wide = Counters!Wide /\ Words!Counter = Counters!Counter
  /\ \A w : Words!Value(w) = Counters!Value(w)
  /\ CounterPeriod = Counters!Period
<1>1. Base \in Nat \ {0, 1} /\ CounterPeriod = Base * Base * Base * Base
  BY ParityAssumption
<1>2. Base * Base * Base * Base = Base * (Base * (Base * Base))
  BY <1>1
<1> QED BY <1>1, <1>2
  DEF Wide, Counters!Wide, Words!Counter, Words!U32, Counters!Counter, Counters!U32, Words!Value,
      Counters!Value, Counters!Period

\* One turn of the loops over the words is the same in both.
LEMMA TurnInstance ==
  ASSUME NEW s, NEW i
  PROVE  /\ Words!AddTurn(s, i) = Counters!AddTurn(s, i)
         /\ Words!SubTurn(s, i) = Counters!SubTurn(s, i)
<1>1. Words!AddTurn(s, i) = Counters!AddTurn(s, i)
  BY DEF Words!AddTurn, Counters!AddTurn
<1>2. Words!SubTurn(s, i) = Counters!SubTurn(s, i)
  <2>1. \A x : Words!SignBit(x) = Counters!SignBit(x)
    BY DEF Words!SignBit, Counters!SignBit
  <2> QED BY <2>1 DEF Words!SubTurn, Counters!SubTurn
<1> QED BY <1>1, <1>2

\* So are the 64-bit moves.
LEMMA MoveInstance ==
  ASSUME NEW w, NEW delta
  PROVE  /\ Words!CounterAdd(w, delta) = Counters!CounterAdd(w, delta)
         /\ Words!CounterSub(w, delta) = Counters!CounterSub(w, delta)
  BY TurnInstance DEF Words!CounterAdd, Words!CounterSub, Counters!CounterAdd, Counters!CounterSub

\* A 64-bit move of the words adds to the number they stand for and is undone
\* by its opposite.
LEMMA WordsMove ==
  ASSUME NEW w \in Words!Counter, NEW delta \in Wide
  PROVE  /\ Words!CounterAdd(w, delta) \in Words!Counter
         /\ Words!Value(Words!CounterAdd(w, delta)) = CounterAdd(Words!Value(w), delta)
         /\ Words!CounterSub(Words!CounterAdd(w, delta), delta) = w
         /\ Words!CounterAdd(Words!CounterSub(w, delta), delta) = w
<1>1. w \in Counters!Counter /\ delta \in Counters!Wide /\ Base \in Nat \ {0, 1}
  BY BaseInstance
<1>2. /\ Counters!CounterAdd(w, delta) \in Counters!Counter
      /\ Counters!Value(Counters!CounterAdd(w, delta)) = (Counters!Value(w) + delta) % Counters!Period
  BY <1>1, Counters!CounterAddCorrect
<1>3. /\ Counters!CounterSub(Counters!CounterAdd(w, delta), delta) = w
      /\ Counters!CounterAdd(Counters!CounterSub(w, delta), delta) = w
  BY <1>1, Counters!SubInvertsAdd
<1> QED BY <1>2, <1>3, BaseInstance, MoveInstance DEF CounterAdd

\* Four words stand for a block counter.
LEMMA WordsValue ==
  ASSUME NEW w \in Words!Counter
  PROVE  Words!Value(w) \in Counter
<1>1. w \in Counters!Counter /\ Base \in Nat \ {0, 1}
  BY BaseInstance
<1>2. Counters!Value(w) \in 0 .. Counters!Period - 1
  BY <1>1, Counters!ValueType
<1> QED BY <1>2, BaseInstance DEF Counter

\* Words that stand for one number are the same words.
LEMMA WordsSame ==
  ASSUME NEW w \in Words!Counter, NEW v \in Words!Counter, Words!Value(w) = Words!Value(v)
  PROVE  w = v
<1>1. w \in Counters!Counter /\ v \in Counters!Counter /\ Base \in Nat \ {0, 1} /\ Counters!Value(w) = Counters!Value(v)
  BY BaseInstance
<1> QED BY <1>1, Counters!ValueInjective

\* Every block counter has its words.
LEMMA WordsOf ==
  ASSUME NEW n \in Counter
  PROVE  Words!CounterOf(n) \in Words!Counter /\ Words!Value(Words!CounterOf(n)) = n
<1>1. n \in 0 .. Counters!Period - 1 /\ Base \in Nat \ {0, 1}
  BY BaseInstance DEF Counter
<1>2. Counters!CounterOf(n) \in Counters!Counter /\ Counters!Value(Counters!CounterOf(n)) = n
  BY <1>1, Counters!CounterOfValue
<1>3. Words!CounterOf(n) = Counters!CounterOf(n)
  BY DEF Words!CounterOf, Counters!CounterOf, Words!FourWords, Counters!FourWords
<1> QED BY <1>2, <1>3, BaseInstance

---------------------------------------------------------------------------
(* One turn of the tool. *)

CurandState == [ctr : Words!Counter, key : Key, index : 0 .. 3]
InTurn      == stage \in {"draw", "engine", "compare"}

\* The position a reported state names, and the first word of its block.
Origin(s) == 4 * Words!Value(s.ctr)
Begins(s) == Origin(s) + s.index

ToolTypes ==
  /\ library \in Libraries
  /\ cases \in Lists
  /\ stage \in {"seed", "draw", "engine", "compare", "exited"}
  /\ st \in CurandState /\ reported \in CurandState
  /\ ref \in Seq(Word)
  /\ Len(ref) <= WordsPerCase
  /\ stage = "draw" => Len(ref) < WordsPerCase
  /\ stage \in {"engine", "compare"} => Len(ref) = WordsPerCase
  /\ compared \in Seq([state : CurandState, words : Seq(Word)])
  /\ Len(compared) <= Len(cases)
  /\ InTurn => Len(compared) < Len(cases)
  /\ stage = "exited" => Len(compared) = Len(cases)

\* The engine's words are those of the reported state, as far as the call has come.
EngineRun ==
  /\ stage # "compare" => pc = "idle"
  /\ stage = "compare" =>
       /\ asked = WordsPerCase + reported.index
       /\ eng.key = reported.key
       /\ Position(eng) = (Origin(reported) + at) % Period
       /\ \A i \in 0 .. at - 1 : mem[i] = StreamWord(reported.key, (Origin(reported) + i) % Period)

CounterInv == counter \in Words!Counter /\ Words!Value(counter) = eng.next

\* The sizes of the tool, in the form the provers use them (ParityAssumption).
LEMMA ParityTypes ==
  /\ WordsPerCase \in Nat \ {0} /\ MaxRequest >= WordsPerCase + 3
  /\ MaxRequest \in Nat /\ MaxRequest \in Wide /\ RefillBlocks \in Wide
  /\ Base \in Nat \ {0, 1} /\ Base * Base \in Nat /\ Wide \subseteq Nat
<1>1. /\ WordsPerCase \in Nat \ {0} /\ MaxRequest >= WordsPerCase + 3
      /\ MaxRequest \in Wide /\ RefillBlocks \in Wide /\ Base \in Nat \ {0, 1}
  BY ParityAssumption
<1>2. Base * Base \in Nat
  BY <1>1
<1> QED BY <1>1, <1>2, CallerAssumption DEF Wide

\* The members of a reported state.
LEMMA StateTypes ==
  ASSUME NEW s \in CurandState
  PROVE  /\ s.ctr \in Words!Counter /\ s.key \in Key /\ s.index \in 0 .. 3
         /\ Words!Value(s.ctr) \in Counter
         /\ Origin(s) \in Nat /\ Begins(s) \in Nat
<1>1. s.ctr \in Words!Counter /\ s.key \in Key /\ s.index \in 0 .. 3
  BY DEF CurandState
<1>2. Words!Value(s.ctr) \in Counter
  BY <1>1, WordsValue
<1>3. Words!Value(s.ctr) \in Nat
  BY <1>2, PeriodType DEF Counter
<1> QED BY <1>1, <1>2, <1>3 DEF Origin, Begins

\* A step of a running call delivers words of the stream, or nothing.
LEMMA RunDelivers ==
  ASSUME [Abstract!Next]_(Abstract!vars), asked # 0, asked' = asked
  PROVE  /\ eng'.key = eng.key
         /\ \/ Position(eng') = Position(eng) /\ mem' = mem /\ at' = at
            \/ \E m \in 1 .. MaxRequest :
                 /\ m <= asked - at
                 /\ at' = at + m
                 /\ Position(eng') = (Position(eng) + m) % Period
                 /\ mem' = Abstract!Stored(mem, at, m)
<1>1. CASE UNCHANGED Abstract!vars
  BY <1>1 DEF Abstract!vars
<1>2. CASE Abstract!Next
  BY <1>2 DEF Abstract!Next, Abstract!Read, Abstract!Ask, Abstract!Deliver, Abstract!Take,
              Abstract!Jump, Abstract!Idle
<1> QED BY <1>1, <1>2

\* What has been delivered of a call that began at o is the stream from o.
LEMMA RunIsStream ==
  ASSUME TypeOK, [Abstract!Next]_(Abstract!vars), asked # 0, asked' = asked,
         NEW o \in Int, NEW k, eng.key = k,
         Position(eng) = (o + at) % Period,
         \A i \in 0 .. at - 1 : mem[i] = StreamWord(k, (o + i) % Period)
  PROVE  /\ eng'.key = k
         /\ Position(eng') = (o + at') % Period
         /\ \A i \in 0 .. at' - 1 : mem'[i] = StreamWord(k, (o + i) % Period)
<1>1. CASE Position(eng') = Position(eng) /\ mem' = mem /\ at' = at
  BY <1>1, RunDelivers
<1>2. CASE \E m \in 1 .. MaxRequest :
             /\ m <= asked - at
             /\ at' = at + m
             /\ Position(eng') = (Position(eng) + m) % Period
             /\ mem' = Abstract!Stored(mem, at, m)
  <2>1. PICK m \in 1 .. MaxRequest :
          /\ m <= asked - at
          /\ at' = at + m
          /\ Position(eng') = (Position(eng) + m) % Period
          /\ mem' = Abstract!Stored(mem, at, m)
    BY <1>2
  <2>2. /\ at \in Nat /\ asked \in Nat /\ asked <= MaxRequest /\ MaxRequest \in Nat
        /\ Period \in Nat \ {0} /\ m \in Nat
    BY PeriodType, CallerAssumption DEF TypeOK
  <2> DEFINE s == o + at
  <2>3. s \in Int /\ s + m = o + at'
    BY <2>1, <2>2
  <2>4. \A d \in Int : ((s % Period) + d) % Period = (s + d) % Period
    BY <2>2, <2>3, ModAdd
  <2> HIDE DEF s
  <2>5. Position(eng') = (o + at') % Period
    BY <2>1, <2>2, <2>3, <2>4 DEF s
  <2>6. ASSUME NEW i \in 0 .. at' - 1
        PROVE  mem'[i] = StreamWord(k, (o + i) % Period)
    <3>1. i \in 0 .. MaxRequest /\ i < at + m
      BY <2>1, <2>2
    <3>2. mem'[i] = IF i \in at .. at + m - 1
                    THEN StreamWord(eng.key, (Position(eng) + (i - at)) % Period) ELSE mem[i]
      BY <2>1, <3>1 DEF Abstract!Stored
    <3>3. CASE i < at
      BY <2>2, <3>1, <3>2, <3>3
    <3>4. CASE i >= at
      <4>1. mem'[i] = StreamWord(k, ((s % Period) + (i - at)) % Period)
        BY <2>2, <3>1, <3>2, <3>4 DEF s
      <4>2. ((s % Period) + (i - at)) % Period = (s + (i - at)) % Period
        BY <2>2, <2>4
      <4>3. s + (i - at) = o + i
        BY <2>2 DEF s
      <4> QED BY <4>1, <4>2, <4>3
    <3> QED BY <2>2, <3>1, <3>3, <3>4
  <2> QED BY <2>5, <2>6, RunDelivers
<1> QED BY <1>1, <1>2, RunDelivers

\* Every step of the loop keeps the engine's invariant and delivers, and its
\* counter_add goes with it.
LEMMA EngineStepKeeps ==
  ASSUME IInv, ToolTypes, EngineRun, CounterInv, EngineStep
  PROVE  IInv' /\ EngineRun' /\ CounterInv'
<1>1. /\ stage = "compare" /\ asked # 0 /\ asked' = asked
      /\ asked = WordsPerCase + reported.index
      /\ stage' = stage /\ reported' = reported /\ library' = library
  <2>1. pc # "idle" /\ asked' = asked
    BY DEF EngineStep, Drain, Direct, DoRefill, caller
  <2>2. WordsPerCase \in Nat \ {0} /\ reported.index \in Nat
    <3>1. reported.index \in 0 .. 3
      BY StateTypes DEF ToolTypes
    <3> QED BY <3>1, ParityTypes
  <2> QED BY <2>1, <2>2 DEF EngineRun, EngineStep, tool
<1>2. IInv' /\ [Abstract!Next]_(Abstract!vars)
  BY DrainStep, DirectStep, RefillStep DEF EngineStep
<1>3. Origin(reported) \in Int /\ Origin(reported)' = Origin(reported)
  <2>1. Origin(reported) \in Nat
    BY StateTypes DEF ToolTypes
  <2> QED BY <1>1, <2>1 DEF Origin
<1>4. EngineRun'
  BY <1>1, <1>2, <1>3, RunIsStream DEF IInv, EngineRun
<1>5. CounterInv'
  <2>1. MaxRequest \in Wide /\ RefillBlocks \in Wide /\ Base * Base \in Nat
    BY ParityTypes
  <2>2. /\ eng \in EngineValue /\ eng.next \in Counter
        /\ left \in Nat /\ left = asked - at /\ at \in Nat
        /\ asked \in Nat /\ asked <= MaxRequest
    BY Types DEF IInv, TypeOK
  <2>3. CASE Drain /\ counter' = counter
    <3>1. eng'.next = eng.next
      <4> DEFINE c == eng.cursor + (IF left < RefillWords - eng.cursor THEN left ELSE RefillWords - eng.cursor)
      <4>1. eng' = [eng EXCEPT !.cursor = c]
        BY <2>3 DEF Drain
      <4> HIDE DEF c
      <4> QED BY <2>2, <4>1 DEF EngineValue
    <3> QED BY <2>3, <3>1 DEF CounterInv
  <2>4. CASE Direct /\ counter' = Words!CounterAdd(counter, left \div BlockWords)
    <3>1. left \div 4 \in Nat /\ left \div 4 <= left
      BY <2>2
    <3>2. left \div 4 \in Wide
      BY <2>1, <2>2, <3>1, ParityTypes DEF Wide
    <3>3. eng'.next = CounterAdd(eng.next, left \div 4)
      <4> DEFINE c == CounterAdd(eng.next, left \div 4)
      <4>1. eng' = [eng EXCEPT !.next = c]
        BY <2>4 DEF Direct
      <4> HIDE DEF c
      <4>2. eng'.next = c
        BY <2>2, <4>1 DEF EngineValue
      <4> QED BY <4>2 DEF c
    <3> QED BY <2>4, <3>2, <3>3, WordsMove DEF CounterInv
  <2>5. CASE DoRefill /\ counter' = Words!CounterAdd(counter, RefillBlocks)
    BY <2>1, <2>2, <2>5, RefillType, WordsMove DEF CounterInv, DoRefill
  <2> QED BY <2>3, <2>4, <2>5 DEF EngineStep
<1> QED BY <1>2, <1>4, <1>5

\* An engine made from a reported state starts a run of the stream from there.
LEMMA StartKeeps ==
  ASSUME ToolTypes, Start
  PROVE  IInv' /\ EngineRun' /\ CounterInv'
<1> DEFINE k == reported.key
           c == Words!Value(reported.ctr)
<1>1. /\ k \in Key /\ c \in Counter /\ reported.ctr \in Words!Counter /\ reported.index \in 0 .. 3
      /\ Origin(reported) \in Nat /\ Origin(reported) = 4 * c
  BY StateTypes DEF ToolTypes, Origin
<1>2. /\ eng' = Construct(k, c) /\ counter' = reported.ctr /\ mem' = Fresh /\ at' = 0
      /\ asked' = WordsPerCase + reported.index /\ refills' = 0 /\ pc' = "drain"
      /\ stage' = "compare" /\ reported' = reported
  BY DEF Start
<1> HIDE DEF k, c
<1>3. /\ eng' \in EngineValue /\ eng'.cursor = RefillWords /\ eng'.next = c /\ eng'.key = k
      /\ RefillWords \in Nat
  BY <1>1, <1>2, EngineAssumption DEF Construct, EngineValue, RefillWords
<1>4. BufferOK(eng') /\ Position(eng') = (4 * c) % Period
  BY <1>3, SpentPosition DEF BufferOK
<1>5. asked' \in 0 .. MaxRequest /\ asked' # 0
  BY <1>1, <1>2, ParityTypes
<1>6. Origin(reported)' = Origin(reported)
  BY <1>2 DEF Origin
<1>7. IInv'
  <2>1. TypeOK'
    BY <1>2, <1>3, <1>5, CallerAssumption DEF TypeOK, Fresh, MoreThanOne
  <2>2. BufferOK(eng)'
    BY <1>4 DEF BufferOK, BufferPosition
  <2>3. BufferDrainedFirst' /\ LoopInv'
    BY <1>2, <1>5 DEF BufferDrainedFirst, LoopInv
  <2>4. OneRefillInv'
    BY <1>2 DEF OneRefillInv
  <2> QED BY <2>1, <2>2, <2>3, <2>4 DEF IInv
<1>8. EngineRun'
  <2>1. Origin(reported) + 0 = 4 * c
    BY <1>1
  <2> QED BY <1>2, <1>3, <1>4, <1>6, <2>1 DEF EngineRun, k
<1>9. CounterInv'
  BY <1>1, <1>2, <1>3 DEF CounterInv, c
<1> QED BY <1>7, <1>8, <1>9

CaseSpec == [seed : Wide, subseq : Wide, offset : Wide]

\* A 64-bit number is two words.
LEMMA TwoWords ==
  ASSUME NEW n \in Wide
  PROVE  /\ n % Base \in 0 .. Base - 1 /\ n \div Base \in 0 .. Base - 1
         /\ n = Base * (n \div Base) + (n % Base)
<1>1. Base \in Nat \ {0} /\ n \in 0 .. (Base * Base) - 1 /\ n \in Int
  BY ParityTypes DEF Wide
<1>2. n \div Base \in 0 .. Base - 1
  BY <1>1, QuotientOnGrid
<1> QED BY <1>1, <1>2, DivisionTheorem

\* cuRAND's states, as it makes and leaves them.
LEMMA CurandTypes ==
  /\ \A s \in CaseSpec : CurandInit(s) \in CurandState
  /\ \A s \in CurandState : CurandWord(s) \in Word /\ AfterCurand(s) \in CurandState
<1>1. \A n \in Int : Words!CounterOf(n % CounterPeriod) \in Words!Counter
  <2> SUFFICES ASSUME NEW n \in Int PROVE Words!CounterOf(n % CounterPeriod) \in Words!Counter
    OBVIOUS
  <2>1. n % CounterPeriod \in Counter
    BY PeriodType, DivisionTheorem DEF Counter
  <2> QED BY <2>1, WordsOf
<1>2. ASSUME NEW s \in CaseSpec PROVE CurandInit(s) \in CurandState
  <2>1. s.seed \in Wide /\ s.subseq \in Nat /\ s.offset \in Nat
    BY ParityTypes DEF CaseSpec
  <2> DEFINE blocks == IF library = "offset_in_blocks" THEN s.offset ELSE s.offset \div 4
             unit   == IF library = "sequence_below" THEN 1 ELSE Base * Base
             n      == (s.subseq * unit) + blocks
             word   == s.offset % 4
             index  == IF library = "offset_in_blocks" THEN 0 ELSE word
             key    == <<s.seed % Base, s.seed \div Base>>
  <2>2. blocks \in Nat /\ unit \in Nat /\ index \in 0 .. 3
    <3>1. \A o \in Nat : o \div 4 \in Nat /\ o % 4 \in 0 .. 3
      OBVIOUS
    <3>2. blocks \in Nat
      BY <2>1, <3>1
    <3>3. unit \in Nat
      BY ParityTypes
    <3>4. index \in 0 .. 3
      <4>1. word \in 0 .. 3
        BY <2>1, <3>1
      <4>2. 0 \in 0 .. 3
        OBVIOUS
      <4> HIDE DEF word
      <4> QED BY <4>1, <4>2
    <3> HIDE DEF blocks, unit, index
    <3> QED BY <3>2, <3>3, <3>4
  <2> HIDE DEF blocks, unit
  <2>3. n \in Int
    <3>1. \A a \in Nat, b \in Nat, d \in Nat : (a * b) + d \in Int
      OBVIOUS
    <3> QED BY <2>1, <2>2, <3>1
  <2>4. key \in Key
    <3>1. s.seed % Base \in 0 .. Base - 1 /\ s.seed \div Base \in 0 .. Base - 1
      BY <2>1, TwoWords
    <3>2. Key = (0 .. Base - 1) \X (0 .. Base - 1)
      BY ParityAssumption
    <3> QED BY <3>1, <3>2
  <2>5. CurandInit(s) = [ctr |-> Words!CounterOf(n % CounterPeriod), key |-> key, index |-> index]
    BY DEF CurandInit, blocks, unit
  <2> HIDE DEF n, key, index
  <2>6. Words!CounterOf(n % CounterPeriod) \in Words!Counter
    BY <1>1, <2>3
  <2> QED BY <2>2, <2>4, <2>5, <2>6 DEF CurandState
<1>3. ASSUME NEW s \in CurandState PROVE CurandWord(s) \in Word
  <2>1. s.key \in Key /\ s.index \in 0 .. 3 /\ Words!Value(s.ctr) \in Counter
    BY StateTypes
  <2>2. Philox(Words!Value(s.ctr), s.key) \in [0 .. 3 -> Word]
    BY <2>1, EngineAssumption
  <2> QED BY <2>1, <2>2 DEF CurandWord
<1>4. ASSUME NEW s \in CurandState PROVE AfterCurand(s) \in CurandState
  <2>1. s.ctr \in Words!Counter /\ s.index \in 0 .. 3 /\ Words!Value(s.ctr) + 1 \in Int
    BY StateTypes, PeriodType DEF Counter
  <2> DEFINE low == (s.ctr[0] + 1) % Base
             kept == [s.ctr EXCEPT ![0] = low]
             carried == Words!CounterOf((Words!Value(s.ctr) + 1) % CounterPeriod)
             next == IF library = "no_carry" THEN kept ELSE carried
  <2>2. kept \in Words!Counter
    <3>1. s.ctr[0] + 1 \in Int
      BY <2>1, ParityTypes DEF Words!Counter, Words!U32
    <3>2. low \in 0 .. Base - 1
      BY <3>1, ParityTypes, DivisionTheorem
    <3> HIDE DEF low
    <3> QED BY <2>1, <3>2 DEF Words!Counter, Words!U32
  <2>3. carried \in Words!Counter
    BY <1>1, <2>1
  <2>4. next \in Words!Counter
    BY <2>2, <2>3
  <2>5. AfterCurand(s) = IF s.index < 3 THEN [s EXCEPT !.index = s.index + 1]
                         ELSE [ctr |-> next, key |-> s.key, index |-> 0]
    BY DEF AfterCurand
  <2> HIDE DEF next
  <2>6. CASE s.index < 3
    <3>1. s.index + 1 \in 0 .. 3
      BY <2>1, <2>6
    <3> QED BY <2>5, <2>6, <3>1 DEF CurandState
  <2>7. CASE ~(s.index < 3)
    BY <2>1, <2>4, <2>5, <2>7 DEF CurandState
  <2> QED BY <2>6, <2>7
<1> QED BY <1>2, <1>3, <1>4

---------------------------------------------------------------------------
(* The invariant of the tool: the engine's own, and what its types say. *)

Turning == IInv /\ ToolTypes /\ EngineRun /\ CounterInv

\* The case of a turn is a case.
LEMMA CaseType ==
  /\ \A list \in Lists : list \in Seq(CaseSpec)
  /\ ToolTypes /\ Len(compared) < Len(cases) =>
       /\ Len(compared) + 1 \in DOMAIN cases
       /\ Case \in CaseSpec
<1>1. \A list \in Lists : list \in Seq(CaseSpec)
  BY ParityAssumption DEF CaseSpec
<1>2. ASSUME ToolTypes, Len(compared) < Len(cases)
      PROVE  Len(compared) + 1 \in DOMAIN cases /\ Case \in CaseSpec
  <2>1. cases \in Seq(CaseSpec)
    BY <1>1, <1>2 DEF ToolTypes
  <2>2. Len(compared) \in Nat
    BY <1>2 DEF ToolTypes
  <2> QED BY <1>2, <2>1, <2>2 DEF Case
<1> QED BY <1>1, <1>2

\* The program starts with no case compared and an engine constructed.
LEMMA TurningInit == PInit => Turning
<1> SUFFICES ASSUME PInit PROVE Turning
  OBVIOUS
<1>1. <<0, 0>> \in Key /\ 0 \in Counter
  <2>1. 0 \in 0 .. Base - 1
    BY ParityTypes
  <2>2. Key = (0 .. Base - 1) \X (0 .. Base - 1)
    BY ParityAssumption
  <2> QED BY <2>1, <2>2, PeriodType DEF Counter
<1>2. IInv
  <2>1. Init
    BY <1>1 DEF PInit, Init
  <2> QED BY <2>1, InitInv
<1>3. Words!CounterOf(0) \in Words!Counter /\ Words!Value(Words!CounterOf(0)) = 0
  BY <1>1, WordsOf
<1>4. CounterInv
  BY <1>3 DEF PInit, CounterInv, Construct
<1>5. [ctr |-> Words!CounterOf(0), key |-> <<0, 0>>, index |-> 0] \in CurandState
  BY <1>1, <1>3 DEF CurandState
<1>6. ToolTypes
  <2>1. cases \in Lists /\ cases \in Seq(CaseSpec)
    BY CaseType DEF PInit
  <2>2. ref \in Seq(Word) /\ Len(ref) = 0 /\ Len(compared) = 0
        /\ compared \in Seq([state : CurandState, words : Seq(Word)])
    BY DEF PInit
  <2>3. Len(cases) >= 0
    BY <2>1
  <2> QED BY <1>5, <2>1, <2>2, <2>3, ParityTypes DEF PInit, ToolTypes, InTurn
<1>7. EngineRun
  BY DEF PInit, EngineRun
<1> QED BY <1>2, <1>4, <1>6, <1>7 DEF Turning

\* What leaves the engine alone keeps its invariant.
LEMMA EngineAlone ==
  ASSUME Turning, UNCHANGED <<vars, counter>>, stage' # "compare", pc = "idle"
  PROVE  IInv' /\ EngineRun' /\ CounterInv'
<1>1. IInv'
  BY DEF Turning, vars, IInv, TypeOK, BufferOK, BufferPosition, BufferDrainedFirst, LoopInv,
         OneRefillInv, left
<1> QED BY <1>1 DEF Turning, vars, EngineRun, CounterInv

\* A case begins with cuRAND's state for it, and the engine as it was.
LEMMA BeginTurns ==
  ASSUME Turning, Begin
  PROVE  Turning'
<1>1. IInv' /\ EngineRun' /\ CounterInv'
  BY EngineAlone DEF Turning, EngineRun, Begin
<1>2. Case \in CaseSpec
  BY CaseType DEF Turning, Begin
<1>3. st' \in CurandState /\ reported' \in CurandState
  BY <1>2, CurandTypes DEF Begin
<1>4. ref' \in Seq(Word) /\ Len(ref') = 0
  BY DEF Begin
<1>5. ToolTypes'
  BY <1>3, <1>4, ParityTypes DEF Turning, ToolTypes, InTurn, Begin
<1> QED BY <1>1, <1>5 DEF Turning

\* A draw lengthens the reference by a word of cuRAND.
LEMMA DrawTurns ==
  ASSUME Turning, Draw
  PROVE  Turning'
<1>1. IInv' /\ EngineRun' /\ CounterInv'
  BY EngineAlone DEF Turning, EngineRun, Draw
<1>2. CurandWord(st) \in Word /\ st' \in CurandState
  BY CurandTypes DEF Turning, ToolTypes, Draw
<1>3. ref' \in Seq(Word) /\ Len(ref') = Len(ref) + 1 /\ Len(ref) \in Nat
  BY <1>2 DEF Turning, ToolTypes, Draw
<1>4. Len(ref) < WordsPerCase
  BY DEF Turning, ToolTypes, Draw
<1>5. ToolTypes'
  BY <1>2, <1>3, <1>4, ParityTypes DEF Turning, ToolTypes, InTurn, Draw
<1> QED BY <1>1, <1>5 DEF Turning

\* The engine is seeded and moved for the case.
LEMMA StartTurns ==
  ASSUME Turning, Start
  PROVE  Turning'
<1>1. IInv' /\ EngineRun' /\ CounterInv'
  BY StartKeeps DEF Turning
<1>2. ToolTypes'
  BY DEF Turning, ToolTypes, InTurn, Start
<1> QED BY <1>1, <1>2 DEF Turning

\* The engine's own loop works for the tool.
LEMMA EngineTurns ==
  ASSUME Turning, EngineStep
  PROVE  Turning'
<1>1. IInv' /\ EngineRun' /\ CounterInv'
  BY EngineStepKeeps DEF Turning
<1>2. ToolTypes'
  BY DEF Turning, ToolTypes, InTurn, EngineStep, tool
<1> QED BY <1>1, <1>2 DEF Turning

\* A comparison adds one more pair of results.
LEMMA CompareTurns ==
  ASSUME Turning, Compare
  PROVE  Turning'
<1>1. IInv' /\ EngineRun' /\ CounterInv'
  BY EngineAlone DEF Turning, EngineRun, Compare
<1>2. [state |-> reported, words |-> ref] \in [state : CurandState, words : Seq(Word)]
  BY DEF Turning, ToolTypes
<1>3. /\ compared' \in Seq([state : CurandState, words : Seq(Word)])
      /\ Len(compared') = Len(compared) + 1 /\ Len(compared) \in Nat
  BY <1>2 DEF Turning, ToolTypes, Compare
<1>4. Len(compared) < Len(cases)
  BY DEF Turning, ToolTypes, InTurn, Compare
<1>5. Len(compared') <= Len(cases)
  <2>1. Len(cases) \in Nat
    BY CaseType DEF Turning, ToolTypes
  <2> QED BY <1>3, <1>4, <2>1
<1>6. ToolTypes'
  BY <1>3, <1>5 DEF Turning, ToolTypes, InTurn, Compare
<1> QED BY <1>1, <1>6 DEF Turning

\* The exit status is all the verdict changes.
LEMMA VerdictTurns ==
  ASSUME Turning, Verdict
  PROVE  Turning'
<1>1. IInv' /\ EngineRun' /\ CounterInv'
  BY EngineAlone DEF Turning, EngineRun, Verdict
<1>2. ToolTypes'
  BY DEF Turning, ToolTypes, InTurn, Verdict
<1> QED BY <1>1, <1>2 DEF Turning

\* Every step of the tool keeps what it and its engine rely on.
LEMMA TurningStep == Turning /\ [PNext]_pvars => Turning'
<1> SUFFICES ASSUME Turning, [PNext]_pvars PROVE Turning'
  OBVIOUS
<1>1. CASE UNCHANGED pvars
  BY <1>1 DEF pvars, vars, tool, Turning, IInv, TypeOK, BufferOK, BufferPosition,
     BufferDrainedFirst, LoopInv, OneRefillInv, left, ToolTypes, InTurn, EngineRun, CounterInv
<1>2. CASE Exited
  BY <1>1, <1>2 DEF Exited
<1>3. CASE PNext
  BY <1>2, <1>3, BeginTurns, DrawTurns, StartTurns, EngineTurns, CompareTurns, VerdictTurns DEF PNext
<1> QED BY <1>1, <1>3

(***************************************************************************)
(* The tool and the engine it drives keep the inductive invariant: the     *)
(* engine's own, the counter words', and the shape of what cuRAND is asked *)
(* and answers.  (vphilox_curand_parity.cpp 83-196)                        *)
(***************************************************************************)
THEOREM ParityInvariant == PSpec => []Turning
  BY TurningInit, TurningStep, PTL DEF PSpec

(***************************************************************************)
(* The four counter words of the tool's engine always stand for the block  *)
(* it generates next, and every 64-bit move carries as far as it must, in  *)
(* every base.  (counter.hpp 16-28, philox.hpp 164-181)                    *)
(***************************************************************************)
THEOREM CounterKeepsUp == PSpec => []CounterStandsForPosition
<1>1. Turning => CounterStandsForPosition
  <2> SUFFICES ASSUME Turning PROVE CounterStandsForPosition
    OBVIOUS
  <2>1. counter \in Words!Counter /\ Words!Value(counter) = eng.next
    BY DEF Turning, CounterInv
  <2>2. \A delta \in Wide :
          Words!Value(Words!CounterAdd(counter, delta)) = (eng.next + delta) % CounterPeriod
    BY <2>1, WordsMove DEF CounterAdd
  <2> QED BY <2>1, <2>2 DEF CounterStandsForPosition
<1> QED BY <1>1, ParityInvariant, PTL

(***************************************************************************)
(* From every counter the tool's engine reaches, counter_sub is "the exact *)
(* inverse of counter_add", and the other way round.  (counter.hpp 33)     *)
(***************************************************************************)
THEOREM SubAlwaysUndoesAdd == PSpec => []SubUndoesAdd
<1>1. Turning => SubUndoesAdd
  BY WordsMove DEF Turning, CounterInv, SubUndoesAdd
<1> QED BY <1>1, ParityInvariant, PTL

---------------------------------------------------------------------------
(* The verdict of the parity tool. *)

\* Words p, p + 1, ... of a stream, counted from a position that is not reduced.
LEMMA StreamFromReduced ==
  ASSUME NEW k, NEW b \in Nat
  PROVE  /\ DOMAIN StreamFrom(k, b % Period) = 1 .. WordsPerCase
         /\ \A i \in 1 .. WordsPerCase :
              StreamFrom(k, b % Period)[i] = StreamWord(k, (b + (i - 1)) % Period)
<1>1. DOMAIN StreamFrom(k, b % Period) = 1 .. WordsPerCase
  BY DEF StreamFrom
<1>2. ASSUME NEW i \in 1 .. WordsPerCase
      PROVE  StreamFrom(k, b % Period)[i] = StreamWord(k, (b + (i - 1)) % Period)
  <2> DEFINE r == b % Period
  <2>1. StreamFrom(k, b % Period)[i] = StreamWord(k, (r + i - 1) % Period)
    BY DEF StreamFrom
  <2>2. i \in Int /\ i - 1 \in Int /\ Period \in Nat \ {0} /\ b \in Int
    BY ParityTypes, PeriodType
  <2>5. r \in Int
    BY <2>2, DivisionTheorem
  <2> HIDE DEF r
  <2>3. (r + (i - 1)) % Period = (b + (i - 1)) % Period
    BY <2>2, ModAdd DEF r
  <2>4. r + i - 1 = r + (i - 1)
    BY <2>2, <2>5
  <2> QED BY <2>1, <2>3, <2>4 DEF r
<1> QED BY <1>1, <1>2

\* A case's words are the stream from b on exactly when each of them is.
LEMMA WordsAreStream ==
  ASSUME NEW w \in Seq(Word), Len(w) = WordsPerCase, NEW k, NEW b \in Nat
  PROVE  w = StreamFrom(k, b % Period)
         <=> \A i \in 1 .. WordsPerCase : w[i] = StreamWord(k, (b + (i - 1)) % Period)
<1> DEFINE f == StreamFrom(k, b % Period)
<1>1. DOMAIN f = 1 .. WordsPerCase /\ f = [i \in DOMAIN f |-> f[i]]
  BY DEF StreamFrom
<1>2. DOMAIN w = 1 .. WordsPerCase /\ w = [i \in DOMAIN w |-> w[i]]
  OBVIOUS
<1>3. \A i \in 1 .. WordsPerCase : f[i] = StreamWord(k, (b + (i - 1)) % Period)
  BY StreamFromReduced
<1> HIDE DEF f
<1>4. w = f <=> \A i \in 1 .. WordsPerCase : w[i] = f[i]
  BY <1>1, <1>2
<1> QED BY <1>3, <1>4 DEF f

\* Four words a block, and a word within it: where a reported state is.
LEMMA StatePlace ==
  ASSUME NEW s \in CurandState
  PROVE  /\ Begins(s) \in 0 .. Period - 1
         /\ Begins(s) % Period = Begins(s)
         /\ CurandWord(s) = StreamWord(s.key, Begins(s))
<1> DEFINE v == Words!Value(s.ctr)
           w == s.index
           b == Begins(s)
<1>1. v \in 0 .. CounterPeriod - 1 /\ w \in 0 .. 3 /\ b = 4 * v + w
  BY StateTypes DEF Counter, Origin, Begins
<1>2. CurandWord(s) = Philox(v, s.key)[w]
  BY DEF CurandWord
<1>3. Period = 4 * CounterPeriod /\ CounterPeriod \in Nat \ {0} /\ Period \in Nat \ {0}
  BY PeriodType DEF Period
<1>4. StreamWord(s.key, b) = Philox(b \div 4, s.key)[b % 4]
  BY DEF StreamWord
<1> HIDE DEF v, w, b
<1>5. b \in 0 .. Period - 1 /\ b \div 4 = v /\ b % 4 = w
  BY <1>1, <1>3
<1>6. b % Period = b
  BY <1>3, <1>5, ModSmall
<1> QED BY <1>2, <1>4, <1>5, <1>6 DEF b

\* A cuRAND that carries moves on by one word at a time.
LEMMA CurandMovesOn ==
  ASSUME NEW s \in CurandState, library # "no_carry"
  PROVE  /\ AfterCurand(s).key = s.key
         /\ Begins(AfterCurand(s)) % Period = (Begins(s) + 1) % Period
<1> DEFINE v == Words!Value(s.ctr)
           c == Words!CounterOf((v + 1) % CounterPeriod)
<1>1. v \in 0 .. CounterPeriod - 1 /\ s.index \in 0 .. 3 /\ Begins(s) = 4 * v + s.index
  BY StateTypes DEF Counter, Origin, Begins
<1>2. AfterCurand(s) = IF s.index < 3 THEN [s EXCEPT !.index = s.index + 1]
                       ELSE [ctr |-> c, key |-> s.key, index |-> 0]
  BY DEF AfterCurand
<1>3. CounterPeriod \in Nat \ {0} /\ Period = 4 * CounterPeriod
  BY PeriodType DEF Period
<1>4. CASE s.index < 3
  <2>1. AfterCurand(s) = [ctr |-> s.ctr, key |-> s.key, index |-> s.index + 1]
    BY <1>2, <1>4 DEF CurandState
  <2>2. Begins(AfterCurand(s)) = 4 * v + (s.index + 1)
    BY <2>1 DEF Begins, Origin
  <2>3. Begins(AfterCurand(s)) = Begins(s) + 1
    <3> HIDE DEF v
    <3> QED BY <1>1, <2>2
  <2> QED BY <2>1, <2>3
<1>5. CASE ~(s.index < 3)
  <2>1. AfterCurand(s) = [ctr |-> c, key |-> s.key, index |-> 0]
    BY <1>2, <1>5
  <2> DEFINE n == v + 1
  <2>2. n \in Int /\ 4 * n + 0 = Begins(s) + 1
    <3> HIDE DEF v
    <3> QED BY <1>1, <1>3, <1>5
  <2>3. n % CounterPeriod \in Counter
    BY <1>3, <2>2, DivisionTheorem DEF Counter
  <2>4. Words!Value(c) = n % CounterPeriod
    BY <2>3, WordsOf
  <2>5. Begins(AfterCurand(s)) = 4 * (n % CounterPeriod) + 0
    BY <2>1, <2>4 DEF Begins, Origin
  <2> HIDE DEF n
  <2>6. (4 * (n % CounterPeriod) + 0) % (4 * CounterPeriod) = (4 * n + 0) % (4 * CounterPeriod)
    BY <1>3, <2>2, ModBlockAdd
  <2> QED BY <1>3, <2>1, <2>2, <2>5, <2>6
<1> QED BY <1>4, <1>5

\* One case more: the count of the cases that are not good.
LEMMA CountOneMore ==
  ASSUME NEW n \in Nat, NEW D, NEW E, NEW good \in BOOLEAN, D \subseteq 1 .. n,
         E = IF good THEN D ELSE D \cup {n + 1}
  PROVE  Cardinality(E) = Cardinality(D) + (IF good THEN 0 ELSE 1)
<1>1. IsFiniteSet(1 .. n)
  BY FS_Interval
<1>2. IsFiniteSet(D)
  BY <1>1, FS_Subset
<1>3. Cardinality(D) \in Nat
  BY <1>2, FS_CardinalityType
<1>4. n + 1 \notin D
  OBVIOUS
<1>5. CASE good
  BY <1>3, <1>5
<1>6. CASE ~good
  <2>1. E = D \cup {n + 1}
    BY <1>6
  <2>2. Cardinality(D \cup {n + 1}) = Cardinality(D) + 1
    BY <1>2, <1>4, FS_AddElement
  <2> QED BY <1>6, <2>1, <2>2
<1> QED BY <1>5, <1>6

\* The counter and the position (seed, subsequence, offset) are documented to name.
PromisePlace(s) == 4 * Base * Base * s.subseq + s.offset

\* The counter that the tool predicts is that of the promised place.
LEMMA Prediction ==
  ASSUME NEW s \in CaseSpec
  PROVE  /\ PredictedCounter(s.subseq, s.offset) \in Words!Counter
         /\ Words!Value(PredictedCounter(s.subseq, s.offset))
              = (s.subseq * (Base * Base)) + (s.offset \div 4)
         /\ (s.subseq * (Base * Base)) + (s.offset \div 4) \in Counter
         /\ PromisePlace(s) \in 0 .. Period - 1
         /\ PromisePlace(s)
              = 4 * ((s.subseq * (Base * Base)) + (s.offset \div 4)) + (s.offset % 4)
<1> DEFINE b  == Base * Base
           x  == s.subseq
           o  == s.offset
           lo == o \div 4
           a0 == lo % Base    a1 == lo \div Base
           a2 == x % Base     a3 == x \div Base
           c  == PredictedCounter(s.subseq, s.offset)
<1>1. x \in Wide /\ o \in Wide
  BY DEF CaseSpec
<1>2. x \in 0 .. b - 1 /\ o \in 0 .. b - 1 /\ Base \in Nat \ {0, 1} /\ b \in Nat \ {0}
  <2>1. Base \in Nat \ {0, 1} /\ b \in Nat
    BY ParityTypes
  <2>2. x \in 0 .. b - 1 /\ o \in 0 .. b - 1
    BY <1>1 DEF Wide
  <2> HIDE DEF b
  <2> QED BY <2>1, <2>2
<1>3. lo \in 0 .. b - 1 /\ o % 4 \in 0 .. 3 /\ o = 4 * lo + (o % 4)
  <2> HIDE DEF x, b
  <2>1. \A y \in Nat : y \div 4 \in Nat /\ y \div 4 <= y /\ y % 4 \in 0 .. 3 /\ y = 4 * (y \div 4) + (y % 4)
    OBVIOUS
  <2>2. o \in Nat
    BY <1>2
  <2> QED BY <1>2, <2>1, <2>2
<1>4. lo \in Wide
  BY <1>3 DEF Wide
<1>5. /\ a0 \in 0 .. Base - 1 /\ a1 \in 0 .. Base - 1 /\ lo = Base * a1 + a0
      /\ a2 \in 0 .. Base - 1 /\ a3 \in 0 .. Base - 1 /\ x = Base * a3 + a2
  BY <1>1, <1>4, TwoWords
<1>6. c = [i \in 0 .. 3 |-> <<a0, a1, a2, a3>>[i + 1]]
  BY DEF PredictedCounter
<1> HIDE DEF a0, a1, a2, a3, lo, x, o, b
<1>7. c[0] = a0 /\ c[1] = a1 /\ c[2] = a2 /\ c[3] = a3
  BY <1>6
<1>8. c \in Words!Counter
  <2>1. \A i \in 0 .. 3 : <<a0, a1, a2, a3>>[i + 1] \in 0 .. Base - 1
    BY <1>5
  <2> QED BY <1>6, <2>1 DEF Words!Counter, Words!U32
<1>9. Words!Value(c) = (x * b) + lo
  <2>1. Words!Value(c) = a0 + Base * (a1 + Base * (a2 + Base * a3))
    BY <1>7 DEF Words!Value
  <2>2. a2 + Base * a3 = x
    BY <1>2, <1>5
  <2>3. a0 + Base * (a1 + Base * x) = a0 + Base * a1 + x * (Base * Base)
    BY <1>2, <1>5
  <2>4. x * (Base * Base) = x * b /\ x * b \in Int
    BY <1>2 DEF b
  <2>5. a0 + Base * a1 = lo
    BY <1>2, <1>5
  <2> QED BY <1>3, <2>1, <2>2, <2>3, <2>4, <2>5
<1>10. CounterPeriod = b * b
  <2>1. CounterPeriod = Base * Base * Base * Base
    BY ParityAssumption
  <2>2. Base * Base * Base * Base = (Base * Base) * (Base * Base)
    BY <1>2
  <2> QED BY <2>1, <2>2 DEF b
<1>11. (x * b) + lo \in 0 .. (b * b) - 1
  <2>1. x * b <= (b - 1) * b /\ x * b \in Nat
    BY <1>2
  <2>2. (b - 1) * b = (b * b) - b
    BY <1>2
  <2> QED BY <1>2, <1>3, <2>1, <2>2
<1>12. PromisePlace(s) = 4 * ((x * b) + lo) + (o % 4)
  <2>1. PromisePlace(s) = 4 * Base * Base * x + o
    BY DEF PromisePlace, x, o
  <2>2. 4 * Base * Base * x = 4 * (x * (Base * Base))
    BY <1>2
  <2>3. 4 * (x * (Base * Base)) = 4 * (x * b) /\ x * b \in Int
    BY <1>2 DEF b
  <2> QED BY <1>2, <1>3, <2>1, <2>2, <2>3
<1>13. PromisePlace(s) \in 0 .. Period - 1
  <2> DEFINE n == (x * b) + lo
             m == b * b
  <2>1. n \in 0 .. m - 1 /\ m \in Nat
    BY <1>2, <1>11
  <2>2. Period = 4 * m
    BY <1>10 DEF Period
  <2> HIDE DEF n, m
  <2>3. 4 * n + (o % 4) \in 0 .. (4 * m) - 1
    BY <1>3, <2>1
  <2> QED BY <1>12, <2>2, <2>3 DEF n
<1> QED BY <1>8, <1>9, <1>10, <1>11, <1>12, <1>13 DEF Counter, x, o, b, lo

\* The words drawn are the stream from the reported state, of a cuRAND that carries.
Drawn ==
  /\ InTurn => reported = CurandInit(Case)
  /\ InTurn /\ library # "no_carry" =>
       /\ st.key = reported.key
       /\ Begins(st) % Period = (Begins(reported) + Len(ref)) % Period
       /\ \A i \in 1 .. Len(ref) :
            ref[i] = StreamWord(reported.key, (Begins(reported) + (i - 1)) % Period)

\* Case t was reported where it is documented to be.
Mapped(t) ==
  /\ PredictedCounter(cases[t].subseq, cases[t].offset) = compared[t].state.ctr
  /\ PredictedKey(cases[t].seed) = compared[t].state.key
  /\ cases[t].offset % 4 = compared[t].state.index

CoreFailures    == {t \in DOMAIN compared : Departs(t)}
MappingFailures == {t \in DOMAIN compared : ~Mapped(t)}

\* What is remembered of the cases compared, and what the two counters count.
Judged ==
  \A t \in DOMAIN compared :
    /\ compared[t].state = CurandInit(cases[t])
    /\ library # "no_carry" => ~Departs(t)

Counted ==
  /\ core = Cardinality(CoreFailures)
  /\ mapping = Cardinality(MappingFailures)
  /\ stage = "exited" => status = (IF core = 0 /\ mapping = 0 THEN 0 ELSE 1)

Judging == Turning /\ Drawn /\ Judged /\ Counted

\* A turn leaves the cases compared before it as they are.
LEMMA JudgedAlone ==
  ASSUME Judged, Counted, UNCHANGED <<library, cases, compared, core, mapping>>,
         stage' # "exited" \/ (stage' = stage /\ status' = status)
  PROVE  Judged' /\ Counted'
<1>1. Judged'
  BY DEF Judged, CurandInit, Departs
<1>2. CoreFailures' = CoreFailures /\ MappingFailures' = MappingFailures
  BY DEF CoreFailures, MappingFailures, Departs, Mapped
<1> QED BY <1>1, <1>2 DEF Counted

\* No case is judged at first.
LEMMA JudgingInit == PInit => Judging
<1> SUFFICES ASSUME PInit PROVE Judging
  OBVIOUS
<1>1. compared = <<>> /\ core = 0 /\ mapping = 0 /\ stage = "seed"
  BY DEF PInit
<1>2. CoreFailures = {} /\ MappingFailures = {}
  BY <1>1 DEF CoreFailures, MappingFailures
<1>3. Counted
  BY <1>1, <1>2, FS_EmptySet DEF Counted
<1>4. Drawn /\ Judged
  BY <1>1 DEF Drawn, Judged, InTurn
<1> QED BY <1>3, <1>4, TurningInit DEF Judging

\* A new case leaves the judgement of the others.
LEMMA BeginJudges ==
  ASSUME Judging, Begin
  PROVE  Judging'
<1>1. Turning'
  BY BeginTurns DEF Judging
<1>2. Judged' /\ Counted'
  BY JudgedAlone DEF Judging, Begin
<1>3. Drawn'
  <2>1. /\ reported' = CurandInit(Case) /\ st' = reported' /\ Len(ref') = 0
        /\ library' = library /\ cases' = cases /\ compared' = compared
    BY DEF Begin
  <2>2. CurandInit(Case)' = CurandInit(Case)
    BY <2>1 DEF CurandInit, Case
  <2>3. Begins(st)' = Begins(reported)'
    BY <2>1 DEF Begins, Origin
  <2>4. Begins(reported)' \in Nat
    <3>1. reported' \in CurandState
      BY <1>1 DEF Turning, ToolTypes
    <3>2. Begins(reported') \in Nat
      BY <3>1, StateTypes
    <3> QED BY <3>2 DEF Begins, Origin
  <2>5. \A i \in 1 .. Len(ref') : FALSE
    BY <2>1
  <2> QED BY <2>1, <2>2, <2>3, <2>4, <2>5 DEF Drawn
<1> QED BY <1>1, <1>2, <1>3 DEF Judging

\* The words drawn are those from where the library set out.
LEMMA DrawJudges ==
  ASSUME Judging, Draw
  PROVE  Judging'
<1>1. Turning'
  BY DrawTurns DEF Judging
<1>2. Judged' /\ Counted'
  <2>1. stage' # "exited"
    BY DEF Draw
  <2> QED BY <2>1, JudgedAlone DEF Judging, Draw
<1>3. /\ ref' = Append(ref, CurandWord(st)) /\ st' = AfterCurand(st) /\ reported' = reported
      /\ library' = library /\ cases' = cases /\ compared' = compared /\ stage = "draw"
  BY DEF Draw
<1>4. st \in CurandState /\ reported \in CurandState /\ ref \in Seq(Word) /\ CurandWord(st) \in Word
  BY CurandTypes DEF Judging, Turning, ToolTypes
<1>5. /\ Len(ref) \in Nat /\ Len(ref') = Len(ref) + 1
      /\ ref'[Len(ref) + 1] = CurandWord(st)
      /\ \A i \in 1 .. Len(ref) : ref'[i] = ref[i]
  BY <1>3, <1>4
<1>6. CurandInit(Case)' = CurandInit(Case) /\ Begins(reported)' = Begins(reported)
  BY <1>3 DEF CurandInit, Case, Begins, Origin
<1>7. reported' = CurandInit(Case)'
  BY <1>3, <1>6 DEF Judging, Drawn, InTurn
<1>8. ASSUME library # "no_carry"
      PROVE  /\ st'.key = reported'.key
             /\ Begins(st)' % Period = (Begins(reported)' + Len(ref')) % Period
             /\ \A i \in 1 .. Len(ref') :
                  ref'[i] = StreamWord(reported'.key, (Begins(reported)' + (i - 1)) % Period)
  <2> DEFINE b == Begins(st)
             o == Begins(reported)
             n == Len(ref)
  <2>1. /\ st.key = reported.key /\ b % Period = (o + n) % Period
        /\ \A i \in 1 .. n : ref[i] = StreamWord(reported.key, (o + (i - 1)) % Period)
    BY <1>3, <1>8 DEF Judging, Drawn, InTurn
  <2>2. b \in Nat /\ o \in Nat /\ n \in Nat /\ Period \in Nat \ {0} /\ o + n \in Int
    BY <1>4, <1>5, StateTypes, PeriodType
  <2>3. AfterCurand(st).key = st.key /\ Begins(AfterCurand(st)) % Period = (b + 1) % Period
    BY <1>4, <1>8, CurandMovesOn
  <2>4. CurandWord(st) = StreamWord(st.key, b % Period)
    BY <1>4, StatePlace
  <2>5. Begins(st)' = Begins(AfterCurand(st))
    BY <1>3 DEF Begins, Origin
  <2> HIDE DEF b, o, n
  <2>6. (b + 1) % Period = (o + (n + 1)) % Period
    <3>1. ASSUME NEW y \in Int PROVE ((y % Period) + 1) % Period = (y + 1) % Period
      <4>1. 1 \in Int /\ Period \in Nat \ {0}
        BY PeriodType
      <4> QED BY <4>1, ModAdd
    <3>2. ((b % Period) + 1) % Period = (b + 1) % Period
      BY <2>2, <3>1
    <3>3. (((o + n) % Period) + 1) % Period = ((o + n) + 1) % Period
      <4>1. o + n \in Int
        BY <2>2
      <4> QED BY <4>1, <3>1
    <3>4. (o + n) + 1 = o + (n + 1)
      BY <2>2
    <3> QED BY <2>1, <3>2, <3>3, <3>4
  <2>7. ASSUME NEW i \in 1 .. n + 1
        PROVE  ref'[i] = StreamWord(reported.key, (o + (i - 1)) % Period)
    <3>1. CASE i = n + 1
      <4>1. i - 1 = n
        BY <2>2, <3>1
      <4>2. ref'[i] = CurandWord(st)
        BY <1>5, <3>1 DEF n
      <4> QED BY <2>1, <2>4, <4>1, <4>2
    <3>2. CASE i # n + 1
      <4>1. i \in 1 .. n
        BY <2>2, <3>2
      <4>2. ref'[i] = ref[i]
        BY <1>5, <4>1 DEF n
      <4> QED BY <2>1, <4>1, <4>2
    <3> QED BY <3>1, <3>2
  <2>8. Len(ref') = n + 1 /\ Begins(reported)' = o
    BY <1>5, <1>6 DEF n, o
  <2> QED BY <1>3, <2>1, <2>3, <2>5, <2>6, <2>7, <2>8
<1>9. Drawn'
  BY <1>3, <1>7, <1>8 DEF Drawn
<1> QED BY <1>1, <1>2, <1>9 DEF Judging

\* Starting the engine and running it draw nothing.
LEMMA EngineJudges ==
  ASSUME Judging, Start \/ EngineStep
  PROVE  Judging'
<1>1. Turning'
  BY StartTurns, EngineTurns DEF Judging
<1>2. /\ UNCHANGED <<library, cases, compared, core, mapping, status, st, reported, ref>>
      /\ stage' # "exited" \/ stage' = stage
      /\ InTurn' => InTurn
  BY DEF Start, EngineStep, tool, InTurn
<1>3. Judged' /\ Counted'
  BY <1>2, JudgedAlone DEF Judging
<1>4. Drawn'
  <2>1. CurandInit(Case)' = CurandInit(Case)
    BY <1>2 DEF CurandInit, Case
  <2>2. Begins(st)' = Begins(st) /\ Begins(reported)' = Begins(reported)
    BY <1>2 DEF Begins, Origin
  <2> QED BY <1>2, <2>1, <2>2 DEF Judging, Drawn
<1> QED BY <1>1, <1>3, <1>4 DEF Judging

\* The engine's words agree with the words drawn exactly when these are the
\* stream of the reported state.
LEMMA CoreCheck ==
  ASSUME Turning, Compare
  PROVE  (\A i \in 1 .. WordsPerCase : mem[i - 1 + reported.index] = ref[i])
         <=> ref = StreamFrom(reported.key, Begins(reported) % Period)
<1> DEFINE o == Origin(reported)
           x == reported.index
<1>1. /\ o \in Nat /\ x \in 0 .. 3 /\ Begins(reported) = o + x /\ o + x \in Nat
      /\ WordsPerCase \in Nat
  BY StateTypes, ParityTypes DEF Turning, ToolTypes, Begins
<1>2. ref \in Seq(Word) /\ Len(ref) = WordsPerCase
  BY DEF Turning, ToolTypes, Compare
<1>3. \A i \in 0 .. at - 1 : mem[i] = StreamWord(reported.key, (o + i) % Period)
  BY DEF Turning, EngineRun, Compare
<1>4. at = WordsPerCase + x
  BY DEF Turning, EngineRun, Compare, IInv, LoopInv
<1> HIDE DEF o, x
<1>5. ASSUME NEW i \in 1 .. WordsPerCase
      PROVE  mem[i - 1 + x] = StreamWord(reported.key, (o + x + (i - 1)) % Period)
  <2>1. i - 1 + x \in 0 .. at - 1 /\ o + (i - 1 + x) = o + x + (i - 1)
    BY <1>1, <1>4
  <2> QED BY <1>3, <2>1
<1>6. ref = StreamFrom(reported.key, (o + x) % Period)
      <=> \A i \in 1 .. WordsPerCase : ref[i] = StreamWord(reported.key, (o + x + (i - 1)) % Period)
  BY <1>1, <1>2, WordsAreStream
<1>7. (\A i \in 1 .. WordsPerCase : mem[i - 1 + x] = ref[i])
      <=> \A i \in 1 .. WordsPerCase : ref[i] = StreamWord(reported.key, (o + x + (i - 1)) % Period)
  BY <1>5
<1> QED BY <1>1, <1>6, <1>7 DEF x

\* A case compared: what it adds to the record and to the two counters.
LEMMA CompareJudges ==
  ASSUME Judging, Compare
  PROVE  Judging'
<1> DEFINE core1 == \A i \in 1 .. WordsPerCase : mem[i - 1 + reported.index] = ref[i]
           mapped1 == /\ PredictedCounter(Case.subseq, Case.offset) = reported.ctr
                      /\ PredictedKey(Case.seed) = reported.key
                      /\ Case.offset % 4 = reported.index
<1>1. Turning'
  BY CompareTurns DEF Judging
<1>2. /\ compared' = Append(compared, [state |-> reported, words |-> ref])
      /\ core' = core + (IF core1 THEN 0 ELSE 1)
      /\ mapping' = mapping + (IF mapped1 THEN 0 ELSE 1)
      /\ library' = library /\ cases' = cases /\ stage' = "seed" /\ stage = "compare"
  BY DEF Compare
<1>3. compared \in Seq([state : CurandState, words : Seq(Word)]) /\ Len(compared) \in Nat
  BY DEF Judging, Turning, ToolTypes
<1>n. PICK n \in Nat : n = Len(compared)
  BY <1>3
<1>4. /\ DOMAIN compared = 1 .. n /\ DOMAIN compared' = 1 .. n + 1
      /\ \A t \in 1 .. n : compared'[t] = compared[t]
      /\ compared'[n + 1].state = reported /\ compared'[n + 1].words = ref
  BY <1>2, <1>3, <1>n
<1>5. reported = CurandInit(cases[n + 1])
  BY <1>2, <1>n DEF Judging, Drawn, InTurn, Case
<1>6. \A s : CurandInit(s)' = CurandInit(s)
  BY <1>2 DEF CurandInit
<1>7. core1 <=> ref = StreamFrom(reported.key, Begins(reported) % Period)
  BY CoreCheck DEF Judging
<1>8. Departs(n + 1)' <=> ~core1
  <2>1. Departs(n + 1)' <=> ref # StreamFrom(reported.key, Begins(reported) % Period)
    BY <1>4 DEF Departs, Begins, Origin
  <2> QED BY <1>7, <2>1
<1>9. Mapped(n + 1)' <=> mapped1
  BY <1>2, <1>4, <1>n DEF Mapped, Case
<1>10. \A t \in 1 .. n : (Departs(t)' <=> Departs(t)) /\ (Mapped(t)' <=> Mapped(t))
  BY <1>2, <1>4 DEF Departs, Mapped
<1>11. ASSUME library # "no_carry" PROVE core1
  <2>1. /\ ref \in Seq(Word) /\ Len(ref) = WordsPerCase /\ reported \in CurandState
    BY <1>2 DEF Judging, Turning, ToolTypes
  <2>2. \A i \in 1 .. WordsPerCase :
          ref[i] = StreamWord(reported.key, (Begins(reported) + (i - 1)) % Period)
    BY <1>2, <1>11, <2>1 DEF Judging, Drawn, InTurn
  <2>3. Begins(reported) \in Nat
    BY <2>1, StateTypes
  <2>4. ref = StreamFrom(reported.key, Begins(reported) % Period)
    BY <2>1, <2>2, <2>3, WordsAreStream
  <2> HIDE DEF core1
  <2> QED BY <1>7, <2>4
<1> HIDE DEF core1, mapped1
<1>12. Judged'
  <2>1. ASSUME NEW t \in 1 .. n + 1
        PROVE  /\ compared'[t].state = CurandInit(cases[t])
               /\ library # "no_carry" => ~(Departs(t)')
    <3>1. CASE t = n + 1
      BY <1>4, <1>5, <1>8, <1>11, <3>1
    <3>2. CASE t # n + 1
      <4>1. t \in 1 .. n
        BY <1>3, <3>2
      <4> QED BY <1>4, <1>10, <4>1 DEF Judging, Judged
    <3> QED BY <3>1, <3>2
  <2> QED BY <1>2, <1>4, <1>6, <2>1 DEF Judged
<1>13. Cardinality(CoreFailures') = Cardinality(CoreFailures) + (IF core1 THEN 0 ELSE 1)
  <2>1. CoreFailures' = {t \in 1 .. n + 1 : Departs(t)'}
    BY <1>4 DEF CoreFailures
  <2>2. CoreFailures = {t \in 1 .. n : Departs(t)}
    BY <1>4 DEF CoreFailures
  <2>3. CoreFailures' = IF core1 THEN CoreFailures ELSE CoreFailures \cup {n + 1}
    <3>1. 1 .. n + 1 = (1 .. n) \cup {n + 1} /\ n + 1 \notin 1 .. n
      BY <1>3
    <3> QED BY <1>8, <1>10, <2>1, <2>2, <3>1
  <2>4. CoreFailures \subseteq 1 .. n /\ core1 \in BOOLEAN
    BY <2>2 DEF core1
  <2> QED BY <1>3, <2>3, <2>4, CountOneMore
<1>14. Cardinality(MappingFailures') = Cardinality(MappingFailures) + (IF mapped1 THEN 0 ELSE 1)
  <2>1. MappingFailures' = {t \in 1 .. n + 1 : ~(Mapped(t)')}
    BY <1>4 DEF MappingFailures
  <2>2. MappingFailures = {t \in 1 .. n : ~Mapped(t)}
    BY <1>4 DEF MappingFailures
  <2>3. MappingFailures' = IF mapped1 THEN MappingFailures ELSE MappingFailures \cup {n + 1}
    <3>1. 1 .. n + 1 = (1 .. n) \cup {n + 1} /\ n + 1 \notin 1 .. n
      BY <1>3
    <3> QED BY <1>9, <1>10, <2>1, <2>2, <3>1
  <2>4. MappingFailures \subseteq 1 .. n /\ mapped1 \in BOOLEAN
    BY <2>2 DEF mapped1
  <2> QED BY <1>3, <2>3, <2>4, CountOneMore
<1>15. Counted'
  BY <1>2, <1>13, <1>14 DEF Judging, Counted
<1>16. Drawn'
  BY <1>2 DEF Drawn, InTurn
<1> QED BY <1>1, <1>12, <1>15, <1>16 DEF Judging

\* The exit status tells whether a failure was counted.
LEMMA VerdictJudges ==
  ASSUME Judging, Verdict
  PROVE  Judging'
<1>1. Turning'
  BY VerdictTurns DEF Judging
<1>2. /\ UNCHANGED <<library, cases, compared, core, mapping>> /\ stage' = "exited"
      /\ status' = IF core = 0 /\ mapping = 0 THEN 0 ELSE 1
  BY DEF Verdict
<1>3. Judged'
  BY <1>2 DEF Judging, Judged, CurandInit, Departs
<1>4. CoreFailures' = CoreFailures /\ MappingFailures' = MappingFailures
  BY <1>2 DEF CoreFailures, MappingFailures, Departs, Mapped
<1>5. Counted'
  BY <1>2, <1>4 DEF Judging, Counted
<1>6. Drawn'
  BY <1>2 DEF Drawn, InTurn
<1> QED BY <1>1, <1>3, <1>5, <1>6 DEF Judging

\* Every step of the tool keeps its counts true.
LEMMA JudgingStep == Judging /\ [PNext]_pvars => Judging'
<1> SUFFICES ASSUME Judging, [PNext]_pvars PROVE Judging'
  OBVIOUS
<1>1. CASE UNCHANGED pvars
  <2>1. Turning'
    BY <1>1, TurningStep DEF Judging
  <2>2. UNCHANGED <<library, cases, compared, core, mapping, status, st, reported, ref, stage>>
    BY <1>1 DEF pvars, tool
  <2>3. Judged' /\ Counted'
    BY <2>2, JudgedAlone DEF Judging
  <2>4. CurandInit(Case)' = CurandInit(Case) /\ Begins(st)' = Begins(st)
        /\ Begins(reported)' = Begins(reported)
    BY <2>2 DEF CurandInit, Case, Begins, Origin
  <2>5. Drawn'
    BY <2>2, <2>4 DEF Judging, Drawn, InTurn
  <2> QED BY <2>1, <2>3, <2>5 DEF Judging
<1>2. CASE PNext
  BY <1>1, <1>2, BeginJudges, DrawJudges, EngineJudges, CompareJudges, VerdictJudges
  DEF PNext, Exited
<1> QED BY <1>1, <1>2

\* The counts of failures are true from the first case to the last.
LEMMA JudgingInvariant == PSpec => []Judging
  BY JudgingInit, JudgingStep, PTL DEF PSpec

\* An element of a sequence is one of the set the sequence is over.
LEMMA ElementType ==
  ASSUME NEW S, NEW s \in Seq(S), NEW t \in DOMAIN s
  PROVE  s[t] \in S
  OBVIOUS

\* What is remembered of a case compared.
LEMMA CaseCompared ==
  ASSUME Turning, NEW t \in DOMAIN compared
  PROVE  cases[t] \in CaseSpec /\ compared[t].state \in CurandState
<1>1. compared \in Seq([state : CurandState, words : Seq(Word)])
  BY DEF Turning, ToolTypes
<1>2. cases \in Seq(CaseSpec) /\ Len(compared) <= Len(cases)
  BY CaseType DEF Turning, ToolTypes
<1>3. compared[t] \in [state : CurandState, words : Seq(Word)]
  BY <1>1, ElementType
<1>4. t \in DOMAIN cases
  BY <1>1, <1>2
<1>5. cases[t] \in CaseSpec
  BY <1>2, <1>4, ElementType
<1> QED BY <1>3, <1>5

\* A case reported where it is documented to be: its state names the promised words.
LEMMA MappedPromise ==
  ASSUME Judging, NEW t \in DOMAIN compared, Mapped(t), ~Departs(t)
  PROVE  compared[t].words = Promised(cases[t])
<1> DEFINE s == compared[t].state
           c == cases[t]
<1>1. c \in CaseSpec /\ s \in CurandState
  BY CaseCompared DEF Judging
<1>2. /\ PredictedCounter(c.subseq, c.offset) = s.ctr
      /\ PredictedKey(c.seed) = s.key
      /\ c.offset % 4 = s.index
  BY DEF Mapped
<1>3. compared[t].words = StreamFrom(s.key, Begins(s) % Period)
  BY DEF Departs, Begins, Origin
<1> HIDE DEF s, c
<1>4. Begins(s) = PromisePlace(c)
  BY <1>1, <1>2, Prediction DEF Begins, Origin
<1> QED BY <1>2, <1>3, <1>4 DEF Promised, PromisePlace, c

(***************************************************************************)
(* IDENTICAL is never said in error: if the tool exits with 0, the words   *)
(* it drew in every case are those (seed, subsequence, offset) is          *)
(* documented to name.  And core_failures is the number of cases whose     *)
(* words leave the stream of the state cuRAND reported.  Of Philox nothing *)
(* is assumed.  (vphilox_curand_parity.cpp 21-30, 98-111, 138-209)         *)
(***************************************************************************)
THEOREM IdenticalIsTrue ==
  PSpec => [](stage = "exited" =>
                /\ status = 0 => \A t \in DOMAIN cases : compared[t].words = Promised(cases[t])
                /\ core = Cardinality({t \in DOMAIN cases : Departs(t)}))
<1> DEFINE P == stage = "exited" =>
                  /\ status = 0 => \A t \in DOMAIN cases : compared[t].words = Promised(cases[t])
                  /\ core = Cardinality({t \in DOMAIN cases : Departs(t)})
<1>1. Judging => P
  <2> SUFFICES ASSUME Judging, stage = "exited"
      PROVE  /\ status = 0 => \A t \in DOMAIN cases : compared[t].words = Promised(cases[t])
             /\ core = Cardinality({t \in DOMAIN cases : Departs(t)})
    OBVIOUS
  <2>1. DOMAIN cases = DOMAIN compared
    BY CaseType DEF Judging, Turning, ToolTypes
  <2>2. ASSUME status = 0, NEW t \in DOMAIN compared
        PROVE  compared[t].words = Promised(cases[t])
    <3>1. Cardinality(CoreFailures) = 0 /\ Cardinality(MappingFailures) = 0
      BY <2>2 DEF Judging, Counted
    <3>2. IsFiniteSet(DOMAIN compared)
      <4>1. DOMAIN compared = 1 .. Len(compared) /\ Len(compared) \in Int
        BY DEF Judging, Turning, ToolTypes
      <4> QED BY <4>1, FS_Interval
    <3>3. CoreFailures = {} /\ MappingFailures = {}
      BY <3>1, <3>2, FS_Subset, FS_EmptySet DEF CoreFailures, MappingFailures
    <3> QED BY <3>3, MappedPromise DEF CoreFailures, MappingFailures
  <2> QED BY <2>1, <2>2 DEF Judging, Counted, CoreFailures
<1> QED BY <1>1, JudgingInvariant, PTL

\* What the tool takes on trust: WordsPerCase words tell where in a stream they begin.
WordsNamePosition ==
  \A k \in Key, p \in 0 .. Period - 1, q \in 0 .. Period - 1 :
    StreamFrom(k, p) = StreamFrom(k, q) => p = q

\* A case whose words are the promised ones was reported where it is documented to
\* be, and did not leave the stream of its state.
LEMMA PromiseMapped ==
  ASSUME Judging, WordsNamePosition, NEW t \in DOMAIN compared,
         compared[t].words = Promised(cases[t])
  PROVE  Mapped(t) /\ ~Departs(t)
<1> DEFINE s == compared[t].state
           c == cases[t]
           predicted == PredictedCounter(c.subseq, c.offset)
           block == (c.subseq * (Base * Base)) + (c.offset \div 4)
<1>1. c \in CaseSpec /\ s \in CurandState
  BY CaseCompared DEF Judging
<1>2. s = CurandInit(c) /\ (library # "no_carry" => ~Departs(t))
  BY DEF Judging, Judged
<1>3. s.key = PredictedKey(c.seed) /\ s.key \in Key
  BY <1>1, <1>2, StateTypes DEF CurandInit, PredictedKey
<1>4. Departs(t) <=> compared[t].words # StreamFrom(s.key, Begins(s) % Period)
  BY DEF Departs, Begins, Origin
<1>5. compared[t].words = StreamFrom(s.key, PromisePlace(c) % Period)
  BY <1>3 DEF Promised, PromisePlace
<1>6. Mapped(t) <=> predicted = s.ctr /\ PredictedKey(c.seed) = s.key /\ c.offset % 4 = s.index
  BY DEF Mapped
<1>7. /\ predicted \in Words!Counter /\ Words!Value(predicted) = block /\ block \in Counter
      /\ PromisePlace(c) \in 0 .. Period - 1
      /\ PromisePlace(c) = 4 * block + (c.offset % 4)
  BY <1>1, Prediction
<1>8. c.offset % 4 \in 0 .. 3
  <2> HIDE DEF c
  <2>1. c.offset \in Int
    <3>1. c.offset \in Wide
      BY <1>1 DEF CaseSpec
    <3>2. c.offset \in Nat
      BY <3>1, ParityTypes
    <3> QED BY <3>2
  <2>2. \A o \in Int : o % 4 \in 0 .. 3
    OBVIOUS
  <2> QED BY <2>1, <2>2
<1>9. /\ s.ctr \in Words!Counter /\ s.index \in 0 .. 3
      /\ Begins(s) = 4 * Words!Value(s.ctr) + s.index /\ Words!Value(s.ctr) \in Counter
  BY <1>1, StateTypes DEF Begins, Origin
<1>10. CASE library # "no_carry"
  <2>1. StreamFrom(s.key, Begins(s) % Period) = StreamFrom(s.key, PromisePlace(c) % Period)
    BY <1>2, <1>4, <1>5, <1>10
  <2>2. PromisePlace(c) % Period = PromisePlace(c)
    BY <1>7, PeriodType, ModSmall
  <2>3. Begins(s) \in 0 .. Period - 1 /\ Begins(s) % Period = Begins(s)
    BY <1>1, StatePlace
  <2> HIDE DEF s, c, block
  <2>4. Begins(s) = PromisePlace(c)
    BY <1>3, <1>7, <2>1, <2>2, <2>3 DEF WordsNamePosition
  <2> DEFINE v == Words!Value(s.ctr)
             i == s.index
             j == c.offset % 4
  <2>5. v \in Nat /\ block \in Nat /\ i \in 0 .. 3 /\ j \in 0 .. 3 /\ 4 * v + i = 4 * block + j
    BY <1>7, <1>8, <1>9, <2>4, PeriodType DEF Counter
  <2> HIDE DEF v, i, j
  <2>6. v = block /\ i = j
    BY <2>5
  <2>7. s.ctr = predicted
    BY <1>7, <1>9, <2>6, WordsSame DEF v
  <2> QED BY <1>2, <1>3, <1>6, <1>10, <2>6, <2>7 DEF i, j
<1>11. CASE library = "no_carry"
  <2>1. block % CounterPeriod = block
    BY <1>7, PeriodType, ModSmall DEF Counter
  <2>2. s.ctr = Words!CounterOf(block) /\ s.index = c.offset % 4
    BY <1>2, <1>11, <2>1 DEF CurandInit
  <2> HIDE DEF s, c, block
  <2>3. Words!Value(s.ctr) = block
    BY <1>7, <2>2, WordsOf
  <2>4. s.ctr = predicted
    BY <1>7, <1>9, <2>3, WordsSame
  <2>5. Begins(s) = PromisePlace(c)
    BY <1>7, <1>9, <2>2, <2>3
  <2> QED BY <1>3, <1>4, <1>5, <1>6, <2>2, <2>4, <2>5
<1> QED BY <1>10, <1>11

(***************************************************************************)
(* The verdict is true both ways: IDENTICAL exactly when subsequence and   *)
(* offset name the same words in both libraries.  Half of it cannot be had *)
(* of every Philox function: a cuRAND seeded elsewhere is told apart only  *)
(* if its words are not, by coincidence, the promised ones, which is what  *)
(* WordsNamePosition says of Philox and the tool takes on trust.           *)
(* (vphilox_curand_parity.cpp 21-30, 98-111, 138-209)                      *)
(***************************************************************************)
THEOREM VerdictCorrect == WordsNamePosition => (PSpec => []VerdictIsTrue)
<1>1. ASSUME WordsNamePosition
      PROVE  Judging => VerdictIsTrue
  <2> SUFFICES ASSUME Judging, stage = "exited"
      PROVE  /\ status = 0 <=> \A t \in DOMAIN cases : compared[t].words = Promised(cases[t])
             /\ core = Cardinality({t \in DOMAIN cases : Departs(t)})
    BY DEF VerdictIsTrue
  <2>1. DOMAIN cases = DOMAIN compared
    BY CaseType DEF Judging, Turning, ToolTypes
  <2>2. IsFiniteSet(DOMAIN compared)
    <3>1. DOMAIN compared = 1 .. Len(compared) /\ Len(compared) \in Int
      BY DEF Judging, Turning, ToolTypes
    <3> QED BY <3>1, FS_Interval
  <2>3. /\ core = 0 <=> CoreFailures = {}
        /\ mapping = 0 <=> MappingFailures = {}
    BY <2>2, FS_Subset, FS_EmptySet DEF Judging, Counted, CoreFailures, MappingFailures
  <2>4. status = 0 <=> core = 0 /\ mapping = 0
    BY DEF Judging, Counted
  <2>5. ASSUME NEW t \in DOMAIN compared
        PROVE  compared[t].words = Promised(cases[t]) <=> t \notin CoreFailures /\ t \notin MappingFailures
    BY <1>1, <2>5, MappedPromise, PromiseMapped DEF CoreFailures, MappingFailures
  <2>6. CoreFailures \subseteq DOMAIN compared /\ MappingFailures \subseteq DOMAIN compared
    BY DEF CoreFailures, MappingFailures
  <2> QED BY <2>1, <2>3, <2>4, <2>5, <2>6 DEF Judging, Counted, CoreFailures
<1>2. SUFFICES ASSUME WordsNamePosition PROVE PSpec => []VerdictIsTrue
  OBVIOUS
<1> QED BY <1>1, <1>2, JudgingInvariant, PTL
====
