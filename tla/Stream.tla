------------------------------ MODULE Stream ------------------------------
(***************************************************************************)
(* What an engine promises its caller: one infinite (cyclic) sequence of   *)
(* words per key, a position in it, and requests that are served with the  *)
(* words from that position on, in order, each exactly once, inside the    *)
(* memory the caller named and nowhere else.  There is no buffer, no       *)
(* refill and no choice of a kernel at this level.                         *)
(***************************************************************************)
EXTENDS Integers

CONSTANTS
  Key,
  Period,             \* number of words before a stream repeats
  StreamWord(_, _),   \* StreamWord(k, p): the word at position p under key k
  MaxRequest,         \* largest request a caller makes
  Untouched           \* what a cell of memory holds that nobody wrote

VARIABLES
  key,    \* the stream being read
  pos,    \* position of the next word
  mem,    \* the caller's array, with one cell past the largest request
  at,     \* words of the current request that have been delivered
  asked   \* length of the current request

vars == <<key, pos, mem, at, asked>>

Position == 0 .. Period - 1
Fresh    == [i \in 0 .. MaxRequest |-> Untouched]
Idle     == asked = 0

\* The array after m words of the stream were stored from index a on.
Stored(array, a, m) ==
  [i \in 0 .. MaxRequest |->
     IF i \in a .. a + m - 1 THEN StreamWord(key, (pos + (i - a)) % Period) ELSE array[i]]

Init ==
  /\ key \in Key
  /\ pos \in Position
  /\ mem = Fresh
  /\ at = 0
  /\ asked = 0

\* One or two words taken at once, as operator() and next_double() do.
Read(n) ==
  /\ Idle
  /\ at' = n
  /\ asked' = n
  /\ pos' = (pos + n) % Period
  /\ mem' = Stored(mem, 0, n)
  /\ UNCHANGED key

Ask(n) ==
  /\ Idle
  /\ asked' = n
  /\ UNCHANGED <<key, pos, mem, at>>

Deliver(m) ==
  /\ m <= asked - at
  /\ at' = at + m
  /\ pos' = (pos + m) % Period
  /\ mem' = Stored(mem, at, m)
  /\ UNCHANGED <<key, asked>>

\* The caller has used the words; its array is free for the next request.
Take ==
  /\ asked # 0
  /\ at = asked
  /\ mem' = Fresh
  /\ at' = 0
  /\ asked' = 0
  /\ UNCHANGED <<key, pos>>

\* Seeding, reset, discard and restoring a checkpoint put the caller somewhere
\* else (where exactly is DiscardIsExact and RestoreIsExact of Engine).
Jump(k, p) ==
  /\ Idle
  /\ key' = k
  /\ pos' = p
  /\ UNCHANGED <<mem, at, asked>>

Next ==
  \/ \E n \in 1 .. 2 : Read(n)
  \/ \E n \in 1 .. MaxRequest : Ask(n)
  \/ \E m \in 1 .. MaxRequest : Deliver(m)
  \/ Take
  \/ \E k \in Key, p \in Position : Jump(k, p)

Spec == Init /\ [][Next]_vars
=============================================================================
