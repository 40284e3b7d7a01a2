---------------------------- MODULE Checkpoint ----------------------------
(***************************************************************************)
(* An engine's position written to a text and read back by another build   *)
(* of the library (include/vphilox/serialize.hpp with state() and          *)
(* set_state() of philox.hpp).                                             *)
(*                                                                         *)
(* The two builds differ in refill_blocks.  The text is kept in a file     *)
(* that a crash may truncate and that may be damaged.  Several             *)
(* checkpoints may follow each other in one file, one per line.            *)
(***************************************************************************)
EXTENDS StateText

CONSTANTS
  Key,             \* pairs of words
  Zero, Word,
  Philox(_, _),
  WriterBlocks,    \* refill_blocks of the build that writes
  ReaderBlocks,    \* and of the one that reads
  Seeds, Starts,   \* the keys and counters a writer starts from
  Skips,           \* the arguments of discard()
  Formats,         \* what a caller may have set on the stream written to
  MaxMoves,        \* bound on the other uses of the engines and the damages
  MaxSaves,        \* bound on the checkpoints written
  MaxDamage        \* bound on the symbols of the file that are damaged

CounterPeriod == WordCount * (WordCount * (WordCount * WordCount))

Writer == INSTANCE EngineOps WITH RefillBlocks <- WriterBlocks
Reader == INSTANCE EngineOps WITH RefillBlocks <- ReaderBlocks

ASSUME CheckpointAssumption ==
  /\ Key \subseteq TextWord \X TextWord
  /\ {WriterBlocks, ReaderBlocks} \subseteq Nat \ {0}
  /\ Seeds \subseteq Key /\ Starts \subseteq Writer!Counter
  /\ Skips \subseteq Nat
  /\ Formats \subseteq [width : Nat, left : BOOLEAN, fill : Symbols]
  /\ {MaxMoves, MaxSaves, MaxDamage} \subseteq Nat

VARIABLES
  writer, reader,  \* the two engines
  format,          \* the width, std::left and fill of the stream written to
  file,            \* what is left of the file to be read
  fail, eof,       \* the flags of the stream it is read from
  saved,           \* the positions written and not read yet
  moves, saves, damage

stream == <<file, fail, eof>>
counts == <<moves, saves, damage>>
vars   == <<writer, reader, format, stream, saved, counts>>

\* The four words of a counter, least significant first.
CounterWord(c, w) ==
  CASE w = 0 -> c % WordCount
    [] w = 1 -> (c \div WordCount) % WordCount
    [] w = 2 -> (c \div (WordCount * WordCount)) % WordCount
    [] w = 3 -> c \div (WordCount * (WordCount * WordCount))

\* The fields of an engine_state in the order of the text, and back.
Fields(st) ==
  <<st.key[1], st.key[2], CounterWord(st.counter, 0), CounterWord(st.counter, 1),
    CounterWord(st.counter, 2), CounterWord(st.counter, 3), st.offset>>

StateOf(f) ==
  [key     |-> <<f[1], f[2]>>,
   counter |-> f[3] + WordCount * (f[4] + WordCount * (f[5] + WordCount * f[6])),
   offset  |-> f[7]]

TypeOK ==
  /\ writer \in Writer!EngineValue
  /\ reader \in Reader!EngineValue
  /\ ToSet(file) \subseteq Symbols
  /\ fail \in BOOLEAN /\ eof \in BOOLEAN
  /\ Len(saved) <= saves
  /\ moves \in 0 .. MaxMoves /\ saves \in 0 .. MaxSaves /\ damage \in 0 .. MaxDamage

Init ==
  /\ writer \in {Writer!Construct(k, c) : k \in Seeds, c \in Starts}
  /\ reader = Reader!Construct(<<0, 0>>, 0)
  /\ format \in Formats
  /\ file = <<>>
  /\ fail = FALSE /\ eof = FALSE
  /\ saved = <<>>
  /\ moves = 0 /\ saves = 0 /\ damage = 0

---------------------------------------------------------------------------

Move ==
  /\ moves + damage < MaxMoves
  /\ moves' = moves + 1
  /\ writer' \in {Writer!AfterCall(writer)} \cup {Writer!Discard(writer, n) : n \in Skips}
  /\ UNCHANGED <<reader, format, stream, saved, saves, damage>>

\* The reading program reads words of its own.
Use ==
  /\ moves + damage < MaxMoves
  /\ moves' = moves + 1
  /\ reader' \in {Reader!AfterCall(reader)} \cup {Reader!Discard(reader, n) : n \in Skips}
  /\ UNCHANGED <<writer, format, stream, saved, saves, damage>>

\* A text as a stream writes it: padded to the width.
Padded(text, f) ==
  LET pad == [i \in 1 .. IF f.width > Len(text) THEN f.width - Len(text) ELSE 0 |-> f.fill]
  IN  IF f.left THEN text \o pad ELSE pad \o text

\* operator<<, and the end of the line; writing resets the width.
Save ==
  LET st == Writer!State(writer)
  IN  /\ saves < MaxSaves
      /\ file' = file \o Append(Padded(ToText(Fields(st)), format), NewLine)
      /\ format' = [format EXCEPT !.width = 0]
      /\ saved' = Append(saved, st)
      /\ saves' = saves + 1
      /\ UNCHANGED <<writer, reader, fail, eof, moves, damage>>

Harm ==
  /\ damage < MaxDamage
  /\ moves + damage < MaxMoves
  /\ damage' = damage + 1
  /\ UNCHANGED <<writer, reader, format, fail, eof, saved, moves, saves>>

\* A symbol of the file is lost or altered, or one appears.
Damage ==
  /\ Harm
  /\ \E i \in 1 .. Len(file) :
       \/ file' = RemoveAt(file, i)
       \/ \E s \in Symbols : file' \in {ReplaceAt(file, i, s), InsertAt(file, i, s)}

\* A crash leaves the beginning of the file.
Truncate ==
  /\ Harm
  /\ \E n \in 0 .. Len(file) - 1 : file' = SubSeq(file, 1, n)

\* What operator>> reads from the stream as it is, and what it makes of it.
Reading == ReadText(file, fail, eof)
Parsed  == FromText(Reading.text)

\* operator>>: the engine is touched only when the whole text was good.
Load ==
  /\ saved # <<>>
  /\ file' = Reading.input
  /\ eof' = Reading.eof
  /\ fail' = (Reading.fail \/ ~Parsed.ok)
  /\ reader' = IF Reading.fail \/ ~Parsed.ok THEN reader
               ELSE Reader!SetState(reader, StateOf(Parsed.fields))
  /\ saved' = Tail(saved)
  /\ UNCHANGED <<writer, format, counts>>

Next == Move \/ Use \/ Save \/ Damage \/ Truncate \/ Load

Spec == Init /\ [][Next]_vars

---------------------------------------------------------------------------

(***************************************************************************)
(* An undamaged checkpoint restores the position it was taken at: in a     *)
(* build with another refill size, whatever either engine had buffered,    *)
(* and one after another in a file that holds several.  The word handed    *)
(* out next is the one the writer would have handed out.                   *)
(* (serialize.hpp 20-23, 126-156; philox.hpp 283-315)                      *)
(***************************************************************************)
LoadResumes ==
  [][Load /\ damage = 0 =>
       LET st == Head(saved)
       IN  /\ ~fail'
           /\ Reader!State(reader') = st
           /\ Reader!CallWord(reader') = Philox(st.counter, st.key)[st.offset]]_vars

\* The words of a text: its longest runs of symbols that are not blank.
WordsOf(text) ==
  LET Grow(words, s) == IF IsBlank(s) THEN Append(words, <<>>)
                        ELSE [words EXCEPT ![Len(words)] = Append(@, s)]
  IN  SelectSeq(FoldLeft(Grow, <<<<>>>>, text), LAMBDA w : w # <<>>)

\* A numeral of v, with or without leading zeros.
Means(word, v) ==
  \E z \in 0 .. Len(word) - 1 :
    /\ \A i \in 1 .. z : word[i] = Digit(0)
    /\ SubSeq(word, z + 1, Len(word)) = Decimal[v]

(***************************************************************************)
(* Reading is all or nothing, whatever has happened to the file: either    *)
(* the stream fails, and goes on failing, and the engine is as it was, or  *)
(* what was read names the position restored, field by field, with nothing *)
(* missing, merged, out of range or left over.  (serialize.hpp 30-34,      *)
(* 98-156)                                                                 *)
(***************************************************************************)
AllOrNothing ==
  [][Load =>
       \/ fail' /\ reader' = reader
       \/ LET words == WordsOf(SubSeq(file, 1, Len(file) - Len(file')))
              f     == Fields(Reader!State(reader'))
          IN  /\ ~fail /\ ~fail'
              /\ Len(words) = 8
              /\ words[1] = <<Tag>>
              /\ \A i \in 1 .. 7 : Means(words[i + 1], f[i])]_vars
=============================================================================
