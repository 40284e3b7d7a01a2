----------------------------- MODULE StateText -----------------------------
(***************************************************************************)
(* The text form of an engine's position (include/vphilox/serialize.hpp).  *)
(*                                                                         *)
(* A text is a sequence of symbols: the eight letters of the format tag    *)
(* are one symbol, as nothing else of them is ever read; digits, the space *)
(* and the end of a line are one each.  Words are below WordCount (2^32 in *)
(* the code) and digits below Radix (ten in the code), so that numbers     *)
(* with several digits, and numbers too large for a word, are small.       *)
(***************************************************************************)
EXTENDS Integers, Sequences, SequencesExt

CONSTANTS WordCount, Radix

ASSUME TextAssumption ==
  /\ WordCount \in Nat \ {0, 1}
  /\ Radix \in 2 .. 10

Tag     == "vphilox1"
Space   == " "
NewLine == "\n"
Digits  == SubSeq(<<"0", "1", "2", "3", "4", "5", "6", "7", "8", "9">>, 1, Radix)
Symbols == {Tag, Space, NewLine} \cup ToSet(Digits)

Digit(d)     == Digits[d + 1]
ValueOf(s)   == (CHOOSE d \in 1 .. Radix : Digits[d] = s) - 1
IsDigit(s)   == s \in ToSet(Digits)
IsBlank(s)   == s \in {Space, NewLine}
TextWord     == 0 .. WordCount - 1
OffsetField  == 7

---------------------------------------------------------------------------
(* Writing. *)

\* append_u32: the digits of a word, most significant first.
Decimal[v \in TextWord] ==
  IF v < Radix THEN <<Digit(v)>> ELSE Append(Decimal[v \div Radix], Digit(v % Radix))

\* to_string, from the seven fields of a state in their order.
ToText(fields) ==
  FoldLeft(LAMBDA text, v : text \o <<Space>> \o Decimal[v], <<Tag>>, fields)

---------------------------------------------------------------------------
(* Reading. *)

\* The first position from pos on whose symbol stops, or the end of the text.
StopAt(text, pos, Stops(_)) ==
  LET i == SelectInSubSeq(text, pos, Len(text), Stops) IN IF i = 0 THEN Len(text) + 1 ELSE i

Number(digits) == FoldLeft(LAMBDA acc, s : (acc * Radix) + ValueOf(s), 0, digits)

\* parse_u32 at pos: whether there is a word, where it stops, and the word.
ParseU32(text, pos) ==
  LET end   == StopAt(text, pos, LAMBDA s : ~IsDigit(s))
      value == Number(SubSeq(text, pos, end - 1))
  IN  [ok |-> end > pos /\ value < WordCount, pos |-> end, value |-> value]

Refused == [ok |-> FALSE, pos |-> 0, fields |-> <<>>]

At(text, pos, symbol) == pos <= Len(text) /\ text[pos] = symbol

\* One turn of from_string's loop: a space before every field but the first.
ParseField(text, parsed, i) ==
  LET word == ParseU32(text, IF i = 1 THEN parsed.pos ELSE parsed.pos + 1)
  IN  IF ~parsed.ok \/ (i # 1 /\ ~At(text, parsed.pos, Space)) \/ ~word.ok THEN Refused
      ELSE [ok |-> TRUE, pos |-> word.pos, fields |-> Append(parsed.fields, word.value)]

\* The fields as far as they could be read, whatever follows them.
ParseFields(text) ==
  FoldLeft(LAMBDA parsed, i : ParseField(text, parsed, i),
           [ok |-> At(text, 1, Tag) /\ At(text, 2, Space), pos |-> 3, fields |-> <<>>],
           <<1, 2, 3, 4, 5, 6, 7>>)

\* Mutant: the offset is not looked at.
FromText_AnyOffset(text) ==
  LET parsed == ParseFields(text)
  IN  IF parsed.ok /\ parsed.pos = Len(text) + 1 THEN parsed ELSE Refused

\* from_string.
FromText(text) ==
  LET parsed == ParseFields(text)
  IN  IF /\ parsed.ok
         /\ parsed.pos = Len(text) + 1
         /\ parsed.fields[OffsetField] < 4
      THEN parsed ELSE Refused

---------------------------------------------------------------------------
(* A stream that is read word by word: what is left of it, and its flags.  *)

\* is >> token: nothing is read from a stream that is not good.
ReadToken(s) ==
  LET begin == StopAt(s.input, 1, LAMBDA x : ~IsBlank(x))
      end   == StopAt(s.input, begin, IsBlank)
      token == SubSeq(s.input, begin, end - 1)
  IN  IF s.fail \/ s.eof THEN [s EXCEPT !.fail = TRUE, !.token = <<>>]
      ELSE [input |-> SubSeq(s.input, end, Len(s.input)),
            fail  |-> token = <<>>,
            eof   |-> end = Len(s.input) + 1,
            token |-> token,
            text  |-> s.text]

\* One turn of operator>>'s loop: a failed read ends it.
JoinToken(s, i) ==
  LET r == ReadToken(s)
  IN  IF s.fail THEN s
      ELSE IF r.fail THEN r
      ELSE [r EXCEPT !.text = (IF i = 1 THEN @ ELSE Append(@, Space)) \o r.token]

\* The eight words of a state, joined with single spaces.
ReadText(input, fail, eof) ==
  FoldLeft(JoinToken, [input |-> input, fail |-> fail, eof |-> eof, token |-> <<>>, text |-> <<>>],
           <<1, 2, 3, 4, 5, 6, 7, 8>>)
=============================================================================
