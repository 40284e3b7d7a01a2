-------------------------- MODULE StreamToolProofs --------------------------
(***************************************************************************)
(* The two tools for any sizes of words, chunks, buffers and pipes and any *)
(* command line: what has left the program is the engine's stream from its *)
(* first word, a limit is kept and delivered, and the backend that runs is *)
(* the one the last --backend names.                                       *)
(***************************************************************************)
EXTENDS StreamTool, SequenceTheorems, TLAPS

\* The facts about numbers that no particular base matters to.
Binary == INSTANCE CounterProofs WITH Base <- 2

\* 2 is a base, what CounterProofs asks of it.
LEMMA TwoIsABase == 2 \in Nat \ {0, 1}
OBVIOUS

---------------------------------------------------------------------------
(* Bytes. *)

\* A word's stream position and a place in it.
Bytes == Nat \X (0 .. WordBytes - 1)

\* Sizes of words and chunks, in the form the provers use them (ToolAssumption).
LEMMA Widths ==
  /\ WordBytes \in Nat \ {0} /\ SizeCount \in Nat \ {0} /\ ChunkWords \in Nat \ {0}
BY ToolAssumption

\* A product of two numbers is a number.
LEMMA ProductType ==
  ASSUME NEW x \in Nat, NEW y \in Nat
  PROVE  x * y \in Nat
OBVIOUS

\* The words from first on are a sequence of bytes, as long as they are many.
LEMMA BytesOfType ==
  ASSUME NEW first \in Nat, NEW words \in Nat
  PROVE  /\ BytesOf(first, words) \in Seq(Bytes)
         /\ Len(BytesOf(first, words)) = words * WordBytes
         /\ \A j \in 1 .. words * WordBytes :
              BytesOf(first, words)[j] = <<first + ((j - 1) \div WordBytes), (j - 1) % WordBytes>>
<1> DEFINE n    == words * WordBytes
           e(j) == <<first + ((j - 1) \div WordBytes), (j - 1) % WordBytes>>
<1>1. n \in Nat
  BY Widths, ProductType
<1> HIDE DEF n
<1>2. \A j \in 1 .. n : e(j) \in Bytes
  <2> SUFFICES ASSUME NEW j \in 1 .. n PROVE e(j) \in Bytes
    OBVIOUS
  <2>1. /\ j - 1 \in Nat
        /\ j - 1 = WordBytes * ((j - 1) \div WordBytes) + ((j - 1) % WordBytes)
        /\ ((j - 1) % WordBytes) \in 0 .. WordBytes - 1
        /\ ((j - 1) \div WordBytes) \in Int
    BY <1>1, Widths, TwoIsABase, Binary!DivisionTheorem
  <2>2. ((j - 1) \div WordBytes) \in Nat
    BY <1>1, Widths
  <2> QED BY <2>1, <2>2 DEF Bytes
<1>3. BytesOf(first, words) = [j \in 1 .. n |-> e(j)]
  BY DEF BytesOf, n
<1> HIDE DEF e
<1>4. [j \in 1 .. n |-> e(j)] \in Seq(Bytes) /\ Len([j \in 1 .. n |-> e(j)]) = n
  BY <1>1, <1>2
<1> QED BY <1>1, <1>3, <1>4 DEF n, e

\* Words that follow each other are one run of words.
LEMMA BytesAdd ==
  ASSUME NEW p \in Nat, NEW n \in Nat
  PROVE  BytesOf(0, p) \o BytesOf(p, n) = BytesOf(0, p + n)
<1> DEFINE s == BytesOf(0, p)
           t == BytesOf(p, n)
           u == BytesOf(0, p + n)
<1>1. /\ p * WordBytes \in Nat /\ n * WordBytes \in Nat
      /\ (p + n) * WordBytes = p * WordBytes + n * WordBytes
  BY Widths, ProductType
<1>2. /\ s \in Seq(Bytes) /\ Len(s) = p * WordBytes
      /\ \A j \in 1 .. p * WordBytes :
           s[j] = <<0 + ((j - 1) \div WordBytes), (j - 1) % WordBytes>>
  BY BytesOfType
<1>3. /\ t \in Seq(Bytes) /\ Len(t) = n * WordBytes
      /\ \A j \in 1 .. n * WordBytes :
           t[j] = <<p + ((j - 1) \div WordBytes), (j - 1) % WordBytes>>
  BY BytesOfType
<1>4. /\ u \in Seq(Bytes) /\ Len(u) = p * WordBytes + n * WordBytes
      /\ \A j \in 1 .. p * WordBytes + n * WordBytes :
           u[j] = <<0 + ((j - 1) \div WordBytes), (j - 1) % WordBytes>>
  <2>1. p + n \in Nat
    OBVIOUS
  <2> QED BY <1>1, <2>1, BytesOfType
<1> HIDE DEF s, t, u
<1>5. /\ s \o t \in Seq(Bytes) /\ Len(s \o t) = p * WordBytes + n * WordBytes
      /\ \A j \in 1 .. p * WordBytes + n * WordBytes :
           (s \o t)[j] = IF j <= p * WordBytes THEN s[j] ELSE t[j - p * WordBytes]
  <2>1. /\ s \o t \in Seq(Bytes) /\ Len(s \o t) = Len(s) + Len(t)
        /\ \A j \in 1 .. Len(s) + Len(t) :
             (s \o t)[j] = IF j <= Len(s) THEN s[j] ELSE t[j - Len(s)]
    BY <1>2, <1>3, ConcatProperties
  <2> QED BY <1>2, <1>3, <2>1
<1>6. \A j \in 1 .. Len(s \o t) : (s \o t)[j] = u[j]
  <2> SUFFICES ASSUME NEW j \in 1 .. p * WordBytes + n * WordBytes
               PROVE  (s \o t)[j] = u[j]
    BY <1>5
  <2>1. CASE j <= p * WordBytes
    <3>1. j \in 1 .. p * WordBytes
      BY <1>1, <2>1
    <3>2. (s \o t)[j] = s[j]
      BY <1>5, <2>1
    <3>3. s[j] = <<0 + ((j - 1) \div WordBytes), (j - 1) % WordBytes>>
      BY <1>2, <3>1
    <3>4. u[j] = <<0 + ((j - 1) \div WordBytes), (j - 1) % WordBytes>>
      BY <1>4
    <3> QED BY <3>2, <3>3, <3>4
  <2>2. CASE ~(j <= p * WordBytes)
    <3> DEFINE k == j - p * WordBytes
    <3>1. k \in 1 .. n * WordBytes /\ k - 1 \in Int /\ j - 1 \in Int
      BY <1>1, <2>2
    <3>2. j - 1 = p * WordBytes + (k - 1)
      BY <1>1
    <3> HIDE DEF k
    <3>3. /\ k - 1 = WordBytes * ((k - 1) \div WordBytes) + ((k - 1) % WordBytes)
          /\ ((k - 1) % WordBytes) \in 0 .. WordBytes - 1
          /\ ((k - 1) \div WordBytes) \in Int
      BY <3>1, Widths, TwoIsABase, Binary!DivisionTheorem
    <3>4. j - 1 = WordBytes * (p + ((k - 1) \div WordBytes)) + ((k - 1) % WordBytes)
      BY <3>2, <3>3, Widths
    <3>5. /\ (j - 1) % WordBytes = (k - 1) % WordBytes
          /\ (j - 1) \div WordBytes = p + ((k - 1) \div WordBytes)
      <4>1. p + ((k - 1) \div WordBytes) \in Int
        BY <3>3
      <4>2. ((k - 1) % WordBytes) \in Int /\ 0 <= (k - 1) % WordBytes /\ (k - 1) % WordBytes < WordBytes
        BY <3>3, Widths
      <4> DEFINE q == p + ((k - 1) \div WordBytes)
                 r == (k - 1) % WordBytes
                 x == j - 1
      <4>3. x = WordBytes * q + r /\ x \in Int
        BY <3>1, <3>4
      <4> HIDE DEF q, r, x
      <4>4. q \in Int /\ r \in Int /\ 0 <= r /\ r < WordBytes
        BY <4>1, <4>2 DEF q, r
      <4>5. x % WordBytes = r /\ x \div WordBytes = q
        BY <4>3, <4>4, Widths, TwoIsABase, Binary!DivisionCompute
      <4> QED BY <4>5 DEF q, r, x
    <3>6. t[k] = <<p + ((k - 1) \div WordBytes), (k - 1) % WordBytes>>
      BY <1>3, <3>1
    <3>7. (s \o t)[j] = t[k]
      BY <1>5, <2>2 DEF k
    <3>8. u[j] = <<0 + ((j - 1) \div WordBytes), (j - 1) % WordBytes>>
      BY <1>4
    <3>9. 0 + ((j - 1) \div WordBytes) = p + ((k - 1) \div WordBytes)
      BY <3>3, <3>5
    <3> QED BY <3>5, <3>6, <3>7, <3>8, <3>9
  <2> QED BY <2>1, <2>2
<1>7. s \o t = u
  BY <1>4, <1>5, <1>6, SeqEqual
<1> QED BY <1>7 DEF s, t, u

\* Concatenation associates.
LEMMA Associates ==
  ASSUME NEW a \in Seq(Bytes), NEW b \in Seq(Bytes), NEW c \in Seq(Bytes)
  PROVE  (a \o b) \o c = a \o (b \o c)
<1>1. \A S : \A s, t, u \in Seq(S) : (s \o t) \o u = s \o (t \o u)
  BY ConcatAssociative
<1> QED BY <1>1

\* A byte that is read stays where it is in the order.
LEMMA ReadOne ==
  ASSUME NEW a \in Seq(Bytes), NEW b \in Seq(Bytes), b # <<>>
  PROVE  /\ Append(a, Head(b)) \in Seq(Bytes) /\ Tail(b) \in Seq(Bytes)
         /\ Append(a, Head(b)) \o Tail(b) = a \o b
<1>1. Head(b) \in Bytes /\ Tail(b) \in Seq(Bytes)
  BY HeadTailProperties
<1>2. Append(a, Head(b)) = a \o <<Head(b)>> /\ <<Head(b)>> \in Seq(Bytes)
  BY <1>1, AppendIsConcat
<1>3. Append(a, Head(b)) \in Seq(Bytes)
  BY <1>1, AppendProperties
<1>4. <<Head(b)>> \o Tail(b) = b
  <2>1. Len(b) \in Nat \ {0} /\ 1 \in 1 .. Len(b) /\ Len(b) \in 1 .. Len(b)
    BY EmptySeq
  <2>2. SubSeq(b, 1, Len(b)) = <<b[1]>> \o SubSeq(b, 1 + 1, Len(b))
    BY <2>1, SubSeqRecursiveFirst
  <2>3. SubSeq(b, 1, Len(b)) = b
    BY SubSeqFull
  <2>4. Tail(b) = SubSeq(b, 2, Len(b))
    BY TailIsSubSeq
  <2>5. Head(b) = b[1]
    OBVIOUS
  <2> QED BY <2>2, <2>3, <2>4, <2>5
<1>5. (a \o <<Head(b)>>) \o Tail(b) = a \o (<<Head(b)>> \o Tail(b))
  BY <1>1, <1>2, Associates
<1> QED BY <1>1, <1>2, <1>3, <1>4, <1>5

---------------------------------------------------------------------------
(* The inductive invariant. *)

\* What was read, what is in the pipe and what the C library holds, in order.
Out == received \o pipe \o stdio

Running == {"signal", "loop", "fwrite", "fflush", "battery"}

\* The options o that the loop over the command line has passed.
Passed(o) == {k \in OptionPlaces : k < i /\ argv[k] = o}

Types ==
  /\ tool \in Tools
  /\ argv \in Seq(STRING)
  /\ i \in 1 .. Len(argv) + 1
  /\ cmd = [limit |-> cmd.limit, format |-> cmd.format, battery |-> cmd.battery,
            info |-> cmd.info, env |-> cmd.env]
  /\ limit \in 0 .. SizeCount - 1
  /\ pc \in Running \cup {"options", "exited"}
  /\ status \in {0, 2, Killed}
  /\ written \in Nat /\ position \in Nat
  /\ stdio \in Seq(Bytes) /\ pipe \in Seq(Bytes) /\ received \in Seq(Bytes)

\* The loop stops at every option, and at no value of one.
Walked ==
  /\ \A k \in OptionPlaces : k < i => After(k) <= i
  /\ pc = "options" /\ i <= Len(argv) => i \in OptionPlaces
  /\ pc \in Running \/ kernel # "none" => i = Len(argv) + 1

\* What is set is what the last option that sets it says.
Followed ==
  /\ \A k \in Passed("--backend") :
       (\A m \in Passed("--backend") : m <= k) => cmd.env = argv[k + 1]
  /\ \A k \in Passed("--bytes") :
       /\ tool = "vphilox_stream" /\ argv[k + 1] \in DOMAIN Sizes
       /\ (\A m \in Passed("--bytes") : m <= k) => limit = ParseSize(argv[k + 1])
  /\ kernel # "none" => kernel = (IF cmd.env \in Backends THEN cmd.env ELSE Best)

\* Which tool is where, and what it has done by then.
Phases ==
  /\ pc \in Running \ {"battery"} => tool = "vphilox_stream" /\ ~cmd.info
  /\ pc = "battery" => tool = "vphilox_testu01"
  /\ pc = "options" => kernel = "none"
  /\ pc \in Running => kernel # "none"
  /\ tool = "vphilox_testu01" => ~cmd.info /\ limit = 0 /\ pipe = <<>> /\ stdio = <<>>
  /\ position > 0 => ~cmd.info /\ kernel # "none" /\ status # 2 /\ pc \notin {"options", "signal"}
  /\ status # 0 => pc = "exited"

\* All that was generated is there, in its order.
InOrder == Out = BytesOf(0, position)

\* How far a stream with a limit has come.
Counted ==
  /\ pc \in {"options", "signal"} => written = 0
  /\ limit # 0 =>
      /\ position * WordBytes <= limit
      /\ pc = "loop" => written = position * WordBytes
      /\ pc = "fwrite" => position * WordBytes = written + (WordsToWrite * WordBytes)
      /\ pc = "fflush" => position = limit \div WordBytes
      /\ pc = "exited" /\ kernel # "none" /\ ~cmd.info /\ ~closed =>
           stdio = <<>> /\ position = limit \div WordBytes

IInv == Types /\ Walked /\ Followed /\ Phases /\ InOrder /\ Counted

---------------------------------------------------------------------------
(* The command line. *)

\* OptionPlaces holds the first argument, and what follows an option and its value.
LEMMA PlacesClosed ==
  ASSUME argv \in Seq(STRING)
  PROVE  /\ Len(argv) \in Nat
         /\ OptionPlaces \subseteq 1 .. Len(argv)
         /\ 1 <= Len(argv) => 1 \in OptionPlaces
         /\ \A k \in OptionPlaces : After(k) \in k + 1 .. k + 2
         /\ \A k \in OptionPlaces : After(k) <= Len(argv) => After(k) \in OptionPlaces
<1>1. Len(argv) \in Nat
  BY LenProperties
<1>2. OptionPlaces \subseteq 1 .. Len(argv)
  BY DEF OptionPlaces
<1>3. \A k \in OptionPlaces : After(k) \in k + 1 .. k + 2
  BY <1>1, <1>2 DEF After
<1>4. 1 <= Len(argv) => 1 \in OptionPlaces
  BY <1>1 DEF OptionPlaces
<1>5. ASSUME NEW k \in OptionPlaces, After(k) <= Len(argv) PROVE After(k) \in OptionPlaces
  <2>1. After(k) \in 1 .. Len(argv)
    BY <1>1, <1>2, <1>3, <1>5
  <2>2. ASSUME NEW P \in SUBSET (1 .. Len(argv)), 1 \in P,
               \A m \in P : After(m) <= Len(argv) => After(m) \in P
        PROVE  After(k) \in P
    <3>1. k \in P
      BY <2>2 DEF OptionPlaces
    <3> QED BY <1>5, <2>2, <3>1
  <2> QED BY <2>1, <2>2 DEF OptionPlaces
<1> QED BY <1>1, <1>2, <1>3, <1>4, <1>5

\* Between an option and what follows it, there is no other.
LEMMA NothingBetween ==
  ASSUME Types, Walked, i \in OptionPlaces, NEW k \in OptionPlaces, k > i
  PROVE  k >= After(i)
<1>1. SUFFICES ASSUME k < After(i) PROVE FALSE
  <2>1. k \in Int /\ i \in Int /\ After(i) \in Int
    BY PlacesClosed DEF Types
  <2> QED BY <2>1
<1> DEFINE P == OptionPlaces \ {k}
<1>2. /\ Len(argv) \in Nat
      /\ OptionPlaces \subseteq 1 .. Len(argv)
      /\ \A m \in OptionPlaces : After(m) \in m + 1 .. m + 2
      /\ \A m \in OptionPlaces : After(m) <= Len(argv) => After(m) \in OptionPlaces
  BY PlacesClosed DEF Types
<1>3. i \in 1 .. Len(argv) /\ k \in 1 .. Len(argv)
  BY <1>2
<1>4. 1 \in P
  BY <1>3, PlacesClosed DEF Types
<1>5. ASSUME NEW m \in P, After(m) <= Len(argv) PROVE After(m) \in P
  <2>1. After(m) \in OptionPlaces /\ m \in 1 .. Len(argv) /\ m # k
    BY <1>2, <1>5
  <2>2. CASE m < i
    BY <1>3, <2>1, <2>2 DEF Walked
  <2>3. CASE m = i
    BY <1>1, <2>1, <2>3
  <2>4. CASE m > i
    <3>1. After(m) \in m + 1 .. m + 2 /\ After(i) \in i + 1 .. i + 2
      BY <1>2
    <3>2. After(m) > k
      BY <1>1, <1>3, <2>1, <2>4, <3>1
    <3> QED BY <1>3, <2>1, <3>2
  <2> QED BY <1>3, <2>1, <2>2, <2>3, <2>4
<1>6. P \in SUBSET (1 .. Len(argv))
  BY <1>2
<1>7. k \in P
  <2> HIDE DEF P
  <2> QED BY <1>4, <1>5, <1>6 DEF OptionPlaces
<1> QED BY <1>7

\* A turn of the loop passes the option it looked at, and no other.
LEMMA TurnPasses ==
  ASSUME Types, Walked, pc = "options", i <= Len(argv), pc' = "options",
         UNCHANGED <<tool, argv, kernel>>, kernel = "none",
         i' = After(i), i' <= Len(argv) + 1
  PROVE  /\ i' \in 1 .. Len(argv) + 1
         /\ Walked'
         /\ \A o : Passed(o)' = Passed(o) \cup (IF argv[i] = o THEN {i} ELSE {})
         /\ \A o : \A k \in Passed(o) : k < i
<1>1. OptionPlaces' = OptionPlaces /\ Len(argv)' = Len(argv) /\ \A k : After(k)' = After(k)
  BY DEF OptionPlaces, After, Valued
<1>2. /\ Len(argv) \in Nat
      /\ OptionPlaces \subseteq 1 .. Len(argv)
      /\ \A m \in OptionPlaces : After(m) \in m + 1 .. m + 2
      /\ \A m \in OptionPlaces : After(m) <= Len(argv) => After(m) \in OptionPlaces
  BY PlacesClosed DEF Types
<1>3. i \in OptionPlaces
  BY DEF Walked
<1>4. i' \in i + 1 .. i + 2 /\ i \in 1 .. Len(argv)
  BY <1>2, <1>3
<1>5. \A k \in OptionPlaces : k < i' => k <= i
  <2> SUFFICES ASSUME NEW k \in OptionPlaces, k > i PROVE k >= i'
    BY <1>2, <1>4
  <2> QED BY <1>3, NothingBetween
<1>6. \A k \in OptionPlaces : k < i' => After(k) <= i'
  <2> SUFFICES ASSUME NEW k \in OptionPlaces, k < i' PROVE After(k) <= i'
    OBVIOUS
  <2>1. CASE k = i
    BY <1>4, <2>1
  <2>2. CASE k < i
    BY <1>2, <1>4, <2>2 DEF Walked
  <2> QED BY <1>2, <1>4, <1>5, <2>1, <2>2
<1>7. Walked'
  <2>1. i' <= Len(argv) => i' \in OptionPlaces
    BY <1>2, <1>3
  <2>2. "options" \notin Running
    BY DEF Running
  <2> QED BY <1>1, <1>6, <2>1, <2>2 DEF Walked, Running
<1>8. \A o : Passed(o)' = Passed(o) \cup (IF argv[i] = o THEN {i} ELSE {})
  <2> SUFFICES ASSUME NEW o
               PROVE  Passed(o)' = Passed(o) \cup (IF argv[i] = o THEN {i} ELSE {})
    OBVIOUS
  <2>1. Passed(o)' = {k \in OptionPlaces : k < i' /\ argv[k] = o}
    BY <1>1 DEF Passed
  <2>2. \A k \in OptionPlaces : k < i' <=> k < i \/ k = i
    BY <1>2, <1>4, <1>5
  <2> QED BY <1>3, <2>1, <2>2 DEF Passed
<1>9. \A o : \A k \in Passed(o) : k < i
  BY DEF Passed
<1> QED BY <1>2, <1>4, <1>7, <1>8, <1>9

\* The command line, the engine and the stream at the start.
LEMMA InitInv == Init => IInv
<1> SUFFICES ASSUME Init PROVE IInv
  OBVIOUS
<1>1. argv \in Seq(STRING) /\ Len(argv) \in Nat
  <2>1. argv \in Seq(STRING)
    BY ToolAssumption DEF Init
  <2> QED BY <2>1, LenProperties
<1>2. cmd = [limit |-> 0, format |-> "raw32", battery |-> "small", info |-> FALSE, env |-> cmd.env]
  BY DEF Init
<1>3. <<>> \in Seq(Bytes)
  BY EmptySeq
<1>4. Types
  BY <1>1, <1>2, <1>3, Widths DEF Init, Types, Tools, Running, limit, Killed
<1>5. Walked
  <2>1. \A k \in OptionPlaces : ~(k < i)
    BY <1>1, PlacesClosed DEF Init
  <2>2. i <= Len(argv) => i \in OptionPlaces
    BY <1>1, PlacesClosed DEF Init
  <2> QED BY <2>1, <2>2 DEF Init, Walked, Running
<1>6. Followed
  <2>1. \A o : Passed(o) = {}
    BY <1>1, PlacesClosed DEF Init, Passed
  <2> QED BY <2>1 DEF Init, Followed
<1>7. Phases
  BY <1>2 DEF Init, Phases, Running, limit
<1>8. InOrder
  <2>1. BytesOf(0, 0) \in Seq(Bytes) /\ Len(BytesOf(0, 0)) = 0
    BY Widths, BytesOfType
  <2>2. BytesOf(0, 0) = <<>>
    BY <2>1, EmptySeq
  <2>3. <<>> \o <<>> \o <<>> = <<>>
    BY <1>3, ConcatEmptySeq
  <2> QED BY <2>2, <2>3 DEF Init, InOrder, Out
<1>9. Counted
  BY <1>2 DEF Init, Counted, limit
<1> QED BY <1>4, <1>5, <1>6, <1>7, <1>8, <1>9 DEF IInv

\* Once the command line is read, nothing of it changes.
LEMMA LineKept ==
  ASSUME Walked, Followed, UNCHANGED line,
         pc' \in Running => pc \in Running,
         pc' = "options" => pc = "options"
  PROVE  Walked' /\ Followed'
<1>1. UNCHANGED <<tool, argv, i, cmd, kernel>>
  BY DEF line
<1>2. OptionPlaces' = OptionPlaces /\ \A k : After(k)' = After(k)
  BY <1>1 DEF OptionPlaces, After, Valued
<1>3. \A o : Passed(o)' = Passed(o)
  BY <1>1, <1>2 DEF Passed
<1>4. Walked'
  BY <1>1, <1>2 DEF Walked, Running
<1>5. Followed'
  BY <1>1, <1>3 DEF Followed, limit, ParseSize
<1> QED BY <1>4, <1>5

\* A size is below SizeCount, whatever its suffix makes of it.
LEMMA SizeType ==
  ASSUME NEW t \in DOMAIN Sizes
  PROVE  ParseSize(t) \in 0 .. SizeCount - 1
<1>1. Sizes[t].number \in Nat /\ Sizes[t].factor \in Nat
  <2>1. Sizes[t] \in [number : 0 .. SizeCount - 1, factor : Nat \ {0}]
    BY ToolAssumption
  <2> QED BY <2>1, Widths
<1>2. Sizes[t].number * Sizes[t].factor \in Int
  BY <1>1, ProductType
<1> DEFINE x == Sizes[t].number * Sizes[t].factor
<1> HIDE DEF x
<1>3. x \in Int
  BY <1>2 DEF x
<1>4. x % SizeCount \in 0 .. SizeCount - 1
  BY <1>3, Widths, TwoIsABase, Binary!DivisionTheorem
<1> QED BY <1>4 DEF ParseSize, x

\* A step of the options' loop before the last, in what it leaves alone.
LEMMA LoopKeeps ==
  ASSUME IInv, pc = "options", UNCHANGED <<tool, argv, kernel, program, pc, stdio, pipe, consumer>>,
         i' \in 1 .. Len(argv) + 1,
         cmd' = [limit |-> cmd'.limit, format |-> cmd'.format, battery |-> cmd'.battery,
                 info |-> cmd'.info, env |-> cmd'.env],
         limit' \in 0 .. SizeCount - 1,
         tool = "vphilox_testu01" => ~cmd'.info /\ limit' = 0
  PROVE  Types' /\ Phases' /\ InOrder' /\ Counted'
<1>1. UNCHANGED <<tool, argv, kernel, written, position, status, pc, stdio, pipe, received, closed>>
  BY DEF program, consumer
<1>2. position = 0
  BY DEF IInv, Phases, Types
<1>3. Types'
  BY <1>1 DEF IInv, Types
<1>4. Phases'
  BY <1>1, <1>2 DEF IInv, Phases, Running
<1>5. InOrder'
  BY <1>1 DEF IInv, InOrder, Out, BytesOf
<1>6. Counted'
  <2>1. written = 0
    BY DEF IInv, Counted
  <2>2. 0 * WordBytes = 0
    BY Widths
  <2>3. position' * WordBytes <= limit'
    BY <1>1, <1>2, <2>2, Widths
  <2>4. kernel' = "none"
    BY <1>1 DEF IInv, Phases
  <2> QED BY <1>1, <2>1, <2>3, <2>4 DEF Counted
<1> QED BY <1>3, <1>4, <1>5, <1>6

\* An option and its value: the loop goes on behind the value.
LEMMA ValueOptionStep == IInv /\ ValueOption => IInv'
<1> SUFFICES ASSUME IInv, ValueOption PROVE IInv'
  OBVIOUS
<1>1. /\ pc = "options" /\ i <= Len(argv) /\ kernel = "none"
      /\ UNCHANGED <<tool, argv, kernel, program, pc, stdio, pipe, consumer>>
      /\ argv[i] \in Valued /\ i < Len(argv) /\ i' = i + 2
      /\ argv[i] = "--bytes" => argv[i + 1] \in DOMAIN Sizes
      /\ cmd' = IF tool = "vphilox_stream" THEN StreamSet(argv[i], argv[i + 1])
                ELSE BatterySet(argv[i], argv[i + 1])
  BY DEF ValueOption, InOptions, IsValued, IInv, Phases
<1>2. Len(argv) \in Nat /\ i \in 1 .. Len(argv) + 1
  BY LenProperties DEF IInv, Types
<1>3. i' = After(i) /\ i' <= Len(argv) + 1
  BY <1>1, <1>2 DEF After
<1>4. /\ i' \in 1 .. Len(argv) + 1 /\ Walked'
      /\ \A o : Passed(o)' = Passed(o) \cup (IF argv[i] = o THEN {i} ELSE {})
      /\ \A o : \A k \in Passed(o) : k < i
  BY <1>1, <1>3, TurnPasses DEF IInv
<1>5. tool = "vphilox_testu01" => argv[i] # "--bytes"
  BY <1>1 DEF Valued
<1>6. /\ cmd'.info = cmd.info
      /\ cmd'.env = IF argv[i] = "--backend" THEN argv[i + 1] ELSE cmd.env
      /\ limit' = IF argv[i] = "--bytes" THEN ParseSize(argv[i + 1]) ELSE limit
      /\ cmd' = [limit |-> cmd'.limit, format |-> cmd'.format, battery |-> cmd'.battery,
                 info |-> cmd'.info, env |-> cmd'.env]
  <2>1. CASE tool = "vphilox_stream"
    <3>1. cmd' = StreamSet(argv[i], argv[i + 1])
      BY <1>1, <2>1
    <3> QED BY <3>1 DEF StreamSet, limit
  <2>2. CASE tool = "vphilox_testu01"
    <3>1. cmd' = BatterySet(argv[i], argv[i + 1])
      BY <1>1, <2>2
    <3> QED BY <1>5, <2>2, <3>1 DEF BatterySet, limit
  <2> QED BY <2>1, <2>2 DEF IInv, Types, Tools
<1>7. limit' \in 0 .. SizeCount - 1
  BY <1>1, <1>6, SizeType DEF IInv, Types
<1>8. tool = "vphilox_testu01" => ~cmd'.info /\ limit' = 0
  BY <1>5, <1>6 DEF IInv, Phases
<1>9. Types' /\ Phases' /\ InOrder' /\ Counted'
  BY <1>1, <1>4, <1>6, <1>7, <1>8, LoopKeeps
<1>10. Followed'
  <2>1. ASSUME NEW k \in Passed("--backend")', \A m \in Passed("--backend")' : m <= k
        PROVE  cmd'.env = argv[k + 1]
    <3>1. CASE argv[i] = "--backend"
      <4>1. i \in Passed("--backend")'
        BY <1>4, <3>1
      <4>2. k = i
        BY <1>2, <1>4, <2>1, <3>1, <4>1
      <4> QED BY <1>6, <3>1, <4>2
    <3>2. CASE argv[i] # "--backend"
      <4>1. Passed("--backend")' = Passed("--backend")
        BY <1>4, <3>2
      <4> QED BY <1>6, <2>1, <3>2, <4>1 DEF IInv, Followed
    <3> QED BY <3>1, <3>2
  <2>2. ASSUME NEW k \in Passed("--bytes")'
        PROVE  /\ tool = "vphilox_stream" /\ argv[k + 1] \in DOMAIN Sizes
               /\ (\A m \in Passed("--bytes")' : m <= k) => limit' = ParseSize(argv[k + 1])
    <3>1. CASE argv[i] = "--bytes"
      <4>1. i \in Passed("--bytes")' /\ tool = "vphilox_stream"
        BY <1>4, <1>5, <3>1 DEF IInv, Types, Tools
      <4>2. CASE k = i
        BY <1>1, <1>6, <3>1, <4>1, <4>2
      <4>3. CASE k # i
        <5>1. k \in Passed("--bytes") /\ k < i
          BY <1>4, <3>1, <4>3
        <5>2. ~(\A m \in Passed("--bytes")' : m <= k)
          BY <1>2, <4>1, <5>1 DEF Passed, OptionPlaces
        <5> QED BY <5>1, <5>2 DEF IInv, Followed
      <4> QED BY <4>2, <4>3
    <3>2. CASE argv[i] # "--bytes"
      <4>1. Passed("--bytes")' = Passed("--bytes")
        BY <1>4, <3>2
      <4> QED BY <1>6, <2>2, <3>2, <4>1 DEF IInv, Followed
    <3> QED BY <3>1, <3>2
  <2> QED BY <1>1, <2>1, <2>2 DEF Followed, ParseSize
<1> QED BY <1>4, <1>9, <1>10 DEF IInv

\* --info is remembered, and the loop goes on.
LEMMA InfoStep == IInv /\ Info => IInv'
<1> SUFFICES ASSUME IInv, Info PROVE IInv'
  OBVIOUS
<1>1. /\ pc = "options" /\ i <= Len(argv) /\ kernel = "none"
      /\ UNCHANGED <<tool, argv, kernel, program, pc, stdio, pipe, consumer>>
      /\ argv[i] = "--info" /\ tool = "vphilox_stream" /\ i' = i + 1
      /\ cmd' = [cmd EXCEPT !.info = TRUE]
  BY DEF Info, InOptions, IsInfo, IInv, Phases
<1>2. Len(argv) \in Nat /\ i \in 1 .. Len(argv) + 1
  BY LenProperties DEF IInv, Types
<1>3. i' = After(i) /\ i' <= Len(argv) + 1
  BY <1>1, <1>2 DEF After, Valued
<1>4. /\ i' \in 1 .. Len(argv) + 1 /\ Walked'
      /\ \A o : Passed(o)' = Passed(o) \cup (IF argv[i] = o THEN {i} ELSE {})
  BY <1>1, <1>3, TurnPasses DEF IInv
<1>5. /\ Passed("--backend")' = Passed("--backend")
      /\ Passed("--bytes")' = Passed("--bytes")
  BY <1>1, <1>4
<1>6. /\ cmd'.env = cmd.env /\ limit' = limit
      /\ cmd' = [limit |-> cmd'.limit, format |-> cmd'.format, battery |-> cmd'.battery,
                 info |-> cmd'.info, env |-> cmd'.env]
  <2>1. cmd = [limit |-> cmd.limit, format |-> cmd.format, battery |-> cmd.battery,
               info |-> cmd.info, env |-> cmd.env]
    BY DEF IInv, Types
  <2>2. cmd' = [limit |-> cmd.limit, format |-> cmd.format, battery |-> cmd.battery,
                info |-> TRUE, env |-> cmd.env]
    BY <1>1, <2>1
  <2> QED BY <2>2 DEF limit
<1>7. limit' \in 0 .. SizeCount - 1
  BY <1>6 DEF IInv, Types
<1>8. tool # "vphilox_testu01"
  BY <1>1
<1>9. Types' /\ Phases' /\ InOrder' /\ Counted'
  BY <1>1, <1>4, <1>6, <1>7, <1>8, LoopKeeps
<1>10. Followed'
  BY <1>1, <1>5, <1>6 DEF IInv, Followed, ParseSize
<1> QED BY <1>4, <1>9, <1>10 DEF IInv

\* A run that ends in its options has generated nothing.
LEMMA RefusedStep == IInv /\ (Help \/ BadOption) => IInv'
<1> SUFFICES ASSUME IInv, Help \/ BadOption PROVE IInv'
  OBVIOUS
<1>1. /\ UNCHANGED <<line, written, position, ignored, stdio, pipe, consumer>>
      /\ pc = "options" /\ pc' = "exited" /\ status' \in {0, 2}
  BY DEF Help, BadOption, InOptions, Exit
<1>2. UNCHANGED <<tool, argv, i, cmd, kernel, received, closed>> /\ kernel = "none" /\ position = 0
  BY <1>1 DEF line, consumer, IInv, Phases, Types
<1>3. Walked' /\ Followed'
  BY <1>1, LineKept DEF IInv, Running
<1>4. Types' /\ Phases'
  BY <1>1, <1>2 DEF IInv, Types, Phases, Running, limit
<1>5. InOrder'
  BY <1>1, <1>2 DEF IInv, InOrder, Out, BytesOf
<1>6. Counted'
  BY <1>1, <1>2 DEF IInv, Counted, limit
<1> QED BY <1>3, <1>4, <1>5, <1>6 DEF IInv

\* The options are read: the format or the battery is checked, the backend resolved.
LEMMA ReadyStep == IInv /\ (StreamReady \/ BatteryReady) => IInv'
<1> SUFFICES ASSUME IInv, StreamReady \/ BatteryReady PROVE IInv'
  OBVIOUS
<1>1. /\ UNCHANGED <<tool, argv, i, cmd, written, position, ignored, stdio, pipe, consumer>>
      /\ pc = "options" /\ i > Len(argv) /\ kernel = "none" /\ position = 0 /\ status = 0
  BY DEF StreamReady, BatteryReady, OptionsRead, IInv, Phases, Types
<1>2. UNCHANGED <<received, closed, limit, Out>>
  BY <1>1 DEF consumer, limit, Out
<1>3. \/ kernel' = kernel /\ pc' = "exited" /\ status' = 2
      \/ /\ kernel' = Resolved /\ status' = 0
         /\ \/ tool = "vphilox_stream" /\ cmd.info /\ pc' = "exited"
            \/ tool = "vphilox_stream" /\ ~cmd.info /\ pc' = "signal"
            \/ tool = "vphilox_testu01" /\ pc' = "battery"
  <2>1. CASE StreamReady
    BY <1>1, <2>1 DEF StreamReady, Exit
  <2>2. CASE BatteryReady
    BY <1>1, <2>2 DEF BatteryReady, Exit
  <2> QED BY <2>1, <2>2
<1>4. Resolved = (IF cmd.env \in Backends THEN cmd.env ELSE Best) /\ Resolved # "none"
  BY <1>1, ToolAssumption DEF Resolved
<1>5. OptionPlaces' = OptionPlaces /\ \A k : After(k)' = After(k)
  BY <1>1 DEF OptionPlaces, After, Valued
<1>6. Walked'
  <2>1. i = Len(argv) + 1
    <3>1. Len(argv) \in Nat
      BY LenProperties DEF IInv, Types
    <3> QED BY <1>1, <3>1 DEF IInv, Types
  <2>2. pc' # "options"
    BY <1>3
  <2> QED BY <1>1, <1>5, <2>1, <2>2 DEF IInv, Walked
<1>7. Followed'
  <2>1. \A o : Passed(o)' = Passed(o)
    BY <1>1, <1>5 DEF Passed
  <2> QED BY <1>1, <1>2, <1>3, <1>4, <2>1 DEF IInv, Followed, ParseSize, Phases
<1>8. Types'
  BY <1>1, <1>2, <1>3 DEF IInv, Types, Running
<1>9. Phases'
  <2>1. pc' \in {"exited", "signal", "battery"}
    BY <1>3
  <2>2. pc' = "signal" => tool = "vphilox_stream" /\ ~cmd.info
    BY <1>3 DEF IInv, Types, Tools
  <2>3. pc' = "battery" => tool = "vphilox_testu01"
    BY <1>3
  <2>4. pc' \in Running => kernel' # "none"
    BY <1>3, <1>4 DEF Running
  <2>5. status' # 0 => pc' = "exited"
    BY <1>3
  <2> QED BY <1>1, <1>2, <2>1, <2>2, <2>3, <2>4, <2>5 DEF IInv, Phases, Running
<1>10. InOrder'
  BY <1>1, <1>2 DEF IInv, InOrder, BytesOf
<1>11. Counted'
  <2>1. pc' \in {"signal", "battery"} \/ kernel' = "none" \/ cmd'.info
    BY <1>1, <1>3
  <2>2. written' = 0
    BY <1>1 DEF IInv, Counted
  <2>3. pc' \notin {"loop", "fwrite", "fflush"}
    BY <1>3
  <2>4. limit' # 0 => position' * WordBytes <= limit'
    BY <1>1, <1>2 DEF IInv, Counted
  <2> QED BY <2>1, <2>2, <2>3, <2>4 DEF Counted
<1> QED BY <1>6, <1>7, <1>8, <1>9, <1>10, <1>11 DEF IInv

---------------------------------------------------------------------------
(* The stream. *)

\* The signal is ignored, and the loop entered with nothing generated.
LEMMA IgnoreSignalStep == IInv /\ IgnoreSignal => IInv'
<1> SUFFICES ASSUME IInv, IgnoreSignal PROVE IInv'
  OBVIOUS
<1>1. /\ UNCHANGED <<line, written, position, status, stdio, pipe, consumer>>
      /\ pc = "signal" /\ pc' = "loop"
  BY DEF IgnoreSignal
<1>2. UNCHANGED <<tool, argv, i, cmd, kernel, received, closed, limit, Out>>
  BY <1>1 DEF line, consumer, limit, Out
<1>3. Walked' /\ Followed'
  BY <1>1, LineKept DEF IInv, Running
<1>4. position = 0 /\ written = 0
  BY <1>1 DEF IInv, Phases, Counted, Types
<1>5. Types' /\ Phases'
  BY <1>1, <1>2, <1>4 DEF IInv, Types, Phases, Running
<1>6. InOrder'
  BY <1>1, <1>2 DEF IInv, InOrder, BytesOf
<1>7. Counted'
  <2>1. 0 * WordBytes = 0
    BY Widths
  <2> QED BY <1>1, <1>2, <1>4, <2>1 DEF IInv, Counted
<1> QED BY <1>3, <1>5, <1>6, <1>7 DEF IInv

\* More words are more bytes.
LEMMA MoreBytes ==
  ASSUME NEW a \in Nat, NEW b \in Nat, a <= b
  PROVE  a * WordBytes <= b * WordBytes
<1>1. PICK d \in Nat : b = a + d
  <2>1. b - a \in Nat /\ b = a + (b - a)
    OBVIOUS
  <2> QED BY <2>1
<1>2. b * WordBytes = a * WordBytes + d * WordBytes
  BY <1>1, Widths
<1>3. a * WordBytes \in Nat /\ d * WordBytes \in Nat
  BY Widths, ProductType
<1> QED BY <1>2, <1>3

\* A chunk is cut to what remains of the limit, and none is left at its last whole word.
LEMMA ChunkFits ==
  ASSUME IInv
  PROVE  /\ pc = "loop" => WordsToWrite \in Nat
         /\ pc = "loop" /\ limit # 0 =>
              /\ position * WordBytes + WordsToWrite * WordBytes <= limit
              /\ WordsToWrite = 0 => position = limit \div WordBytes
<1> SUFFICES ASSUME pc = "loop"
             PROVE  /\ WordsToWrite \in Nat
                    /\ limit # 0 =>
                         /\ position * WordBytes + WordsToWrite * WordBytes <= limit
                         /\ WordsToWrite = 0 => position = limit \div WordBytes
  OBVIOUS
<1>1. CASE limit = 0
  BY <1>1, Widths DEF WordsToWrite
<1>2. CASE limit # 0
  <2> DEFINE done      == position * WordBytes
             left      == limit - written
             remaining == (limit - written) \div WordBytes
             over      == (limit - written) % WordBytes
  <2>1. /\ done \in Nat /\ done <= limit /\ written = done /\ limit \in Nat /\ position \in Nat
    BY <1>2, Widths, ProductType DEF IInv, Counted, Types
  <2>2. left \in Nat
    BY <2>1
  <2>3. left = WordBytes * remaining + over /\ over \in 0 .. WordBytes - 1 /\ remaining \in Int
    <3> HIDE DEF done
    <3>1. limit - written \in Int
      BY <2>2
    <3> QED BY <3>1, Widths, TwoIsABase, Binary!DivisionTheorem
  <2>4. remaining \in Nat
    BY <2>2, Widths
  <2>5. WordsToWrite \in Nat /\ WordsToWrite <= remaining
    BY <1>2, <2>4, Widths DEF WordsToWrite
  <2>6. WordsToWrite = 0 => remaining = 0
    BY <1>2, <2>4, Widths DEF WordsToWrite
  <2>7. WordsToWrite * WordBytes <= remaining * WordBytes
    BY <2>4, <2>5, MoreBytes
  <2>8. limit = done + left /\ over \in Nat /\ over < WordBytes
    BY <2>1, <2>2, <2>3, Widths
  <2> HIDE DEF remaining, over, left
  <2>9. remaining * WordBytes = WordBytes * remaining
    BY <2>4, Widths
  <2>10. /\ WordsToWrite * WordBytes \in Nat /\ WordBytes * remaining \in Nat
    BY <2>4, <2>5, Widths, ProductType
  <2> HIDE DEF done
  <2>11. done + WordsToWrite * WordBytes <= limit
    BY <2>1, <2>2, <2>3, <2>7, <2>8, <2>9, <2>10
  <2>12. ASSUME WordsToWrite = 0 PROVE position = limit \div WordBytes
    <3>1. WordBytes * remaining = 0
      BY <2>6, <2>12, Widths
    <3>2. limit = WordBytes * position + over
      <4>1. limit = done + over
        BY <2>1, <2>3, <2>8, <3>1
      <4>2. done = WordBytes * position
        BY <2>1, Widths DEF done
      <4> QED BY <4>1, <4>2
    <3>3. limit \in Int /\ position \in Int /\ over \in Int /\ 0 <= over
      BY <2>1, <2>8
    <3> QED BY <2>8, <3>2, <3>3, Widths, TwoIsABase, Binary!DivisionCompute
  <2> QED BY <2>5, <2>11, <2>12 DEF done
<1> QED BY <1>1, <1>2

\* A chunk is generated where the last one ended, and put behind what is there.
LEMMA ProduceStep == IInv /\ Produce => IInv'
<1> SUFFICES ASSUME IInv, Produce PROVE IInv'
  OBVIOUS
<1>1. /\ UNCHANGED <<line, written, status, ignored, pipe, consumer>>
      /\ pc = "loop" /\ pc' = "fwrite" /\ WordsToWrite > 0
      /\ stdio' = stdio \o BytesOf(position, WordsToWrite)
      /\ position' = position + WordsToWrite
  BY DEF Produce
<1>2. UNCHANGED <<tool, argv, i, cmd, kernel, received, closed, limit>>
  BY <1>1 DEF line, consumer, limit
<1>3. WordsToWrite \in Nat /\ WordsToWrite' = WordsToWrite /\ position \in Nat
  BY <1>1, <1>2, ChunkFits DEF WordsToWrite, IInv, Types
<1>4. Walked' /\ Followed'
  BY <1>1, LineKept DEF IInv, Running
<1>5. BytesOf(position, WordsToWrite) \in Seq(Bytes)
  BY <1>3, BytesOfType
<1>6. stdio' \in Seq(Bytes) /\ Out' = Out \o BytesOf(position, WordsToWrite)
  <2>1. received \in Seq(Bytes) /\ pipe \in Seq(Bytes) /\ stdio \in Seq(Bytes)
    BY DEF IInv, Types
  <2>2. received \o pipe \in Seq(Bytes)
    BY <2>1, ConcatProperties
  <2>3. stdio' \in Seq(Bytes)
    BY <1>1, <1>5, <2>1, ConcatProperties
  <2>4. Out' = (received \o pipe) \o (stdio \o BytesOf(position, WordsToWrite))
    BY <1>1, <1>2 DEF Out
  <2>5. ((received \o pipe) \o stdio) \o BytesOf(position, WordsToWrite)
          = (received \o pipe) \o (stdio \o BytesOf(position, WordsToWrite))
    BY <1>5, <2>1, <2>2, Associates
  <2> QED BY <2>3, <2>4, <2>5 DEF Out
<1>7. Types'
  BY <1>1, <1>2, <1>3, <1>6 DEF IInv, Types, Running
<1>8. Phases'
  BY <1>1, <1>2 DEF IInv, Phases, Running
<1>9. InOrder'
  <2>1. Out' = BytesOf(0, position) \o BytesOf(position, WordsToWrite)
    BY <1>6 DEF IInv, InOrder
  <2>2. Out' = BytesOf(0, position + WordsToWrite)
    BY <1>3, <2>1, BytesAdd
  <2> QED BY <1>1, <2>2 DEF InOrder, BytesOf
<1>10. Counted'
  <2>1. (position + WordsToWrite) * WordBytes = position * WordBytes + WordsToWrite * WordBytes
    BY <1>3, Widths
  <2>2. limit # 0 => /\ position * WordBytes + WordsToWrite * WordBytes <= limit
                     /\ written = position * WordBytes
    BY <1>1, ChunkFits DEF IInv, Counted
  <2> QED BY <1>1, <1>2, <1>3, <2>1, <2>2 DEF Counted
<1> QED BY <1>4, <1>7, <1>8, <1>9, <1>10 DEF IInv

\* The loop ends at the last whole word of the limit.
LEMMA LoopEndsStep == IInv /\ LoopEnds => IInv'
<1> SUFFICES ASSUME IInv, LoopEnds PROVE IInv'
  OBVIOUS
<1>1. /\ UNCHANGED <<line, program, stdio, pipe, consumer>>
      /\ pc = "loop" /\ pc' = "fflush" /\ WordsToWrite = 0
  BY DEF LoopEnds
<1>2. UNCHANGED <<tool, argv, i, cmd, kernel, written, position, status, received, closed, limit, Out>>
  BY <1>1 DEF line, program, consumer, limit, Out
<1>3. Walked' /\ Followed'
  BY <1>1, LineKept DEF IInv, Running
<1>4. Types' /\ Phases'
  BY <1>1, <1>2 DEF IInv, Types, Phases, Running
<1>5. InOrder'
  BY <1>1, <1>2 DEF IInv, InOrder, BytesOf
<1>6. Counted'
  BY <1>1, <1>2, ChunkFits DEF IInv, Counted
<1> QED BY <1>3, <1>4, <1>5, <1>6 DEF IInv

\* fwrite returns, and written is what was generated.
LEMMA WrittenStep == IInv /\ Written => IInv'
<1> SUFFICES ASSUME IInv, Written PROVE IInv'
  OBVIOUS
<1>1. /\ UNCHANGED <<line, position, status, ignored, stdio, pipe, consumer>>
      /\ pc = "fwrite" /\ pc' = "loop"
      /\ written' = IF limit = 0 THEN 0 ELSE written + (WordsToWrite * WordBytes)
  BY DEF Written
<1>2. UNCHANGED <<tool, argv, i, cmd, kernel, received, closed, limit, Out>>
  BY <1>1 DEF line, consumer, limit, Out
<1>3. Walked' /\ Followed'
  BY <1>1, LineKept DEF IInv, Running
<1>4. limit # 0 => written' = position * WordBytes
  BY <1>1 DEF IInv, Counted
<1>5. position * WordBytes \in Nat
  BY Widths, ProductType DEF IInv, Types
<1>6. Types' /\ Phases'
  BY <1>1, <1>2, <1>4, <1>5 DEF IInv, Types, Phases, Running
<1>7. InOrder'
  BY <1>1, <1>2 DEF IInv, InOrder, BytesOf
<1>8. Counted'
  BY <1>1, <1>2, <1>4 DEF IInv, Counted
<1> QED BY <1>3, <1>6, <1>7, <1>8 DEF IInv

\* A run ends: flushed, with its consumer gone, or with its battery done.
LEMMA EndStep == IInv /\ (Flushed \/ WriteFails \/ BatteryDone) => IInv'
<1> SUFFICES ASSUME IInv, Flushed \/ WriteFails \/ BatteryDone PROVE IInv'
  OBVIOUS
<1>1. /\ UNCHANGED <<line, written, position, ignored, stdio, pipe, consumer>>
      /\ pc \in {"fwrite", "fflush", "battery"} /\ pc' = "exited" /\ status' \in {0, Killed}
      /\ (pc = "fflush" /\ stdio = <<>>) \/ closed \/ pc = "battery"
  BY DEF Flushed, WriteFails, BatteryDone, Writing, Exit
<1>2. UNCHANGED <<tool, argv, i, cmd, kernel, received, closed, limit, Out>>
  BY <1>1 DEF line, consumer, limit, Out
<1>3. Walked' /\ Followed'
  BY <1>1, LineKept DEF IInv, Running
<1>4. Types' /\ Phases'
  BY <1>1, <1>2 DEF IInv, Types, Phases, Running, Killed
<1>5. InOrder'
  BY <1>1, <1>2 DEF IInv, InOrder, BytesOf
<1>6. Counted'
  <2>1. pc = "battery" => limit = 0
    BY DEF IInv, Phases
  <2> QED BY <1>1, <1>2, <2>1 DEF IInv, Counted
<1> QED BY <1>3, <1>4, <1>5, <1>6 DEF IInv

\* Bytes that move from the C library's buffer to the pipe stay in their order.
LEMMA MoveOut ==
  ASSUME received \in Seq(Bytes), pipe \in Seq(Bytes), stdio \in Seq(Bytes),
         NEW n \in 1 .. Len(stdio), UNCHANGED received,
         pipe' = pipe \o SubSeq(stdio, 1, n), stdio' = SubSeq(stdio, n + 1, Len(stdio))
  PROVE  pipe' \in Seq(Bytes) /\ stdio' \in Seq(Bytes) /\ Out' = Out
<1> DEFINE x == SubSeq(stdio, 1, n)
           y == SubSeq(stdio, n + 1, Len(stdio))
<1>1. Len(stdio) \in Nat /\ \A j \in 1 .. Len(stdio) : stdio[j] \in Bytes
  BY LenProperties, ElementOfSeq
<1>2. x \in Seq(Bytes) /\ y \in Seq(Bytes)
  <2>1. \A j \in 1 .. n : stdio[j] \in Bytes
    BY <1>1
  <2>2. \A j \in n + 1 .. Len(stdio) : stdio[j] \in Bytes
    BY <1>1
  <2>3. 1 \in Int /\ n \in Int /\ n + 1 \in Int /\ Len(stdio) \in Int
    BY <1>1
  <2>4. x \in Seq(Bytes)
    BY <2>1, <2>3, SubSeqProperties
  <2>5. y \in Seq(Bytes)
    BY <2>2, <2>3, SubSeqProperties
  <2> QED BY <2>4, <2>5
<1>3. x \o y = stdio
  <2>1. /\ 1 \in 1 .. Len(stdio) + 1 /\ n \in 1 - 1 .. Len(stdio) /\ Len(stdio) \in n .. Len(stdio)
    BY <1>1
  <2>2. x \o y = SubSeq(stdio, 1, Len(stdio))
    BY <2>1, ConcatAdjacentSubSeq
  <2> QED BY <2>2, SubSeqFull
<1> HIDE DEF x, y
<1>4. pipe \o x \in Seq(Bytes)
  BY <1>2, ConcatProperties
<1>5. received \o pipe \in Seq(Bytes)
  BY ConcatProperties
<1>6. (received \o pipe) \o x = received \o (pipe \o x)
  BY <1>2, Associates
<1>7. ((received \o pipe) \o x) \o y = (received \o pipe) \o (x \o y)
  BY <1>2, <1>5, Associates
<1>8. Out' = (received \o (pipe \o x)) \o y
  BY DEF Out, x, y
<1>9. Out' = (received \o pipe) \o stdio
  BY <1>3, <1>6, <1>7, <1>8
<1>10. pipe' \in Seq(Bytes) /\ stdio' \in Seq(Bytes)
  BY <1>2, <1>4 DEF x, y
<1> QED BY <1>9, <1>10 DEF Out

\* Bytes leave the C library's buffer for the pipe.
LEMMA WriteOutStep == IInv /\ WriteOut => IInv'
<1> SUFFICES ASSUME IInv, WriteOut PROVE IInv'
  OBVIOUS
<1>1. UNCHANGED <<line, program, pc, consumer>> /\ pc \in {"fwrite", "fflush"} /\ ~closed
  BY DEF WriteOut, Writing
<1>2. PICK n \in 1 .. Len(stdio) :
        /\ pipe' = pipe \o SubSeq(stdio, 1, n)
        /\ stdio' = SubSeq(stdio, n + 1, Len(stdio))
  BY DEF WriteOut
<1>3. UNCHANGED <<tool, argv, i, cmd, kernel, written, position, status, received, closed, limit>>
  BY <1>1 DEF line, program, consumer, limit
<1>4. Walked' /\ Followed'
  BY <1>1, LineKept DEF IInv, Running
<1>5. pipe' \in Seq(Bytes) /\ stdio' \in Seq(Bytes) /\ Out' = Out
  <2>1. received \in Seq(Bytes) /\ pipe \in Seq(Bytes) /\ stdio \in Seq(Bytes)
    BY DEF IInv, Types
  <2> QED BY <1>2, <1>3, <2>1, MoveOut
<1>6. Types' /\ Phases'
  BY <1>1, <1>3, <1>5 DEF IInv, Types, Phases, Running
<1>7. InOrder'
  BY <1>3, <1>5 DEF IInv, InOrder, BytesOf
<1>8. Counted'
  BY <1>1, <1>3 DEF IInv, Counted, WordsToWrite
<1> QED BY <1>4, <1>6, <1>7, <1>8 DEF IInv

---------------------------------------------------------------------------
(* The battery and the consumer. *)

\* The battery asks for the next word.
LEMMA NextBitsStep == IInv /\ NextBits => IInv'
<1> SUFFICES ASSUME IInv, NextBits PROVE IInv'
  OBVIOUS
<1>1. /\ UNCHANGED <<line, written, status, ignored, pc, stdio, pipe, appetite, closed>>
      /\ pc = "battery"
      /\ received' = received \o BytesOf(position, 1)
      /\ position' = position + 1
  BY DEF NextBits
<1>2. UNCHANGED <<tool, argv, i, cmd, kernel, limit>>
  BY <1>1 DEF line, limit
<1>3. tool = "vphilox_testu01" /\ pipe = <<>> /\ stdio = <<>> /\ limit = 0 /\ position \in Nat
  BY <1>1 DEF IInv, Phases, Types
<1>4. Walked' /\ Followed'
  BY <1>1, LineKept DEF IInv, Running
<1>5. BytesOf(position, 1) \in Seq(Bytes) /\ received \in Seq(Bytes)
  BY <1>3, BytesOfType DEF IInv, Types
<1>6. received' \in Seq(Bytes)
  BY <1>1, <1>5, ConcatProperties
<1>7. Out = received /\ Out' = received'
  <2>1. \A S : \A s \in Seq(S) : s \o <<>> = s
    BY ConcatEmptySeq
  <2>2. (received \o <<>>) \o <<>> = received /\ (received' \o <<>>) \o <<>> = received'
    BY <1>5, <1>6, <2>1
  <2> QED BY <1>1, <1>3, <2>2 DEF Out
<1>8. Types' /\ Phases'
  BY <1>1, <1>2, <1>3, <1>6 DEF IInv, Types, Phases, Running
<1>9. InOrder'
  <2>1. Out' = BytesOf(0, position + 1)
    BY <1>1, <1>3, <1>7, BytesAdd DEF IInv, InOrder
  <2> QED BY <1>1, <2>1 DEF InOrder, BytesOf
<1>10. Counted'
  BY <1>1, <1>2, <1>3 DEF IInv, Counted
<1> QED BY <1>4, <1>8, <1>9, <1>10 DEF IInv

\* The consumer reads a byte.
LEMMA ReadStep == IInv /\ Read => IInv'
<1> SUFFICES ASSUME IInv, Read PROVE IInv'
  OBVIOUS
<1>1. /\ UNCHANGED <<line, program, pc, stdio, appetite, closed>>
      /\ pipe # <<>>
      /\ received' = Append(received, Head(pipe)) /\ pipe' = Tail(pipe)
  BY DEF Read
<1>2. UNCHANGED <<tool, argv, i, cmd, kernel, written, position, status, limit>>
  BY <1>1 DEF line, program, limit
<1>3. Walked' /\ Followed'
  BY <1>1, LineKept DEF IInv
<1>4. received' \in Seq(Bytes) /\ pipe' \in Seq(Bytes) /\ Out' = Out
  BY <1>1, ReadOne DEF IInv, Types, Out
<1>5. Types' /\ Phases'
  BY <1>1, <1>2, <1>4 DEF IInv, Types, Phases, Running
<1>6. InOrder'
  BY <1>2, <1>4 DEF IInv, InOrder, BytesOf
<1>7. Counted'
  BY <1>1, <1>2 DEF IInv, Counted, WordsToWrite
<1> QED BY <1>3, <1>5, <1>6, <1>7 DEF IInv

\* The consumer closes the pipe, or nothing happens.
LEMMA CloseStep == IInv /\ (Close \/ UNCHANGED vars) => IInv'
<1> SUFFICES ASSUME IInv, Close \/ UNCHANGED vars PROVE IInv'
  OBVIOUS
<1>1. UNCHANGED <<line, program, pc, stdio, pipe, received, appetite>> /\ (closed' \/ UNCHANGED closed)
  BY DEF Close, vars, consumer
<1>2. UNCHANGED <<tool, argv, i, cmd, kernel, written, position, status, limit, Out>>
  BY <1>1 DEF line, program, limit, Out
<1>3. Walked' /\ Followed'
  BY <1>1, LineKept DEF IInv
<1>4. Types' /\ Phases'
  BY <1>1, <1>2 DEF IInv, Types, Phases, Running
<1>5. InOrder'
  BY <1>2 DEF IInv, InOrder, BytesOf
<1>6. Counted'
  BY <1>1, <1>2 DEF IInv, Counted, WordsToWrite
<1> QED BY <1>3, <1>4, <1>5, <1>6 DEF IInv

\* Every step keeps the invariant.
LEMMA NextStep == IInv /\ [Next]_vars => IInv'
BY ValueOptionStep, InfoStep, RefusedStep, ReadyStep, IgnoreSignalStep, ProduceStep,
   LoopEndsStep, WrittenStep, EndStep, WriteOutStep, NextBitsStep, ReadStep, CloseStep
   DEF Next, ToolStep, ConsumerStep, Terminated

---------------------------------------------------------------------------

(***************************************************************************)
(* The inductive invariant: the options are walked without their values,   *)
(* everything generated is somewhere between the engine and the consumer,  *)
(* and written never passes the limit.  (vphilox_stream.cpp 91-195,        *)
(* vphilox_testu01.cpp 34-99)                                              *)
(***************************************************************************)
THEOREM ToolInvariant == Spec => []IInv
BY InitInv, NextStep, PTL DEF Spec

\* What has left the program is the stream, from its first word and in order.
THEOREM StreamIsWritten == Spec => []OutputIsStream
<1>1. IInv => OutputIsStream
  <2> SUFFICES ASSUME IInv PROVE OutputIsStream
    OBVIOUS
  <2>1. Out = BytesOf(0, position)
    BY DEF IInv, InOrder
  <2>2. IsPrefix(Out, Out)
    <3>1. Len(Out) \in Nat
      BY <2>1, Widths, ProductType, BytesOfType DEF IInv, Types
    <3> QED BY <3>1 DEF IsPrefix
  <2>3. status = 2 \/ cmd.info \/ pc = "options" => position = 0
    BY DEF IInv, Phases, Types
  <2> QED BY <2>1, <2>2, <2>3 DEF OutputIsStream, Out
<1> QED BY <1>1, ToolInvariant, PTL

\* Among finitely many places there is a last one.
LEMMA LastPlace ==
  ASSUME NEW n \in Nat, NEW S \in SUBSET (1 .. n), S # {}
  PROVE  \E k \in S : \A m \in S : m <= k
<1> DEFINE T == {n - k : k \in S}
<1>1. T \in SUBSET Nat /\ T # {}
  <2>1. \A k \in S : n - k \in Nat
    OBVIOUS
  <2> QED BY <2>1
<1>2. PICK x \in T : \A y \in T : ~(y < x)
  BY <1>1, TwoIsABase, Binary!LeastNat
<1>3. PICK k \in S : x = n - k
  BY <1>2
<1>4. \A m \in S : ~(n - m < n - k)
  BY <1>2, <1>3
<1> QED BY <1>3, <1>4

\* Once the options are read, LastOf is what the last one passed says, if there is one.
LEMMA LastOfPassed ==
  ASSUME IInv, kernel # "none", NEW o, NEW d,
         Passed(o) # {} => o \in Valued
  PROVE  \/ Passed(o) = {} /\ LastOf(o, d) = d
         \/ \E k \in Passed(o) : (\A m \in Passed(o) : m <= k) /\ LastOf(o, d) = argv[k + 1]
<1> DEFINE places == {j \in OptionPlaces : argv[j] = o /\ j < Len(argv)}
           last   == CHOOSE j \in places : \A k \in places : k <= j
<1>1. Len(argv) \in Nat /\ OptionPlaces \subseteq 1 .. Len(argv) /\ i = Len(argv) + 1
  BY PlacesClosed DEF IInv, Types, Walked
<1>2. places = Passed(o)
  <2>1. \A k \in Passed(o) : k < Len(argv)
    <3> SUFFICES ASSUME NEW k \in Passed(o) PROVE k < Len(argv)
      OBVIOUS
    <3>1. k \in OptionPlaces /\ k < i /\ argv[k] \in Valued
      BY DEF Passed
    <3>2. After(k) = k + 2 /\ After(k) <= i
      BY <3>1 DEF After, IInv, Walked
    <3> QED BY <1>1, <3>1, <3>2
  <2>2. \A k \in OptionPlaces : k < i
    BY <1>1
  <2>3. \A k : k \in places <=> k \in OptionPlaces /\ argv[k] = o /\ k < Len(argv)
    OBVIOUS
  <2>4. \A k : k \in Passed(o) <=> k \in OptionPlaces /\ k < i /\ argv[k] = o
    BY DEF Passed
  <2> HIDE DEF places
  <2>5. \A k : k \in places <=> k \in Passed(o)
    BY <2>1, <2>2, <2>3, <2>4
  <2> QED BY <2>5
<1>3. LastOf(o, d) = IF places = {} THEN d ELSE argv[last + 1]
  BY DEF LastOf
<1>4. ASSUME places # {} PROVE last \in places /\ \A k \in places : k <= last
  <2>1. places \in SUBSET (1 .. Len(argv))
    BY <1>1
  <2> HIDE DEF places
  <2>2. \E j \in places : \A k \in places : k <= j
    BY <1>1, <1>4, <2>1, LastPlace
  <2> QED BY <2>2
<1> HIDE DEF last, places
<1> QED BY <1>2, <1>3, <1>4

\* The backend that runs is the one the last --backend names, if the machine has it.
THEOREM PinIsKept == Spec => []PinIsHonoured
<1>1. IInv => PinIsHonoured
  <2> SUFFICES ASSUME IInv, kernel # "none", NEW pin, pin = LastOf("--backend", cmd.env)
               PROVE  kernel = (IF pin \in Backends THEN pin ELSE Best)
    BY DEF PinIsHonoured
  <2>1. "--backend" \in Valued
    BY DEF Valued
  <2>2. pin = cmd.env
    BY <2>1, LastOfPassed DEF IInv, Followed
  <2> QED BY <2>2 DEF IInv, Followed
<1> QED BY <1>1, ToolInvariant, PTL

\* With a size of 64 bits, the limit in force is the size that was asked for.
LEMMA LimitIsSize ==
  ASSUME IInv, kernel # "none", AsksFor \in 1 .. SizeCount - 1
  PROVE  limit = AsksFor /\ tool = "vphilox_stream"
<1>1. Passed("--bytes") # {} => "--bytes" \in Valued
  BY DEF IInv, Followed, Valued
<1>2. Size \in DOMAIN Sizes /\ AsksFor = Sizes[Size].number * Sizes[Size].factor
  BY DEF AsksFor
<1>3. PICK k \in Passed("--bytes") : (\A m \in Passed("--bytes") : m <= k) /\ Size = argv[k + 1]
  <2>1. Size # ""
    BY <1>2, ToolAssumption
  <2> QED BY <1>1, <2>1, LastOfPassed DEF Size
<1>4. tool = "vphilox_stream" /\ limit = ParseSize(Size)
  BY <1>3 DEF IInv, Followed
<1>5. limit = AsksFor % SizeCount
  BY <1>2, <1>4 DEF ParseSize
<1>6. AsksFor \in 0 .. SizeCount - 1
  BY Widths
<1>7. AsksFor % SizeCount = AsksFor
  BY <1>6, Widths, TwoIsABase, Binary!ModSmall
<1> QED BY <1>4, <1>5, <1>7

\* A limit is never passed, and delivered unless the consumer leaves first.
THEOREM LimitHolds == Spec => []LimitIsKept
<1>1. IInv => LimitIsKept
  <2> SUFFICES ASSUME IInv, AsksFor \in 1 .. SizeCount - 1
               PROVE  /\ Len(Out) <= AsksFor
                      /\ pc = "exited" /\ kernel # "none" /\ ~cmd.info /\ ~closed =>
                           Len(received \o pipe) = (AsksFor \div WordBytes) * WordBytes
    BY DEF LimitIsKept, Out
  <2>1. Len(Out) = position * WordBytes /\ position \in Nat
    BY BytesOfType DEF IInv, Types, InOrder
  <2>2. Len(Out) <= AsksFor
    <3>1. CASE position = 0
      <4>1. 0 * WordBytes = 0
        BY Widths
      <4> QED BY <2>1, <3>1, <4>1, Widths
    <3>2. CASE position > 0
      <4>1. kernel # "none"
        BY <3>2 DEF IInv, Phases
      <4>2. limit = AsksFor
        BY <4>1, LimitIsSize
      <4> QED BY <2>1, <4>2, Widths DEF IInv, Counted
    <3> QED BY <2>1, <3>1, <3>2
  <2>3. ASSUME pc = "exited", kernel # "none", ~cmd.info, ~closed
        PROVE  Len(received \o pipe) = (AsksFor \div WordBytes) * WordBytes
    <3>1. limit = AsksFor
      BY <2>3, LimitIsSize
    <3>2. stdio = <<>> /\ position = AsksFor \div WordBytes
      BY <2>3, <3>1, Widths DEF IInv, Counted
    <3>3. received \o pipe \in Seq(Bytes)
      BY ConcatProperties DEF IInv, Types
    <3>4. Out = received \o pipe
      BY <3>2, <3>3, ConcatEmptySeq DEF Out
    <3> QED BY <2>1, <3>2, <3>4
  <2> QED BY <2>2, <2>3
<1> QED BY <1>1, ToolInvariant, PTL
=============================================================================
