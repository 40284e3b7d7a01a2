---------------------------- MODULE StreamTool ----------------------------
(***************************************************************************)
(* The two tools that feed a test battery with the words of one engine.    *)
(* tools/vphilox_stream.cpp writes them to the standard output, usually a  *)
(* pipe that its reader closes when it has seen enough;                    *)
(* tools/vphilox_testu01.cpp is linked with TestU01, whose batteries call  *)
(* back for one word at a time.  Their command lines are read alike.       *)
(*                                                                         *)
(* A byte is the pair of its word's stream position and its place in the   *)
(* word; raw words and floats differ in nothing the properties see.  The   *)
(* C library's buffer and the pipe are external: fwrite appends to the     *)
(* buffer, bytes leave it in order, and the call returns when no more than *)
(* StdioBytes are left in it, or comes up short when the sink refuses.     *)
(***************************************************************************)
EXTENDS Integers, Sequences, SequencesExt

CONSTANTS
  WordBytes,    \* sizeof(u32)
  SizeCount,    \* number of values of a 64-bit size, 2^64 in the code
  ChunkWords,   \* kChunkWords
  StdioBytes,   \* what fwrite may leave in the buffer when it returns
  PipeBytes,    \* capacity of the pipe
  Sizes,        \* the texts that are sizes: each a number and the factor of its suffix
  StreamLines, BatteryLines,   \* the command lines of the two tools
  Backends,     \* the backends available here
  Best,         \* the one chosen without a pin
  Environment,  \* what VPHILOX_BACKEND may hold at the start
  Appetites     \* how many bytes a consumer reads before it has seen enough

ASSUME ToolAssumption ==
  /\ {WordBytes, SizeCount, ChunkWords} \subseteq Nat \ {0}
  /\ {StdioBytes, PipeBytes} \subseteq Nat
  /\ PipeBytes > 0
  /\ StreamLines \cup BatteryLines \subseteq Seq(STRING)
  /\ "" \notin DOMAIN Sizes
  /\ \A t \in DOMAIN Sizes : Sizes[t] \in [number : 0 .. SizeCount - 1, factor : Nat \ {0}]
  /\ Best \in Backends /\ "none" \notin Backends
  /\ Appetites \subseteq Nat

Tools == {"vphilox_stream", "vphilox_testu01"}

VARIABLES
  tool,       \* which of the two is run
  argv,       \* its command line
  i,          \* the argument the loop over it looks at
  cmd,        \* what was set so far: limit (0 is none), format, battery, info, and VPHILOX_BACKEND
  kernel,     \* the backend resolved by the process, or "none"
  written,    \* main's written
  position,   \* words the engine has handed out
  pc,         \* "options", "signal", "loop", "fwrite", "fflush", "battery" or "exited"
  status,     \* what the shell sees when the process is gone
  ignored,    \* SIGPIPE is ignored
  stdio,      \* the bytes in the C library's buffer
  pipe,       \* the bytes in the pipe
  received,   \* the bytes the consumer has read
  appetite, closed

line     == <<tool, argv, i, cmd, kernel>>
program  == <<written, position, status, ignored>>
consumer == <<received, appetite, closed>>
vars     == <<line, program, pc, stdio, pipe, consumer>>
limit    == cmd.limit

\* As the shell reports SIGPIPE.
Killed == 141

TypeOK ==
  /\ tool \in Tools
  /\ i \in 1 .. Len(argv) + 1
  /\ limit \in 0 .. SizeCount - 1
  /\ kernel \in Backends \cup {"none"}
  /\ written \in 0 .. SizeCount - 1
  /\ position \in Nat
  /\ pc \in {"options", "signal", "loop", "fwrite", "fflush", "battery", "exited"}
  /\ status \in {0, 2, Killed}
  /\ ignored \in BOOLEAN
  /\ \A bytes \in {stdio, pipe, received} :
       \A j \in 1 .. Len(bytes) : bytes[j] \in (0 .. position - 1) \X (0 .. WordBytes - 1)
  /\ Len(pipe) <= PipeBytes
  /\ closed \in BOOLEAN

Init ==
  /\ \/ tool = "vphilox_stream" /\ argv \in StreamLines
     \/ tool = "vphilox_testu01" /\ argv \in BatteryLines
  /\ i = 1
  /\ cmd \in [limit : {0}, format : {"raw32"}, battery : {"small"}, info : {FALSE},
               env : Environment]
  /\ kernel = "none"
  /\ written = 0 /\ position = 0
  /\ pc = "options"
  /\ status = 0
  /\ ignored = FALSE
  /\ stdio = <<>> /\ pipe = <<>> /\ received = <<>>
  /\ appetite \in Appetites
  /\ closed = FALSE

Exit(s) == pc' = "exited" /\ status' = s

---------------------------------------------------------------------------
(* The command line. *)

\* The factor of the suffix is applied in 64 bits.
ParseSize(text) == (Sizes[text].number * Sizes[text].factor) % SizeCount

StreamSet(option, v) ==
  [limit   |-> IF option = "--bytes" THEN ParseSize(v) ELSE cmd.limit,
   format  |-> IF option = "--format" THEN v ELSE cmd.format,
   battery |-> cmd.battery,
   info    |-> cmd.info,
   env     |-> IF option = "--backend" THEN v ELSE cmd.env]

BatterySet(option, v) ==
  [limit   |-> cmd.limit,
   format  |-> cmd.format,
   battery |-> IF option = "--battery" THEN v ELSE cmd.battery,
   info    |-> cmd.info,
   env     |-> IF option = "--backend" THEN v ELSE cmd.env]

Valued == IF tool = "vphilox_stream" THEN {"--seed", "--format", "--backend", "--bytes"}
          ELSE {"--seed", "--backend", "--battery"}

InOptions == pc = "options" /\ i <= Len(argv)
IsHelp    == argv[i] \in {"--help", "-h"}
IsInfo    == argv[i] = "--info" /\ tool = "vphilox_stream"
IsValued  == /\ argv[i] \in Valued /\ i < Len(argv)
             /\ argv[i] = "--bytes" => argv[i + 1] \in DOMAIN Sizes

\* An option and its value, whatever the value looks like; only a size is examined.
ValueOption ==
  /\ InOptions
  /\ IsValued
  /\ cmd' = IF tool = "vphilox_stream" THEN StreamSet(argv[i], argv[i + 1])
            ELSE BatterySet(argv[i], argv[i + 1])
  /\ i' = i + 2
  /\ UNCHANGED <<tool, argv, kernel, program, pc, stdio, pipe, consumer>>

\* The backend is resolved once, from the variable's value at that time.
Resolved == IF kernel # "none" THEN kernel
            ELSE IF cmd.env \in Backends THEN cmd.env ELSE Best

\* Mutant: --info reports as soon as it is seen.
Info_ReportsAtOnce ==
  /\ InOptions
  /\ IsInfo
  /\ cmd' = [cmd EXCEPT !.info = TRUE]
  /\ kernel' = Resolved
  /\ i' = i + 1
  /\ UNCHANGED <<tool, argv, program, pc, stdio, pipe, consumer>>

Info ==
  /\ InOptions
  /\ IsInfo
  /\ cmd' = [cmd EXCEPT !.info = TRUE]
  /\ i' = i + 1
  /\ UNCHANGED <<tool, argv, kernel, program, pc, stdio, pipe, consumer>>

Help ==
  /\ InOptions
  /\ IsHelp
  /\ Exit(0)
  /\ UNCHANGED <<line, written, position, ignored, stdio, pipe, consumer>>

\* An unknown option, one without its value, or a size that is none.
BadOption ==
  /\ InOptions
  /\ ~IsHelp /\ ~IsInfo /\ ~IsValued
  /\ Exit(2)
  /\ UNCHANGED <<line, written, position, ignored, stdio, pipe, consumer>>

OptionsRead == pc = "options" /\ i > Len(argv)

\* The format is checked, the engine made, its backend asked for and reported.
StreamReady ==
  /\ OptionsRead
  /\ tool = "vphilox_stream"
  /\ IF cmd.format \notin {"raw32", "float32"} THEN Exit(2) /\ UNCHANGED kernel
     ELSE /\ kernel' = Resolved
          /\ IF cmd.info THEN Exit(0) ELSE pc' = "signal" /\ UNCHANGED status
  /\ UNCHANGED <<tool, argv, i, cmd, written, position, ignored, stdio, pipe, consumer>>

BatteryReady ==
  /\ OptionsRead
  /\ tool = "vphilox_testu01"
  /\ IF cmd.battery \notin {"small", "crush", "big"} THEN Exit(2) /\ UNCHANGED kernel
     ELSE kernel' = Resolved /\ pc' = "battery" /\ UNCHANGED status
  /\ UNCHANGED <<tool, argv, i, cmd, written, position, ignored, stdio, pipe, consumer>>

---------------------------------------------------------------------------
(* vphilox_stream. *)

\* Mutant: the signal keeps its default disposition.
IgnoreSignal_Forgotten ==
  /\ pc = "signal"
  /\ pc' = "loop"
  /\ UNCHANGED <<line, program, stdio, pipe, consumer>>

IgnoreSignal ==
  /\ pc = "signal"
  /\ pc' = "loop"
  /\ ignored' = TRUE
  /\ UNCHANGED <<line, written, position, status, stdio, pipe, consumer>>

\* Mutant: the last chunk is not cut to what remains.
WordsToWrite_WholeChunks ==
  IF limit # 0 /\ (limit - written) \div WordBytes = 0 THEN 0 ELSE ChunkWords

\* How many words this turn of the loop writes; none ends it.
WordsToWrite ==
  LET remaining == (limit - written) \div WordBytes
  IN  IF limit = 0 \/ remaining >= ChunkWords THEN ChunkWords ELSE remaining

BytesOf(first, words) ==
  [j \in 1 .. words * WordBytes |->
     <<first + ((j - 1) \div WordBytes), (j - 1) % WordBytes>>]

\* Mutant: every chunk is generated from the start of the stream.
Produce_EngineInLoop ==
  /\ pc = "loop"
  /\ WordsToWrite > 0
  /\ stdio' = stdio \o BytesOf(0, WordsToWrite)
  /\ position' = position + WordsToWrite
  /\ pc' = "fwrite"
  /\ UNCHANGED <<line, written, status, ignored, pipe, consumer>>

\* The chunk is generated and given to fwrite.
Produce ==
  /\ pc = "loop"
  /\ WordsToWrite > 0
  /\ stdio' = stdio \o BytesOf(position, WordsToWrite)
  /\ position' = position + WordsToWrite
  /\ pc' = "fwrite"
  /\ UNCHANGED <<line, written, status, ignored, pipe, consumer>>

LoopEnds ==
  /\ pc = "loop"
  /\ WordsToWrite = 0
  /\ pc' = "fflush"
  /\ UNCHANGED <<line, program, stdio, pipe, consumer>>

(***************************************************************************)
(* fwrite returns all it was given, and the loop goes round.  Limit and    *)
(* written are what they were when the chunk was cut.  Without a limit     *)
(* nothing reads written: it is kept at 0, a cap on the model.             *)
(***************************************************************************)
Written ==
  /\ pc = "fwrite"
  /\ Len(stdio) <= StdioBytes
  /\ written' = IF limit = 0 THEN 0 ELSE written + (WordsToWrite * WordBytes)
  /\ pc' = "loop"
  /\ UNCHANGED <<line, position, status, ignored, stdio, pipe, consumer>>

\* fflush returns with nothing left, and main with it.
Flushed ==
  /\ pc = "fflush"
  /\ stdio = <<>>
  /\ Exit(0)
  /\ UNCHANGED <<line, written, position, ignored, stdio, pipe, consumer>>

Writing == pc \in {"fwrite", "fflush"} /\ stdio # <<>>

\* The C library writes some of its buffer to the pipe.
WriteOut ==
  /\ Writing
  /\ ~closed
  /\ \E n \in 1 .. Len(stdio) :
       /\ Len(pipe) + n <= PipeBytes
       /\ pipe' = pipe \o SubSeq(stdio, 1, n)
       /\ stdio' = SubSeq(stdio, n + 1, Len(stdio))
  /\ UNCHANGED <<line, program, pc, consumer>>

(***************************************************************************)
(* Nobody reads the pipe any more: SIGPIPE, or a short fwrite that main    *)
(* takes for the end of the run, or an fflush whose failure is not looked  *)
(* at.                                                                     *)
(***************************************************************************)
WriteFails ==
  /\ Writing
  /\ closed
  /\ Exit(IF ignored THEN 0 ELSE Killed)
  /\ UNCHANGED <<line, written, position, ignored, stdio, pipe, consumer>>

---------------------------------------------------------------------------
(* vphilox_testu01. *)

\* The battery calls next_bits.
NextBits ==
  /\ pc = "battery"
  /\ Len(received) < appetite
  /\ received' = received \o BytesOf(position, 1)
  /\ position' = position + 1
  /\ UNCHANGED <<line, written, status, ignored, pc, stdio, pipe, appetite, closed>>

\* The battery returns, and main with it.
BatteryDone ==
  /\ pc = "battery"
  /\ Len(received) >= appetite
  /\ Exit(0)
  /\ UNCHANGED <<line, written, position, ignored, stdio, pipe, consumer>>

---------------------------------------------------------------------------
(* The consumer. *)

Read ==
  /\ ~closed
  /\ Len(received) < appetite
  /\ pipe # <<>>
  /\ received' = Append(received, Head(pipe))
  /\ pipe' = Tail(pipe)
  /\ UNCHANGED <<line, program, pc, stdio, appetite, closed>>

\* It has seen enough, or the pipe has ended.
Close ==
  /\ ~closed
  /\ Len(received) = appetite \/ (pc = "exited" /\ pipe = <<>>)
  /\ closed' = TRUE
  /\ UNCHANGED <<line, program, pc, stdio, pipe, received, appetite>>

ToolStep == \/ ValueOption \/ Info \/ Help \/ BadOption \/ StreamReady \/ BatteryReady
            \/ IgnoreSignal \/ Produce \/ LoopEnds
            \/ Written \/ WriteOut \/ WriteFails \/ Flushed
            \/ NextBits \/ BatteryDone
ConsumerStep == Read \/ Close

Terminated == pc = "exited" /\ closed /\ UNCHANGED vars

Next == ToolStep \/ ConsumerStep \/ Terminated

\* The tool runs, and its consumer reads on until it closes the pipe.
Spec == Init /\ [][Next]_vars /\ WF_vars(ToolStep) /\ WF_vars(ConsumerStep)

---------------------------------------------------------------------------

\* The argument that is looked at after the one at j.
After(j) == IF argv[j] \in Valued THEN j + 2 ELSE j + 1

\* The arguments that are options and not the values of one: the first, and what
\* follows an option and its value, and no other.
OptionPlaces ==
  {j \in 1 .. Len(argv) :
     \A P \in SUBSET (1 .. Len(argv)) :
       /\ 1 \in P
       /\ \A k \in P : After(k) <= Len(argv) => After(k) \in P
       => j \in P}

\* The value of the last of the options o on the command line, or default.
LastOf(o, default) ==
  LET places == {j \in OptionPlaces : argv[j] = o /\ j < Len(argv)}
  IN  IF places = {} THEN default ELSE argv[(CHOOSE j \in places : \A k \in places : k <= j) + 1]

\* The number of bytes the command line asks for, as its writer means it.
Size    == LastOf("--bytes", "")
AsksFor == IF Size \in DOMAIN Sizes THEN Sizes[Size].number * Sizes[Size].factor ELSE 0

(***************************************************************************)
(* What has left the program is the engine's stream from its first word:   *)
(* chunks, or words asked for one by one, follow each other without a gap, *)
(* a repetition or a torn word, wherever writes are cut; a command line    *)
(* that is refused, or only asks, produces none.                           *)
(* (vphilox_stream.cpp 159-192, vphilox_testu01.cpp 34-38)                 *)
(***************************************************************************)
OutputIsStream ==
  /\ IsPrefix(received \o pipe \o stdio, BytesOf(0, position))
  /\ status = 2 \/ cmd.info \/ pc = "options" => position = 0

(***************************************************************************)
(* With a size that fits 64 bits, never more bytes than asked for leave    *)
(* the program, and unless its consumer closes the pipe first it exits     *)
(* having delivered every whole word of them.  A size of 0 is no limit.    *)
(* (vphilox_stream.cpp 160-168, 195)                                       *)
(***************************************************************************)
LimitIsKept ==
  AsksFor \in 1 .. SizeCount - 1 =>
    /\ Len(received \o pipe \o stdio) <= AsksFor
    /\ pc = "exited" /\ kernel # "none" /\ ~cmd.info /\ ~closed =>
         Len(received \o pipe) = (AsksFor \div WordBytes) * WordBytes

(***************************************************************************)
(* --backend goes through the variable the library reads "so there is one  *)
(* override mechanism" (vphilox_stream.cpp 117-118): the backend reported  *)
(* and run is the last one named on the command line, before or after any  *)
(* other option, and whatever the variable held; a name this machine does  *)
(* not have leaves the choice to the library.                              *)
(***************************************************************************)
PinIsHonoured ==
  LET pin == LastOf("--backend", cmd.env)
  IN  kernel # "none" => kernel = (IF pin \in Backends THEN pin ELSE Best)

(***************************************************************************)
(* The process ends, and a finished run reports success, once its consumer *)
(* has closed the pipe, its limit is reached or its battery has returned:  *)
(* it neither spins on a dead pipe nor dies of the signal.                 *)
(* (vphilox_stream.cpp 146-151, 186-190)                                   *)
(***************************************************************************)
ToolExits ==
  pc \in {"signal", "loop", "fwrite", "fflush", "battery"}
    /\ (closed \/ limit # 0 \/ tool = "vphilox_testu01")
    ~> pc = "exited" /\ status = 0
=============================================================================
