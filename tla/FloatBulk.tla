----------------------------- MODULE FloatBulk -----------------------------
(***************************************************************************)
(* generate_n of basic_engine for floats (include/vphilox/philox.hpp): the *)
(* request is cut into tiles, each filled by generate_n for words and then *)
(* converted.  The engine, its loop and the array it fills are those of    *)
(* Engine; that array is here the tile on the stack, which no tile clears: *)
(* what an earlier tile left in it is still there.                         *)
(***************************************************************************)
EXTENDS Engine, FloatCast

CONSTANTS
  TileWords,  \* float_tile_words (256 in the code)
  MaxFloats   \* largest count a caller passes

ASSUME FloatAssumption ==
  /\ TileWords \in 1 .. MaxRequest
  /\ MaxFloats \in Nat \ {0}
  /\ Word = 0 .. WordCount - 1
  /\ Untouched \notin 0 .. FloatGrid

VARIABLES
  floats,  \* the array at dst, with one cell past the largest request
  done,    \* how far dst has been advanced
  want     \* the count the caller passed

result == <<floats, done, want>>
fvars  == <<vars, result>>

NoFloats == [i \in 0 .. MaxFloats |-> Untouched]

FInit ==
  /\ Init
  /\ floats = NoFloats
  /\ done = 0
  /\ want = 0

\* Between the calls the engine is moved; reading n words moves it as discard(n) does.
Between ==
  /\ want = 0
  /\ \E n \in Skips : DoDiscard(n)
  /\ UNCHANGED result

\* next_float().
NextFloat ==
  /\ want = 0
  /\ eng' = AfterCall(eng)
  /\ floats' = [NoFloats EXCEPT ![0] = ToFloat01(CallWord(eng))]
  /\ done' = 1 /\ want' = 1
  /\ UNCHANGED <<pc, caller, refills>>

\* The caller asks for floats.
FAsk(n) ==
  /\ want = 0
  /\ want' = n
  /\ UNCHANGED <<vars, floats, done>>

\* generate_n(tile, min(count, float_tile_words)).
Tile ==
  /\ done < want
  /\ Generate(IF want - done < TileWords THEN want - done ELSE TileWords)
  /\ UNCHANGED result

Fill == Step /\ UNCHANGED result

\* to_float01_n, the same loop whatever it is compiled for: n words of src to dst.
Converted(src, n) ==
  [i \in 0 .. MaxFloats |-> IF i \in done .. done + n - 1 THEN ToFloat01(src[i - done]) ELSE floats[i]]

\* Mutant: a whole tile is converted, and dst moved on by it.
Convert_WholeTile ==
  /\ pc = "idle"
  /\ asked # 0
  /\ floats' = Converted(mem, TileWords)
  /\ done' = IF want - done < TileWords THEN want ELSE done + TileWords
  /\ at' = 0 /\ asked' = 0 /\ refills' = 0
  /\ UNCHANGED <<eng, pc, mem, want>>

\* convert(tile, dst, n), and the end of the turn.
Convert ==
  /\ pc = "idle"
  /\ asked # 0
  /\ floats' = Converted(mem, asked)
  /\ done' = done + asked
  /\ at' = 0 /\ asked' = 0 /\ refills' = 0
  /\ UNCHANGED <<eng, pc, mem, want>>

\* The caller uses the floats; what the tile holds is unknown to the next call.
FTake ==
  /\ want # 0
  /\ done = want
  /\ asked = 0
  /\ floats' = NoFloats
  /\ done' = 0
  /\ want' = 0
  /\ mem' = Fresh
  /\ UNCHANGED <<eng, pc, at, asked, refills>>

FStep == Tile \/ Fill \/ Convert

FNext ==
  \/ Between
  \/ NextFloat
  \/ \E n \in 0 .. MaxFloats : FAsk(n)
  \/ FStep
  \/ FTake

FSpec == FInit /\ [][FNext]_fvars /\ WF_fvars(FStep)

---------------------------------------------------------------------------

FloatWord(k, p) == ToFloat01(StreamWord(k, p))

\* The words in the tile have left the engine and not reached the caller yet.
Floats == INSTANCE Stream WITH
  StreamWord <- FloatWord, MaxRequest <- MaxFloats,
  key <- eng.key, pos <- (Position(eng) - at) % Period,
  mem <- floats, at <- done, asked <- want

(***************************************************************************)
(* A float request, and next_float(), hand out the conversions of          *)
(* consecutive stream words, each once and in order, across the seams of   *)
(* the tiles; a request writes nothing past its end and leaves the engine  *)
(* behind the last word used, as that many next_float() calls would.       *)
(* (philox.hpp 188-219, float_bulk.hpp 47-84, float_cast.hpp 30-34)        *)
(***************************************************************************)
FloatsAreStream == Floats!Spec

(***************************************************************************)
(* The tile is wide enough "so the generating half always takes the direct *)
(* path" (philox.hpp 63-67): a full tile goes to the kernel before any     *)
(* refill, however much was buffered.                                      *)
(***************************************************************************)
FullTileGoesDirect ==
  /\ TileWords >= RefillWords + (PreferredBlocks * BlockWords)
  /\ asked = TileWords
  => /\ pc = "wide" /\ refills = 0 => WideEnough
     /\ pc = "drain" /\ refills > 0 => left < BlockWords

\* A float request is served: every tile brings it nearer to its end.
FloatsAreServed == done < want ~> done = want
=============================================================================
