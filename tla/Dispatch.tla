----------------------------- MODULE Dispatch -----------------------------
(***************************************************************************)
(* Which kernel an engine runs (include/vphilox: config.hpp, and in detail *)
(* cpu_features.hpp, dispatch.hpp, float_bulk.hpp).                        *)
(*                                                                         *)
(* Three kinds of function-local static hold the answers: the CPU features *)
(* (detect_cpu), one dispatch_entry per instantiation of                   *)
(* resolve_dispatch<Rounds>, and the float converter                       *)
(* (resolve_float_convert).  Initialising one of them calls for another.   *)
(* Any thread may be the first to ask; the language runs an initialiser    *)
(* once and makes other callers of the same static wait for it.            *)
(***************************************************************************)
EXTENDS Integers, Sequences

\* What a build may switch off, XCR0 may hold and leaf 7 may report.
Switches  == {"force_scalar", "no_avx512", "no_avx2", "no_neon"}
Xcr0Bits  == {"sse", "avx", "opmask", "zmm_hi256", "hi16_zmm"}
Leaf7Bits == {"avx2", "avx512f", "avx512dq"}

CONSTANTS
  Threads,
  Rounds,         \* the round counts engines are instantiated with
  DefaultRounds,
  Machines,       \* the builds of the program and the machines they are run on
  None            \* what a static holds before it is initialised

ASSUME DispatchAssumption ==
  /\ DefaultRounds \in Rounds
  /\ Rounds \cap {"features", "convert"} = {}
  /\ Threads \cap {"unset", "done"} = {}
  /\ \A m \in Machines :
       m \in [arch : {"x86", "arm64", "other"}, switches : SUBSET Switches, leaves : Nat,
              osxsave : BOOLEAN, xcr0 : SUBSET Xcr0Bits, leaf7 : SUBSET Leaf7Bits]
  /\ None \notin {"scalar", "avx512", "avx2", "neon"}

Backend  == {"scalar", "avx512", "avx2", "neon"}
Statics  == Rounds \cup {"features", "convert"}
EnvValue == Backend \cup {"unset", "unrecognised"}

VARIABLES
  machine,  \* what the program was built and is running on: fixed
  env,      \* VPHILOX_BACKEND
  guard,    \* per static: "unset", "done", or the thread initialising it
  features, \* the static of detect_cpu
  entry,    \* per round count, the static of resolve_dispatch
  convert,  \* the static of resolve_float_convert
  stack     \* per thread: the statics it is asking for, innermost first

values == <<features, entry, convert>>
vars   == <<machine, env, guard, values, stack>>

---------------------------------------------------------------------------
(* The build, the probe and the choice. *)

\* VPHILOX_HAS_*: the kernels compiled in.
Compiled(m) ==
  IF "force_scalar" \in m.switches THEN {}
  ELSE {b \in {"avx2"} : m.arch = "x86" /\ "no_avx2" \notin m.switches}
         \cup {b \in {"avx512"} : m.arch = "x86" /\ "no_avx512" \notin m.switches}
         \cup {b \in {"neon"} : m.arch = "arm64" /\ "no_neon" \notin m.switches}

\* xcr0_ymm_state and xcr0_zmm_state.
YmmState == {"sse", "avx"}
ZmmState == YmmState \cup {"opmask", "zmm_hi256", "hi16_zmm"}

\* Mutant: one bit of the mask is enough.
Preserved_AnyBit(m, state) == m.xcr0 \cap state # {}

\* (xcr & state) == state.
Preserved(m, state) == state \subseteq m.xcr0

\* x86::probe: leaf 7 exists, XGETBV may be executed, the registers are saved.
X86Probe(m) ==
  IF m.leaves < 7 \/ ~m.osxsave THEN {}
  ELSE {b \in {"avx2"} : Preserved(m, YmmState) /\ "avx2" \in m.leaf7}
         \cup {b \in {"avx512"} : Preserved(m, ZmmState) /\ {"avx512f", "avx512dq"} \subseteq m.leaf7}

\* detect_cpu: the vector extensions that may be used.
Probe(m) ==
  CASE m.arch = "x86"   -> X86Probe(m)
    [] m.arch = "arm64" -> {"neon"}
    [] OTHER            -> {}

Available(has, b) == b = "scalar" \/ (b \in Compiled(machine) /\ b \in has)

\* The lambda of resolve_dispatch, pin being the value of VPHILOX_BACKEND.
Select(has, pin) ==
  IF pin \in Backend /\ Available(has, pin) THEN pin
  ELSE IF Available(has, "avx512") THEN "avx512"
  ELSE IF Available(has, "avx2") THEN "avx2"
  ELSE IF Available(has, "neon") THEN "neon" ELSE "scalar"

\* The converter for a backend; "scalar" is the baseline loop.
ConverterOf(b) == IF b \in {"avx512", "avx2"} \cap Compiled(machine) THEN b ELSE "scalar"

---------------------------------------------------------------------------

TypeOK ==
  /\ machine \in Machines
  /\ env \in EnvValue
  /\ guard \in [Statics -> Threads \cup {"unset", "done"}]
  /\ features = None \/ features \in SUBSET Backend
  /\ entry \in [Rounds -> Backend \cup {None}]
  /\ convert \in Backend \cup {None}
  /\ stack \in [Threads -> Seq(Statics)]

Init ==
  /\ machine \in Machines
  /\ env \in EnvValue
  /\ guard = [s \in Statics |-> "unset"]
  /\ features = None
  /\ entry = [r \in Rounds |-> None]
  /\ convert = None
  /\ stack = [t \in Threads |-> <<>>]

\* The program changes its own environment, as the --backend options do.
SetEnv(v) ==
  /\ env' = v
  /\ UNCHANGED <<machine, guard, values, stack>>

\* A thread fills words with engine<s>, or floats (s = "convert").
Ask(t, s) ==
  /\ stack[t] = <<>>
  /\ stack' = [stack EXCEPT ![t] = <<s>>]
  /\ UNCHANGED <<machine, env, guard, values>>

\* Mutant: the probe reports the backend it leads to.
Needs_Cyclic(s) ==
  IF s \in Rounds THEN {"features"} ELSE {DefaultRounds}

\* The statics whose functions the initialiser of s calls.
Needs(s) ==
  IF s \in Rounds THEN {"features"} ELSE IF s = "convert" THEN {DefaultRounds} ELSE {}

Asking(t, s) == stack[t] # <<>> /\ Head(stack[t]) = s

\* The first thread to get here runs the initialiser; later ones wait.
Enter(t, s) ==
  /\ Asking(t, s)
  /\ guard[s] = "unset"
  /\ guard' = [guard EXCEPT ![s] = t]
  /\ UNCHANGED <<machine, env, values, stack>>

\* The initialiser calls the function of another static.
Nest(t, s) ==
  /\ Asking(t, s)
  /\ guard[s] = t
  /\ \E n \in Needs(s) :
       /\ guard[n] # "done"
       /\ stack' = [stack EXCEPT ![t] = <<n>> \o @]
  /\ UNCHANGED <<machine, env, guard, values>>

\* The end of an initialiser, all it asked for being known.
Finish(t, s) ==
  /\ Asking(t, s)
  /\ guard[s] = t
  /\ \A n \in Needs(s) : guard[n] = "done"
  /\ guard' = [guard EXCEPT ![s] = "done"]
  /\ UNCHANGED <<machine, env, stack>>

FillFeatures(t) ==
  /\ Finish(t, "features")
  /\ features' = Probe(machine)
  /\ UNCHANGED <<entry, convert>>

FillEntry(t, r) ==
  /\ Finish(t, r)
  /\ entry' = [entry EXCEPT ![r] = Select(features, env)]
  /\ UNCHANGED <<features, convert>>

\* Mutant: the converter reads the override and the features for itself.
FillConvert_OwnProbe(t) ==
  /\ Finish(t, "convert")
  /\ convert' = ConverterOf(Select(features, env))
  /\ UNCHANGED <<features, entry>>

FillConvert(t) ==
  /\ Finish(t, "convert")
  /\ convert' = ConverterOf(entry[DefaultRounds])
  /\ UNCHANGED <<features, entry>>

\* Mutant: not static, so that the next call initialises again.
Return_NotStatic(t, s) ==
  /\ Asking(t, s)
  /\ guard[s] = "done"
  /\ stack' = [stack EXCEPT ![t] = Tail(@)]
  /\ guard' = [guard EXCEPT ![s] = "unset"]
  /\ UNCHANGED <<machine, env, values>>

Return(t, s) ==
  /\ Asking(t, s)
  /\ guard[s] = "done"
  /\ stack' = [stack EXCEPT ![t] = Tail(@)]
  /\ UNCHANGED <<machine, env, guard, values>>

Step(t) ==
  \/ \E s \in Statics : Enter(t, s) \/ Nest(t, s) \/ Return(t, s)
  \/ \E r \in Rounds : FillEntry(t, r)
  \/ FillFeatures(t)
  \/ FillConvert(t)

Next ==
  \/ \E v \in EnvValue : SetEnv(v)
  \/ \E t \in Threads, s \in Rounds \cup {"convert"} : Ask(t, s)
  \/ \E t \in Threads : Step(t)

Safety == Init /\ [][Next]_vars

\* A thread inside one of these functions is scheduled again and again.
Spec == Safety /\ \A t \in Threads : WF_vars(Step(t))

---------------------------------------------------------------------------

\* What the hardware executes and the OS saves across a context switch.
Runnable(b) ==
  CASE b = "scalar" -> TRUE
    [] b = "avx2"   -> machine.arch = "x86" /\ machine.osxsave
                         /\ machine.leaves >= 7 /\ "avx2" \in machine.leaf7
                         /\ {"sse", "avx"} \subseteq machine.xcr0
    [] b = "avx512" -> machine.arch = "x86" /\ machine.osxsave
                         /\ machine.leaves >= 7 /\ {"avx512f", "avx512dq"} \subseteq machine.leaf7
                         /\ machine.xcr0 = Xcr0Bits
    [] OTHER        -> machine.arch = "arm64"

(***************************************************************************)
(* No engine is ever given a kernel this build lacks, the CPU cannot       *)
(* execute, or whose registers the OS does not preserve, whatever the      *)
(* override names.  (dispatch.hpp 86-136, cpu_features.hpp 96-137)        *)
(***************************************************************************)
OnlyRunnableKernels ==
  \A r \in Rounds : entry[r] # None =>
    /\ entry[r] \in Compiled(machine) \cup {"scalar"}
    /\ Runnable(entry[r])

\* What was resolved stays as it is.
Kept ==
  /\ \A r \in Rounds : entry[r] # None => entry'[r] = entry[r]
  /\ convert # None => convert' = convert

(***************************************************************************)
(* The kernel resolved for a round count is "stable for the process        *)
(* lifetime" (dispatch.hpp 139), however many threads race for the first   *)
(* call and whatever the program does to its environment afterwards.       *)
(***************************************************************************)
ChoiceIsStable == [][Kept]_vars

(***************************************************************************)
(* The float converter belongs to the kernel of the default round count:   *)
(* it can never be wider than the kernel the process reports, however      *)
(* their first uses are interleaved.  (float_bulk.hpp 84-115)              *)
(***************************************************************************)
ConverterFollowsKernel ==
  convert # None =>
    entry[DefaultRounds] # None /\ convert = ConverterOf(entry[DefaultRounds])

(***************************************************************************)
(* Every call returns: no two threads wait for initialisers that wait for  *)
(* each other.  (dispatch.hpp 87-136, float_bulk.hpp 97-115)               *)
(***************************************************************************)
EveryCallReturns == \A t \in Threads : stack[t] # <<>> ~> stack[t] = <<>>

(***************************************************************************)
(* The comment's claim: deriving the converter from active_backend()       *)
(* "guarantees the two can never disagree" (float_bulk.hpp 89-90).  It     *)
(* follows the default round count's kernel; an engine of another round    *)
(* count reads the override anew.                                          *)
(***************************************************************************)
ConverterNeverDisagrees ==
  \A r \in Rounds : convert # None /\ entry[r] # None => convert = ConverterOf(entry[r])
=============================================================================
