-------------------------- MODULE DispatchProofs --------------------------
(***************************************************************************)
(* The safety of Dispatch for any threads, round counts and machines.      *)
(***************************************************************************)
EXTENDS Dispatch, TLAPS

\* A static is done exactly when it holds what its initialiser computes.
Filled ==
  /\ guard["features"] = "done" => features = Probe(machine)
  /\ \A r \in Rounds : guard[r] = "done" <=> entry[r] # None
  /\ guard["convert"] = "done" <=> convert # None

IInv == TypeOK /\ Filled /\ OnlyRunnableKernels /\ ConverterFollowsKernel

\* What the probe reports, the hardware executes and the OS saves.
LEMMA ProbeIsRunnable ==
  ASSUME machine \in Machines, NEW b \in Probe(machine)
  PROVE  Runnable(b) /\ b \in Backend
BY DispatchAssumption
DEF Probe, X86Probe, Preserved, YmmState, ZmmState, Xcr0Bits, Runnable, Backend

\* The choice is a backend of this build that the machine can run.
LEMMA SelectIsRunnable ==
  ASSUME machine \in Machines, NEW pin \in EnvValue
  PROVE  /\ Select(Probe(machine), pin) \in Backend
         /\ Select(Probe(machine), pin) \in Compiled(machine) \cup {"scalar"}
         /\ Runnable(Select(Probe(machine), pin))
<1> DEFINE has == Probe(machine)
           b == Select(has, pin)
<1>1. b \in Backend /\ Available(has, b)
  BY DEF Select, Backend, Available
<1>2. Runnable("scalar")
  BY DEF Runnable
<1>3. b = "scalar" \/ (b \in Compiled(machine) /\ b \in has)
  BY <1>1 DEF Available
<1> QED BY <1>1, <1>2, <1>3, ProbeIsRunnable

\* A converter is named after a backend.
LEMMA ConverterIsBackend ==
  ASSUME NEW b PROVE ConverterOf(b) \in Backend
BY DEF ConverterOf, Backend

\* Nothing is resolved at the start.
LEMMA InitInv == Init => IInv
BY DispatchAssumption
DEF Init, IInv, TypeOK, Filled, OnlyRunnableKernels, ConverterFollowsKernel, Statics, Backend, EnvValue

\* A step that leaves the machine and what the statics hold alone.
LEMMA QuietStep ==
  ASSUME IInv, UNCHANGED <<machine, values>>, env' \in EnvValue,
         guard' \in [Statics -> Threads \cup {"unset", "done"}],
         stack' \in [Threads -> Seq(Statics)],
         \A s \in Statics : guard'[s] = "done" <=> guard[s] = "done"
  PROVE  IInv' /\ Kept
<1>1. "features" \in Statics /\ "convert" \in Statics /\ Rounds \subseteq Statics
  BY DEF Statics
<1>2. TypeOK' /\ Kept
  BY DEF IInv, TypeOK, Kept, values
<1>3. Filled'
  BY <1>1 DEF IInv, Filled, Probe, values
<1>4. OnlyRunnableKernels' /\ ConverterFollowsKernel'
  BY DEF IInv, OnlyRunnableKernels, ConverterFollowsKernel, Runnable, Compiled, ConverterOf, values
<1> QED BY <1>2, <1>3, <1>4 DEF IInv

(* Each step of a thread keeps the invariant and what was resolved. *)

\* A thread that begins an initialiser resolves nothing yet.
LEMMA EnterStep ==
  ASSUME IInv, NEW t \in Threads, NEW s \in Statics, Enter(t, s)
  PROVE  IInv' /\ Kept
<1>1. /\ guard' \in [Statics -> Threads \cup {"unset", "done"}]
      /\ \A q \in Statics : guard'[q] = "done" <=> guard[q] = "done"
  BY DispatchAssumption DEF IInv, TypeOK, Enter
<1> QED BY <1>1, QuietStep DEF IInv, TypeOK, Enter

\* Asking for another static changes no static.
LEMMA NestStep ==
  ASSUME IInv, NEW t \in Threads, NEW s \in Statics, Nest(t, s)
  PROVE  IInv' /\ Kept
<1>1. PICK n \in Needs(s) : stack' = [stack EXCEPT ![t] = <<n>> \o @]
  BY DEF Nest
<1>2. n \in Statics
  BY <1>1, DispatchAssumption DEF Needs, Statics
<1>3. <<n>> \o stack[t] \in Seq(Statics)
  BY <1>2 DEF IInv, TypeOK
<1>4. stack' \in [Threads -> Seq(Statics)]
  BY <1>1, <1>3 DEF IInv, TypeOK
<1> QED BY <1>4, QuietStep DEF IInv, TypeOK, Nest

\* Returning from a function changes no static.
LEMMA ReturnStep ==
  ASSUME IInv, NEW t \in Threads, NEW s \in Statics, Return(t, s)
  PROVE  IInv' /\ Kept
<1>1. Tail(stack[t]) \in Seq(Statics)
  BY DEF IInv, TypeOK, Return, Asking
<1>2. stack' \in [Threads -> Seq(Statics)]
  BY <1>1 DEF IInv, TypeOK, Return
<1> QED BY <1>2, QuietStep DEF IInv, TypeOK, Return

\* The probe fills the features once, with what the machine has.
LEMMA FillFeaturesStep ==
  ASSUME IInv, NEW t \in Threads, FillFeatures(t)
  PROVE  IInv' /\ Kept
<1>1. /\ machine' = machine /\ env' = env /\ stack' = stack /\ entry' = entry
      /\ convert' = convert /\ features' = Probe(machine) /\ machine \in Machines
      /\ guard' = [guard EXCEPT !["features"] = "done"]
      /\ guard \in [Statics -> Threads \cup {"unset", "done"}]
  BY DEF IInv, TypeOK, FillFeatures, Finish
<1>2. features' \in SUBSET Backend
  BY <1>1, ProbeIsRunnable
<1>3. TypeOK' /\ Kept
  BY <1>1, <1>2 DEF IInv, TypeOK, Kept
<1>4. Filled'
  <2>1. Probe(machine)' = Probe(machine)
    BY <1>1 DEF Probe
  <2>2. \A s \in Statics \ {"features"} : guard'[s] = guard[s]
    BY <1>1
  <2>3. "convert" \in Statics \ {"features"} /\ Rounds \subseteq Statics \ {"features"}
    BY DispatchAssumption DEF Statics
  <2> QED BY <1>1, <2>1, <2>2, <2>3 DEF IInv, Filled
<1>5. OnlyRunnableKernels' /\ ConverterFollowsKernel'
  BY <1>1 DEF IInv, OnlyRunnableKernels, ConverterFollowsKernel, Runnable, Compiled, ConverterOf
<1> QED BY <1>3, <1>4, <1>5 DEF IInv

\* The choice of a kernel is made once, from known features.
LEMMA FillEntryStep ==
  ASSUME IInv, NEW t \in Threads, NEW r \in Rounds, FillEntry(t, r)
  PROVE  IInv' /\ Kept
<1>1. /\ machine' = machine /\ env' = env /\ stack' = stack /\ features' = features
      /\ convert' = convert /\ entry' = [entry EXCEPT ![r] = Select(features, env)]
      /\ guard' = [guard EXCEPT ![r] = "done"] /\ guard[r] = t
      /\ guard["features"] = "done" /\ machine \in Machines /\ env \in EnvValue
      /\ guard \in [Statics -> Threads \cup {"unset", "done"}]
      /\ entry \in [Rounds -> Backend \cup {None}] /\ r \in Statics
  BY DEF IInv, TypeOK, FillEntry, Finish, Needs, Statics
<1>2. features = Probe(machine) /\ entry[r] = None
  BY <1>1, DispatchAssumption DEF IInv, Filled
<1>3. /\ entry'[r] \in Backend /\ entry'[r] \in Compiled(machine) \cup {"scalar"}
      /\ Runnable(entry'[r]) /\ entry'[r] # None
      /\ entry' \in [Rounds -> Backend \cup {None}]
      /\ \A q \in Rounds : q # r => entry'[q] = entry[q]
  BY <1>1, <1>2, SelectIsRunnable, DispatchAssumption DEF Backend
<1>4. Kept
  BY <1>1, <1>2, <1>3 DEF Kept
<1>5. TypeOK'
  BY <1>1, <1>3 DEF IInv, TypeOK
<1>6. Filled'
  <2>1. Probe(machine)' = Probe(machine)
    BY <1>1 DEF Probe
  <2>2. \A s \in Statics : s # r => guard'[s] = guard[s]
    BY <1>1
  <2>3. guard'[r] = "done" /\ "features" # r /\ "convert" # r
    BY <1>1, DispatchAssumption
  <2>4. "features" \in Statics /\ "convert" \in Statics /\ Rounds \subseteq Statics
    BY DEF Statics
  <2> QED BY <1>1, <1>3, <2>1, <2>2, <2>3, <2>4 DEF IInv, Filled
<1>7. OnlyRunnableKernels'
  BY <1>1, <1>3 DEF IInv, OnlyRunnableKernels, Runnable, Compiled
<1>8. ConverterFollowsKernel'
  BY <1>1, <1>2, <1>3, DispatchAssumption DEF IInv, ConverterFollowsKernel, Compiled, ConverterOf
<1> QED BY <1>4, <1>5, <1>6, <1>7, <1>8 DEF IInv

\* The converter is filled once, from the default round count's kernel.
LEMMA FillConvertStep ==
  ASSUME IInv, NEW t \in Threads, FillConvert(t)
  PROVE  IInv' /\ Kept
<1>1. /\ machine' = machine /\ env' = env /\ stack' = stack /\ features' = features
      /\ entry' = entry /\ convert' = ConverterOf(entry[DefaultRounds])
      /\ guard' = [guard EXCEPT !["convert"] = "done"] /\ guard["convert"] = t
      /\ guard[DefaultRounds] = "done" /\ "convert" \in Statics
      /\ guard \in [Statics -> Threads \cup {"unset", "done"}]
  BY DispatchAssumption DEF IInv, TypeOK, FillConvert, Finish, Needs, Statics
<1>2. convert = None /\ entry[DefaultRounds] # None
  BY <1>1, DispatchAssumption DEF IInv, Filled
<1>3. convert' \in Backend /\ convert' # None
  BY <1>1, ConverterIsBackend, DispatchAssumption DEF Backend
<1>4. TypeOK' /\ Kept
  BY <1>1, <1>2, <1>3 DEF IInv, TypeOK, Kept
<1>5. Filled'
  <2>1. Probe(machine)' = Probe(machine)
    BY <1>1 DEF Probe
  <2>2. \A s \in Statics : s # "convert" => guard'[s] = guard[s]
    BY <1>1
  <2>3. /\ guard'["convert"] = "done" /\ "features" \in Statics
        /\ \A r \in Rounds : r \in Statics /\ r # "convert"
    BY <1>1, DispatchAssumption DEF Statics
  <2> QED BY <1>1, <1>3, <2>1, <2>2, <2>3 DEF IInv, Filled
<1>6. OnlyRunnableKernels' /\ ConverterFollowsKernel'
  BY <1>1, <1>2 DEF IInv, OnlyRunnableKernels, ConverterFollowsKernel, Runnable, Compiled, ConverterOf
<1> QED BY <1>4, <1>5, <1>6 DEF IInv

\* So does every step of the program.
LEMMA NextStep == IInv /\ [Next]_vars => IInv' /\ Kept
<1> SUFFICES ASSUME IInv, [Next]_vars PROVE IInv' /\ Kept
  OBVIOUS
<1>1. CASE UNCHANGED vars
  BY <1>1, QuietStep DEF vars, IInv, TypeOK
<1>2. ASSUME NEW v \in EnvValue, SetEnv(v) PROVE IInv' /\ Kept
  BY <1>2, QuietStep DEF SetEnv, IInv, TypeOK
<1>3. ASSUME NEW t \in Threads, NEW s \in Rounds \cup {"convert"}, Ask(t, s)
      PROVE  IInv' /\ Kept
  <2>1. s \in Statics
    BY DEF Statics
  <2>2. stack' \in [Threads -> Seq(Statics)]
    BY <1>3, <2>1 DEF IInv, TypeOK, Ask
  <2> QED BY <1>3, <2>2, QuietStep DEF Ask, IInv, TypeOK
<1>4. ASSUME NEW t \in Threads, Step(t) PROVE IInv' /\ Kept
  BY <1>4, EnterStep, NestStep, ReturnStep, FillFeaturesStep, FillEntryStep, FillConvertStep
  DEF Step
<1> QED BY <1>1, <1>2, <1>3, <1>4 DEF Next

\* The inductive invariant: guards, statics and what they were computed from.
THEOREM DispatchInvariant == Safety => []IInv
BY InitInv, NextStep, PTL DEF Safety

\* Every static, guard and stack keeps its type.
THEOREM DispatchTypeCorrect == Safety => []TypeOK
<1>1. IInv => TypeOK
  BY DEF IInv
<1> QED BY <1>1, DispatchInvariant, PTL

\* No thread is ever given a kernel the build, CPU or OS does not support.
THEOREM KernelsAreRunnable == Safety => []OnlyRunnableKernels
<1>1. IInv => OnlyRunnableKernels
  BY DEF IInv
<1> QED BY <1>1, DispatchInvariant, PTL

\* The converter is the default kernel's in every interleaving.
THEOREM ConverterIsTheKernels == Safety => []ConverterFollowsKernel
<1>1. IInv => ConverterFollowsKernel
  BY DEF IInv
<1> QED BY <1>1, DispatchInvariant, PTL

\* Once resolved, a kernel or converter never changes.
THEOREM ResolvedOnce == Safety => ChoiceIsStable
BY InitInv, NextStep, PTL DEF Safety, ChoiceIsStable
=============================================================================
