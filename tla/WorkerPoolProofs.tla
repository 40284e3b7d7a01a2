------------------------- MODULE WorkerPoolProofs -------------------------
(***************************************************************************)
(* The safety of the thread pool for any finite set of workers and any     *)
(* number of runs: it implements ForkJoin.                                 *)
(***************************************************************************)
EXTENDS WorkerPool, FiniteSetTheorems, TLAPS

\* The workers that have not seen the current generation; those with its job.
Behind == {w \in Workers : seen[w] # generation}
Busy   == {w \in Workers : pc[w] \in {"work", "finish"}}

Stopped == pc[Main] \in {"stopped", "closing", "closed"}

(***************************************************************************)
(* remaining counts exactly the workers that have yet to take or to finish *)
(* the job; nobody is busy or behind between two runs.                     *)
(***************************************************************************)
Counting ==
  /\ stop <=> Stopped
  /\ ~stop => job = generation
  /\ Running => remaining = Cardinality(Behind \cup Busy)
  /\ ~Running => Busy = {}
  /\ ~Running /\ ~stop => Behind = {}
  /\ \A w \in Busy : seen[w] = generation /\ held[w] = generation

IInv == TypeOK /\ Counting

Mapped == [Abstract!Next]_Abstract!vars

\* A subset of the workers is finite and no larger.
LEMMA Sizes ==
  ASSUME NEW S \in SUBSET Workers
  PROVE  IsFiniteSet(S) /\ Cardinality(S) \in 0 .. Cardinality(Workers)
<1>1. IsFiniteSet(Workers) /\ S \subseteq Workers
  BY PoolAssumption
<1>2. IsFiniteSet(S) /\ Cardinality(S) <= Cardinality(Workers)
  BY <1>1, FS_Subset
<1>3. Cardinality(S) \in Nat /\ Cardinality(Workers) \in Nat
  BY <1>1, <1>2, FS_CardinalityType
<1> QED BY <1>2, <1>3

\* The pool as it is built: nothing to do and nobody behind.
LEMMA InitInv == Init => IInv /\ Abstract!Init
<1> SUFFICES ASSUME Init PROVE IInv /\ Abstract!Init
  OBVIOUS
<1>1. 0 \in 0 .. Cardinality(Workers)
  BY Sizes
<1>2. pc[Main] = "build" /\ \A w \in Workers : pc[w] = "unborn"
  BY PoolAssumption DEF Init
<1>3. TypeOK
  BY <1>1, <1>2 DEF Init, TypeOK, MainAt, WorkerAt
<1>4. Counting
  BY <1>2 DEF Init, Counting, Stopped, Running, Behind, Busy
<1>5. Abstract!Init
  BY <1>2 DEF Init, Abstract!Init, Running
<1> QED BY <1>3, <1>4, <1>5 DEF IInv

(***************************************************************************)
(* The steps that move one thread on without touching what is counted.     *)
(***************************************************************************)
LEMMA QuietStep ==
  ASSUME IInv, UNCHANGED <<generation, remaining, stop, job, seen, held>>,
         pc' \in [Workers \cup {Main} -> MainAt \cup WorkerAt],
         asleep' \in SUBSET (Workers \cup {Main}),
         pc'[Main] \in MainAt, Running' = Running, Stopped' = Stopped,
         \A w \in Workers : /\ pc'[w] \in WorkerAt
                            /\ pc'[w] \in {"work", "finish"} <=> pc[w] \in {"work", "finish"}
  PROVE  IInv'
<1>1. Behind' = Behind /\ Busy' = Busy
  BY DEF Behind, Busy
<1> QED BY <1>1 DEF IInv, TypeOK, Counting

\* A step under which the abstract state stays what it is.
LEMMA Stutters ==
  ASSUME UNCHANGED <<generation, seen>>, Running' = Running,
         pc[Main] \in {"build", "idle"} <=> pc'[Main] \in {"build", "idle"},
         \A w \in Workers : pc'[w] = "work" <=> pc[w] = "work"
  PROVE  UNCHANGED Abstract!vars
BY DEF Abstract!vars, Running

\* What Goes does to the control state, for the benchmark's thread and a worker.
LEMMA MainGoes ==
  ASSUME IInv, NEW from, NEW to \in MainAt, Goes(Main, from, to)
  PROVE  /\ pc' \in [Workers \cup {Main} -> MainAt \cup WorkerAt]
         /\ pc[Main] = from /\ pc'[Main] = to
         /\ \A w \in Workers : pc'[w] = pc[w] /\ pc'[w] \in WorkerAt
BY PoolAssumption DEF IInv, TypeOK, Goes

\* A worker that moves on stays a worker, and the others stay where they are.
LEMMA WorkerGoes ==
  ASSUME IInv, NEW w \in Workers, NEW from, NEW to \in WorkerAt, Goes(w, from, to)
  PROVE  /\ pc' \in [Workers \cup {Main} -> MainAt \cup WorkerAt]
         /\ pc[w] = from /\ pc'[w] = to
         /\ pc'[Main] = pc[Main] /\ pc'[Main] \in MainAt
         /\ \A u \in Workers : u # w => pc'[u] = pc[u]
         /\ \A u \in Workers : pc'[u] \in WorkerAt
BY PoolAssumption DEF IInv, TypeOK, Goes

---------------------------------------------------------------------------
(* The steps of the benchmark's thread. *)

\* Starting a worker keeps the invariant.
LEMMA SpawnStep ==
  ASSUME IInv, NEW w \in Workers, Spawn(w)
  PROVE  IInv' /\ Mapped
<1>1. /\ UNCHANGED <<generation, remaining, stop, job, seen, held, asleep>>
      /\ Goes(w, "unborn", "wait") /\ "wait" \in WorkerAt
  BY DEF Spawn, WorkerAt
<1>2. Running' = Running /\ Stopped' = Stopped
  BY <1>1, WorkerGoes DEF Running, Stopped
<1>3. \A u \in Workers :
        /\ (pc'[u] \in {"work", "finish"}) <=> (pc[u] \in {"work", "finish"})
        /\ (pc'[u] = "work") <=> (pc[u] = "work")
  BY <1>1, WorkerGoes
<1>4. IInv'
  BY <1>1, <1>2, <1>3, WorkerGoes, QuietStep DEF IInv, TypeOK
<1>5. UNCHANGED Abstract!vars
  BY <1>1, <1>2, <1>3, WorkerGoes, Stutters
<1> QED BY <1>4, <1>5 DEF Mapped

\* The steps of Main that touch no counter keep the invariant.
LEMMA MainQuietStep ==
  ASSUME IInv, Built \/ NotifyStart \/ Closed
  PROVE  IInv' /\ Mapped
<1>1. PICK from, to \in MainAt :
        /\ Goes(Main, from, to)
        /\ \/ from = "build" /\ to = "idle"
           \/ from = "forked" /\ to = "join"
           \/ from = "stopped" /\ to = "closing"
           \/ from = "closing" /\ to = "closed"
  BY DEF Built, NotifyStart, Closed, MainAt
<1>2. /\ UNCHANGED <<generation, remaining, stop, job, seen, held>>
      /\ asleep' \in SUBSET (Workers \cup {Main})
  BY DEF Built, NotifyStart, Closed, IInv, TypeOK
<1>3. /\ Running' = Running /\ Stopped' = Stopped
      /\ pc[Main] \in {"build", "idle"} <=> pc'[Main] \in {"build", "idle"}
  BY <1>1, MainGoes DEF Running, Stopped
<1>4. IInv'
  BY <1>1, <1>2, <1>3, MainGoes, QuietStep
<1>5. UNCHANGED Abstract!vars
  BY <1>1, <1>2, <1>3, MainGoes, Stutters
<1> QED BY <1>4, <1>5 DEF Mapped

\* run() keeps the invariant and forks.
LEMMA RunStep ==
  ASSUME IInv, Run
  PROVE  IInv' /\ Mapped
<1>1. /\ Goes(Main, "idle", "forked") /\ "forked" \in MainAt
      /\ job' = generation + 1 /\ remaining' = Cardinality(Workers)
      /\ generation' = generation + 1 /\ UNCHANGED <<asleep, stop, seen, held>>
      /\ generation \in Nat
  BY DEF Run, IInv, TypeOK, MainAt
<1>2. /\ pc[Main] = "idle" /\ pc'[Main] = "forked"
      /\ \A w \in Workers : pc'[w] = pc[w] /\ pc'[w] \in WorkerAt
      /\ pc' \in [Workers \cup {Main} -> MainAt \cup WorkerAt]
  BY <1>1, MainGoes
<1>3. ~Running /\ ~Stopped /\ ~stop /\ Behind = {} /\ Busy = {}
  BY <1>2 DEF IInv, Counting, Running, Stopped
<1>4. Behind' = Workers /\ Busy' = {}
  BY <1>1, <1>2, <1>3 DEF Behind, Busy, IInv, TypeOK
<1>5. TypeOK'
  BY <1>1, <1>2, Sizes DEF IInv, TypeOK
<1>6. Counting'
  BY <1>1, <1>2, <1>3, <1>4 DEF Counting, Running, Stopped
<1>7. Abstract!Fork
  <2>1. /\ {w \in Workers : seen'[w] # generation'} = Workers
        /\ {w \in Workers : pc'[w] = "work"} = {w \in Workers : pc[w] = "work"}
    BY <1>1, <1>2, <1>4 DEF Behind
  <2> QED BY <1>1, <1>2, <2>1 DEF Abstract!Fork, Running
<1> QED BY <1>5, <1>6, <1>7 DEF IInv, Mapped, Abstract!Next

\* The wait of run() keeps the invariant; its end joins.
LEMMA JoinStep ==
  ASSUME IInv, Join
  PROVE  IInv' /\ Mapped
<1>1. UNCHANGED <<generation, remaining, stop, job, seen, held>>
  BY DEF Join
<1>2. CASE remaining # 0 /\ asleep' = asleep \cup {Main} /\ UNCHANGED pc
  <2>1. Running' = Running /\ Stopped' = Stopped
    BY <1>2 DEF Running, Stopped
  <2>2. IInv'
    BY <1>1, <1>2, <2>1, QuietStep DEF IInv, TypeOK
  <2> QED BY <1>1, <1>2, <2>1, <2>2, Stutters DEF Mapped
<1>3. CASE remaining = 0 /\ Goes(Main, "join", "idle") /\ UNCHANGED asleep
  <2>1. /\ pc[Main] = "join" /\ pc'[Main] = "idle"
        /\ \A w \in Workers : pc'[w] = pc[w] /\ pc'[w] \in WorkerAt
        /\ pc' \in [Workers \cup {Main} -> MainAt \cup WorkerAt]
    BY <1>3, MainGoes DEF MainAt
  <2>2. Running /\ ~Running' /\ ~Stopped /\ ~Stopped' /\ Cardinality(Behind \cup Busy) = 0
    BY <1>3, <2>1 DEF IInv, Counting, Running, Stopped
  <2>3. Behind = {} /\ Busy = {}
    <3>1. Behind \cup Busy \in SUBSET Workers
      BY DEF Behind, Busy
    <3>2. Behind \cup Busy = {}
      BY <2>2, <3>1, Sizes, FS_EmptySet
    <3> QED BY <3>2
  <2>4. Behind' = {} /\ Busy' = {}
    BY <1>1, <2>1, <2>3 DEF Behind, Busy
  <2>5. TypeOK'
    BY <1>1, <1>3, <2>1 DEF IInv, TypeOK, MainAt
  <2>6. Counting'
    BY <1>1, <2>2, <2>4 DEF IInv, Counting
  <2>7. Abstract!Join
    <3>1. /\ {w \in Workers : seen[w] # generation} = {}
          /\ {w \in Workers : pc[w] = "work"} = {} /\ {w \in Workers : pc'[w] = "work"} = {}
      BY <2>1, <2>3 DEF Behind, Busy
    <3> QED BY <2>1, <2>2, <3>1 DEF Abstract!Join, Running
  <2> QED BY <2>5, <2>6, <2>7 DEF IInv, Mapped, Abstract!Next
<1> QED BY <1>2, <1>3 DEF Join

\* The destructor keeps the invariant and closes.
LEMMA CloseStep ==
  ASSUME IInv, Close
  PROVE  IInv' /\ Mapped
<1>1. /\ Goes(Main, "idle", "stopped") /\ "stopped" \in MainAt /\ stop' = TRUE
      /\ generation' = generation + 1 /\ UNCHANGED <<asleep, remaining, job, seen, held>>
  BY DEF Close, MainAt
<1>2. /\ pc[Main] = "idle" /\ pc'[Main] = "stopped"
      /\ \A w \in Workers : pc'[w] = pc[w] /\ pc'[w] \in WorkerAt
      /\ pc' \in [Workers \cup {Main} -> MainAt \cup WorkerAt]
  BY <1>1, MainGoes
<1>3. ~Running /\ ~Running' /\ Stopped' /\ Busy = {}
  BY <1>2 DEF IInv, Counting, Running, Stopped
<1>4. Busy' = {}
  BY <1>2, <1>3 DEF Busy
<1>5. TypeOK'
  BY <1>1, <1>2 DEF IInv, TypeOK
<1>6. Counting'
  BY <1>1, <1>3, <1>4 DEF Counting
<1>7. Abstract!Close
  <2>1. {w \in Workers : pc'[w] = "work"} = {w \in Workers : pc[w] = "work"}
    BY <1>2
  <2> QED BY <1>2, <1>3, <2>1 DEF Abstract!Close, Running
<1> QED BY <1>5, <1>6, <1>7 DEF IInv, Mapped, Abstract!Next

---------------------------------------------------------------------------
(* The steps of a worker. *)

\* A worker taking the job, sleeping or leaving keeps the invariant.
LEMMA WaitStep ==
  ASSUME IInv, NEW w \in Workers, Wait(w)
  PROVE  IInv' /\ Mapped
<1>1. UNCHANGED <<generation, remaining, stop, job>>
  BY DEF Wait
<1>2. CASE generation = seen[w]
  <2>1. asleep' = asleep \cup {w} /\ UNCHANGED <<pc, seen, held>>
    BY <1>2 DEF Wait
  <2>2. Running' = Running /\ Stopped' = Stopped
    BY <2>1 DEF Running, Stopped
  <2>3. IInv'
    BY <1>1, <2>1, <2>2, QuietStep DEF IInv, TypeOK
  <2> QED BY <1>1, <2>1, <2>2, <2>3, Stutters DEF Mapped
<1>3. CASE generation # seen[w] /\ stop
  <2>1. /\ seen' = [seen EXCEPT ![w] = generation] /\ held' = held /\ asleep' = asleep
        /\ Goes(w, "wait", "exited") /\ "exited" \in WorkerAt
    BY <1>3 DEF Wait, WorkerAt
  <2>2. /\ Stopped /\ ~Running /\ ~Running' /\ Stopped' = Stopped /\ Busy = {}
    BY <1>3, <2>1, WorkerGoes DEF IInv, Counting, Running, Stopped
  <2>3. Busy' = {}
    BY <2>1, <2>2, WorkerGoes DEF Busy
  <2>4. TypeOK'
    BY <1>1, <2>1, WorkerGoes DEF IInv, TypeOK
  <2>5. Counting'
    BY <1>1, <1>3, <2>2, <2>3 DEF IInv, Counting
  <2>6. UNCHANGED Abstract!vars
    <3>1. {u \in Workers : pc'[u] = "work"} = {u \in Workers : pc[u] = "work"}
      BY <2>1, WorkerGoes
    <3>2. pc'[Main] = pc[Main]
      BY <2>1, WorkerGoes
    <3> QED BY <2>2, <3>1, <3>2 DEF Abstract!vars, Running
  <2> QED BY <2>4, <2>5, <2>6 DEF IInv, Mapped
<1>4. CASE generation # seen[w] /\ ~stop
  <2>1. /\ seen' = [seen EXCEPT ![w] = generation] /\ held' = [held EXCEPT ![w] = job]
        /\ asleep' = asleep /\ Goes(w, "wait", "work") /\ "work" \in WorkerAt
    BY <1>4 DEF Wait, WorkerAt
  <2>2. /\ w \in Behind /\ ~Stopped /\ Running /\ Running' /\ ~Stopped'
        /\ job = generation /\ w \notin Busy
    BY <1>4, <2>1, WorkerGoes DEF IInv, Counting, Running, Stopped, Behind, Busy
  <2>3. Behind' = Behind \ {w} /\ Busy' = Busy \cup {w}
    BY <1>1, <2>1, WorkerGoes DEF Behind, Busy, IInv, TypeOK
  <2>4. Behind' \cup Busy' = Behind \cup Busy
    BY <2>2, <2>3
  <2>5. TypeOK'
    BY <1>1, <2>1, WorkerGoes DEF IInv, TypeOK
  <2>6. \A u \in Busy' : seen'[u] = generation' /\ held'[u] = generation'
    <3>1. \A u \in Busy : u # w /\ u \in Workers
      BY <2>2 DEF Busy
    <3> QED BY <1>1, <2>1, <2>2, <2>3, <3>1 DEF IInv, Counting, TypeOK
  <2>7. Counting'
    BY <1>1, <1>4, <2>2, <2>4, <2>6 DEF IInv, Counting
  <2>8. Abstract!Start(w)
    <3>1. /\ {u \in Workers : pc'[u] = "work"} = {u \in Workers : pc[u] = "work"} \cup {w}
          /\ {u \in Workers : seen'[u] # generation'}
               = {u \in Workers : seen[u] # generation} \ {w}
      BY <2>1, <2>3, WorkerGoes DEF Behind
    <3> QED BY <2>2, <3>1 DEF Abstract!Start, Running, Behind
  <2> QED BY <2>5, <2>7, <2>8 DEF IInv, Mapped, Abstract!Next
<1> QED BY <1>2, <1>3, <1>4

\* The end of a job keeps the invariant.
LEMMA WorkStep ==
  ASSUME IInv, NEW w \in Workers, Work(w)
  PROVE  IInv' /\ Mapped
<1>1. /\ UNCHANGED <<asleep, generation, remaining, stop, job, seen, held>>
      /\ Goes(w, "work", "finish") /\ "finish" \in WorkerAt
  BY DEF Work, WorkerAt
<1>2. Running' = Running /\ Stopped' = Stopped /\ pc'[Main] = pc[Main]
  BY <1>1, WorkerGoes DEF Running, Stopped
<1>3. \A u \in Workers : pc'[u] \in {"work", "finish"} <=> pc[u] \in {"work", "finish"}
  BY <1>1, WorkerGoes
<1>4. IInv'
  BY <1>1, <1>2, <1>3, WorkerGoes, QuietStep DEF IInv, TypeOK
<1>5. Abstract!End(w)
  <2>1. /\ {u \in Workers : pc'[u] = "work"} = {u \in Workers : pc[u] = "work"} \ {w}
        /\ w \in {u \in Workers : pc[u] = "work"}
    BY <1>1, WorkerGoes
  <2> QED BY <1>1, <1>2, <2>1 DEF Abstract!End, Running
<1> QED BY <1>4, <1>5 DEF Mapped, Abstract!Next

\* Counting down keeps the invariant.
LEMMA FinishStep ==
  ASSUME IInv, NEW w \in Workers, Finish(w)
  PROVE  IInv' /\ Mapped
<1> DEFINE to == IF remaining = 1 THEN "signal" ELSE "wait"
<1>1. /\ UNCHANGED <<asleep, generation, stop, job, seen, held>> /\ remaining' = remaining - 1
      /\ Goes(w, "finish", to) /\ to \in WorkerAt /\ to \in {"signal", "wait"}
  BY DEF Finish, WorkerAt
<1> HIDE DEF to
<1>2. /\ w \in Busy /\ w \notin Behind /\ Running
  BY <1>1, WorkerGoes DEF Busy, Behind, IInv, Counting
<1>3. Running' = Running /\ Stopped' = Stopped /\ pc'[Main] = pc[Main]
  BY <1>1, WorkerGoes DEF Running, Stopped
<1>4. Behind' = Behind /\ Busy' = Busy \ {w}
  BY <1>1, WorkerGoes DEF Behind, Busy
<1>5. Behind' \cup Busy' = (Behind \cup Busy) \ {w}
  BY <1>2, <1>4
<1>6. /\ remaining = Cardinality(Behind \cup Busy)
      /\ remaining' = Cardinality((Behind \cup Busy) \ {w})
      /\ remaining' \in 0 .. Cardinality(Workers)
  <2>1. Behind \cup Busy \in SUBSET Workers /\ (Behind \cup Busy) \ {w} \in SUBSET Workers
    BY DEF Behind, Busy
  <2>2. Cardinality((Behind \cup Busy) \ {w}) = Cardinality(Behind \cup Busy) - 1
    BY <1>2, <2>1, Sizes, FS_RemoveElement
  <2>3. remaining = Cardinality(Behind \cup Busy)
    BY <1>2 DEF IInv, Counting
  <2> QED BY <1>1, <2>1, <2>2, <2>3, Sizes
<1>7. TypeOK'
  BY <1>1, <1>6, WorkerGoes DEF IInv, TypeOK
<1>8. Counting'
  BY <1>1, <1>2, <1>3, <1>4, <1>5, <1>6 DEF IInv, Counting
<1>9. UNCHANGED Abstract!vars
  <2>1. \A u \in Workers : pc'[u] = "work" <=> pc[u] = "work"
    BY <1>1, WorkerGoes
  <2> QED BY <1>1, <1>3, <2>1, Stutters
<1> QED BY <1>7, <1>8, <1>9 DEF IInv, Mapped

\* Signalling keeps the invariant.
LEMMA SignalStep ==
  ASSUME IInv, NEW w \in Workers, Signal(w)
  PROVE  IInv' /\ Mapped
<1>1. /\ UNCHANGED <<generation, remaining, stop, job, seen, held>>
      /\ asleep' \in SUBSET (Workers \cup {Main})
      /\ Goes(w, "signal", "wait") /\ "wait" \in WorkerAt
  BY DEF Signal, WorkerAt, IInv, TypeOK
<1>2. Running' = Running /\ Stopped' = Stopped
  BY <1>1, WorkerGoes DEF Running, Stopped
<1>3. \A u \in Workers :
        /\ (pc'[u] \in {"work", "finish"}) <=> (pc[u] \in {"work", "finish"})
        /\ (pc'[u] = "work") <=> (pc[u] = "work")
  BY <1>1, WorkerGoes
<1>4. IInv'
  BY <1>1, <1>2, <1>3, WorkerGoes, QuietStep
<1>5. UNCHANGED Abstract!vars
  BY <1>1, <1>2, <1>3, WorkerGoes, Stutters
<1> QED BY <1>4, <1>5 DEF Mapped

---------------------------------------------------------------------------

\* A step that leaves everything but the set of sleeping threads alone.
LEMMA WakeStep ==
  ASSUME IInv, asleep' \in SUBSET (Workers \cup {Main}),
         UNCHANGED <<pc, generation, remaining, stop, job, seen, held>>
  PROVE  IInv' /\ Mapped
<1>1. Running' = Running /\ Stopped' = Stopped
  BY DEF Running, Stopped
<1>2. IInv'
  BY <1>1, QuietStep DEF IInv, TypeOK
<1> QED BY <1>1, <1>2, Stutters DEF Mapped

\* Every step keeps the invariant and is a step of ForkJoin, or none.
LEMMA NextStep == IInv /\ [Next]_vars => IInv' /\ Mapped
<1> SUFFICES ASSUME IInv, [Next]_vars PROVE IInv' /\ Mapped
  OBVIOUS
<1>1. CASE UNCHANGED vars \/ Terminated
  BY <1>1, WakeStep DEF vars, Terminated, IInv, TypeOK
<1>2. CASE MainStep
  BY <1>2, SpawnStep, MainQuietStep, JoinStep DEF MainStep
<1>3. CASE Run \/ Close
  BY <1>3, RunStep, CloseStep
<1>4. ASSUME NEW w \in Workers, WorkerStep(w) PROVE IInv' /\ Mapped
  BY <1>4, WaitStep, WorkStep, FinishStep, SignalStep DEF WorkerStep
<1>5. ASSUME NEW t \in Workers \cup {Main}, SpuriousWake(t) PROVE IInv' /\ Mapped
  BY <1>5, WakeStep DEF SpuriousWake, IInv, TypeOK
<1> QED BY <1>1, <1>2, <1>3, <1>4, <1>5 DEF Next

\* The inductive invariant: what remaining counts.  (bench_scaling.cpp 118-183)
THEOREM PoolInvariant == Safety => []IInv
BY InitInv, NextStep, PTL DEF Safety

\* Every count, flag and local variable keeps its type; remaining never wraps.
THEOREM PoolTypeCorrect == Safety => []TypeOK
<1>1. IInv => TypeOK
  BY DEF IInv
<1> QED BY <1>1, PoolInvariant, PTL

\* No worker calls a job whose run() has returned.
THEOREM JobsAreAlive == Safety => []NoJobOutlivesItsRun
<1>1. IInv => NoJobOutlivesItsRun
  BY DEF IInv, Counting, NoJobOutlivesItsRun, Busy
<1> QED BY <1>1, PoolInvariant, PTL

\* Each run is one fork and one join: the pool implements ForkJoin.
THEOREM PoolImplementsForkJoin == Safety => RunsEachJobOnce
BY InitInv, NextStep, PTL DEF Safety, Mapped, RunsEachJobOnce, Abstract!Spec
=============================================================================
