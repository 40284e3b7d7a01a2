---------------------------- MODULE WorkerPool ----------------------------
(***************************************************************************)
(* The thread pool of benchmarks/bench_scaling.cpp (worker_pool, lines     *)
(* 118-183): one mutex, the conditions start_ and done_, and a generation  *)
(* number that tells a worker a new job from the one it has run.           *)
(*                                                                         *)
(* A critical section without a wait is one action.  A wait is the check   *)
(* of its predicate: either it holds and the section goes on, or the       *)
(* thread gives up the mutex and falls asleep in one step; a thread that   *)
(* is woken checks again.  Notifications are made outside the mutex and    *)
(* are steps of their own.  A sleeping thread may wake for no reason.      *)
(***************************************************************************)
EXTENDS Integers, FiniteSets

CONSTANTS
  Workers,
  Main,     \* the benchmark's thread, the only one that calls run()
  MaxRuns   \* bound on the number of calls to run()

ASSUME PoolAssumption ==
  /\ IsFiniteSet(Workers)
  /\ Main \notin Workers
  /\ MaxRuns \in Nat

VARIABLES
  pc,         \* where each thread is
  asleep,     \* workers waiting on start_, Main waiting on done_
  generation,
  remaining,
  stop,
  job,        \* job_: the number of the run() whose argument it points to
  seen,       \* per worker: the local variable of loop()
  held        \* per worker: its copy of job_

vars == <<pc, asleep, generation, remaining, stop, job, seen, held>>

MainAt   == {"build", "idle", "forked", "join", "stopped", "closing", "closed"}
WorkerAt == {"unborn", "wait", "work", "finish", "signal", "exited"}

TypeOK ==
  /\ pc \in [Workers \cup {Main} -> MainAt \cup WorkerAt]
  /\ pc[Main] \in MainAt
  /\ \A w \in Workers : pc[w] \in WorkerAt
  /\ asleep \in SUBSET (Workers \cup {Main})
  /\ generation \in Nat
  /\ remaining \in 0 .. Cardinality(Workers)
  /\ stop \in BOOLEAN
  /\ job \in Nat
  /\ seen \in [Workers -> Nat]
  /\ held \in [Workers -> Nat]

Init ==
  /\ pc = [t \in Workers \cup {Main} |-> IF t = Main THEN "build" ELSE "unborn"]
  /\ asleep = {}
  /\ generation = 0
  /\ remaining = 0
  /\ stop = FALSE
  /\ job = 0
  /\ seen = [w \in Workers |-> 0]
  /\ held = [w \in Workers |-> 0]

Goes(t, from, to) == pc[t] = from /\ pc' = [pc EXCEPT ![t] = to]
Awake(t) == t \notin asleep

---------------------------------------------------------------------------
(* The benchmark's thread. *)

\* The constructor starts the threads one by one.
Spawn(w) ==
  /\ pc[Main] = "build"
  /\ Goes(w, "unborn", "wait")
  /\ UNCHANGED <<asleep, generation, remaining, stop, job, seen, held>>

Built ==
  /\ \A w \in Workers : pc[w] # "unborn"
  /\ Goes(Main, "build", "idle")
  /\ UNCHANGED <<asleep, generation, remaining, stop, job, seen, held>>

\* Mutant: one worker is not waited for.
Run_OneForgotten ==
  /\ generation < MaxRuns
  /\ Goes(Main, "idle", "forked")
  /\ job' = generation + 1
  /\ remaining' = Cardinality(Workers) - 1
  /\ generation' = generation + 1
  /\ UNCHANGED <<asleep, stop, seen, held>>

Run ==
  /\ generation < MaxRuns
  /\ Goes(Main, "idle", "forked")
  /\ job' = generation + 1
  /\ remaining' = Cardinality(Workers)
  /\ generation' = generation + 1
  /\ UNCHANGED <<asleep, stop, seen, held>>

\* Mutant: start_.notify_one().
NotifyStart_One ==
  /\ Goes(Main, "forked", "join") \/ Goes(Main, "stopped", "closing")
  /\ IF asleep = {} THEN asleep' = {} ELSE \E w \in asleep : asleep' = asleep \ {w}
  /\ UNCHANGED <<generation, remaining, stop, job, seen, held>>

\* start_.notify_all(), in run() and in the destructor.
NotifyStart ==
  /\ Goes(Main, "forked", "join") \/ Goes(Main, "stopped", "closing")
  /\ asleep' = asleep \ Workers
  /\ UNCHANGED <<generation, remaining, stop, job, seen, held>>

\* done_.wait: run() returns, or sleeps.
Join ==
  /\ Awake(Main)
  /\ \/ /\ remaining = 0
        /\ Goes(Main, "join", "idle")
        /\ UNCHANGED asleep
     \/ /\ remaining # 0
        /\ pc[Main] = "join"
        /\ asleep' = asleep \cup {Main}
        /\ UNCHANGED pc
  /\ UNCHANGED <<generation, remaining, stop, job, seen, held>>

\* Mutant: the workers' predicate does not see that there is news.
Close_GenerationKept ==
  /\ Goes(Main, "idle", "stopped")
  /\ stop' = TRUE
  /\ UNCHANGED <<asleep, generation, remaining, job, seen, held>>

\* The destructor.
Close ==
  /\ Goes(Main, "idle", "stopped")
  /\ stop' = TRUE
  /\ generation' = generation + 1
  /\ UNCHANGED <<asleep, remaining, job, seen, held>>

\* The destructor joins every worker; the members are gone afterwards.
Closed ==
  /\ \A w \in Workers : pc[w] = "exited"
  /\ Goes(Main, "closing", "closed")
  /\ UNCHANGED <<asleep, generation, remaining, stop, job, seen, held>>

---------------------------------------------------------------------------
(* A worker: loop(t). *)

\* Mutant: the job is taken again as long as the generation has not moved on.
Wait_SeenNotKept(w) ==
  /\ pc[w] = "wait"
  /\ Awake(w)
  /\ \/ /\ generation = seen[w]
        /\ asleep' = asleep \cup {w}
        /\ UNCHANGED <<pc, seen, held>>
     \/ /\ generation # seen[w]
        /\ IF stop THEN Goes(w, "wait", "exited") /\ UNCHANGED held
           ELSE Goes(w, "wait", "work") /\ held' = [held EXCEPT ![w] = job]
        /\ UNCHANGED <<asleep, seen>>
  /\ UNCHANGED <<generation, remaining, stop, job>>

Wait(w) ==
  /\ pc[w] = "wait"
  /\ Awake(w)
  /\ \/ /\ generation = seen[w]
        /\ asleep' = asleep \cup {w}
        /\ UNCHANGED <<pc, seen, held>>
     \/ /\ generation # seen[w]
        /\ seen' = [seen EXCEPT ![w] = generation]
        /\ IF stop THEN Goes(w, "wait", "exited") /\ UNCHANGED held
           ELSE Goes(w, "wait", "work") /\ held' = [held EXCEPT ![w] = job]
        /\ UNCHANGED asleep
  /\ UNCHANGED <<generation, remaining, stop, job>>

\* The job returns.
Work(w) ==
  /\ Goes(w, "work", "finish")
  /\ UNCHANGED <<asleep, generation, remaining, stop, job, seen, held>>

Finish(w) ==
  /\ Goes(w, "finish", IF remaining = 1 THEN "signal" ELSE "wait")
  /\ remaining' = remaining - 1
  /\ UNCHANGED <<asleep, generation, stop, job, seen, held>>

\* done_.notify_one(), after the mutex was given up.
Signal(w) ==
  /\ Goes(w, "signal", "wait")
  /\ asleep' = asleep \ {Main}
  /\ UNCHANGED <<generation, remaining, stop, job, seen, held>>

---------------------------------------------------------------------------

SpuriousWake(t) ==
  /\ t \in asleep
  /\ asleep' = asleep \ {t}
  /\ UNCHANGED <<pc, generation, remaining, stop, job, seen, held>>

MainStep   == (\E w \in Workers : Spawn(w)) \/ Built \/ NotifyStart \/ Join \/ Closed
WorkerStep(w) == Wait(w) \/ Work(w) \/ Finish(w) \/ Signal(w)

Terminated == pc[Main] = "closed" /\ UNCHANGED vars

Next ==
  \/ MainStep \/ Run \/ Close
  \/ \E w \in Workers : WorkerStep(w)
  \/ \E t \in Workers \cup {Main} : SpuriousWake(t)
  \/ Terminated

Safety == Init /\ [][Next]_vars

\* Threads that can run do run; nothing obliges the benchmark to call again.
Spec == Safety /\ WF_vars(MainStep) /\ \A w \in Workers : WF_vars(WorkerStep(w))

---------------------------------------------------------------------------

Running == pc[Main] \in {"forked", "join"}

Abstract == INSTANCE ForkJoin WITH
  phase <- IF Running THEN "running"
           ELSE IF pc[Main] \in {"build", "idle"} THEN "idle" ELSE "closed",
  todo  <- IF Running THEN {w \in Workers : seen[w] # generation} ELSE {},
  busy  <- {w \in Workers : pc[w] = "work"}

(***************************************************************************)
(* Every worker runs the job of a run() exactly once and run() returns     *)
(* only when all have finished, whatever the order of the wake-ups, the    *)
(* stale notifications of earlier runs, and workers that are still being   *)
(* started.  (bench_scaling.cpp 118-183)                                   *)
(***************************************************************************)
RunsEachJobOnce == Abstract!Spec

(***************************************************************************)
(* A worker only ever calls the job of the run() in progress: job_ points  *)
(* to an argument that is gone when run() has returned.                    *)
(***************************************************************************)
NoJobOutlivesItsRun ==
  \A w \in Workers : pc[w] = "work" => Running /\ held[w] = generation

\* run() returns: no wake-up is lost, and none goes to a thread that needs no news.
RunReturns == pc[Main] = "forked" ~> pc[Main] = "idle"

\* The destructor returns: every worker learns that it is to stop.
DestructorReturns == pc[Main] = "stopped" ~> pc[Main] = "closed"
=============================================================================
