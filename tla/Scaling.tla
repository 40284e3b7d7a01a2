------------------------------ MODULE Scaling ------------------------------
(***************************************************************************)
(* run_scaling of benchmarks/bench_scaling.cpp: the fills of the workers,  *)
(* what the counters attached to them measure, and the row reported.       *)
(*                                                                         *)
(* A round is one parallel region, in which every slot runs the job.       *)
(* WorkerPool shows how the std::thread pool provides it; with OpenMP the  *)
(* team may be smaller than was asked for, and another thread may stand    *)
(* behind a slot in every region.                                          *)
(*                                                                         *)
(* The counters are those of benchmarks/bench_cycles.hpp.  The time stamp  *)
(* counter is there for every thread; a perf event is opened on a thread   *)
(* and counts that one, may be refused, and may be opened and never count. *)
(* A count is in fills: what one fill makes of an event.                   *)
(***************************************************************************)
EXTENDS Integers, FiniteSets, FiniteSetsExt

CONSTANTS
  N,          \* state.range(0): the threads asked for
  Threads,    \* the threads the runtime may use
  Nobody,
  Words,      \* state.range(1): the words each worker fills
  MaxRounds   \* bound on the rounds of the benchmark's loop

Slots      == 0 .. N - 1
BlockWords == 4
Events     == {"cycles", "instructions", "icache_misses"}
PerfEvents == {"instructions", "icache_misses"}

\* VPHILOX_BENCH_HAS_RDTSC and VPHILOX_BENCH_HAS_PERF of the build.
Builds == {[clock |-> "rdtsc", perf |-> TRUE], [clock |-> "rdtsc", perf |-> FALSE],
           [clock |-> "perf_event", perf |-> TRUE], [clock |-> "none", perf |-> FALSE]}

ASSUME ScalingAssumption ==
  /\ N \in Nat \ {0}
  /\ IsFiniteSet(Threads) /\ Cardinality(Threads) >= N
  /\ Nobody \notin Threads
  /\ Words \subseteq {w \in Nat : w > 0 /\ w % BlockWords = 0}
  /\ MaxRounds \in Nat \ {0}

VARIABLES
  runtime,    \* "std_thread" or "openmp"
  words,      \* the words each worker fills
  build,      \* one of Builds
  want_perf,  \* VPHILOX_PERF_COUNTERS
  team,       \* the team an OpenMP region gets
  phase,      \* "check", "idle", "running" or "closed"
  todo, busy, \* the slots that have not started the job, and those running it
  thread,     \* the thread behind each slot in this round
  owners,     \* per slot: the thread its counters were opened on
  available,  \* per slot: the counters that are there
  silent,     \* per slot: those of them that never count
  counted,    \* per slot and event: the slot's fills that it measured
  migrated,
  output,     \* per slot: the stream positions of the words in its buffer
  fills,      \* per slot: the fills made
  rounds,     \* state.iterations()
  row         \* what is reported

setup    == <<runtime, words, build, want_perf, team>>
counters == <<owners, available, silent, counted, migrated>>
buffers  == <<output, fills>>
vars     == <<setup, phase, todo, busy, thread, counters, buffers, rounds, row>>

Assignments == {f \in [Slots -> Threads] : \A t, u \in Slots : f[t] = f[u] => t = u}

NoRow == [kind |-> "none"]

TypeOK ==
  /\ runtime \in {"std_thread", "openmp"}
  /\ words \in Words
  /\ build \in Builds
  /\ want_perf \in BOOLEAN
  /\ team \in 1 .. N
  /\ phase \in {"check", "idle", "running", "closed"}
  /\ todo \subseteq Slots /\ busy \subseteq Slots
  /\ thread \in Assignments
  /\ owners \in [Slots -> Threads \cup {Nobody}]
  /\ available \in [Slots -> SUBSET Events]
  /\ silent \in [Slots -> SUBSET Events]
  /\ counted \in [Slots -> [Events -> 0 .. MaxRounds]]
  /\ fills \in [Slots -> 0 .. MaxRounds]
  /\ migrated \in BOOLEAN
  /\ output \in [Slots -> SUBSET Nat]
  /\ rounds \in 0 .. MaxRounds
  /\ row.kind \in {"none", "short_team", "migrated", "row"}

Init ==
  /\ runtime \in {"std_thread", "openmp"}
  /\ words \in Words
  /\ build \in Builds
  /\ want_perf \in BOOLEAN
  /\ team \in IF runtime = "openmp" THEN 1 .. N ELSE {N}
  /\ phase = "check"
  /\ todo = {} /\ busy = {}
  /\ thread \in Assignments
  /\ owners = [t \in Slots |-> Nobody]
  /\ available = [t \in Slots |-> {}]
  /\ silent = [t \in Slots |-> {}]
  /\ counted = [t \in Slots |-> [e \in Events |-> 0]]
  /\ migrated = FALSE
  /\ output = [t \in Slots |-> {}]
  /\ fills = [t \in Slots |-> 0]
  /\ rounds = 0
  /\ row = NoRow

---------------------------------------------------------------------------

\* Mutant: the team is not confirmed.
CheckTeam_Trusting ==
  /\ phase = "check"
  /\ phase' = "idle"
  /\ UNCHANGED <<setup, todo, busy, thread, counters, buffers, rounds, row>>

\* A smaller OpenMP team than asked for skips the row.
CheckTeam ==
  /\ phase = "check"
  /\ IF team = N THEN phase' = "idle" /\ UNCHANGED row
     ELSE phase' = "closed" /\ row' = [kind |-> "short_team"]
  /\ UNCHANGED <<setup, todo, busy, thread, counters, buffers, rounds>>

\* One turn of the benchmark's loop: pool.run(job), or an OpenMP region.
Fork ==
  /\ phase = "idle"
  /\ rounds < MaxRounds
  /\ phase' = "running"
  /\ rounds' = rounds + 1
  /\ todo' = 0 .. team - 1
  /\ thread' \in IF runtime = "openmp" THEN Assignments ELSE {thread}
  /\ UNCHANGED <<setup, busy, counters, buffers, row>>

\* The counters that a thread may find there, and those it does.
Refusable == (IF build.clock = "perf_event" THEN {"cycles"} ELSE {})
               \cup (IF want_perf /\ build.perf THEN PerfEvents ELSE {})
Granted   == IF build.clock = "rdtsc" THEN {"cycles"} ELSE {}

\* Mutant: whoever comes is taken for the owner.
OpenCounters_OwnerNotChecked(t) ==
  IF owners[t] = Nobody
  THEN /\ owners' = [owners EXCEPT ![t] = thread[t]]
       /\ \E open \in SUBSET Refusable : \E mute \in SUBSET open :
            /\ available' = [available EXCEPT ![t] = Granted \cup open]
            /\ silent' = [silent EXCEPT ![t] = mute]
       /\ UNCHANGED migrated
  ELSE UNCHANGED <<owners, available, silent, migrated>>

(***************************************************************************)
(* The first job of a slot opens its counters on its own thread.  Each of  *)
(* them may be refused, and each that is not may never count, whatever the *)
(* others do.  A later job only checks that it is on that thread.          *)
(***************************************************************************)
OpenCounters(t) ==
  IF owners[t] = Nobody
  THEN /\ owners' = [owners EXCEPT ![t] = thread[t]]
       /\ \E open \in SUBSET Refusable : \E mute \in SUBSET open :
            /\ available' = [available EXCEPT ![t] = Granted \cup open]
            /\ silent' = [silent EXCEPT ![t] = mute]
       /\ UNCHANGED migrated
  ELSE /\ migrated' = (migrated \/ owners[t] # thread[t])
       /\ UNCHANGED <<owners, available, silent>>

Start(t) ==
  /\ t \in todo
  /\ todo' = todo \ {t}
  /\ busy' = busy \cup {t}
  /\ OpenCounters(t)
  /\ UNCHANGED <<setup, phase, thread, counted, buffers, rounds, row>>

\* Mutant: the words of a worker are taken for its blocks.
FirstBlock_InWords(t) == t * words

\* The block at which slot t's engine starts.
FirstBlock(t) == t * (words \div BlockWords)

\* A perf event that counts measures the thread it was opened on, never
\* another's fill.
Measures(t, e) ==
  \/ e = "cycles" /\ build.clock = "rdtsc"
  \/ e \in available[t] \ silent[t] /\ owners[t] = thread[t]

\* The buffer is filled, and the counters started before it are stopped and read.
End(t) ==
  LET first == FirstBlock(t) * BlockWords
  IN  /\ t \in busy
      /\ busy' = busy \ {t}
      /\ output' = [output EXCEPT ![t] = first .. first + words - 1]
      /\ fills' = [fills EXCEPT ![t] = @ + 1]
      /\ counted' = [counted EXCEPT ![t] =
                       [e \in Events |-> @[e] + (IF Measures(t, e) THEN 1 ELSE 0)]]
      /\ UNCHANGED <<setup, phase, todo, thread, owners, available, silent, migrated, rounds, row>>

Join ==
  /\ phase = "running"
  /\ todo = {} /\ busy = {}
  /\ phase' = "idle"
  /\ UNCHANGED <<setup, todo, busy, thread, counters, buffers, rounds, row>>

---------------------------------------------------------------------------

\* The sum of the workers' raw(): one that never counts adds 0 to it.
Total(e) == MapThenSumSet(LAMBDA t : counted[t][e], Slots)

\* Mutant: one of the two events is taken for both.
PerfReport_OneEvent ==
  IF ~want_perf THEN "off"
  ELSE IF /\ \A t \in Slots : "instructions" \in available[t]
          /\ Total("instructions") # 0 THEN "on"
  ELSE "unavailable"

\* Reported when every worker's counters were there and any instruction was
\* counted.
PerfReport ==
  IF ~want_perf THEN "off"
  ELSE IF /\ \A t \in Slots : PerfEvents \subseteq available[t]
          /\ Total("instructions") # 0 THEN "on"
  ELSE "unavailable"

\* What the label says of the cycles: the source of the first counter.
CycleSource ==
  IF Total("cycles") = 0 THEN "not reported"
  ELSE IF "cycles" \in available[0] THEN build.clock
  ELSE ""

Report ==
  /\ phase = "idle"
  /\ rounds > 0
  /\ phase' = "closed"
  /\ row' = IF migrated THEN [kind |-> "migrated"]
            ELSE [kind |-> "row", words |-> rounds * N * words,
                  cycles |-> Total("cycles"), source |-> CycleSource,
                  perf |-> PerfReport,
                  misses |-> Total("icache_misses"), instructions |-> Total("instructions")]
  /\ UNCHANGED <<setup, todo, busy, thread, counters, buffers, rounds>>

Terminated == phase = "closed" /\ UNCHANGED vars

Next ==
  \/ CheckTeam \/ Fork \/ Join \/ Report
  \/ \E t \in Slots : Start(t) \/ End(t)
  \/ Terminated

Spec == Init /\ [][Next]_vars

---------------------------------------------------------------------------

Reported == row.kind = "row"

(***************************************************************************)
(* "Each worker starts where the previous worker's range ends, so the      *)
(* streams provably never overlap" (bench_scaling.cpp 196-197): no two     *)
(* buffers hold the same word of the stream, and no word between them is   *)
(* left out.                                                               *)
(***************************************************************************)
StreamsAreDisjoint ==
  \A t, u \in Slots :
    /\ t # u => output[t] \cap output[u] = {}
    /\ u = t + 1 /\ fills[t] > 0 /\ fills[u] > 0 => Max(output[t]) + 1 = Min(output[u])

(***************************************************************************)
(* Slot t stays meaningful only while it keeps the same thread: in a row   *)
(* that is reported, no fill was measured by another thread's counters,    *)
(* although OpenMP may have moved slots: what counts counted all of its    *)
(* own slot's.  (bench_scaling.cpp 211-231, 300)                           *)
(***************************************************************************)
CountersAreTheSlots ==
  Reported => \A t \in Slots : \A e \in available[t] \ silent[t] : counted[t][e] = fills[t]

(***************************************************************************)
(* The bytes of a row are the words that were really filled, so that a     *)
(* short team is "a skipped row, not a quietly optimistic number"; and     *)
(* cycles of the time stamp counter are those of the same fills.           *)
(* (bench_scaling.cpp 268-282, 305-322)                                    *)
(***************************************************************************)
BytesWereFilled ==
  Reported =>
    /\ row.words = words * MapThenSumSet(LAMBDA t : fills[t], Slots)
    /\ row.source = "rdtsc" => row.cycles * words = row.words

(***************************************************************************)
(* An MPKI is reported only where both events were there for every worker, *)
(* and it divides the misses of all rounds of all the workers whose event  *)
(* counts by the instructions of all rounds of those whose event counts,   *)
(* of which there is one: no part of either sum is missing because it was  *)
(* refused.  Nothing more is promised.  An event that is opened and never  *)
(* counts, of all workers or of one, is not noticed: it goes into the      *)
(* reported MPKI as 0 misses, or as no instructions, unless nobody counted *)
(* any.  (bench_scaling.cpp 325-347)                                       *)
(***************************************************************************)
Counting(e) == {t \in Slots : e \notin silent[t]}

MpkiIsOfAllThatCount ==
  Reported /\ row.perf = "on" =>
    /\ \A t \in Slots : PerfEvents \subseteq available[t]
    /\ row.misses = rounds * Cardinality(Counting("icache_misses"))
    /\ row.instructions = rounds * Cardinality(Counting("instructions"))
    /\ row.instructions # 0

\* A round is the fork and join that the benchmark's worker pool promises.
Round == INSTANCE ForkJoin WITH
  Workers <- Slots,
  phase   <- IF phase = "check" THEN "idle" ELSE phase

(***************************************************************************)
(* In every round each of the N slots runs the job once, with either       *)
(* runtime.  (bench_scaling.cpp 284-298)                                   *)
(***************************************************************************)
RoundsForkAndJoin == Round!Spec
=============================================================================
