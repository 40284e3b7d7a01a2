----------------------------- MODULE MatrixRun -----------------------------
(***************************************************************************)
(* scripts/benchmarks/run_matrix.sh: a benchmark is built, the clock       *)
(* governor forced to performance, the environment written to one file and *)
(* the numbers to another, and both are validated.                         *)
(*                                                                         *)
(* One machine and one tag; a suite's two files are named by its suffix.   *)
(* Each CPU of the machine has a governor of its own, in a file that may   *)
(* be written or not, now or later, whatever becomes of the others.        *)
(* The commands that a script runs may fail; the script may be interrupted *)
(* (Ctrl-C, or a TERM to it alone) or killed.  A handled signal does not   *)
(* end a bash script: it goes on with its next command, unless the command *)
(* that was running died of it and its status is looked at.                *)
(***************************************************************************)
EXTENDS Integers, FiniteSets

CONSTANTS
  Versions,    \* the commits that are checked out
  HasRows,     \* the benches whose required rows a version has
  Backends,    \* the kernels a benchmark may resolve
  Governors,   \* the governors that CPUs are used with, or Unavailable
  Cpus,        \* the CPUs of the machine
  First,       \* the one GOV_PATHS begins with
  Machines,    \* the governors its CPUs may be found with
  Suites,      \* the pairs of --bench and --perf-counters that are run
  MaxRuns,     \* bound on the runs
  MaxSignals,  \* bound on the signals
  None, Partial

Benches     == {"engines", "scaling"}
Performance == "performance"
Unavailable == "unavailable"

\* The name of a suite's files; a perf run has files of its own.
Suffix(bench, perf) ==
  CASE perf -> "icache" [] bench = "engines" -> "matrix" [] OTHER -> "scaling"
Suffixes == {Suffix(s[1], s[2]) : s \in Suites}

ASSUME MatrixAssumption ==
  /\ HasRows \in [Versions -> SUBSET Benches]
  /\ First \in Cpus
  /\ Machines \subseteq [Cpus -> Governors]
  /\ Suites \subseteq {s \in Benches \X BOOLEAN : s[2] => s[1] = "scaling"}
  /\ {MaxRuns, MaxSignals} \subseteq Nat
  /\ None # Partial
  /\ None \notin Versions \cup Backends \cup Governors \cup {Performance}

VARIABLES
  head,      \* the commit checked out
  binary,    \* the commit each benchmark on disk was built from
  governor,  \* by CPU
  json, env, \* the files, by suffix
  job,       \* the script that runs
  runs, signals,
  passed     \* history: by suffix, the last run if it exited with 0, or 0

files == <<json, env>>
mvars == <<head, binary, governor, files, job, runs, signals, passed>>

Places == {"idle", "build", "rows", "save", "pin", "capture", "describe", "start",
           "measure", "validate", "stamp", "exit"}

\* No script: what is left of its variables is of no interest.
Idle == [pc |-> "idle", run |-> 0, bench |-> "engines", perf |-> FALSE, before |-> None,
         saved |-> None, ok |-> FALSE]

slot == Suffix(job.bench, job.perf)

NumbersOf == [run : 1 .. MaxRuns, version : Versions,
              cycles : BOOLEAN, mpki : BOOLEAN, backend : Backends]
LinesOf   == [run : 1 .. MaxRuns, sha : Versions,
              governor : Governors \cup {Performance, None}, backend : Backends \cup {None}]

\* Neither marker is what a file holds.
ASSUME MarkerAssumption == {None, Partial} \cap (NumbersOf \cup LinesOf) = {}

MatrixTypeOK ==
  /\ head \in Versions
  /\ binary \in [Benches -> Versions \cup {None}]
  /\ governor \in [Cpus -> Governors \cup {Performance}]
  /\ json \in [Suffixes -> NumbersOf \cup {None, Partial}]
  /\ env \in [Suffixes -> LinesOf \cup {None}]
  /\ job.pc \in Places /\ job.run \in 0 .. runs
  /\ job.saved \in Governors \cup {Performance, None}
  /\ runs \in 0 .. MaxRuns /\ signals \in 0 .. MaxSignals
  /\ passed \in [Suffixes -> 0 .. MaxRuns]

MatrixInit ==
  /\ head \in Versions
  /\ binary = [b \in Benches |-> None]
  /\ governor \in Machines
  /\ json = [s \in Suffixes |-> None] /\ env = [s \in Suffixes |-> None]
  /\ job = Idle
  /\ runs = 0 /\ signals = 0
  /\ passed = [s \in Suffixes |-> 0]

---------------------------------------------------------------------------
(* The commands, in the order of the script. *)

At(pc)   == [job EXCEPT !.pc = pc]
Goto(pc) == job' = At(pc)

\* set -e: the script ends; the trap for EXIT runs if it is set.
Fail == job' = [At("exit") EXCEPT !.ok = FALSE]

\* The options; --perf-counters goes with the scaling benchmark only.
Invoke ==
  /\ job = Idle
  /\ runs < MaxRuns
  /\ \E s \in Suites :
       /\ job' = [pc |-> "build", run |-> runs + 1, bench |-> s[1], perf |-> s[2],
                  before |-> governor[First], saved |-> None, ok |-> FALSE]
       /\ passed' = [passed EXCEPT ![Suffix(s[1], s[2])] = 0]
  /\ runs' = runs + 1
  /\ UNCHANGED <<head, binary, governor, files, signals>>

\* Mutant: a binary that is there is used.
Build_OnlyIfMissing ==
  /\ job.pc = "build"
  /\ \/ Fail /\ UNCHANGED binary
     \/ Goto("rows") /\ binary' = IF binary[job.bench] = None
                                  THEN [binary EXCEPT ![job.bench] = head] ELSE binary
  /\ UNCHANGED <<head, governor, files, runs, signals, passed>>

\* Always built, never only when missing.
Build ==
  /\ job.pc = "build"
  /\ \/ Fail /\ UNCHANGED binary
     \/ Goto("rows") /\ binary' = [binary EXCEPT ![job.bench] = head]
  /\ UNCHANGED <<head, governor, files, runs, signals, passed>>

\* The rows that the suite needs are listed by the binary.
Rows ==
  /\ job.pc = "rows"
  /\ IF job.bench \in HasRows[binary[job.bench]] THEN Goto("save") ELSE Fail
  /\ UNCHANGED <<head, binary, governor, files, runs, signals, passed>>

\* The governor of the first CPU is read and the traps are set, where the
\* machine shows one.
Save ==
  /\ job.pc = "save"
  /\ IF governor[First] = Unavailable THEN Goto("capture")
     ELSE job' = [At("pin") EXCEPT !.saved = governor[First]]
  /\ UNCHANGED <<head, binary, governor, files, runs, signals, passed>>

\* write_governor, to the CPUs it reaches: a write that is refused is passed
\* over, and the other CPUs are written all the same.
WriteGovernor(value, done) ==
  governor' = [c \in Cpus |-> IF c \in done THEN value ELSE governor[c]]

Pin ==
  /\ job.pc = "pin"
  /\ \E done \in SUBSET Cpus : WriteGovernor(Performance, done)
  /\ Goto("capture")
  /\ UNCHANGED <<head, binary, files, runs, signals, passed>>

\* The file of the environment is emptied, and its first lines written.
Capture ==
  /\ job.pc = "capture"
  /\ env' = [env EXCEPT ![slot] = [run |-> job.run, sha |-> head, governor |-> None, backend |-> None]]
  /\ Goto("describe")
  /\ UNCHANGED <<head, binary, governor, json, runs, signals, passed>>

\* The rest of its lines, the governor's among them; lscpu may be missing.
Describe ==
  /\ job.pc = "describe"
  /\ env' = [env EXCEPT ![slot].governor = governor[First]]
  /\ Goto("start") \/ Fail
  /\ UNCHANGED <<head, binary, governor, json, runs, signals, passed>>

\* The benchmark may be refused its CPU; otherwise it empties its file.
Start ==
  /\ job.pc = "start"
  /\ \/ Fail /\ UNCHANGED json
     \/ Goto("measure") /\ json' = [json EXCEPT ![slot] = Partial]
  /\ UNCHANGED <<head, binary, governor, env, runs, signals, passed>>

\* It ends with the numbers, with nothing (no row matched), or dies.  A
\* counter that the machine refuses is left out; one that is not asked for is.
Measure ==
  /\ job.pc = "measure"
  /\ \/ Goto("validate") /\ UNCHANGED json
     \/ Fail /\ UNCHANGED json
     \/ /\ Goto("validate")
        /\ \E c \in BOOLEAN, m \in {FALSE, job.perf}, b \in Backends :
             json' = [json EXCEPT ![slot] =
                       [run |-> job.run, version |-> binary[job.bench],
                        cycles |-> c, mpki |-> m, backend |-> b]]
  /\ UNCHANGED <<head, binary, governor, env, runs, signals, passed>>

HasCycles(numbers) == numbers # Partial /\ numbers.cycles
HasMpki(numbers)   == numbers # Partial /\ numbers.mpki

\* A run without its metric is refused; what it wrote stays.
Validate ==
  /\ job.pc = "validate"
  /\ IF HasCycles(json[slot]) /\ (job.perf => HasMpki(json[slot])) THEN Goto("stamp") ELSE Fail
  /\ UNCHANGED <<head, binary, governor, files, runs, signals, passed>>

\* The backend is copied into the file of the environment, and the medians
\* are shown: each by a script of Python's, which may fail.
Stamp ==
  /\ job.pc = "stamp"
  /\ \/ Fail /\ UNCHANGED env
     \/ /\ env' = [env EXCEPT ![slot].backend = json[slot].backend]
        /\ Fail \/ job' = [At("exit") EXCEPT !.ok = TRUE]
  /\ UNCHANGED <<head, binary, governor, json, runs, signals, passed>>

\* restore_governor: once a governor was saved, it is written to every CPU.
RestoreGovernor(done) ==
  IF job.saved # None THEN WriteGovernor(job.saved, done) ELSE UNCHANGED governor

\* Mutant: the governor is restored by a script that gets to its end only.
ExitReaching_NoTrap(done) ==
  /\ job.pc = "exit"
  /\ IF job.ok THEN RestoreGovernor(done) ELSE UNCHANGED governor
  /\ job' = Idle
  /\ passed' = IF job.ok THEN [passed EXCEPT ![slot] = job.run] ELSE passed
  /\ UNCHANGED <<head, binary, files, runs, signals>>

\* The end of the script, with the trap for EXIT.
ExitReaching(done) ==
  /\ job.pc = "exit"
  /\ RestoreGovernor(done)
  /\ job' = Idle
  /\ passed' = IF job.ok THEN [passed EXCEPT ![slot] = job.run] ELSE passed
  /\ UNCHANGED <<head, binary, files, runs, signals>>

Exit == \E done \in SUBSET Cpus : ExitReaching(done)

---------------------------------------------------------------------------
(* Signals, and the checkout. *)

Signal ==
  /\ job # Idle
  /\ signals < MaxSignals
  /\ signals' = signals + 1
  /\ UNCHANGED <<head, binary, files, runs, passed>>

\* INT or TERM.  Without the trap it ends the script.  With it the handler
\* restores the governor, and the script ends only if the command that ran
\* died too and is looked at; during the benchmark it waits for its end.
Interrupt ==
  /\ Signal
  /\ job.pc # "exit"
  /\ \E done \in SUBSET Cpus : RestoreGovernor(done)
  /\ IF job.saved = None THEN job' = Idle
     ELSE Fail \/ (job.pc # "measure" /\ UNCHANGED job)

\* KILL: no trap runs.
Kill ==
  /\ Signal
  /\ job' = Idle
  /\ UNCHANGED governor

\* Another commit is checked out, not between a script's build and its
\* reading of the commit.
Checkout ==
  /\ job.pc \in {"idle", "describe", "start", "measure", "validate", "stamp", "exit"}
  /\ runs < MaxRuns
  /\ head' \in Versions \ {head}
  /\ UNCHANGED <<binary, governor, files, job, runs, signals, passed>>

MatrixNext ==
  \/ Invoke \/ Build \/ Rows \/ Save \/ Pin \/ Capture \/ Describe \/ Start \/ Measure
  \/ Validate \/ Stamp \/ Exit \/ Interrupt \/ Kill \/ Checkout

---------------------------------------------------------------------------

(***************************************************************************)
(* A script that was not killed, however it ends and whatever interrupted  *)
(* it, leaves every CPU that its last writes reach with the governor that  *)
(* it found on the first: one that is refused does not keep the others     *)
(* from being restored.  A script that saved no governor writes none.      *)
(* CPUs that were found with one governor get it back; of CPUs with        *)
(* different ones the script reads the first's only, and does not give the *)
(* others what they had.  (run_matrix.sh 143-183)                          *)
(***************************************************************************)
GovernorReturned ==
  [][\A done \in SUBSET Cpus : ExitReaching(done) =>
       IF job.saved = None THEN UNCHANGED governor
       ELSE \A c \in done : governor'[c] = job.before]_mvars

(***************************************************************************)
(* The two files that a successful run leaves are of that run and of no    *)
(* other, before or in between: the commit named is the one the numbers    *)
(* were measured on, the backend the one they ran on, and the metric the   *)
(* suite is for is there.  (run_matrix.sh 88-108, 252-306)                 *)
(***************************************************************************)
SuccessIsOneRun ==
  \A s \in Suffixes : passed[s] # 0 =>
    /\ json[s] \notin {None, Partial}
    /\ json[s].run = passed[s] /\ env[s].run = passed[s]
    /\ json[s].version = env[s].sha
    /\ json[s].backend = env[s].backend
    /\ env[s].governor # None
    /\ json[s].cycles /\ (s = "icache" => json[s].mpki)

(***************************************************************************)
(* The header's claim: "The governor is forced to `performance` for the    *)
(* duration and restored on exit, including on Ctrl-C" (run_matrix.sh      *)
(* 28-29).  What is archived as measured under it, on the CPU whose        *)
(* governor the script reads, is measured under it.                        *)
(***************************************************************************)
PinnedForTheDuration ==
  [][Measure /\ json' # json /\ job.saved # None /\ env[slot].governor = Performance =>
       governor[First] = Performance]_mvars
=============================================================================
