# A verification model of vphilox

vphilox is a header-only C++ library: the counter-based generator Philox4x32
with vectorised kernels, an engine class with the interface of the standard
library's engines, run-time dispatch, a portable checkpoint format, and the
programs that test and measure it. This directory holds TLA+ models of that
code, the TLC configurations that check them on small instances, and TLAPS
proofs of what holds for all instances.

Paths below are relative to the repository's source. Every definition that
models code is tied to its lines by `map` in `PROJECT.json`.

## The system

| Part | State it keeps | Operations | What makes it correct |
|---|---|---|---|
| Engine (`philox.hpp`) | a refill buffer, a cursor in it, the key, and the counter of the *next refill* | one word, bulk words, bulk floats, double, discard, seed, reset, state, set_state | words leave in stream order, each once, however the calls are mixed; the position can be read, moved and restored exactly |
| Counter arithmetic (`counter.hpp`) | four 32-bit words | add, subtract a 64-bit number | it is arithmetic modulo 2^128 |
| Float conversions (`float_cast.hpp`, `float_bulk.hpp`) | none; a tile on the stack of a bulk call | a word to a float, two words to a double, a tile to floats | uniform on a grid below 1.0; the seams of the tiles do not show |
| Kernels (`detail/kernel_*.hpp`) | none between calls; a base counter, a block index and registers within one | generate blocks | every instruction set writes the same words, and nothing after the request |
| Dispatch (`config.hpp`, `detail/cpu_features.hpp`, `dispatch.hpp`, `float_bulk.hpp`) | function-local statics: CPU features, one entry per round count, the float converter | first use by any thread; lookups | a kernel that the machine can run; one choice, made once; a converter that goes with it |
| Checkpoint text (`serialize.hpp`) | a stream and its flags | write, read | a position survives another build; a damaged text changes nothing |
| Worker pool (`bench_scaling.cpp`) | mutex, two conditions, generation, remaining, stop, a pointer to the job | construct, run, destroy | each job once per worker; no lost wake-up; no job after its run |
| Scaling benchmark (`bench_scaling.cpp`, `bench_cycles.hpp`) | per-slot buffers and hardware counters, their owners, a migration flag | open, start, stop and total the counters; rounds; a report | disjoint streams; no slot's count of another thread's fills, no part of a total missing unseen |
| Stream tools (`vphilox_stream.cpp`, `vphilox_testu01.cpp`) | the options read so far, a limit, a byte count, an engine | options, resolution of the backend; a write loop, or a callback for one word | the stream unbroken through a pipe or a battery, up to the limit, from the backend asked for, and a clean exit |
| cuRAND parity tool (`vphilox_curand_parity.cpp`) | cuRAND's state and an engine side by side, two counts of failures | a case: seed, draw, compare; a verdict | it says identical exactly when the two libraries are |
| Measurement script (`run_matrix.sh`) | the governor it found, two files per suite | build, pin, capture, measure, validate; a trap | the first CPU's governor returned, to every CPU; the two files of one run |
| Publication script (`publish_results.py`) | a table per result, one file of machines | load, write, check | what is published of a run is of that run |
| Other tools, benchmarks and scripts | little | sequential | see "Not modelled" |

How they interact. An engine calls the kernel of its dispatch entry through a
pointer: directly into the caller's array when the request is wide, otherwise
into its own buffer. The kernels and the engine share counter arithmetic. The
bulk float path calls the bulk word path on a tile and then the converter, which
is derived from the dispatch entry of the default round count. A checkpoint is
`state()` turned into text and text turned into `set_state()`. The scaling
benchmark builds one engine per worker over a range of its own, and drives the
workers through the pool or through OpenMP. The measurement script runs the
benchmarks and leaves numbers and environment side by side in an archive; the
publication script makes tables of it. The parity tool starts an engine from the
counter and key that another library reports; the stream tools feed an engine's
words to a test battery after they have pinned the backend through the variable
that dispatch reads.

What is hard. Nothing in the library locks, so concurrency shows in few places:
the initialisation of the statics, the worker pool, the slots and threads of the
benchmark, and scripts that are interrupted or run at once. The rest of the
difficulty is sequential but deep:
the engine's buffer, cursor and counter describe one position in two ways and
every operation has to keep them together; carries that occur once in 2^32
blocks; files that are damaged; a pipe that closes at any byte. `hazards` in
`PROJECT.json` names each at the line where it bites, with the properties that
are there for it.

## Modules

Reading order, with what each stands on:

| Module | Models | Notes |
|---|---|---|
| `EngineOps` | every operation of `basic_engine` as an operator on an engine record (`cursor_`, `key_`, `next_`, `buffer_`) | a counter is a number modulo `CounterPeriod`; the Philox function is the constant operator `Philox` |
| `Engine` | one engine and its caller; `generate_n` is one action per branch of its loop (`Drain`, `Direct`, `DoRefill`) | extends `EngineOps` |
| `Stream` | the abstract specification: a key, a position and an array that is filled in order | implemented by `Engine` and by `FloatBulk` |
| `MCEngine` | words that are triples of counter, key and lane, so that equal words are the same word | |
| `FloatCast` | the two conversions, as exact arithmetic on their grids | |
| `FloatBulk`, `MCFloatBulk` | `next_float`, and `generate_n` for floats: the tile loop | composes the tile loop with `Engine`'s own loop and `FloatCast`; the engine's array is the tile |
| `CounterWords` | `counter_add`, `counter_sub` turn by turn of their loops, on words `U32` in base `Base` | |
| `CounterProofs` | the theorems about them, and lemmas on division and `%` in any base | justify that `EngineOps` uses numbers for counters; the other proof modules take their arithmetic from it |
| `CurandParity`, `MCCurandParity` | the parity tool, and the cuRAND it is built with | composes `Engine`'s loop with `CounterWords`: next to the number of the counter run its four words |
| `EngineProofs` | the theorems about `Engine`, `FloatCast`, `FloatBulk` and `CurandParity`, in this order | each part stands on the one before |
| `CounterLanes` | the lanes of a vector of counters, with each instruction set's way of comparing | |
| `Intrinsics` | the intrinsics the kernels use, from their documented meaning | external |
| `Kernels`, `MCKernels` | `generate` of the four kernels, one action per load, round, store and tail block | |
| `KernelProofs` | the theorems about `CounterLanes` and `Kernels` | |
| `Dispatch`, `MCDispatch` | probe, override, choice; any number of threads in nested initialisers | a stack per thread holds the initialisers it is in |
| `DispatchProofs` | the theorems about `Dispatch` | |
| `ForkJoin` | the abstract specification of a parallel region | implemented by `WorkerPool` and by `Scaling` |
| `WorkerPool`, `WorkerPoolProofs` | the pool, one action per critical section, and its theorems | |
| `Scaling` | `run_scaling` with either runtime, and the counters of `bench_cycles.hpp` | its rounds are `ForkJoin`'s, which is what `WorkerPool` provides |
| `ScalingProofs` | the theorems about `Scaling` | |
| `StateText` | `to_string`, `from_string` and the token reader as operators | |
| `Checkpoint`, `MCCheckpoint` | writer and reader builds and the file between them | composes `StateText` with two instances of `EngineOps` |
| `StreamTool`, `MCStreamTool` | the command lines of both tools; stdio's buffer, the pipe and its consumer; the battery | |
| `StreamToolProofs` | the theorems about `StreamTool` | |
| `MatrixRun` | `run_matrix.sh`, one action per command that can fail or changes something | signals between commands; the checkout moves |
| `Publication`, `MCPublication` | `publish_results.py` over that archive | composes with `MatrixRun` |
| `PublicationProofs` | the theorems about the two scripts | |

A property that could only be broken by a bug has such a bug beside the
definition it would sit in, marked `Mutant`: a dropped guard, a wrong unit, a
missing reset. Each property listed for a passing run is violated by one.

### Engine

`eng` has the class's four members. `Drain` copies what is buffered, `Direct`
calls the kernel when `WideEnough`, `DoRefill` fills the buffer and goes round
again; `pc` says where in the `while (true)` the call is. The caller's array has
one cell more than the largest request, and starts as `Untouched`, so that a
write past the end shows. `state()` gives the refinement mapping: `Position` is
the stream position it reports, and `Abstract` says that everything the engine
does is reading on from that position. There is no buffer at the abstract level,
so no operation may show one.

The `uint32_t` kernel contract, `fn(counter, key, dst, blocks)`, enters as
`KernelWord`; `Kernels` is where the kernels are shown to meet it.

### Float path

The tile of the code is the array `Engine` fills. It is not cleared between
tiles, nor is it in the model: what an earlier tile left is still there, and a
conversion that read too far would hand it out. The position at the level of
floats is the engine's less the words that are in the tile. `FloatCast` computes
with numerators over `FloatGrid` (2^23 in the code) and `DoubleGrid` (2^52): the
bits of a word that are shifted out are a division, setting the exponent of 1.0
adds the grid's size and the subtraction of 1.0 takes it away. Both are exact in
the format, so there is no rounding to model; the bit patterns are left out.

### Counter words and kernels

`CounterWords` keeps widths: the carry and the borrow are two digits wide, the
subtraction wraps modulo `Base^2` and its top bit is the borrow. `Kernels`
computes real products, exclusive ors, key schedules and transposes, on small
words. The low and high half of a product, the odd and even lanes, and the
register permutations are those of the code. NEON's pairs of groups and its
third loop, and the scalar tail that starts from `counter_advanced(base,
batched)`, are actions. A round goes through one group's rounding at a time, as
`round_group` does.

### cuRAND parity

`Begin`, `Draw`, `Start`, `Compare` and `Verdict` are the steps of main's loop
over its cases; between `Start` and `Compare` the engine runs `Engine`'s own
`generate_n`, and each of its steps moves the four words of the counter with
it. cuRAND is external: `Libraries` holds the one the tool's comments describe and
three that depart from it, in what an offset counts, in where the subsequence
goes, and in a carry that is lost while drawing. The tool's verdict is judged by
the words it saw (`compared`), not by its own predicates.

### Dispatch

A machine is a record of the build's switches (`VPHILOX_FORCE_SCALAR`,
`VPHILOX_NO_*`), what CPUID reports, leaf by leaf, and the bits of XCR0, one for
each kind of register the operating system saves. `Compiled` is `config.hpp`,
`X86Probe` and `Preserved` the probe with its masks. `Enter` is the language's guard
on a function-local static, `Nest` the call of another static's function from an initialiser,
`Finish` the end of an initialiser. `SetEnv` may happen at any time: the tools
change the variable themselves.

### Checkpoint

A text is a sequence of symbols; the tag is one symbol, digits and blanks are
one each. `ReadToken` is the stream's extraction of a string, with `fail` and
`eof`; `Load` is `operator>>`, with every early return. The writer and the
reader are instances of `EngineOps` with different `RefillBlocks`. `Damage`
removes, changes or inserts one symbol anywhere, `Truncate` cuts the file.

### Worker pool and scaling benchmark

A critical section without a wait is one action; a wait either passes or puts
the thread to sleep, giving up the mutex in the same step; notifications are
steps of their own, since the code makes them outside the mutex. Threads may
wake for no reason. `Scaling` takes the region as given and models what the
slots do: opening counters on the first job, checking the owner on later ones,
filling, counting, and the report with its three ways out. A build has the time
stamp counter, or perf events for cycles too, or nothing (`Builds`). An event is
opened on a thread and counts that thread's fills. Each event of each worker may be
refused on its own, or be opened and never count (`silent`, on a virtual machine or a
PMU without the event), which `raw()` reports as 0. A count is in fills: `End`
starts, fills, stops and reads. `Total` is a sum over the workers, and `PerfReport` and
`CycleSource` are the tests the report makes before it uses one. They see a refused
event; they see a silent one only when no worker counted an instruction.
`MpkiIsOfAllThatCount` says what is left of the report's promise, that a total holds
all rounds of every worker whose event counts, and says too that the rest enters as 0.

### Stream tools

A command line is a sequence of arguments that the loop over `argv` takes one or
two at a time: `ValueOption`, `Info`, `Help` and `BadOption` are its branches, and
a value is taken whatever it looks like. `--backend` sets the variable that the
first use of the backend reads, once (`kernel`). Then `vphilox_stream` writes, or
`vphilox_testu01` calls a battery that asks for one word after another for as long
as it likes.

`fwrite` is modelled by what it does: it appends to stdio's buffer, some of
which moves to the pipe whenever there is room, and returns once little enough
is left, or short when the pipe is closed. A closed pipe kills the process
unless SIGPIPE is ignored. Sizes are multiplied modulo `SizeCount`, as the code
does modulo 2^64. A limit counts whole words: the rest of it is dropped.

What a property asks of a command line is read off the line itself:
`OptionPlaces` is the set of places where an option stands, each found by
stepping over the value of the one before. Looking for the last `--backend` among
all arguments would be wrong, because `--seed --backend` gives that text to the
seed; one of the lines that are checked is of this kind.

### Measurement and publication

One tag of one machine, so a file is named by the suffix of its suite. `set -e`
is `Fail`: the script goes to its end, where the trap for EXIT restores the
governor. A handled INT or TERM restores it too and then either the script goes
on (bash does, when the command that was running finished, or its status is not
looked at) or it fails; without the trap the script dies at once; `Kill` runs no
trap. Each CPU has a governor of its own. The script reads the first one's (`Save`), and
`WriteGovernor` writes one value to all of them, each of which it may reach or not
(`done`), now or the next time: `sudo` may refuse. So of CPUs that are found with
different governors the others do not get theirs back; `GovernorReturned` says of the
last writes no more than what they do: every CPU they reach has what the script
found on the first. `passed` remembers which run a suite last succeeded
with. A checkout may move at any time but from the build to the reading of the
commit, a window the script leaves open and nobody claims to be safe.

A publication reads the whole archive, or nothing if a file cannot be parsed,
and then writes a table at a time and `machines.csv` last; it may stop in any
file, and runs and deletions go on meanwhile. `CheckPasses` is `--check`. One
archived result is older than the script: it names no backend and shares an
environment file.

## Runs

| Run | Bounds | Shows |
|---|---|---|
| `engine_wide` | period 5 blocks, buffer of 2 blocks, kernel of 2, requests to 19 words, discards to beyond a whole period, offsets in and out of a block, 2 keys | the engine implements the stream; nothing stale is readable; direct path only on an empty buffer; one refill per call; discard and restore are exact; every bulk call returns |
| `float_bulk` | period 7, buffer of 2, kernel of 1 block (scalar: the direct path takes every whole block), tiles of 12 words, words of 6 bits of which a float keeps 5, requests to 30 floats | floats are the stream across tile seams; a full tile goes to the kernel before any refill; requests are served |
| `curand_parity` | words of three bits (`Base` 8, period 4096 blocks), 6 words per case, all 49 lists of two out of seven cases, 4 cuRANDs | the verdict is right and the core is blamed exactly where it differs; the counter's words stand for the position through every refill and direct call, for all 64 deltas; back undoes forth |
| `kernels` | base 16, 3 rounds, nine lengths from 0 to 35, six bases, four instruction sets | output equals the scalar definition; a multiple of the preferred width has no tail; calls return |
| `dispatch_races` | 2 threads, 2 round counts, 19 builds and machines: each feature and each bit of XCR0 missing alone, each switch | only runnable kernels; the converter follows; the choice is stable; calls return |
| `dispatch_converter` | the same | *violation*, see below |
| `worker_pool` | 4 workers, 3 runs | implements fork and join; jobs outlive nothing; `run` and the destructor return |
| `scaling` | 2 slots, 3 threads, 2 rounds, two sizes, 4 builds, every set of refused and of silent events for each slot | disjoint adjoining streams; counters are the slot's own; bytes were filled; an MPKI leaves out nothing that counts |
| `checkpoint` | text words below 5 in base 3, period 625, buffers of 1 and 2 blocks, 2 checkpoints, padded or not, 2 events, of which one may be a damaged symbol or a cut | a checkpoint resumes exactly in the other build; a damaged one is all or nothing |
| `stream_tool` | 29 command lines of the two tools, pinned or not from outside; words of 2 bytes, chunks of 2 words, pipe of 3 bytes, stdio buffer of 2, sizes below 32, consumers of 0, 3, 6, 12 bytes | output is the stream; the limit is kept; the backend used and reported is the one asked for; the tool exits |
| `publication` | 2 runs, 2 suites, 2 commits (one without the second suite), 1 signal, 2 CPUs with different governors or with none, every write to each of them reaching it or not, 2 publications, 1 deletion | the first CPU's governor is on every CPU that the last writes reach; a success is of one run; what is published is of one run; a publication heals an interrupted one |
| `matrix_governor` | the same | *violation*, see below |

Why the bounds are enough. The engine's behaviour depends on how a request or a
skip compares with what is buffered, with a block, with the buffer, with the
kernel's width and with the end of the period; the bounds put at least one value
on each side of every one of these, and every counter is a starting point, so
the wrap is met everywhere. In the kernels six bases place a carry in no word,
in each word, at the sign bit and at the full wrap, and the lengths cover no
batch, one, a pair, whole batches of every width, and tails of every kind. In the
pool a fourth worker and a third run give a late worker two generations to be confused by. In `scaling`
a third thread lets a slot move while another stays. Two checkpoints show where a
read leaves the stream. The cases of `curand_parity` start in the middle of a
block, at a carry out of the low word, just past one, in the last subsequence and
with a seed of two words; two cases show what the first leaves behind. The
machines of `dispatch_races` differ from the best one in one respect at a time, so
that a check left out shows; the one whose leaves end before 7 would read there
what the best one does. Chunks, words, pipe and stdio buffer have sizes that do
not divide each other's boundaries, so that a write is cut anywhere. Bounds on
counters: `MoreThanOne` (refills of one call, of which only "more than one" is of
interest), `MaxRequest`, `MaxFloats`, `MaxRuns`, `MaxRounds`, `MaxMoves`,
`MaxSaves`, `MaxDamage`, `MaxSignals`, `MaxPublications`, `MaxWithdrawals`; the last publication
within the bound is not stopped, as none would follow it to heal what it left;
`StreamTool` keeps `written` at 0 when there is no
limit, as nothing reads it then. `MaxMoves` counts what the checkpoint's
engines do and what befalls its file together. Deadlock is checked everywhere
except in `checkpoint` and in the two runs of the scripts, where these bounds
make the system stop.

A type invariant is among the properties of `engine_wide`. Those of `Dispatch`,
`WorkerPool` and `Scaling` are proved, as part of an inductive invariant. The
other modules with a type invariant state it to say what their variables hold; it
adds nothing to what the properties of their runs need and is not listed for them.

Fairness. `Engine`: weak fairness on the steps of a call in progress (a thread
inside `generate_n` goes on running), none on the caller. `FloatBulk`: the same
for a float call. `Dispatch`: weak fairness on each thread inside an
initialiser; nobody has to call. `WorkerPool`: weak fairness on the main
thread's steps and on each worker's; none on calling `run` again, on destroying
the pool, or on spurious wake-ups; a notification, not luck, has to wake a
sleeper. `Kernels`: none; that a call returns is stated step by step, as a measure that
every step lowers and none lowers past 0, with deadlock checked.
`StreamTool`: the process runs, and the consumer reads on until it closes the
pipe, or the battery comes to an end. `CurandParity`, `Checkpoint`,
`Scaling`, `MatrixRun` and `Publication` state
no liveness and assume no fairness.

### Where documents and code disagree

- `dispatch_converter`: `float_bulk.hpp:89-90` says that deriving the converter
  from the backend "guarantees the two can never disagree". An engine of another
  round count reads `VPHILOX_BACKEND` again when its own entry is initialised,
  so its kernel and the converter may be of different instruction sets if the
  variable has changed. Both are runnable (`OnlyRunnableKernels`), and the
  results are equal; only the claim is too strong.
- `matrix_governor`: the header of `run_matrix.sh` (28-29) says that the governor
  is forced to `performance` "for the duration and restored on exit, including
  on Ctrl-C". The handler restores it and returns; bash goes on, measures under
  the restored governor, and the script succeeds. The environment file says
  `performance`, having been written before.

Two smaller ones that no run is spent on: `operator<<` (`serialize.hpp:126-130`)
inserts a string, so width, adjustment and fill of the stream show in the text,
which is said not to depend on the flags; and a cycle counter that is refused
adds 0 to `total_cycles` (`bench_scaling.cpp:309-320`) while its bytes are still
divided by, where the header promises every thread's own cycles.

## Proofs

All proofs hold for every value of the constants that satisfies the named
assumption of the module, with any number of threads, workers, keys and words.

**Engine** (`EngineProofs`, from `EngineAssumption` and `CallerAssumption`).
`TypeOK` alone is not inductive, since a word read from the buffer has to be the
right one. `IInv` is the conjunction of `TypeOK`; `BufferOK`, which ties each
word still to be read to the stream position that `state()` computes from
cursor and counter; `BufferDrainedFirst`; `LoopInv`, which says what each place
of the loop knows of the count left; and `OneRefillInv`, which says that after
the one refill what is left fits the buffer. Lemmas about each operator of
`EngineOps` (its type, its position, its buffer) come first, then one lemma per
action, which shows at once that the action keeps `IInv` and is a step or a
stutter of `Stream`. From these follow `EngineTypeCorrect`, `BufferHoldsStream`,
`BufferDrainedBeforeKernel`, `AtMostOneRefill`, `DiscardLandsExactly`,
`RestoreLandsExactly` and `EngineImplementsStream`.

**Counters** (`CounterProofs`, from `BaseAssumption`). One turn of either loop is
shown to keep the value of the counter plus the weighted carry (less the weighted
borrow); four turns give `CounterAddCorrect` and `CounterSubCorrect` in every
base, hence for 2^32. That a value has one representation (`ValueInjective`) and
every number of the period has one (`CounterOfValue`) is what lets `EngineOps` use
numbers modulo `CounterPeriod`.

**Floats** (`EngineProofs`, from `CastAssumption`, `FloatAssumption` and the engine's).
`FloatBelowOne`, `FloatIsUniform` and `DoubleIsUniform` are about the conversions
alone: no word becomes 1.0, and every number of the grid is made of equally many
words. The bulk path stands on the engine's lemmas: `FInv` adds to `IInv` that the
tile holds the words from the reader's position on (`TileHolds`), where in the
request the tile is (`TileInv`), and what each place of the engine's loop knows of
a full tile (`DirectInv`). One lemma turns a step of that loop into the delivery of
some words (`StepDelivers`, from the engine's refinement), so that filling a tile
is a stutter for the caller and converting it a delivery. From it
`FloatsImplementStream`, for tiles, refills and kernels of any width, and
`TileGoesDirect`.

**cuRAND parity** (`EngineProofs`, from `ParityAssumption` and the engine's).
`Turning` is the engine's `IInv` together with `CounterInv` (the four words stand
for `eng.next`) and the shape of what cuRAND is asked and answers. From it
`CounterKeepsUp` and `SubAlwaysUndoesAdd`, in every base. `Judging` adds what the
tool knows: the words drawn so far are the stream from the state reported
(`Drawn`, for a cuRAND that carries), each case compared was reported as
`CurandInit` has it (`Judged`), and the two counters count the cases that leave the
stream and those that are not mapped as documented (`Counted`).

Of the verdict one half needs nothing: `IdenticalIsTrue` says that an exit status of 0
means every case's words are the documented ones, and that the core is blamed for
exactly the cases that leave the stream, whatever function Philox is. The other
half does: a cuRAND that seeds elsewhere but happens to produce the promised words
for every case would be reported as different although no word differs. That
`WordsPerCase` words tell two positions of one key's stream apart is
`WordsNamePosition`; `VerdictCorrect` has it as its hypothesis, and the Philox of
`MCCurandParity`, whose words name the block and lane they come from, satisfies it.
For positions at the same place in a block it follows from Philox being a bijection;
for the others it is what the tool takes on trust with 4096 words.

**Kernels** (`KernelProofs`, from `BaseAssumption` and
`KernelAssumption`). `LanesAreCounters`: lane j of the four registers is the counter j blocks
on, for each instruction set's own comparison and in every base (an even one for
AVX2, whose bias is half of it), as long as a register is no wider than a word has
values. `LoopInv` says where the loops stand; with `PreferredHasNoTail` it is `IInv`,
and from it `PreferredNeverHasTail` and `KernelCallsReturn`.

`KernelOutput` is the kernel contract itself, `OutputIsStream`, on all four
instruction sets: for any key, counter, number of blocks, round constants, number of rounds
and even base of 16 or more. Three groups of lemmas carry it. The rounds: after
round r every lane of a group is the scalar block and key after r rounds
(`RoundOfLanes`, from `X86Lanes` and `NeonLanes`, which follow the odd and even products
through shifts and blends). The transposes: `StoreAvx2Blocks`, `StoreAvx512Blocks`
and `StoreNeonBlocks` follow every word through unpacks, permutations and
interleaved stores to its place in the output. The loops: `DataInv` says that the
blocks before `block` are written and right, that nothing behind them is, that
`base` is the counter of the next load, and which rounds of which blocks the groups
in registers hold, the second group of a NEON pair among them; the tail goes on
from where the batches stop.

**Dispatch** (`DispatchProofs`, from `DispatchAssumption`). The invariant adds
`Filled`: a static has a value exactly when its guard is done, and the features
are those the probe finds on this machine. From it: `DispatchTypeCorrect`,
`KernelsAreRunnable`, `ConverterIsTheKernels`, `ResolvedOnce`.

**Worker pool** (`WorkerPoolProofs`, from `PoolAssumption`). `Counting` says that
while a run is in progress `remaining_` is the number of workers that have not
finished this generation, that a worker's `seen` is this generation or the last,
and what each program location knows. From it `PoolTypeCorrect`, `JobsAreAlive`
and the refinement `PoolImplementsForkJoin`.

**Scaling** (`ScalingProofs`, from `ScalingAssumption`). `Regions` says that jobs run
in a round and rounds with a full team only, `Filled` how many fills a slot has
made in each phase and what its buffer holds, `Followed` that a slot's counters
followed it unless a migration was seen, `Silenced` that an event that never counts
counted nothing, `RowIsLast` what a row was made from.
From these, for any number of slots, threads, rounds and sizes:
`ScalingForksAndJoins`, `CountersFollowSlots`, `MpkiLeavesNoCountOut` and
`StreamsNeverOverlap`. `BytesAreFilled` and `MpkiLeavesNoCountOut` are about totals over
the slots: that a sum whose terms are 0 or all the same is a product (`ConstantSum`) is
shown by taking the smallest number of slots for which it would fail.

**Stream tools** (`StreamToolProofs`, from `ToolAssumption`). `Walked` says that the loop over
`argv` stops at options only; `Followed` that what is set is what the last option
passed so far says, and that the kernel was resolved from it; `InOrder` that what was
read, what is in the pipe and what stdio holds are, one behind the other, the stream's
first `position` words; `Counted` what each place of the writing loop knows of the
limit. From these `StreamIsWritten`, `LimitHolds` and `PinIsKept`, for any command line and
any sizes of words, chunks, buffers and pipes. `LimitHolds` is, like its property,
about sizes that fit in 64 bits. `ToolAssumption` asks that command lines are sequences
of strings, that the empty text is no size and `none` no backend: the first is what
`argv` is, the others tell the markers of the model from values.

**Measurement and publication** (`PublicationProofs`, from `MatrixAssumption`, `MarkerAssumption`
and `PublicationAssumption`). `FoundIsKept` says that the governor a run found on the
first CPU is in force there until it is saved, and that the saved one is it: the order of saving, trap and pin in
the script. `FilesGrow` says, for each place of the script, how far its two files have got
and that they are of this run and of the commit the binary was built from, `FilesStay` that those
of a successful run stay what they were; neither is inductive without the other, nor is
`SuccessIsOneRun`, which knows nothing of a run under way. `TablesFollow` says that the
tables written so far are of what the publication read. From these `SuccessLeavesOneRun`,
`PublicationTellsOfOneRun`, `GovernorIsReturned` and `PublicationAlwaysHeals`, for any
number of CPUs, suites, commits, runs, signals, publications and deletions. The assumptions
on `None` and `Partial` say that a missing or half-written file is told from a
whole one.

An invariant was checked by TLC, on the configuration of its component, before it
was proved.

Model-checked only: every liveness property (`CallReturns`, `FloatsAreServed`,
`EveryCallReturns`, `RunReturns`, `DestructorReturns`, `ToolExits`), because fairness and
ENABLED are beyond the prover; and the two properties of `checkpoint`, `LoadResumes` and
`AllOrNothing`. What a text holds and what a reader makes of it is defined by folds over
its symbols and by a recursive function over the digits of a number (`Decimal`), and what
these compute for every text takes one induction over data for each, which is not made
yet. Where an induction over numbers is needed elsewhere it
is made by hand, from the least number for which a statement would fail.

## Not modelled

- The bit patterns of floating-point numbers. That adding 1.0's exponent and
  subtracting 1.0 are exact is a fact of the format, and all the arithmetic of
  `float_cast.hpp` there is.
- What is printed: help texts, `--info`'s wording, the parity tool's tables.
- Inside the batteries, cuRAND, OpenMP, perf events and the C library: external,
  modelled by what the code relies on.
- `bench_engines.cpp`, `bench_float.cpp`, `bench_lane_layout.cpp`,
  `bench_main.hpp`: measuring loops without state.
- The figures of `publish_results.py` (layout, fonts, rasterisation) and the
  table `run_matrix.sh` prints at its end.
- `run_placement.sh` (a gate, then `run_matrix.sh` twice), `freq_probe.cpp`, the
  scripts for PractRand and TestU01, and repository maintenance.
- `version.hpp.in`, `VphiloxVersion.cmake`: build-time constants.
- `tests/`, `docs/`, `paper/`, `results/` are evidence and text about the above,
  and `benchmarks/third_party/` is vendored.

## Plan

Written so far, in this order: `EngineOps`, `Engine`, `Stream` (the heart of the
library); the counters under it; dispatch and its races; the worker pool; the
kernels; then the compositions: checkpoint, float path, scaling, stream tools,
cuRAND parity; the measurement script and the publication of its archive; and the
proofs about all of these but the checkpoint.

Next, in order of importance:

1. Proofs about `Checkpoint`: first what does not depend on the decimal text, that two
   builds with different buffers agree on a position written and restored; then, with the
   folds of `StateText` as functions over positions, that a number written is the number
   read, that the fields of an undamaged text are found where they were written, and from
   these `LoadResumes` and `AllOrNothing`.
2. `Kernels` as an implementation of an abstract kernel contract, the one
   `EngineOps` assumes as `KernelWord`, so that engine and kernels are composed;
   `KernelOutput` is the statement it needs.
3. `Scaling` over `WorkerPool` itself rather than over `ForkJoin`.
4. `run_placement.sh` around `MatrixRun`, and the sample sizes of the benchmarks
   that are not modelled.

The twelve runs are kept few on purpose: a new component shares a run with one
it is composed with, or takes the place of a run that its composition subsumes.
