------------------------- MODULE PublicationProofs -------------------------
(***************************************************************************)
(* The measurement script and the publication of its results, for any      *)
(* suites, commits, kernels, CPUs and governors and any number of runs,    *)
(* signals and publications: a run that succeeded left two files of its    *)
(* own, a publication that --check accepts tells of that run throughout,   *)
(* the governor of the first CPU is given back to all that can be written, *)
(* and a publication that ends repairs whatever an earlier one left.       *)
(***************************************************************************)
EXTENDS Publication, TLAPS

---------------------------------------------------------------------------
(* The inductive invariant. *)

Running  == Places \ {"idle"}
Settings == Governors \cup {Performance}

\* The script between its first command and its end.
Jobs == [pc : Running, run : 1 .. MaxRuns, bench : Benches, perf : BOOLEAN,
         before : Settings, saved : Settings \cup {None}, ok : BOOLEAN]

JobOK ==
  \/ job = Idle
  \/ job \in Jobs /\ <<job.bench, job.perf>> \in Suites

\* What a publication read is what was archived when it did.
LoadedOK ==
  loaded # None => /\ DOMAIN loaded \subseteq Tags
                   /\ \A t \in DOMAIN loaded : loaded[t].numbers \in NumbersOf \cup {ElderNumbers}

\* The governor that the run found on the first CPU is in force there, or saved.
FoundIsKept ==
  job # Idle =>
    /\ job.saved = None => governor[First] = job.before
    /\ job.saved # None => job.saved = job.before
    /\ job.pc \in {"build", "rows", "save"} => job.saved = None
    /\ job.pc = "pin" => job.saved # None

Described == {"describe", "start", "measure", "validate", "stamp"}
Governed  == Described \ {"describe"}

NumbersOfThisRun ==
  json[slot] \in NumbersOf /\ json[slot].run = job.run /\ json[slot].version = binary[job.bench]

\* How far the two files of a run have got, by the place of the script.
FilesGrow ==
  job # Idle =>
    /\ passed[slot] = 0
    /\ job.ok => job.pc = "exit"
    /\ job.pc \in {"rows", "save", "pin", "capture"} => binary[job.bench] = head
    /\ job.pc \in Described \/ job.ok =>
         env[slot] \in LinesOf /\ env[slot].run = job.run /\ env[slot].sha = binary[job.bench]
    /\ job.pc \in Governed \/ job.ok => env[slot].governor # None
    /\ job.pc = "measure" => json[slot] = Partial
    /\ job.pc = "validate" => json[slot] = Partial \/ NumbersOfThisRun
    /\ job.pc = "stamp" \/ job.ok =>
         NumbersOfThisRun /\ json[slot].cycles /\ (job.perf => json[slot].mpki)
    /\ job.ok => json[slot].backend = env[slot].backend

\* The files that were left by a run that succeeded.
FilesStay ==
  \A s \in Suffixes : passed[s] # 0 =>
    /\ json[s] \in NumbersOf /\ env[s] \in LinesOf
    /\ json[s].run = passed[s] /\ env[s].run = passed[s]
    /\ json[s].version = env[s].sha
    /\ json[s].backend = env[s].backend
    /\ env[s].governor # None
    /\ json[s].cycles /\ (s = "icache" => json[s].mpki)

\* The tables written so far are of what the publication read.
TablesFollow ==
  loaded # None =>
    \A k \in 1 .. next - 1 :
      Order[k] \in DOMAIN loaded => csv[Order[k]] = loaded[Order[k]].numbers

MatrixInv  == MatrixTypeOK /\ JobOK /\ FoundIsKept /\ FilesGrow /\ FilesStay
PublishInv == TypeOK /\ LoadedOK /\ TablesFollow
IInv       == MatrixInv /\ PublishInv

---------------------------------------------------------------------------
(* The script's variables. *)

\* The markers are no commit, governor or kernel, and no file's contents.
LEMMA Markers ==
  /\ None # Partial
  /\ None \notin Settings /\ None \notin Versions /\ None \notin Backends
  /\ None \notin NumbersOf /\ None \notin LinesOf /\ Partial \notin NumbersOf
BY MatrixAssumption, MarkerAssumption DEF Settings

\* A suite names its files; those of a perf run are its own.
LEMMA SlotOfSuite ==
  ASSUME NEW s \in Suites
  PROVE  /\ Suffix(s[1], s[2]) \in Suffixes
         /\ s[1] \in Benches /\ s[2] \in BOOLEAN
         /\ s[2] <=> Suffix(s[1], s[2]) = "icache"
<1>1. s \in Benches \X BOOLEAN /\ (s[2] => s[1] = "scaling")
  BY MatrixAssumption
<1>2. Suffix(s[1], s[2]) \in Suffixes
  BY DEF Suffixes
<1> QED BY <1>1, <1>2 DEF Suffix, Benches

\* A script that runs has the place, the files and the values of a run.
LEMMA JobIsRun ==
  ASSUME JobOK, job # Idle
  PROVE  /\ job \in Jobs /\ job.pc \in Running /\ job.run \in 1 .. MaxRuns
         /\ job.bench \in Benches /\ job.perf \in BOOLEAN /\ job.before \in Settings
         /\ job.saved \in Settings \cup {None} /\ job.ok \in BOOLEAN
         /\ slot \in Suffixes
         /\ job.perf <=> slot = "icache"
<1>1. job \in Jobs /\ <<job.bench, job.perf>> \in Suites
  BY DEF JobOK
<1>2. slot \in Suffixes /\ (job.perf <=> slot = "icache")
  <2> DEFINE s == <<job.bench, job.perf>>
  <2>1. s[1] = job.bench /\ s[2] = job.perf
    OBVIOUS
  <2>2. s \in Suites
    BY <1>1
  <2>3. Suffix(s[1], s[2]) \in Suffixes /\ (s[2] <=> Suffix(s[1], s[2]) = "icache")
    BY <2>2, SlotOfSuite
  <2> QED BY <2>1, <2>3 DEF slot
<1> QED BY <1>1, <1>2 DEF Jobs

\* No script: its place says so.
LEMMA IdleByPlace ==
  ASSUME JobOK
  PROVE  /\ job = Idle <=> job.pc = "idle"
         /\ Idle.run = 0 /\ Idle.saved = None /\ Idle.pc = "idle"
BY DEF JobOK, Jobs, Running, Idle, Places

\* The command that comes next is of the same run.
SameRun(j) ==
  /\ j \in Jobs /\ j # Idle
  /\ j.run = job.run /\ j.bench = job.bench /\ j.perf = job.perf /\ j.before = job.before

\* Going on to the next command changes the place and nothing else.
LEMMA AtPlace ==
  ASSUME JobOK, job # Idle, NEW pc \in Running
  PROVE  /\ SameRun(At(pc))
         /\ At(pc).pc = pc /\ At(pc).saved = job.saved /\ At(pc).ok = job.ok
<1>1. job \in Jobs
  BY JobIsRun
<1>2. /\ At(pc) \in Jobs
      /\ At(pc).run = job.run /\ At(pc).bench = job.bench /\ At(pc).perf = job.perf
      /\ At(pc).before = job.before /\ At(pc).saved = job.saved /\ At(pc).ok = job.ok
      /\ At(pc).pc = pc
  BY <1>1 DEF At, Jobs
<1>3. At(pc) # Idle
  BY <1>2 DEF Running, Idle
<1> QED BY <1>2, <1>3 DEF SameRun

\* A script that ends has its verdict; one that fails was no success.
LEMMA AtEnd ==
  ASSUME JobOK, job # Idle, NEW verdict \in BOOLEAN
  PROVE  LET j == [At("exit") EXCEPT !.ok = verdict]
         IN  SameRun(j) /\ j.pc = "exit" /\ j.saved = job.saved /\ j.ok = verdict
<1> DEFINE e == At("exit")
           j == [e EXCEPT !.ok = verdict]
<1>1. "exit" \in Running
  BY DEF Running, Places
<1>2. SameRun(e) /\ e.pc = "exit" /\ e.saved = job.saved
  BY <1>1, AtPlace
<1> HIDE DEF e
<1>3. /\ j \in Jobs /\ j.run = e.run /\ j.bench = e.bench /\ j.perf = e.perf
      /\ j.before = e.before /\ j.saved = e.saved /\ j.ok = verdict /\ j.pc = e.pc
  BY <1>2 DEF SameRun, Jobs
<1>4. j # Idle
  BY <1>2, <1>3 DEF Idle
<1> QED BY <1>2, <1>3, <1>4 DEF SameRun, e

\* The governor that is saved is saved on the way to the pin.
LEMMA AtPin ==
  ASSUME JobOK, job # Idle, NEW g \in Settings
  PROVE  LET j == [At("pin") EXCEPT !.saved = g]
         IN  SameRun(j) /\ j.pc = "pin" /\ j.saved = g /\ j.ok = job.ok
<1> DEFINE e == At("pin")
           j == [e EXCEPT !.saved = g]
<1>1. "pin" \in Running
  BY DEF Running, Places
<1>2. SameRun(e) /\ e.pc = "pin" /\ e.ok = job.ok
  BY <1>1, AtPlace
<1> HIDE DEF e
<1>3. /\ j \in Jobs /\ j.run = e.run /\ j.bench = e.bench /\ j.perf = e.perf
      /\ j.before = e.before /\ j.saved = g /\ j.ok = e.ok /\ j.pc = e.pc
  BY <1>2 DEF SameRun, Jobs
<1>4. j # Idle
  BY <1>2, <1>3 DEF Idle
<1> QED BY <1>2, <1>3, <1>4 DEF SameRun, e

\* A run keeps its files, its suite and its number.
LEMMA RunGoesOn ==
  ASSUME MatrixTypeOK, JobOK, job # Idle, SameRun(job'), runs' = runs
  PROVE  /\ JobOK' /\ slot' = slot
         /\ job'.pc \in Running /\ job'.run \in 0 .. runs'
         /\ job'.saved \in Settings \cup {None}
<1>1. job \in Jobs /\ <<job.bench, job.perf>> \in Suites
  BY DEF JobOK
<1>2. slot' = slot
  BY DEF SameRun, slot
<1>3. JobOK'
  BY <1>1 DEF JobOK, SameRun
<1> QED BY <1>2, <1>3 DEF SameRun, Jobs, MatrixTypeOK

---------------------------------------------------------------------------
(* The commands keep the invariant. *)

\* At first no script has run.
LEMMA MatrixStarts == MatrixInit => MatrixInv
<1> SUFFICES ASSUME MatrixInit PROVE MatrixInv
  OBVIOUS
<1>1. MatrixTypeOK
  <2>1. MaxRuns \in Nat /\ MaxSignals \in Nat
    BY MatrixAssumption
  <2>2. job.pc = "idle" /\ job.run = 0 /\ job.saved = None
    BY DEF MatrixInit, Idle
  <2>3. /\ binary \in [Benches -> Versions \cup {None}]
        /\ json \in [Suffixes -> NumbersOf \cup {None, Partial}]
        /\ env \in [Suffixes -> LinesOf \cup {None}]
        /\ passed \in [Suffixes -> 0 .. MaxRuns]
    BY <2>1 DEF MatrixInit
  <2>4. governor \in [Cpus -> Governors \cup {Performance}]
    <3>1. governor \in [Cpus -> Governors]
      BY MatrixAssumption DEF MatrixInit
    <3> QED BY <3>1
  <2> QED BY <2>1, <2>2, <2>3, <2>4 DEF MatrixInit, MatrixTypeOK, Places
<1>2. JobOK /\ FoundIsKept /\ FilesGrow /\ FilesStay
  BY DEF MatrixInit, JobOK, FoundIsKept, FilesGrow, FilesStay
<1> QED BY <1>1, <1>2 DEF MatrixInv

\* A run begins with none of its files, and with the governor it finds.
LEMMA InvokeKeeps == MatrixInv /\ Invoke => MatrixInv'
<1> SUFFICES ASSUME MatrixInv, Invoke PROVE MatrixInv'
  OBVIOUS
<1> USE DEF MatrixInv
<1>1. PICK s \in Suites :
        /\ job' = [pc |-> "build", run |-> runs + 1, bench |-> s[1], perf |-> s[2],
                   before |-> governor[First], saved |-> None, ok |-> FALSE]
        /\ passed' = [passed EXCEPT ![Suffix(s[1], s[2])] = 0]
  BY DEF Invoke
<1>2. Suffix(s[1], s[2]) \in Suffixes /\ s[1] \in Benches /\ s[2] \in BOOLEAN
  BY SlotOfSuite
<1>3. s = <<s[1], s[2]>>
  BY MatrixAssumption
<1>4. /\ job'.pc = "build" /\ job'.run = runs + 1 /\ job'.bench = s[1] /\ job'.perf = s[2]
      /\ job'.before = governor[First] /\ job'.saved = None /\ job'.ok = FALSE
  BY <1>1
<1>5. slot' = Suffix(s[1], s[2])
  BY <1>4 DEF slot
<1>6. /\ passed' \in [Suffixes -> 0 .. MaxRuns] /\ passed'[slot'] = 0
      /\ \A t \in Suffixes : passed'[t] # 0 => passed'[t] = passed[t]
  BY <1>1, <1>2, <1>5, MatrixAssumption DEF MatrixTypeOK
<1>7. runs \in Nat /\ runs + 1 \in 1 .. MaxRuns /\ runs' = runs + 1
  BY MatrixAssumption DEF Invoke, MatrixTypeOK
<1>8. MatrixTypeOK'
  <2>1. /\ job'.pc \in Places /\ job'.run \in 0 .. runs'
        /\ job'.saved \in Governors \cup {Performance, None}
    BY <1>4, <1>7 DEF Places
  <2>2. runs' \in 0 .. MaxRuns
    BY <1>7
  <2> QED BY <1>6, <2>1, <2>2 DEF MatrixTypeOK, Invoke, files
<1>9. JobOK'
  <2>1. job' \in Jobs
    <3>1. governor[First] \in Settings
      BY MatrixAssumption DEF MatrixTypeOK, Settings
    <3> QED BY <1>1, <1>2, <1>7, <3>1 DEF Jobs, Running, Places
  <2>2. <<job'.bench, job'.perf>> \in Suites
    BY <1>3, <1>4
  <2> QED BY <2>1, <2>2 DEF JobOK
<1>10. FoundIsKept'
  BY <1>4 DEF FoundIsKept, Invoke
<1>11. FilesGrow'
  BY <1>4, <1>6 DEF FilesGrow, Described, Governed
<1>12. FilesStay'
  BY <1>6 DEF FilesStay, Invoke, files
<1> QED BY <1>8, <1>9, <1>10, <1>11, <1>12

\* What the benchmark was built from is what is checked out.
LEMMA BuildKeeps == MatrixInv /\ Build => MatrixInv'
<1> SUFFICES ASSUME MatrixInv, Build PROVE MatrixInv'
  OBVIOUS
<1> USE DEF MatrixInv
<1>1. job # Idle /\ job.pc = "build" /\ job \in Jobs /\ job.bench \in Benches
  BY JobIsRun, IdleByPlace DEF Build
<1>2. \/ /\ job' = [At("exit") EXCEPT !.ok = FALSE] /\ binary' = binary
      \/ /\ job' = At("rows") /\ binary' = [binary EXCEPT ![job.bench] = head]
  BY DEF Build, Fail, Goto
<1>3. /\ SameRun(job') /\ job'.saved = job.saved /\ job'.ok = FALSE
      /\ \/ job'.pc = "exit" /\ binary' = binary
         \/ job'.pc = "rows" /\ binary' = [binary EXCEPT ![job.bench] = head]
  <2>1. job.ok = FALSE
    BY <1>1, JobIsRun DEF FilesGrow
  <2>2. "rows" \in Running
    BY DEF Running, Places
  <2> QED BY <1>1, <1>2, <2>1, <2>2, AtPlace, AtEnd
<1>4. JobOK' /\ slot' = slot /\ job'.pc \in Running /\ job'.run \in 0 .. runs'
  BY <1>1, <1>3, RunGoesOn DEF Build
<1>5. MatrixTypeOK'
  BY <1>1, <1>3, <1>4 DEF MatrixTypeOK, Build, Running, files
<1>6. FoundIsKept'
  BY <1>1, <1>3 DEF FoundIsKept, Build, SameRun
<1>7. FilesGrow'
  BY <1>1, <1>3, <1>4 DEF FilesGrow, Build, SameRun, Described, Governed, MatrixTypeOK
<1>8. FilesStay'
  BY DEF FilesStay, Build, files
<1> QED BY <1>4, <1>5, <1>6, <1>7, <1>8

\* The suite is there or the script ends.
LEMMA RowsKeeps == MatrixInv /\ Rows => MatrixInv'
<1> SUFFICES ASSUME MatrixInv, Rows PROVE MatrixInv'
  OBVIOUS
<1> USE DEF MatrixInv
<1>1. job # Idle /\ job.pc = "rows" /\ job \in Jobs
  BY JobIsRun, IdleByPlace DEF Rows
<1>2. job' = [At("exit") EXCEPT !.ok = FALSE] \/ job' = At("save")
  BY DEF Rows, Fail, Goto
<1>3. /\ SameRun(job') /\ job'.saved = job.saved /\ job'.ok = FALSE
      /\ job'.pc \in {"exit", "save"}
  <2>1. job.ok = FALSE
    BY <1>1, JobIsRun DEF FilesGrow
  <2>2. "save" \in Running
    BY DEF Running, Places
  <2> QED BY <1>1, <1>2, <2>1, <2>2, AtPlace, AtEnd
<1>4. JobOK' /\ slot' = slot /\ job'.pc \in Running /\ job'.run \in 0 .. runs'
  BY <1>1, <1>3, RunGoesOn DEF Rows
<1>5. MatrixTypeOK'
  BY <1>1, <1>3, <1>4 DEF MatrixTypeOK, Rows, Running, files
<1>6. FoundIsKept'
  BY <1>1, <1>3 DEF FoundIsKept, Rows, SameRun
<1>7. FilesGrow'
  BY <1>1, <1>3, <1>4 DEF FilesGrow, Rows, SameRun, Described, Governed
<1>8. FilesStay'
  BY DEF FilesStay, Rows, files
<1> QED BY <1>4, <1>5, <1>6, <1>7, <1>8

\* A governor is saved where the machine shows one.
LEMMA SaveKeeps == MatrixInv /\ Save => MatrixInv'
<1> SUFFICES ASSUME MatrixInv, Save PROVE MatrixInv'
  OBVIOUS
<1> USE DEF MatrixInv
<1>1. job # Idle /\ job.pc = "save" /\ job \in Jobs /\ job.saved = None /\ job.ok = FALSE
  BY JobIsRun, IdleByPlace DEF Save, FoundIsKept, FilesGrow
<1>2. governor[First] \in Settings /\ governor[First] # None /\ governor[First] = job.before
  BY <1>1, Markers, MatrixAssumption DEF MatrixTypeOK, Settings, FoundIsKept
<1>3. job' = At("capture") \/ job' = [At("pin") EXCEPT !.saved = governor[First]]
  BY DEF Save, Goto
<1>4. /\ SameRun(job') /\ job'.ok = FALSE
      /\ \/ job'.pc = "capture" /\ job'.saved = None
         \/ job'.pc = "pin" /\ job'.saved = governor[First]
  <2>1. "capture" \in Running
    BY DEF Running, Places
  <2> QED BY <1>1, <1>2, <1>3, <2>1, AtPlace, AtPin
<1>5. JobOK' /\ slot' = slot /\ job'.pc \in Running /\ job'.run \in 0 .. runs'
      /\ job'.saved \in Settings \cup {None}
  BY <1>1, <1>4, RunGoesOn DEF Save
<1>6. MatrixTypeOK'
  BY <1>1, <1>4, <1>5 DEF MatrixTypeOK, Save, Running, Settings, files
<1>7. FoundIsKept'
  BY <1>2, <1>4 DEF FoundIsKept, Save, SameRun
<1>8. FilesGrow'
  BY <1>1, <1>4, <1>5 DEF FilesGrow, Save, SameRun, Described, Governed, files
<1>9. FilesStay'
  BY DEF FilesStay, Save, files
<1> QED BY <1>5, <1>6, <1>7, <1>8, <1>9

\* A governor that is written is one of the machine's afterwards.
LEMMA WriteIsSetting ==
  ASSUME governor \in [Cpus -> Settings], NEW value \in Settings, NEW done \in SUBSET Cpus,
         WriteGovernor(value, done)
  PROVE  governor' \in [Cpus -> Settings]
BY DEF WriteGovernor

\* The governor is forced once the one that was found is saved.
LEMMA PinKeeps == MatrixInv /\ Pin => MatrixInv'
<1> SUFFICES ASSUME MatrixInv, Pin PROVE MatrixInv'
  OBVIOUS
<1> USE DEF MatrixInv
<1>1. job # Idle /\ job.pc = "pin" /\ job \in Jobs /\ job.saved # None /\ job.ok = FALSE
  BY JobIsRun, IdleByPlace DEF Pin, FoundIsKept, FilesGrow
<1>2. SameRun(job') /\ job'.ok = FALSE /\ job'.saved = job.saved /\ job'.pc = "capture"
  <2>1. "capture" \in Running
    BY DEF Running, Places
  <2> QED BY <1>1, <2>1, AtPlace DEF Pin, Goto
<1>3. JobOK' /\ slot' = slot /\ job'.pc \in Running /\ job'.run \in 0 .. runs'
  BY <1>1, <1>2, RunGoesOn DEF Pin
<1>4. MatrixTypeOK'
  <2>1. \E done \in SUBSET Cpus : WriteGovernor(Performance, done)
    BY DEF Pin
  <2>2. governor' \in [Cpus -> Settings]
    BY <2>1, WriteIsSetting DEF MatrixTypeOK, Settings
  <2> QED BY <1>1, <1>2, <1>3, <2>2 DEF MatrixTypeOK, Pin, Running, Settings, files
<1>5. FoundIsKept'
  BY <1>1, <1>2 DEF FoundIsKept, SameRun
<1>6. FilesGrow'
  BY <1>1, <1>2, <1>3 DEF FilesGrow, Pin, SameRun, Described, Governed, files
<1>7. FilesStay'
  BY DEF FilesStay, Pin, files
<1> QED BY <1>3, <1>4, <1>5, <1>6, <1>7

\* The environment's file begins with the commit the benchmark is of.
LEMMA CaptureKeeps == MatrixInv /\ Capture => MatrixInv'
<1> SUFFICES ASSUME MatrixInv, Capture PROVE MatrixInv'
  OBVIOUS
<1> USE DEF MatrixInv
<1>1. /\ job # Idle /\ job.pc = "capture" /\ job \in Jobs /\ job.ok = FALSE
      /\ slot \in Suffixes /\ job.run \in 1 .. MaxRuns /\ passed[slot] = 0
      /\ binary[job.bench] = head /\ head \in Versions
  BY JobIsRun, IdleByPlace DEF Capture, FilesGrow, MatrixTypeOK
<1>2. SameRun(job') /\ job'.ok = FALSE /\ job'.saved = job.saved /\ job'.pc = "describe"
  <2>1. "describe" \in Running
    BY DEF Running, Places
  <2> QED BY <1>1, <2>1, AtPlace DEF Capture, Goto
<1>3. JobOK' /\ slot' = slot /\ job'.pc \in Running /\ job'.run \in 0 .. runs'
  BY <1>1, <1>2, RunGoesOn DEF Capture
<1> DEFINE r == [run |-> job.run, sha |-> head, governor |-> None, backend |-> None]
<1>4. r \in LinesOf /\ r.run = job.run /\ r.sha = head
  BY <1>1 DEF LinesOf
<1> HIDE DEF r
<1>5. /\ env' \in [Suffixes -> LinesOf \cup {None}] /\ env'[slot] = r
      /\ \A s \in Suffixes \ {slot} : env'[s] = env[s]
  BY <1>1, <1>4 DEF Capture, MatrixTypeOK, r
<1>6. MatrixTypeOK'
  BY <1>1, <1>2, <1>3, <1>5 DEF MatrixTypeOK, Capture, Running
<1>7. FoundIsKept'
  BY <1>1, <1>2 DEF FoundIsKept, Capture, SameRun
<1>8. FilesGrow'
  BY <1>1, <1>2, <1>3, <1>4, <1>5 DEF FilesGrow, Capture, SameRun, Described, Governed
<1>9. FilesStay'
  BY <1>1, <1>5 DEF FilesStay, Capture
<1> QED BY <1>3, <1>6, <1>7, <1>8, <1>9

\* Its governor is the one in force.
LEMMA DescribeKeeps == MatrixInv /\ Describe => MatrixInv'
<1> SUFFICES ASSUME MatrixInv, Describe PROVE MatrixInv'
  OBVIOUS
<1> USE DEF MatrixInv
<1>1. /\ job # Idle /\ job.pc = "describe" /\ job \in Jobs /\ job.ok = FALSE
      /\ slot \in Suffixes /\ passed[slot] = 0
      /\ env[slot] \in LinesOf /\ env[slot].run = job.run /\ env[slot].sha = binary[job.bench]
      /\ governor[First] \in Settings /\ governor[First] # None
  BY JobIsRun, IdleByPlace, Markers, MatrixAssumption
     DEF Describe, FilesGrow, MatrixTypeOK, Settings, Described
<1>2. /\ SameRun(job') /\ job'.ok = FALSE /\ job'.saved = job.saved
      /\ job'.pc \in {"start", "exit"}
  <2>1. "start" \in Running
    BY DEF Running, Places
  <2> QED BY <1>1, <2>1, AtPlace, AtEnd DEF Describe, Goto, Fail
<1>3. JobOK' /\ slot' = slot /\ job'.pc \in Running /\ job'.run \in 0 .. runs'
  BY <1>1, <1>2, RunGoesOn DEF Describe
<1> DEFINE r == [env[slot] EXCEPT !.governor = governor[First]]
<1>4. r \in LinesOf /\ r.run = job.run /\ r.sha = binary[job.bench] /\ r.governor # None
  BY <1>1 DEF LinesOf, Settings
<1> HIDE DEF r
<1>5. /\ env' \in [Suffixes -> LinesOf \cup {None}] /\ env'[slot] = r
      /\ \A s \in Suffixes \ {slot} : env'[s] = env[s]
  <2>1. env' = [env EXCEPT ![slot] = r]
    BY DEF Describe, r
  <2> QED BY <1>1, <1>4, <2>1 DEF MatrixTypeOK
<1>6. MatrixTypeOK'
  BY <1>1, <1>2, <1>3, <1>5 DEF MatrixTypeOK, Describe, Running
<1>7. FoundIsKept'
  BY <1>1, <1>2 DEF FoundIsKept, Describe, SameRun
<1>8. FilesGrow'
  BY <1>1, <1>2, <1>3, <1>4, <1>5 DEF FilesGrow, Describe, SameRun, Described, Governed
<1>9. FilesStay'
  BY <1>1, <1>5 DEF FilesStay, Describe
<1> QED BY <1>3, <1>6, <1>7, <1>8, <1>9

\* The benchmark empties its file.
LEMMA StartKeeps == MatrixInv /\ Start => MatrixInv'
<1> SUFFICES ASSUME MatrixInv, Start PROVE MatrixInv'
  OBVIOUS
<1> USE DEF MatrixInv
<1>1. /\ job # Idle /\ job.pc = "start" /\ job \in Jobs /\ job.ok = FALSE
      /\ slot \in Suffixes /\ passed[slot] = 0
      /\ env[slot] \in LinesOf /\ env[slot].run = job.run /\ env[slot].sha = binary[job.bench]
      /\ env[slot].governor # None
  BY JobIsRun, IdleByPlace DEF Start, FilesGrow, Described, Governed
<1>2. /\ SameRun(job') /\ job'.ok = FALSE /\ job'.saved = job.saved
      /\ \/ job'.pc = "exit" /\ json' = json
         \/ job'.pc = "measure" /\ json' = [json EXCEPT ![slot] = Partial]
  <2>1. "measure" \in Running
    BY DEF Running, Places
  <2> QED BY <1>1, <2>1, AtPlace, AtEnd DEF Start, Goto, Fail
<1>3. JobOK' /\ slot' = slot /\ job'.pc \in Running /\ job'.run \in 0 .. runs'
  BY <1>1, <1>2, RunGoesOn DEF Start
<1>4. /\ json' \in [Suffixes -> NumbersOf \cup {None, Partial}]
      /\ job'.pc = "measure" => json'[slot] = Partial
      /\ \A s \in Suffixes \ {slot} : json'[s] = json[s]
  BY <1>1, <1>2 DEF MatrixTypeOK
<1>5. MatrixTypeOK'
  BY <1>1, <1>2, <1>3, <1>4 DEF MatrixTypeOK, Start, Running
<1>6. FoundIsKept'
  BY <1>1, <1>2 DEF FoundIsKept, Start, SameRun
<1>7. FilesGrow'
  BY <1>1, <1>2, <1>3, <1>4 DEF FilesGrow, Start, SameRun, Described, Governed
<1>8. FilesStay'
  BY <1>1, <1>4 DEF FilesStay, Start
<1> QED BY <1>3, <1>5, <1>6, <1>7, <1>8

\* What it writes there is of this run, or nothing.
LEMMA MeasureKeeps == MatrixInv /\ Measure => MatrixInv'
<1> SUFFICES ASSUME MatrixInv, Measure PROVE MatrixInv'
  OBVIOUS
<1> USE DEF MatrixInv
<1>1. /\ job # Idle /\ job.pc = "measure" /\ job \in Jobs /\ job.ok = FALSE
      /\ slot \in Suffixes /\ passed[slot] = 0 /\ json[slot] = Partial
      /\ env[slot] \in LinesOf /\ env[slot].run = job.run /\ env[slot].sha = binary[job.bench]
      /\ env[slot].governor # None
      /\ job.run \in 1 .. MaxRuns /\ job.perf \in BOOLEAN
  BY JobIsRun, IdleByPlace DEF Measure, FilesGrow, Described, Governed, MatrixTypeOK
<1>2. binary[job.bench] \in Versions
  BY <1>1 DEF LinesOf
<1>3. /\ SameRun(job') /\ job'.ok = FALSE /\ job'.saved = job.saved
      /\ job'.pc \in {"exit", "validate"}
  <2>1. "validate" \in Running
    BY DEF Running, Places
  <2>2. job' = At("validate") \/ job' = [At("exit") EXCEPT !.ok = FALSE]
    BY DEF Measure, Goto, Fail
  <2> QED BY <1>1, <2>1, <2>2, AtPlace, AtEnd
<1>4. JobOK' /\ slot' = slot /\ job'.pc \in Running /\ job'.run \in 0 .. runs'
  BY <1>1, <1>3, RunGoesOn DEF Measure
<1>5. /\ json' \in [Suffixes -> NumbersOf \cup {None, Partial}]
      /\ \/ json'[slot] = Partial
         \/ /\ json'[slot] \in NumbersOf /\ json'[slot].run = job.run
            /\ json'[slot].version = binary[job.bench]
      /\ \A s \in Suffixes \ {slot} : json'[s] = json[s]
  <2>1. CASE UNCHANGED json
    BY <1>1, <2>1 DEF MatrixTypeOK
  <2>2. CASE \E c \in BOOLEAN, m \in {FALSE, job.perf}, b \in Backends :
               json' = [json EXCEPT ![slot] =
                         [run |-> job.run, version |-> binary[job.bench],
                          cycles |-> c, mpki |-> m, backend |-> b]]
    <3>1. PICK c \in BOOLEAN, m \in {FALSE, job.perf}, b \in Backends :
               json' = [json EXCEPT ![slot] =
                         [run |-> job.run, version |-> binary[job.bench],
                          cycles |-> c, mpki |-> m, backend |-> b]]
      BY <2>2
    <3> DEFINE r == [run |-> job.run, version |-> binary[job.bench],
                     cycles |-> c, mpki |-> m, backend |-> b]
    <3>2. m \in BOOLEAN
      BY <1>1, Zenon
    <3>3. r \in NumbersOf /\ r.run = job.run /\ r.version = binary[job.bench]
      BY <1>1, <1>2, <3>2 DEF NumbersOf
    <3>4. json' = [json EXCEPT ![slot] = r]
      BY <3>1
    <3> HIDE DEF r
    <3> QED BY <1>1, <3>3, <3>4 DEF MatrixTypeOK
  <2> QED BY <2>1, <2>2 DEF Measure
<1>6. MatrixTypeOK'
  BY <1>1, <1>3, <1>4, <1>5 DEF MatrixTypeOK, Measure, Running
<1>7. FoundIsKept'
  BY <1>1, <1>3 DEF FoundIsKept, Measure, SameRun
<1>8. FilesGrow'
  BY <1>1, <1>3, <1>4, <1>5
     DEF FilesGrow, Measure, SameRun, Described, Governed, NumbersOfThisRun
<1>9. FilesStay'
  BY <1>1, <1>5 DEF FilesStay, Measure
<1> QED BY <1>4, <1>6, <1>7, <1>8, <1>9

\* Only numbers with the suite's metric are let through.
LEMMA ValidateKeeps == MatrixInv /\ Validate => MatrixInv'
<1> SUFFICES ASSUME MatrixInv, Validate PROVE MatrixInv'
  OBVIOUS
<1> USE DEF MatrixInv
<1>1. /\ job # Idle /\ job.pc = "validate" /\ job \in Jobs /\ job.ok = FALSE
      /\ slot \in Suffixes /\ passed[slot] = 0
      /\ json[slot] = Partial \/ NumbersOfThisRun
      /\ env[slot] \in LinesOf /\ env[slot].run = job.run /\ env[slot].sha = binary[job.bench]
      /\ env[slot].governor # None
  BY JobIsRun, IdleByPlace DEF Validate, FilesGrow, Described, Governed
<1>2. /\ SameRun(job') /\ job'.ok = FALSE /\ job'.saved = job.saved
      /\ \/ job'.pc = "exit"
         \/ /\ job'.pc = "stamp" /\ json[slot] # Partial /\ json[slot].cycles
            /\ job.perf => json[slot].mpki
  <2>1. "stamp" \in Running
    BY DEF Running, Places
  <2>2. \/ job' = [At("exit") EXCEPT !.ok = FALSE]
        \/ /\ job' = At("stamp") /\ json[slot] # Partial /\ json[slot].cycles
           /\ job.perf => json[slot].mpki
    BY DEF Validate, Goto, Fail, HasCycles, HasMpki
  <2> QED BY <1>1, <2>1, <2>2, AtPlace, AtEnd
<1>3. JobOK' /\ slot' = slot /\ job'.pc \in Running /\ job'.run \in 0 .. runs'
  BY <1>1, <1>2, RunGoesOn DEF Validate
<1>4. json' = json /\ env' = env
  BY DEF Validate, files
<1>5. MatrixTypeOK'
  BY <1>1, <1>2, <1>3, <1>4 DEF MatrixTypeOK, Validate, Running
<1>6. FoundIsKept'
  BY <1>1, <1>2 DEF FoundIsKept, Validate, SameRun
<1>7. FilesGrow'
  BY <1>1, <1>2, <1>3, <1>4
     DEF FilesGrow, Validate, SameRun, Described, Governed, NumbersOfThisRun
<1>8. FilesStay'
  BY <1>4 DEF FilesStay, Validate
<1> QED BY <1>3, <1>5, <1>6, <1>7, <1>8

\* The backend of the numbers is put beside their commit.
LEMMA StampKeeps == MatrixInv /\ Stamp => MatrixInv'
<1> SUFFICES ASSUME MatrixInv, Stamp PROVE MatrixInv'
  OBVIOUS
<1> USE DEF MatrixInv
<1>1. /\ job # Idle /\ job.pc = "stamp" /\ job \in Jobs
      /\ slot \in Suffixes /\ passed[slot] = 0
      /\ NumbersOfThisRun /\ json[slot].cycles /\ (job.perf => json[slot].mpki)
      /\ env[slot] \in LinesOf /\ env[slot].run = job.run /\ env[slot].sha = binary[job.bench]
      /\ env[slot].governor # None
  BY JobIsRun, IdleByPlace DEF Stamp, FilesGrow, Described, Governed
<1>2. /\ SameRun(job') /\ job'.saved = job.saved /\ job'.pc = "exit" /\ job'.ok \in BOOLEAN
      /\ job'.ok => env' = [env EXCEPT ![slot].backend = json[slot].backend]
      /\ env' = env \/ env' = [env EXCEPT ![slot].backend = json[slot].backend]
  <2>1. \E verdict \in BOOLEAN :
          /\ job' = [At("exit") EXCEPT !.ok = verdict]
          /\ verdict => env' = [env EXCEPT ![slot].backend = json[slot].backend]
          /\ env' = env \/ env' = [env EXCEPT ![slot].backend = json[slot].backend]
    BY DEF Stamp, Fail
  <2> QED BY <1>1, <2>1, AtEnd
<1>3. JobOK' /\ slot' = slot /\ job'.pc \in Running /\ job'.run \in 0 .. runs'
  BY <1>1, <1>2, RunGoesOn DEF Stamp
<1> DEFINE r == [env[slot] EXCEPT !.backend = json[slot].backend]
<1>4. /\ r \in LinesOf /\ r.run = job.run /\ r.sha = binary[job.bench]
      /\ r.governor # None /\ r.backend = json[slot].backend
  BY <1>1 DEF LinesOf, NumbersOf, NumbersOfThisRun
<1> HIDE DEF r
<1>5. /\ env' \in [Suffixes -> LinesOf \cup {None}]
      /\ job'.ok => env'[slot] = r
      /\ \A s \in Suffixes \ {slot} : env'[s] = env[s]
  <2>1. (env' = env /\ ~job'.ok) \/ env' = [env EXCEPT ![slot] = r]
    BY <1>2 DEF r
  <2> QED BY <1>1, <1>4, <2>1 DEF MatrixTypeOK
<1>6. MatrixTypeOK'
  BY <1>1, <1>2, <1>3, <1>5 DEF MatrixTypeOK, Stamp, Running
<1>7. FoundIsKept'
  BY <1>1, <1>2 DEF FoundIsKept, Stamp, SameRun
<1>8. FilesGrow'
  BY <1>1, <1>2, <1>3, <1>4, <1>5
     DEF FilesGrow, Stamp, SameRun, Described, Governed, NumbersOfThisRun
<1>9. FilesStay'
  BY <1>1, <1>5 DEF FilesStay, Stamp
<1> QED BY <1>3, <1>6, <1>7, <1>8, <1>9

\* The trap gives the machine back a governor it had.
LEMMA RestoreIsSetting ==
  ASSUME MatrixTypeOK, NEW done \in SUBSET Cpus, RestoreGovernor(done)
  PROVE  governor' \in [Cpus -> Settings]
<1>1. governor \in [Cpus -> Settings] /\ (job.saved # None => job.saved \in Settings)
  BY DEF MatrixTypeOK, Settings
<1> QED BY <1>1, WriteIsSetting DEF RestoreGovernor

\* Once no script runs, what was left by the successful ones is all there is.
LEMMA IdleKeeps ==
  ASSUME MatrixInv, job' = Idle, head' = head, binary' = binary, files' = files,
         runs' = runs, signals' \in 0 .. MaxSignals,
         governor' \in [Cpus -> Settings], passed' \in [Suffixes -> 0 .. MaxRuns],
         FilesStay'
  PROVE  MatrixInv'
<1> USE DEF MatrixInv
<1>1. job'.pc = "idle" /\ job'.run = 0 /\ job'.saved = None
  BY DEF Idle
<1>2. MatrixTypeOK'
  <2>1. 0 \in 0 .. runs
    BY MatrixAssumption DEF MatrixTypeOK
  <2> QED BY <1>1, <2>1 DEF MatrixTypeOK, Settings, Places, files
<1>3. JobOK' /\ FoundIsKept' /\ FilesGrow'
  <2>1. Idle' = Idle
    BY DEF Idle
  <2> QED BY <2>1 DEF JobOK, FoundIsKept, FilesGrow
<1> QED BY <1>2, <1>3

\* The run that ends with success has its two files.
LEMMA ExitKeeps == MatrixInv /\ Exit => MatrixInv'
<1> SUFFICES ASSUME MatrixInv, Exit PROVE MatrixInv'
  OBVIOUS
<1> USE DEF MatrixInv
<1>1. /\ job # Idle /\ job.pc = "exit" /\ job \in Jobs /\ job.ok \in BOOLEAN
      /\ slot \in Suffixes /\ job.run \in 1 .. MaxRuns
      /\ job.perf <=> slot = "icache"
  BY JobIsRun, IdleByPlace DEF Exit, ExitReaching
<1>2. governor' \in [Cpus -> Settings]
  BY RestoreIsSetting DEF Exit, ExitReaching
<1>3. passed' = IF job.ok THEN [passed EXCEPT ![slot] = job.run] ELSE passed
  BY DEF Exit, ExitReaching
<1>4. passed' \in [Suffixes -> 0 .. MaxRuns]
  BY <1>1, <1>3, MatrixAssumption DEF MatrixTypeOK
<1>5. json' = json /\ env' = env
  BY DEF Exit, ExitReaching, files
<1>6. FilesStay'
  <2> SUFFICES ASSUME NEW s \in Suffixes, passed'[s] # 0
               PROVE  (/\ json[s] \in NumbersOf /\ env[s] \in LinesOf
                       /\ json[s].run = passed'[s] /\ env[s].run = passed'[s]
                       /\ json[s].version = env[s].sha
                       /\ json[s].backend = env[s].backend
                       /\ env[s].governor # None
                       /\ json[s].cycles /\ (s = "icache" => json[s].mpki))
    BY <1>5 DEF FilesStay
  <2>1. CASE job.ok /\ s = slot
    <3>1. passed'[s] = job.run
      BY <1>1, <1>3, <2>1 DEF MatrixTypeOK
    <3> QED BY <1>1, <2>1, <3>1 DEF FilesGrow, NumbersOfThisRun
  <2>2. CASE ~(job.ok /\ s = slot)
    <3>1. passed'[s] = passed[s]
      BY <1>1, <1>3, <2>2 DEF MatrixTypeOK
    <3> QED BY <3>1 DEF FilesStay
  <2> QED BY <2>1, <2>2
<1>7. signals' \in 0 .. MaxSignals
  BY DEF Exit, ExitReaching, MatrixTypeOK
<1> QED BY <1>2, <1>4, <1>6, <1>7, IdleKeeps DEF Exit, ExitReaching

\* A signal is counted, and no file is touched.
LEMMA SignalLeaves ==
  ASSUME MatrixInv, Signal
  PROVE  /\ signals' \in 0 .. MaxSignals
         /\ passed' \in [Suffixes -> 0 .. MaxRuns]
         /\ FilesStay'
<1>1. signals' \in 0 .. MaxSignals
  BY MatrixAssumption DEF MatrixInv, MatrixTypeOK, Signal
<1>2. passed' = passed /\ json' = json /\ env' = env
  BY DEF Signal, files
<1> QED BY <1>1, <1>2 DEF MatrixInv, MatrixTypeOK, FilesStay

\* INT or TERM: the script ends, is on its way to its end, or goes on.
LEMMA InterruptKeeps == MatrixInv /\ Interrupt => MatrixInv'
<1> SUFFICES ASSUME MatrixInv, Interrupt PROVE MatrixInv'
  OBVIOUS
<1> USE DEF MatrixInv
<1>1. /\ job # Idle /\ job \in Jobs /\ slot \in Suffixes /\ job.pc # "exit"
      /\ job.ok = FALSE /\ passed[slot] = 0
  BY JobIsRun DEF Interrupt, Signal, FilesGrow
<1>2. governor' \in [Cpus -> Settings]
  BY RestoreIsSetting DEF Interrupt
<1>3. /\ signals' \in 0 .. MaxSignals /\ FilesStay'
      /\ passed' \in [Suffixes -> 0 .. MaxRuns]
  BY SignalLeaves DEF Interrupt
<1>4. /\ head' = head /\ binary' = binary /\ files' = files /\ runs' = runs
      /\ passed' = passed /\ json' = json /\ env' = env
  BY DEF Interrupt, Signal, files
<1>5. CASE job' = Idle
  BY <1>2, <1>3, <1>4, <1>5, IdleKeeps
<1>6. CASE job' = [At("exit") EXCEPT !.ok = FALSE] /\ job.saved # None
  <2>1. SameRun(job') /\ job'.ok = FALSE /\ job'.saved = job.saved /\ job'.pc = "exit"
    BY <1>1, <1>6, AtEnd
  <2>2. JobOK' /\ slot' = slot /\ job'.pc \in Running /\ job'.run \in 0 .. runs'
    BY <1>1, <1>4, <2>1, RunGoesOn
  <2>3. MatrixTypeOK'
    BY <1>1, <1>2, <1>3, <1>4, <2>1, <2>2 DEF MatrixTypeOK, Running, Settings
  <2>4. FoundIsKept'
    BY <1>1, <1>6, <2>1 DEF FoundIsKept, SameRun
  <2>5. FilesGrow'
    BY <1>1, <1>4, <2>1, <2>2 DEF FilesGrow, SameRun, Described, Governed
  <2> QED BY <1>3, <2>2, <2>3, <2>4, <2>5
<1>7. CASE job' = job /\ job.saved # None
  <2>1. slot' = slot /\ JobOK'
    <3>1. Idle' = Idle
      BY DEF Idle
    <3> QED BY <1>7, <3>1 DEF slot, JobOK
  <2>2. MatrixTypeOK'
    BY <1>2, <1>3, <1>4, <1>7 DEF MatrixTypeOK, Settings
  <2>3. FoundIsKept'
    BY <1>1, <1>7 DEF FoundIsKept
  <2>4. FilesGrow'
    BY <1>1, <1>4, <1>7, <2>1 DEF FilesGrow, NumbersOfThisRun
  <2> QED BY <1>3, <2>1, <2>2, <2>3, <2>4
<1> QED BY <1>5, <1>6, <1>7 DEF Interrupt, Fail

\* KILL: the script is gone, and the governor stays as it is.
LEMMA KillKeeps == MatrixInv /\ Kill => MatrixInv'
<1> SUFFICES ASSUME MatrixInv, Kill PROVE MatrixInv'
  OBVIOUS
<1>1. governor' \in [Cpus -> Settings]
  BY DEF MatrixInv, MatrixTypeOK, Kill, Settings
<1>2. /\ signals' \in 0 .. MaxSignals /\ FilesStay'
      /\ passed' \in [Suffixes -> 0 .. MaxRuns]
  BY SignalLeaves DEF Kill
<1> QED BY <1>1, <1>2, IdleKeeps DEF Kill, Signal

\* Another commit, while no script relies on the one that was there.
LEMMA CheckoutKeeps == MatrixInv /\ Checkout => MatrixInv'
<1> SUFFICES ASSUME MatrixInv, Checkout PROVE MatrixInv'
  OBVIOUS
<1> USE DEF MatrixInv
<1>1. /\ head' \in Versions /\ binary' = binary /\ governor' = governor /\ json' = json
      /\ env' = env /\ job' = job /\ runs' = runs /\ signals' = signals
      /\ passed' = passed
      /\ job.pc \notin {"rows", "save", "pin", "capture"}
  BY DEF Checkout, files
<1>2. slot' = slot /\ Idle' = Idle /\ (NumbersOfThisRun' <=> NumbersOfThisRun)
  BY <1>1 DEF slot, Idle, NumbersOfThisRun
<1>3. MatrixTypeOK'
  BY <1>1 DEF MatrixTypeOK
<1>4. JobOK' /\ FoundIsKept'
  BY <1>1, <1>2 DEF JobOK, FoundIsKept
<1>5. FilesGrow'
  BY <1>1, <1>2 DEF FilesGrow
<1>6. FilesStay'
  BY <1>1 DEF FilesStay
<1> QED BY <1>3, <1>4, <1>5, <1>6

\* What is deleted is no run's success any longer.
LEMMA WithdrawKeeps == MatrixInv /\ Withdraw => MatrixInv'
<1> SUFFICES ASSUME MatrixInv, Withdraw PROVE MatrixInv'
  OBVIOUS
<1> USE DEF MatrixInv
<1>1. PICK s \in Suffixes :
        /\ json' = [json EXCEPT ![s] = None] /\ env' = [env EXCEPT ![s] = None]
        /\ passed' = [passed EXCEPT ![s] = 0]
  BY DEF Withdraw
<1>2. /\ json' \in [Suffixes -> NumbersOf \cup {None, Partial}]
      /\ env' \in [Suffixes -> LinesOf \cup {None}]
      /\ passed' \in [Suffixes -> 0 .. MaxRuns] /\ passed'[s] = 0
      /\ \A t \in Suffixes \ {s} :
           json'[t] = json[t] /\ env'[t] = env[t] /\ passed'[t] = passed[t]
  BY <1>1, MatrixAssumption DEF MatrixTypeOK
<1>3. MatrixTypeOK'
  BY <1>2 DEF MatrixTypeOK, Withdraw
<1>4. Idle' = Idle /\ job' = Idle
  BY DEF Withdraw, Idle
<1>5. JobOK' /\ FoundIsKept' /\ FilesGrow'
  BY <1>4 DEF JobOK, FoundIsKept, FilesGrow
<1>6. FilesStay'
  BY <1>2 DEF FilesStay
<1> QED BY <1>3, <1>5, <1>6

---------------------------------------------------------------------------
(* The publication keeps its own. *)

\* Order names every tag, and no other.
LEMMA OrderOfTags ==
  /\ Len(Order) \in Nat
  /\ \A i \in 1 .. Len(Order) : Order[i] \in Tags
  /\ \A t \in Tags : \E i \in 1 .. Len(Order) : Order[i] = t
  /\ MaxPublications \in Nat /\ MaxWithdrawals \in Nat
BY PublicationAssumption DEF Tags

\* Whatever the script and the machine do leaves the matrix as it should be.
LEMMA MatrixStep == MatrixInv /\ [Next]_vars => MatrixInv'
<1> SUFFICES ASSUME MatrixInv, [Next]_vars PROVE MatrixInv'
  OBVIOUS
<1>1. CASE MatrixNext
  BY <1>1, InvokeKeeps, BuildKeeps, RowsKeeps, SaveKeeps, PinKeeps, CaptureKeeps, DescribeKeeps,
     StartKeeps, MeasureKeeps, ValidateKeeps, StampKeeps, ExitKeeps, InterruptKeeps, KillKeeps,
     CheckoutKeeps
     DEF MatrixNext
<1>2. CASE UNCHANGED mvars
  <2>1. slot' = slot /\ Idle' = Idle /\ (NumbersOfThisRun' <=> NumbersOfThisRun)
    BY <1>2 DEF mvars, files, slot, Idle, NumbersOfThisRun
  <2>2. MatrixTypeOK' /\ JobOK' /\ FoundIsKept' /\ FilesStay'
    BY <1>2, <2>1
       DEF MatrixInv, MatrixTypeOK, JobOK, FoundIsKept, FilesStay, mvars, files
  <2>3. FilesGrow'
    BY <1>2, <2>1 DEF MatrixInv, FilesGrow, mvars, files
  <2> QED BY <2>2, <2>3 DEF MatrixInv
<1>3. CASE Withdraw
  BY <1>3, WithdrawKeeps
<1> QED BY <1>1, <1>2, <1>3
        DEF Next, Load, WriteTable, WriteMachines, StopPublishing, vars

\* At first nothing was published.
LEMMA PublicationStarts == Init => PublishInv
<1> SUFFICES ASSUME Init PROVE PublishInv
  OBVIOUS
<1>1. MatrixTypeOK
  BY MatrixStarts DEF Init, MatrixInv
<1>2. csv \in [Tags -> NumbersOf \cup {ElderNumbers, None, Partial}]
  BY DEF Init
<1>3. TypeOK
  BY <1>1, <1>2, OrderOfTags DEF Init, TypeOK
<1> QED BY <1>3 DEF Init, PublishInv, LoadedOK, TablesFollow

\* Numbers that are archived and can be parsed are a run's or the elder's.
LEMMA NumbersAreSomeones ==
  ASSUME MatrixTypeOK, Parsable, NEW t \in Archived
  PROVE  NumbersFor(t) \in NumbersOf \cup {ElderNumbers} /\ t \in Tags
BY DEF MatrixTypeOK, Parsable, Archived, NumbersFor, Tags

\* A publication begins with all its tables to write.
LEMMA LoadKeeps == MatrixInv' /\ PublishInv /\ Load => PublishInv'
<1> SUFFICES ASSUME MatrixInv', PublishInv, Load PROVE PublishInv'
  OBVIOUS
<1>1. /\ loaded' = Runs /\ next' = 1 /\ publications' = publications + 1
      /\ csv' = csv /\ machines' = machines /\ withdrawals' = withdrawals
      /\ publications < MaxPublications /\ Parsable
  BY DEF Load
<1>2. /\ DOMAIN Runs = Archived
      /\ \A t \in Archived : Runs[t].numbers = NumbersFor(t)
  BY DEF Runs
<1>3. Archived \subseteq Tags
  BY DEF Archived
<1>4. LoadedOK'
  BY <1>1, <1>2, <1>3, NumbersAreSomeones DEF LoadedOK, PublishInv, TypeOK
<1>5. TypeOK'
  <2>1. loaded' = None \/ DOMAIN loaded' \subseteq Tags
    BY <1>1, <1>2, <1>3
  <2>2. publications' \in 0 .. MaxPublications
    BY <1>1, OrderOfTags DEF PublishInv, TypeOK
  <2> QED BY <1>1, <2>1, <2>2, OrderOfTags DEF PublishInv, TypeOK, MatrixInv
<1>6. TablesFollow'
  BY <1>1 DEF TablesFollow
<1> QED BY <1>4, <1>5, <1>6 DEF PublishInv

\* A table is that of the result that was read, and the tables before it stay.
LEMMA WriteTableKeeps == MatrixInv' /\ PublishInv /\ WriteTable => PublishInv'
<1> SUFFICES ASSUME MatrixInv', PublishInv, WriteTable PROVE PublishInv'
  OBVIOUS
<1>1. /\ loaded # None /\ next <= Len(Order) /\ loaded' = loaded /\ next' = next + 1
      /\ machines' = machines /\ publications' = publications /\ withdrawals' = withdrawals
      /\ csv' = IF Order[next] \in DOMAIN loaded
                THEN [csv EXCEPT ![Order[next]] = loaded[Order[next]].numbers] ELSE csv
  BY DEF WriteTable
<1>2. next \in 1 .. Len(Order) /\ Len(Order) \in Nat /\ Order[next] \in Tags
  BY <1>1, OrderOfTags DEF PublishInv, TypeOK
<1>3. /\ csv \in [Tags -> NumbersOf \cup {ElderNumbers, None, Partial}]
      /\ csv' \in [Tags -> NumbersOf \cup {ElderNumbers, None, Partial}]
  BY <1>1, <1>2 DEF PublishInv, TypeOK, LoadedOK
<1>4. TypeOK'
  BY <1>1, <1>2, <1>3 DEF PublishInv, TypeOK, MatrixInv
<1>5. TablesFollow'
  <2> SUFFICES ASSUME NEW k \in 1 .. next, Order[k] \in DOMAIN loaded
               PROVE  csv'[Order[k]] = loaded[Order[k]].numbers
    BY <1>1, <1>2 DEF TablesFollow
  <2>1. Order[k] \in Tags
    BY <1>2, OrderOfTags
  <2>2. CASE Order[k] = Order[next]
    BY <1>1, <1>3, <2>1, <2>2
  <2>3. CASE Order[k] # Order[next]
    <3>1. k \in 1 .. next - 1
      BY <1>2, <2>3
    <3>2. csv[Order[k]] = loaded[Order[k]].numbers
      BY <1>1, <3>1 DEF PublishInv, TablesFollow
    <3> QED BY <1>1, <1>3, <2>1, <2>3, <3>2
  <2> QED BY <2>2, <2>3
<1>6. LoadedOK'
  BY <1>1 DEF PublishInv, LoadedOK
<1> QED BY <1>4, <1>5, <1>6 DEF PublishInv

\* With the rows of the machines it ends.
LEMMA WriteMachinesKeeps == MatrixInv' /\ PublishInv /\ WriteMachines => PublishInv'
<1> SUFFICES ASSUME MatrixInv', PublishInv, WriteMachines PROVE PublishInv'
  OBVIOUS
<1>1. /\ loaded # None /\ loaded' = None /\ next' = 1 /\ csv' = csv
      /\ publications' = publications /\ withdrawals' = withdrawals
      /\ machines' = [t \in DOMAIN loaded |-> loaded[t].row]
  BY DEF WriteMachines
<1>2. DOMAIN machines' \subseteq Tags
  BY <1>1 DEF PublishInv, TypeOK
<1>3. TypeOK'
  BY <1>1, <1>2, OrderOfTags DEF PublishInv, TypeOK, MatrixInv
<1> QED BY <1>1, <1>3 DEF PublishInv, LoadedOK, TablesFollow

\* One that is stopped leaves a part of one file.
LEMMA StopKeeps == MatrixInv' /\ PublishInv /\ StopPublishing => PublishInv'
<1> SUFFICES ASSUME MatrixInv', PublishInv, StopPublishing PROVE PublishInv'
  OBVIOUS
<1>1. /\ loaded' = None /\ next' = 1
      /\ publications' = publications /\ withdrawals' = withdrawals
      /\ \/ machines' = machines /\ csv' = [csv EXCEPT ![Order[next]] = Partial]
         \/ machines' = Partial /\ csv' = csv
  BY DEF StopPublishing
<1>2. csv' \in [Tags -> NumbersOf \cup {ElderNumbers, None, Partial}]
  BY <1>1 DEF PublishInv, TypeOK
<1>3. machines' \in {None, Partial} \/ DOMAIN machines' \subseteq Tags
  BY <1>1 DEF PublishInv, TypeOK
<1>4. TypeOK'
  BY <1>1, <1>2, <1>3, OrderOfTags DEF PublishInv, TypeOK, MatrixInv
<1> QED BY <1>1, <1>4 DEF PublishInv, LoadedOK, TablesFollow

\* The runs, and a deletion, are no business of a publication that has read.
LEMMA OthersKeep ==
  ASSUME MatrixInv', PublishInv, csv' = csv, machines' = machines, loaded' = loaded, next' = next,
         publications' = publications, withdrawals' \in 0 .. MaxWithdrawals
  PROVE  PublishInv'
<1>1. TypeOK'
  BY DEF PublishInv, TypeOK, MatrixInv
<1> QED BY <1>1 DEF PublishInv, LoadedOK, TablesFollow

\* Every step of the system keeps the publication's part.
LEMMA PublicationStep == IInv /\ [Next]_vars => PublishInv'
<1> SUFFICES ASSUME MatrixInv', PublishInv, [Next]_vars PROVE PublishInv'
  BY MatrixStep DEF IInv
<1>1. CASE UNCHANGED pvars
  <2>1. withdrawals' \in 0 .. MaxWithdrawals
    BY <1>1 DEF pvars, PublishInv, TypeOK
  <2> QED BY <1>1, <2>1, OthersKeep DEF pvars
<1>2. CASE Withdraw
  <2>1. withdrawals' \in 0 .. MaxWithdrawals
    BY <1>2, OrderOfTags DEF Withdraw, PublishInv, TypeOK
  <2> QED BY <1>2, <2>1, OthersKeep DEF Withdraw
<1> QED BY <1>1, <1>2, LoadKeeps, WriteTableKeeps, WriteMachinesKeeps, StopKeeps DEF Next, vars

---------------------------------------------------------------------------
(* The theorems. *)

(***************************************************************************)
(* The runs and the publications keep the inductive invariant, and with it *)
(* the types of every file and variable.  (run_matrix.sh, publish_results  *)
(* .py)                                                                    *)
(***************************************************************************)
THEOREM PublicationInvariant == Spec => []IInv
<1>1. Init => IInv
  BY MatrixStarts, PublicationStarts DEF IInv, Init
<1>2. IInv /\ [Next]_vars => IInv'
  BY MatrixStep, PublicationStep DEF IInv
<1> QED BY <1>1, <1>2, PTL DEF Spec

(***************************************************************************)
(* The two files of a run that exited with 0 are of that run: however many *)
(* runs come before and after it, are interrupted or killed, and whatever  *)
(* is checked out in between.  (run_matrix.sh 88-108, 252-306)             *)
(***************************************************************************)
THEOREM SuccessLeavesOneRun == Spec => []SuccessIsOneRun
<1>1. IInv => SuccessIsOneRun
  BY Markers DEF IInv, MatrixInv, FilesStay, SuccessIsOneRun
<1> QED BY <1>1, PublicationInvariant, PTL

\* What --check accepts of a result is what its two files say.
LEMMA AcceptedIsArchived ==
  ASSUME IInv, CheckPasses, NEW s \in Suffixes, passed[s] # 0
  PROVE  /\ csv[s] = json[s]
         /\ machines[s].commit = env[s].sha /\ machines[s].governor = env[s].governor
         /\ machines[s].backend = json[s].backend
<1>1. /\ json[s] \in NumbersOf /\ env[s] \in LinesOf
  BY DEF IInv, MatrixInv, FilesStay
<1>2. /\ json[s] # None /\ env[s] # None /\ json[s].backend # None
  BY <1>1, Markers DEF NumbersOf
<1>3. s # Elder /\ s \in Tags
  BY PublicationAssumption DEF Tags
<1>4. s \in Archived /\ NumbersFor(s) = json[s]
  BY <1>2, <1>3 DEF Archived, NumbersFor
<1>5. csv[s] = json[s]
  BY <1>3, <1>4 DEF CheckPasses, StaleTables, WantedCsv
<1>6. ReadEnvironment(s) = env[s]
  BY <1>2, <1>3 DEF ReadEnvironment
<1>7. machines[s] = MachineRow(s)
  BY <1>4 DEF CheckPasses, WantedMachines
<1>8. BackendOf(json[s], env[s]) = json[s].backend
  BY <1>2 DEF BackendOf
<1>9. MachineRow(s) = [commit |-> env[s].sha, governor |-> env[s].governor,
                       backend |-> json[s].backend]
  BY <1>4, <1>6, <1>8 DEF MachineRow
<1> QED BY <1>5, <1>7, <1>9

(***************************************************************************)
(* What --check accepts tells of a run that succeeded, and of one run      *)
(* throughout, whichever publications were stopped half way and whichever  *)
(* runs went on while they wrote.  (publish_results.py 172-257, 260-308,   *)
(* 1463-1479)                                                              *)
(***************************************************************************)
THEOREM PublicationTellsOfOneRun == Spec => []PublishedIsOneRun
<1>1. IInv => PublishedIsOneRun
  <2> SUFFICES ASSUME IInv, CheckPasses, NEW s \in Suffixes, passed[s] # 0
               PROVE  (/\ csv[s].run = passed[s] /\ csv[s].cycles
                       /\ machines[s].commit = csv[s].version
                       /\ machines[s].backend = csv[s].backend
                       /\ machines[s].governor # None)
    BY DEF PublishedIsOneRun
  <2> QED BY AcceptedIsArchived DEF IInv, MatrixInv, FilesStay
<1> QED BY <1>1, PublicationInvariant, PTL

(***************************************************************************)
(* The script's end gives every CPU it can write the governor that its     *)
(* start found on the first CPU, after any failure and any signal but      *)
(* KILL, whichever writes are refused: CPUs of one governor get it back.   *)
(* (run_matrix.sh 143-183)                                                 *)
(***************************************************************************)
THEOREM GovernorIsReturned == Spec => GovernorReturned
<1> DEFINE Returned(done) ==
             IF job.saved = None THEN UNCHANGED governor
             ELSE \A c \in done : governor'[c] = job.before
<1>1. ASSUME IInv, NEW done \in SUBSET Cpus, ExitReaching(done)
      PROVE  Returned(done)
  <2>1. job # Idle
    BY <1>1, IdleByPlace DEF ExitReaching, IInv, MatrixInv
  <2>2. CASE job.saved = None
    BY <1>1, <2>2 DEF ExitReaching, RestoreGovernor
  <2>3. CASE job.saved # None
    <3>1. job.saved = job.before
      BY <1>1, <2>1, <2>3 DEF IInv, MatrixInv, FoundIsKept
    <3>2. WriteGovernor(job.saved, done)
      BY <1>1, <2>3 DEF ExitReaching, RestoreGovernor
    <3> QED BY <2>3, <3>1, <3>2 DEF WriteGovernor
  <2> QED BY <2>2, <2>3
<1>2. IInv => [\A done \in SUBSET Cpus : ExitReaching(done) => Returned(done)]_mvars
  BY <1>1
<1> QED BY <1>2, PublicationInvariant, PTL DEF GovernorReturned

(***************************************************************************)
(* A publication that gets to its end, over results that are still what it *)
(* read, leaves nothing stale but the tables of results that are gone.     *)
(* (publish_results.py 36-37, 1416-1421, 1463-1477)                        *)
(***************************************************************************)
THEOREM PublicationAlwaysHeals == Spec => PublicationHeals
<1> DEFINE Healed == /\ machines' = WantedMachines
                     /\ StaleTables' \subseteq Tags \ Archived
<1>1. IInv => (WriteMachines /\ Parsable /\ loaded = Runs => Healed)
  <2> SUFFICES ASSUME IInv, WriteMachines, Parsable, loaded = Runs PROVE Healed
    OBVIOUS
  <2>1. /\ DOMAIN loaded = Archived
        /\ \A t \in Archived : loaded[t].numbers = NumbersFor(t) /\ loaded[t].row = MachineRow(t)
    BY DEF Runs
  <2>2. machines' = WantedMachines
    BY <2>1 DEF WriteMachines, WantedMachines
  <2>3. \A t \in Archived : csv[t] = NumbersFor(t)
    <3> SUFFICES ASSUME NEW t \in Archived PROVE csv[t] = NumbersFor(t)
      OBVIOUS
    <3>1. PICK i \in 1 .. Len(Order) : Order[i] = t
      BY OrderOfTags DEF Archived
    <3>2. i \in 1 .. next - 1 /\ loaded # None
      BY OrderOfTags DEF WriteMachines
    <3> QED BY <2>1, <3>1, <3>2 DEF IInv, PublishInv, TablesFollow
  <2>4. csv' = csv /\ \A t \in Tags : WantedCsv(t)' = WantedCsv(t)
    BY DEF WriteMachines, mvars, files, WantedCsv, Archived, NumbersFor
  <2>5. StaleTables' \subseteq Tags \ Archived
    BY <2>3, <2>4 DEF StaleTables, WantedCsv
  <2> QED BY <2>2, <2>5
<1>2. IInv => [WriteMachines /\ Parsable /\ loaded = Runs => Healed]_vars
  BY <1>1
<1> QED BY <1>2, PublicationInvariant, PTL DEF PublicationHeals
============================================================================
