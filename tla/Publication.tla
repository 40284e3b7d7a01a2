---------------------------- MODULE Publication ----------------------------
(***************************************************************************)
(* scripts/benchmarks/publish_results.py over the results that run_matrix  *)
(* archives and one that is older than that script: every file of numbers, *)
(* with the environment found for it, becomes a table of its own and a row *)
(* of machines.csv.  Runs go on while a publication writes, which may be   *)
(* stopped anywhere.                                                       *)
(***************************************************************************)
EXTENDS MatrixRun, Sequences

CONSTANTS
  Elder,            \* the tag of the older result
  ElderNumbers,     \* its numbers, which name no backend
  SharedLines,      \* the environment it shares with others of its machine; a
                    \* line that is not there is None
  Curated,          \* the backend RUNS has for it
  Order,            \* the tags in the order of their names
  MaxPublications,  \* bound on the publications
  MaxWithdrawals    \* bound on the results that are deleted

ASSUME PublicationAssumption ==
  /\ Elder \notin Suffixes
  /\ Order \in Seq(Suffixes \cup {Elder})
  /\ {Order[i] : i \in 1 .. Len(Order)} = Suffixes \cup {Elder}
  /\ {MaxPublications, MaxWithdrawals} \subseteq Nat

Tags == Suffixes \cup {Elder}

VARIABLES
  csv,        \* the tables, by tag
  machines,   \* the rows of machines.csv
  loaded,     \* what a publication read, or None
  next,       \* the place in Order of the table it writes next
  publications, withdrawals

pvars == <<csv, machines, loaded, next, publications, withdrawals>>
vars  == <<mvars, pvars>>

NumbersFor(t) == IF t = Elder THEN ElderNumbers ELSE json[t]
Archived      == {t \in Tags : NumbersFor(t) # None}
Parsable      == \A t \in Archived : NumbersFor(t) # Partial

\* Mutant: the shared file first.
ReadEnvironment_SharedFirst(t) == SharedLines

\* read_environment: a result's own file, or the one its machine shares.
ReadEnvironment(t) == IF t # Elder /\ env[t] # None THEN env[t] ELSE SharedLines

\* backend_of: what the numbers say, or else their environment, or else RUNS.
BackendOf(numbers, lines) ==
  CASE numbers.backend # None -> numbers.backend
    [] numbers.backend = None /\ lines.backend # None -> lines.backend
    [] OTHER -> Curated

MachineRow(t) ==
  LET lines == ReadEnvironment(t)
  IN  [commit |-> lines.sha, governor |-> lines.governor,
       backend |-> BackendOf(NumbersFor(t), lines)]

\* load_runs, where every file can be parsed.
Runs == [t \in Archived |-> [numbers |-> NumbersFor(t), row |-> MachineRow(t)]]

\* What a publication of the archive would write, and where it differs.
WantedCsv(t)   == IF t \in Archived THEN NumbersFor(t) ELSE None
WantedMachines == [t \in Archived |-> MachineRow(t)]
StaleTables    == {t \in Tags : WantedCsv(t) # csv[t]}

\* --check: the same files with the same contents.
CheckPasses ==
  /\ Parsable
  /\ StaleTables = {} /\ WantedMachines = machines

TypeOK ==
  /\ MatrixTypeOK
  /\ csv \in [Tags -> NumbersOf \cup {ElderNumbers, None, Partial}]
  /\ machines \in {None, Partial} \/ DOMAIN machines \subseteq Tags
  /\ loaded = None \/ DOMAIN loaded \subseteq Tags
  /\ next \in 1 .. Len(Order) + 1
  /\ publications \in 0 .. MaxPublications /\ withdrawals \in 0 .. MaxWithdrawals

Init ==
  /\ MatrixInit
  /\ csv = [t \in Tags |-> None] /\ machines = None
  /\ loaded = None /\ next = 1
  /\ publications = 0 /\ withdrawals = 0

---------------------------------------------------------------------------

\* Nothing is written when a file of numbers cannot be parsed.
Load ==
  /\ loaded = None
  /\ publications < MaxPublications
  /\ Parsable
  /\ loaded' = Runs
  /\ next' = 1
  /\ publications' = publications + 1
  /\ UNCHANGED <<mvars, csv, machines, withdrawals>>

\* Mutant: a table that is there is not written again.
WriteTable_OnlyIfMissing ==
  /\ loaded # None /\ next <= Len(Order)
  /\ csv' = IF Order[next] \in DOMAIN loaded /\ csv[Order[next]] = None
            THEN [csv EXCEPT ![Order[next]] = loaded[Order[next]].numbers] ELSE csv
  /\ next' = next + 1
  /\ UNCHANGED <<mvars, machines, loaded, publications, withdrawals>>

\* write_csvs: one table after another, of the results that were read.
WriteTable ==
  /\ loaded # None /\ next <= Len(Order)
  /\ csv' = IF Order[next] \in DOMAIN loaded
            THEN [csv EXCEPT ![Order[next]] = loaded[Order[next]].numbers] ELSE csv
  /\ next' = next + 1
  /\ UNCHANGED <<mvars, machines, loaded, publications, withdrawals>>

WriteMachines ==
  /\ loaded # None /\ next = Len(Order) + 1
  /\ machines' = [t \in DOMAIN loaded |-> loaded[t].row]
  /\ loaded' = None /\ next' = 1
  /\ UNCHANGED <<mvars, csv, publications, withdrawals>>

\* A publication stops while it writes a file; the last within the bound does
\* not, as none would follow it.
StopPublishing ==
  /\ loaded # None
  /\ publications < MaxPublications
  /\ IF next <= Len(Order)
     THEN /\ Order[next] \in DOMAIN loaded
          /\ csv' = [csv EXCEPT ![Order[next]] = Partial]
          /\ UNCHANGED machines
     ELSE machines' = Partial /\ UNCHANGED csv
  /\ loaded' = None /\ next' = 1
  /\ UNCHANGED <<mvars, publications, withdrawals>>

\* A result is deleted, with its environment.
Withdraw ==
  /\ job = Idle
  /\ withdrawals < MaxWithdrawals
  /\ \E s \in Suffixes :
       /\ json[s] # None
       /\ json' = [json EXCEPT ![s] = None] /\ env' = [env EXCEPT ![s] = None]
       /\ passed' = [passed EXCEPT ![s] = 0]
  /\ withdrawals' = withdrawals + 1
  /\ UNCHANGED <<head, binary, governor, job, runs, signals,
                 csv, machines, loaded, next, publications>>

Next ==
  \/ MatrixNext /\ UNCHANGED pvars
  \/ Load \/ WriteTable \/ WriteMachines \/ StopPublishing \/ Withdraw

Spec == Init /\ [][Next]_vars

---------------------------------------------------------------------------

(***************************************************************************)
(* Where --check passes, what is published of a run that succeeded is of   *)
(* that run throughout: its numbers, with the metric, beside the commit    *)
(* they were measured on, the backend they ran on and the governor that    *)
(* was in force when its environment was taken, although the tables are    *)
(* written one by one, by publications that may stop, while other runs go  *)
(* on.  (publish_results.py 172-257, 260-308, 1463-1479)                   *)
(***************************************************************************)
PublishedIsOneRun ==
  CheckPasses =>
    \A s \in Suffixes : passed[s] # 0 =>
      /\ csv[s].run = passed[s] /\ csv[s].cycles
      /\ machines[s].commit = csv[s].version
      /\ machines[s].backend = csv[s].backend
      /\ machines[s].governor # None

(***************************************************************************)
(* A publication that gets to its end over results that have not changed   *)
(* since it read them makes everything current, whatever an earlier one    *)
(* left half done: only tables of results that are gone stay stale.        *)
(* (publish_results.py 36-37, 1416-1421, 1463-1477)                        *)
(***************************************************************************)
PublicationHeals ==
  [][WriteMachines /\ Parsable /\ loaded = Runs =>
       /\ machines' = WantedMachines
       /\ StaleTables' \subseteq Tags \ Archived]_vars
=============================================================================
