--------------------------- MODULE ScalingProofs ---------------------------
(***************************************************************************)
(* The scaling benchmark for any number of slots, threads and rounds and   *)
(* any sizes of buffers: its rounds are ForkJoin's, its streams are        *)
(* disjoint, and what it reports was measured by the slot's own counters.  *)
(***************************************************************************)
EXTENDS Scaling, FiniteSetTheorems, TLAPS

\* The facts about numbers that no particular base matters to.
Binary == INSTANCE CounterProofs WITH Base <- 2

\* 2 is a base, what CounterProofs asks of it.
LEMMA TwoIsABase == 2 \in Nat \ {0, 1}
OBVIOUS

\* g sums f up over the subsets of S, an element at a time, as MapThenSumSet does.
SumsUp(g, f, S) ==
  g = [s \in SUBSET S |->
         IF s = {} THEN 0 ELSE f[CHOOSE x \in s : TRUE] + g[s \ {CHOOSE x \in s : TRUE}]]

\* The elements of S that are in P are r to f, and the others nothing.
Counts(f, S, P, r) == \A x \in S : f[x] = IF x \in P THEN r ELSE 0

\* What is counted is counted without, or with, an element that does not belong.
LEMMA CountWithout ==
  ASSUME NEW s, IsFiniteSet(s), NEW P, NEW x \in s
  PROVE  /\ IsFiniteSet(s \ {x}) /\ Cardinality(s \ {x}) = Cardinality(s) - 1
         /\ Cardinality(s) \in Nat /\ Cardinality(s) - 1 \in Nat
         /\ Cardinality(s \cap P) \in Nat
         /\ x \in P => Cardinality((s \ {x}) \cap P) = Cardinality(s \cap P) - 1
         /\ x \notin P => Cardinality((s \ {x}) \cap P) = Cardinality(s \cap P)
<1>1. IsFiniteSet(s \ {x}) /\ Cardinality(s \ {x}) = Cardinality(s) - 1
  BY FS_RemoveElement
<1>2. Cardinality(s) \in Nat /\ Cardinality(s \ {x}) \in Nat
  BY <1>1, FS_CardinalityType
<1>3. s \cap P \subseteq s
  OBVIOUS
<1>4. IsFiniteSet(s \cap P) /\ Cardinality(s \cap P) \in Nat
  BY <1>3, FS_Subset, FS_CardinalityType
<1>5. CASE x \in P
  <2>1. (s \ {x}) \cap P = (s \cap P) \ {x} /\ x \in s \cap P
    BY <1>5
  <2>2. Cardinality((s \cap P) \ {x}) = Cardinality(s \cap P) - 1
    BY <1>4, <2>1, FS_RemoveElement
  <2> QED BY <1>1, <1>2, <1>4, <1>5, <2>1, <2>2
<1>6. CASE x \notin P
  <2>1. (s \ {x}) \cap P = s \cap P
    BY <1>6
  <2> QED BY <1>1, <1>2, <1>4, <1>6, <2>1
<1> QED BY <1>5, <1>6

\* If the elements of P count r and the others nothing, a subset counts r times
\* those of its elements that are in P.
LEMMA ConstantSum ==
  ASSUME NEW S, IsFiniteSet(S), NEW r \in Int, NEW P,
         NEW f, Counts(f, S, P, r), NEW g, SumsUp(g, f, S)
  PROVE  \A s \in SUBSET S : g[s] = r * Cardinality(s \cap P)
<1> DEFINE Bad == {n \in Nat : \E s \in SUBSET S : 
                                 Cardinality(s) = n /\ g[s] # r * Cardinality(s \cap P)}
<1>1. \A s \in SUBSET S : IsFiniteSet(s) /\ Cardinality(s) \in Nat
  BY FS_Subset, FS_CardinalityType
<1>2. ASSUME Bad # {} PROVE FALSE
  <2>1. PICK n \in Bad : \A m \in Bad : ~(m < n)
    BY <1>2, Binary!LeastNat, TwoIsABase
  <2>2. PICK s \in SUBSET S : Cardinality(s) = n /\ g[s] # r * Cardinality(s \cap P)
    BY <2>1
  <2>3. n \in Nat
    BY <2>1
  <2> DEFINE x == CHOOSE y \in s : TRUE
  <2>4. CASE s = {}
    <3>1. s \cap P = {} /\ Cardinality({}) = 0
      BY <2>4, FS_EmptySet
    <3>2. g[s] = 0
      BY <2>4 DEF SumsUp
    <3>3. Cardinality(s \cap P) = 0
      BY <3>1
    <3> QED BY <2>2, <3>2, <3>3
  <2>5. CASE s # {}
    <3>1. x \in s
      BY <2>5
    <3>2. g[s] = f[x] + g[s \ {x}]
      BY <2>5 DEF SumsUp
    <3> HIDE DEF x
    <3> DEFINE k == Cardinality(s \cap P)
               d == Cardinality((s \ {x}) \cap P)
    <3>3. /\ Cardinality(s \ {x}) = n - 1 /\ n - 1 \in Nat
          /\ k \in Nat /\ (x \in P => d = k - 1) /\ (x \notin P => d = k)
      <4>1. IsFiniteSet(s)
        BY <1>1
      <4>2. /\ Cardinality(s \ {x}) = Cardinality(s) - 1 /\ Cardinality(s) - 1 \in Nat
            /\ k \in Nat /\ (x \in P => d = k - 1) /\ (x \notin P => d = k)
        BY <3>1, <4>1, CountWithout, Zenon
      <4> QED BY <2>2, <4>2
    <3>4. n - 1 \notin Bad
      BY <2>1, <2>3
    <3>5. g[s \ {x}] = r * d
      BY <3>3, <3>4
    <3> HIDE DEF k, d
    <3>6. f[x] = IF x \in P THEN r ELSE 0
      BY <3>1 DEF Counts
    <3>7. r * k = (IF x \in P THEN r ELSE 0) + r * d
      BY <3>3
    <3> QED BY <2>2, <3>2, <3>5, <3>6, <3>7 DEF k
  <2> QED BY <2>4, <2>5
<1> QED BY <1>1, <1>2

\* Such a sum there is.
LEMMA ConstantSumExists ==
  ASSUME NEW S, IsFiniteSet(S), NEW r \in Int, NEW P,
         NEW f, Counts(f, S, P, r)
  PROVE  SumsUp([s \in SUBSET S |-> r * Cardinality(s \cap P)], f, S)
<1> DEFINE h == [s \in SUBSET S |-> r * Cardinality(s \cap P)]
<1>1. ASSUME NEW s \in SUBSET S, s # {}
      PROVE  h[s] = f[CHOOSE x \in s : TRUE] + h[s \ {CHOOSE x \in s : TRUE}]
  <2> DEFINE x == CHOOSE y \in s : TRUE
             k == Cardinality(s \cap P)
             d == Cardinality((s \ {x}) \cap P)
  <2>1. x \in s
    BY <1>1
  <2>2. h[s] = r * k /\ h[s \ {x}] = r * d
    OBVIOUS
  <2> HIDE DEF x, h
  <2>3. k \in Nat /\ (x \in P => d = k - 1) /\ (x \notin P => d = k)
    <3>1. IsFiniteSet(s)
      BY FS_Subset
    <3> QED BY <2>1, <3>1, CountWithout, Zenon
  <2>4. f[x] = IF x \in P THEN r ELSE 0
    BY <2>1 DEF Counts
  <2> HIDE DEF k, d
  <2>5. r * k = (IF x \in P THEN r ELSE 0) + r * d
    BY <2>3
  <2>6. h[s] = f[x] + h[s \ {x}]
    BY <2>2, <2>4, <2>5
  <2> QED BY <2>6 DEF x
<1>2. h[{}] = 0
  <2>1. {} \cap P = {} /\ Cardinality({}) = 0
    BY FS_EmptySet
  <2>2. Cardinality({} \cap P) = 0
    BY <2>1
  <2> QED BY <2>2
<1>3. \A s \in SUBSET S : 
        h[s] = IF s = {} THEN 0 ELSE f[CHOOSE x \in s : TRUE] + h[s \ {CHOOSE x \in s : TRUE}]
  <2> SUFFICES ASSUME NEW s \in SUBSET S
      PROVE h[s] = IF s = {} THEN 0 ELSE f[CHOOSE x \in s : TRUE] + h[s \ {CHOOSE x \in s : TRUE}]
    OBVIOUS
  <2> HIDE DEF h
  <2>1. CASE s = {}
    BY <2>1, <1>2
  <2>2. CASE s # {}
    BY <2>2, <1>1
  <2> QED BY <2>1, <2>2
<1>4. DOMAIN h = SUBSET S /\ h = [s \in DOMAIN h |-> h[s]]
  OBVIOUS
<1> HIDE DEF h
<1>5. SumsUp(h, f, S)
  BY <1>3, <1>4 DEF SumsUp
<1> QED BY <1>5 DEF h

\* The slots are N.
LEMMA SlotCount == IsFiniteSet(Slots) /\ Cardinality(Slots) = N /\ N \in Int
BY ScalingAssumption, FS_Interval DEF Slots

\* Where every slot has made k fills, all of them have made N times that.
LEMMA FillsOfSlots ==
  ASSUME NEW k \in Int, \A t \in Slots : fills[t] = k
  PROVE  MapThenSumSet(LAMBDA t : fills[t], Slots) = k * N
<1> DEFINE G == CHOOSE g : SumsUp(g, fills, Slots)
<1>1. Counts(fills, Slots, Slots, k)
  BY DEF Counts
<1>2. SumsUp(G, fills, Slots)
  BY <1>1, SlotCount, ConstantSumExists
<1> HIDE DEF G
<1>3. G[Slots] = k * Cardinality(Slots \cap Slots)
  <2>1. \A s \in SUBSET Slots : G[s] = k * Cardinality(s \cap Slots)
    BY <1>1, <1>2, SlotCount, ConstantSum
  <2> QED BY <2>1
<1>4. Slots \cap Slots = Slots
  OBVIOUS
<1>5. MapThenSumSet(LAMBDA t : fills[t], Slots) = G[Slots]
  BY DEF MapThenSumSet, MapThenFoldSet, SumsUp, G
<1> QED BY <1>3, <1>4, <1>5, SlotCount

\* Where the slots in P count k and the others nothing, the total is k times P.
LEMMA TotalOfSlots ==
  ASSUME NEW k \in Int, NEW e, NEW P \in SUBSET Slots,
         \A t \in Slots : counted[t][e] = IF t \in P THEN k ELSE 0
  PROVE  Total(e) = k * Cardinality(P)
<1> DEFINE f    == [t \in Slots |-> counted[t][e]]
           G    == CHOOSE g : g = [s \in SUBSET Slots |->
                     IF s = {} THEN 0
                     ELSE counted[CHOOSE x \in s : TRUE][e] + g[s \ {CHOOSE x \in s : TRUE}]]
<1>1. ASSUME NEW g
      PROVE  SumsUp(g, f, Slots) <=>
               g = [s \in SUBSET Slots |->
                     IF s = {} THEN 0
                     ELSE counted[CHOOSE x \in s : TRUE][e] + g[s \ {CHOOSE x \in s : TRUE}]]
  <2>1. \A s \in SUBSET Slots : s # {} => f[CHOOSE x \in s : TRUE] = counted[CHOOSE x \in s : TRUE][e]
    OBVIOUS
  <2> HIDE DEF f
  <2> QED BY <2>1 DEF SumsUp
<1>2. Counts(f, Slots, P, k)
  BY DEF Counts
<1> HIDE DEF f
<1>3. \E g : SumsUp(g, f, Slots)
  BY <1>2, SlotCount, ConstantSumExists
<1>4. SumsUp(G, f, Slots)
  BY <1>1, <1>3
<1> HIDE DEF G
<1>5. G[Slots] = k * Cardinality(Slots \cap P)
  <2>1. \A s \in SUBSET Slots : G[s] = k * Cardinality(s \cap P)
    BY <1>2, <1>4, SlotCount, ConstantSum
  <2> QED BY <2>1
<1>6. Slots \cap P = P
  OBVIOUS
<1>7. Total(e) = G[Slots]
  BY DEF Total, MapThenSumSet, MapThenFoldSet, G
<1> QED BY <1>5, <1>6, <1>7

---------------------------------------------------------------------------

\* What the counters say does not change while they stay as they are.
LEMMA SameTotals ==
  ASSUME counted' = counted, available' = available, want_perf' = want_perf
  PROVE  PerfReport' = PerfReport /\ \A e \in Events : Total(e)' = Total(e)
<1>1. \A e : Total(e)' = Total(e)
  BY DEF Total, MapThenSumSet, MapThenFoldSet
<1> QED BY <1>1 DEF PerfReport

\* A job runs only in a round, and a round only with a full team.
Regions ==
  /\ phase = "check" => rounds = 0
  /\ phase \in {"idle", "running"} => team = N
  /\ phase = "running" => rounds > 0
  /\ phase # "running" => todo = {} /\ busy = {}
  /\ todo \cap busy = {}

\* A slot that is not at the job has done it in every round so far.
Filled ==
  \A t \in Slots :
    /\ t \in todo \cup busy => fills[t] = rounds - 1
    /\ t \notin todo \cup busy /\ phase # "closed" => fills[t] = rounds
    /\ output[t] = IF fills[t] = 0 THEN {}
                   ELSE FirstBlock(t) * BlockWords .. FirstBlock(t) * BlockWords + words - 1

\* Unless a migration was seen, a slot's counters followed it through its fills.
Followed ==
  \A t \in Slots :
    /\ owners[t] = Nobody => fills[t] = 0 /\ t \notin busy
    /\ ~migrated /\ t \in busy => owners[t] = thread[t]
    /\ \A e \in Events : counted[t][e] <= fills[t]
    /\ ~migrated => \A e \in available[t] :
                      counted[t][e] = IF t \in Counting(e) THEN fills[t] ELSE 0
    /\ build.clock = "rdtsc" => counted[t]["cycles"] = fills[t]

\* A row ends the benchmark and says what the counters say.
RowIsLast ==
  row.kind = "row" =>
    /\ phase = "closed" /\ ~migrated
    /\ row.perf = PerfReport
    /\ row.misses = Total("icache_misses") /\ row.instructions = Total("instructions")
    /\ row.source = "rdtsc" => row.cycles = rounds * N
    /\ row.words = rounds * N * words
    /\ \A t \in Slots : fills[t] = rounds

\* The time stamp counter is not among what never counts.
Silenced ==
  \A t \in Slots :
    /\ silent[t] \subseteq available[t]
    /\ build.clock = "rdtsc" => "cycles" \notin silent[t]

IInv == TypeOK /\ Regions /\ Filled /\ Followed /\ Silenced /\ RowIsLast

Mapped == [Round!Next]_Round!vars

\* The benchmark as it begins: nobody owns a counter and nothing is filled.
LEMMA InitInv == Init => IInv /\ Round!Init
<1> SUFFICES ASSUME Init PROVE IInv /\ Round!Init
  OBVIOUS
<1>1. team \in 1 .. N
  BY ScalingAssumption DEF Init
<1>2. TypeOK
  <2>1. 0 \in 0 .. MaxRounds
    BY ScalingAssumption
  <2>2. counted \in [Slots -> [Events -> 0 .. MaxRounds]]
    BY <2>1 DEF Init
  <2>3. row.kind = "none"
    BY DEF Init, NoRow
  <2> QED BY <1>1, <2>1, <2>2, <2>3 DEF Init, TypeOK
<1>3. Regions /\ Filled /\ Followed /\ Silenced /\ RowIsLast
  BY <1>1, ScalingAssumption DEF Init, Regions, Filled, Followed, Silenced, RowIsLast, NoRow, Events
<1>4. Round!Init
  BY DEF Init, Round!Init
<1> QED BY <1>2, <1>3, <1>4 DEF IInv

---------------------------------------------------------------------------

\* Confirming the team starts the rounds, or ends the benchmark.
LEMMA CheckTeamStep ==
  ASSUME IInv, CheckTeam
  PROVE  IInv' /\ Mapped
<1>1. /\ UNCHANGED <<setup, todo, busy, thread, counters, buffers, rounds>>
      /\ phase = "check" /\ phase' \in {"idle", "closed"} /\ row'.kind \in {"none", "short_team", "migrated", "row"}
      /\ phase' = "idle" => team = N
      /\ row' = row \/ row'.kind = "short_team"
  BY DEF CheckTeam, IInv, TypeOK
<1>2. row.kind # "row"
  BY <1>1 DEF IInv, RowIsLast
<1>3. TypeOK'
  BY <1>1 DEF IInv, TypeOK, setup, counters, buffers
<1>4. Regions'
  BY <1>1 DEF IInv, Regions, setup
<1>5. Filled'
  BY <1>1 DEF IInv, Filled, setup, buffers, FirstBlock
<1>6. Followed' /\ Silenced'
  BY <1>1 DEF IInv, Followed, Silenced, Counting, setup, buffers, counters
<1>7. RowIsLast'
  BY <1>1, <1>2 DEF IInv, RowIsLast
<1>8. Mapped
  <2>1. todo = {} /\ busy = {}
    BY <1>1 DEF IInv, Regions
  <2> QED BY <1>1, <2>1 DEF Mapped, Round!Next, Round!Close, Round!vars
<1> QED BY <1>3, <1>4, <1>5, <1>6, <1>7, <1>8 DEF IInv

\* A round begins for all slots of the full team.
LEMMA ForkStep ==
  ASSUME IInv, Fork
  PROVE  IInv' /\ Mapped
<1>1. /\ UNCHANGED <<setup, busy, counters, buffers, row>>
      /\ phase = "idle" /\ phase' = "running" /\ rounds' = rounds + 1 /\ rounds < MaxRounds
      /\ thread' \in Assignments
  BY DEF Fork, IInv, TypeOK
<1>2. todo' = Slots /\ todo = {} /\ busy = {} /\ team = N
  BY <1>1 DEF Fork, IInv, Regions, Slots
<1>3. rounds' \in 0 .. MaxRounds /\ rounds' > 0
  BY <1>1, ScalingAssumption DEF IInv, TypeOK
<1>4. TypeOK'
  BY <1>1, <1>2, <1>3 DEF IInv, TypeOK, setup, counters, buffers
<1>5. Regions'
  BY <1>1, <1>2, <1>3 DEF IInv, Regions, setup
<1>6. Filled'
  BY <1>1, <1>2, ScalingAssumption DEF IInv, TypeOK, Filled, setup, buffers, FirstBlock
<1>7. Followed' /\ Silenced'
  BY <1>1, <1>2 DEF IInv, Followed, Silenced, Counting, setup, buffers, counters
<1>8. RowIsLast'
  BY <1>1 DEF IInv, RowIsLast
<1>9. Mapped
  BY <1>1, <1>2 DEF Mapped, Round!Next, Round!Fork
<1> QED BY <1>4, <1>5, <1>6, <1>7, <1>8, <1>9 DEF IInv

\* A slot that starts the job has counters that follow it, or is caught.
LEMMA StartStep ==
  ASSUME IInv, NEW t \in Slots, Start(t)
  PROVE  IInv' /\ Mapped
<1>1. /\ UNCHANGED <<setup, phase, thread, counted, buffers, rounds, row>>
      /\ t \in todo /\ todo' = todo \ {t} /\ busy' = busy \cup {t}
  BY DEF Start
<1>2. phase = "running" /\ t \notin busy /\ thread[t] \in Threads /\ thread[t] # Nobody
  BY <1>1, ScalingAssumption DEF IInv, TypeOK, Regions, Assignments
<1>3. /\ owners' \in [Slots -> Threads \cup {Nobody}]
      /\ available' \in [Slots -> SUBSET Events] /\ silent' \in [Slots -> SUBSET Events]
      /\ migrated' \in BOOLEAN
      /\ owners'[t] # Nobody
      /\ \A u \in Slots : u # t => /\ owners'[u] = owners[u] /\ available'[u] = available[u]
                                 /\ silent'[u] = silent[u]
      /\ ~migrated' => /\ ~migrated /\ owners'[t] = thread[t]
                       /\ \A e \in available'[t] :
                            counted[t][e] = IF e \notin silent'[t] THEN fills[t] ELSE 0
  <2>1. CASE owners[t] = Nobody
    <3>1. /\ owners' = [owners EXCEPT ![t] = thread[t]] /\ migrated' = migrated
          /\ \E open \in SUBSET Refusable : \E mute \in SUBSET open :
               /\ available' = [available EXCEPT ![t] = Granted \cup open]
               /\ silent' = [silent EXCEPT ![t] = mute]
      BY <2>1 DEF Start, OpenCounters
    <3>2. Granted \subseteq Events /\ Refusable \subseteq Events
      BY DEF Granted, Refusable, Events, PerfEvents
    <3>3. /\ available' \in [Slots -> SUBSET Events] /\ silent' \in [Slots -> SUBSET Events]
          /\ \A u \in Slots : u # t => available'[u] = available[u] /\ silent'[u] = silent[u]
      BY <3>1, <3>2 DEF IInv, TypeOK
    <3>4. fills[t] = 0 /\ \A e \in Events : counted[t][e] = 0
      BY <2>1, ScalingAssumption DEF IInv, TypeOK, Followed
    <3>5. \A e \in available'[t] : counted[t][e] = IF e \notin silent'[t] THEN fills[t] ELSE 0
      BY <3>3, <3>4
    <3> QED BY <1>2, <3>1, <3>3, <3>5 DEF IInv, TypeOK
  <2>2. CASE owners[t] # Nobody
    <3>1. owners' = owners /\ available' = available /\ silent' = silent /\ migrated' = (migrated \/ owners[t] # thread[t])
      BY <2>2 DEF Start, OpenCounters
    <3> QED BY <2>2, <3>1 DEF IInv, TypeOK, Followed, Counting
  <2> QED BY <2>1, <2>2
<1>4. todo' \cup busy' = todo \cup busy /\ todo' \cap busy' = {}
  BY <1>1 DEF IInv, Regions
<1>5. TypeOK'
  BY <1>1, <1>3 DEF IInv, TypeOK, setup, buffers
<1>6. Regions'
  BY <1>1, <1>2, <1>4 DEF IInv, Regions, setup
<1>7. Filled'
  BY <1>1, <1>4 DEF IInv, Filled, setup, buffers, FirstBlock
<1>8. Followed'
  BY <1>1, <1>2, <1>3 DEF IInv, Followed, Counting, buffers, setup
<1>11. Silenced'
  <2> SUFFICES ASSUME NEW u \in Slots
               PROVE  /\ silent'[u] \subseteq available'[u]
                      /\ build.clock = "rdtsc" => "cycles" \notin silent'[u]
    BY <1>1 DEF Silenced, setup
  <2>1. CASE u # t \/ owners[t] # Nobody
    BY <1>3, <2>1 DEF IInv, Silenced, Start, OpenCounters
  <2>2. CASE u = t /\ owners[t] = Nobody
    <3>1. PICK open \in SUBSET Refusable : \E mute \in SUBSET open :
            /\ available' = [available EXCEPT ![t] = Granted \cup open]
            /\ silent' = [silent EXCEPT ![t] = mute]
      BY <2>2 DEF Start, OpenCounters
    <3>2. build.clock = "rdtsc" => "cycles" \notin Refusable
      BY DEF Refusable, PerfEvents
    <3> QED BY <2>2, <3>1, <3>2 DEF IInv, TypeOK
  <2> QED BY <2>1, <2>2
<1>9. RowIsLast'
  BY <1>1, <1>2 DEF IInv, RowIsLast
<1>10. Round!Start(t)
  BY <1>1, <1>2 DEF Round!Start
<1> QED BY <1>5, <1>6, <1>7, <1>8, <1>9, <1>10, <1>11 DEF IInv, Mapped, Round!Next

\* The end of a fill is counted by the slot's counters, if they followed it.
LEMMA EndStep ==
  ASSUME IInv, NEW t \in Slots, End(t)
  PROVE  IInv' /\ Mapped
<1>1. /\ UNCHANGED <<setup, phase, todo, thread, owners, available, silent, migrated, rounds, row>>
      /\ t \in busy /\ busy' = busy \ {t}
      /\ output' = [output EXCEPT ![t] =
                      FirstBlock(t) * BlockWords .. FirstBlock(t) * BlockWords + words - 1]
      /\ fills' = [fills EXCEPT ![t] = @ + 1]
      /\ counted' = [counted EXCEPT ![t] =
                       [e \in Events |-> @[e] + (IF Measures(t, e) THEN 1 ELSE 0)]]
  BY DEF End
<1>2. /\ phase = "running" /\ t \notin todo /\ rounds \in 1 .. MaxRounds
      /\ fills[t] = rounds - 1 /\ fills[t] \in Nat
  BY <1>1, ScalingAssumption DEF IInv, TypeOK, Regions, Filled
<1>3. /\ fills' \in [Slots -> 0 .. MaxRounds]
      /\ fills'[t] = rounds /\ \A u \in Slots : u # t => fills'[u] = fills[u]
  BY <1>1, <1>2, ScalingAssumption DEF IInv, TypeOK
<1>4. /\ \A u \in Slots : u # t => counted'[u] = counted[u] /\ output'[u] = output[u]
      /\ output'[t] = FirstBlock(t) * BlockWords .. FirstBlock(t) * BlockWords + words - 1
      /\ \A e \in Events : counted'[t][e] = counted[t][e] + (IF Measures(t, e) THEN 1 ELSE 0)
      /\ DOMAIN output' = Slots
  BY <1>1 DEF IInv, TypeOK
<1>5. counted' \in [Slots -> [Events -> 0 .. MaxRounds]]
  <2>1. \A e \in Events : counted[t][e] + (IF Measures(t, e) THEN 1 ELSE 0) \in 0 .. MaxRounds
    BY <1>2, ScalingAssumption DEF IInv, TypeOK, Followed
  <2> QED BY <1>1, <2>1 DEF IInv, TypeOK
<1>6. output' \in [Slots -> SUBSET Nat]
  <2>1. words \in Nat /\ t \in Nat /\ words \div BlockWords \in Nat
    BY ScalingAssumption DEF IInv, TypeOK, Slots, BlockWords
  <2>2. FirstBlock(t) * BlockWords \in Nat
    BY <2>1 DEF FirstBlock, BlockWords
  <2> DEFINE first == FirstBlock(t) * BlockWords
             last  == FirstBlock(t) * BlockWords + words - 1
  <2>3. (first .. last) \in SUBSET Nat
    BY <2>1, <2>2
  <2> QED BY <1>1, <2>3 DEF IInv, TypeOK
<1>7. TypeOK'
  BY <1>1, <1>3, <1>5, <1>6 DEF IInv, TypeOK, setup
<1>8. Regions'
  BY <1>1, <1>2 DEF IInv, Regions, setup
<1>9. Filled'
  <2> SUFFICES ASSUME NEW u \in Slots
               PROVE  /\ u \in todo' \cup busy' => fills'[u] = rounds' - 1
                      /\ u \notin todo' \cup busy' /\ phase' # "closed" => fills'[u] = rounds'
                      /\ output'[u] = IF fills'[u] = 0 THEN {}
                           ELSE FirstBlock(u)' * BlockWords
                                .. FirstBlock(u)' * BlockWords + words' - 1
    BY DEF Filled
  <2>1. FirstBlock(u)' = FirstBlock(u) /\ words' = words
    BY <1>1 DEF setup, FirstBlock
  <2>2. CASE u = t
    BY <1>1, <1>2, <1>3, <1>4, <2>1, <2>2
  <2>3. CASE u # t
    <3>1. /\ fills'[u] = fills[u] /\ output'[u] = output[u]
          /\ u \in todo' \cup busy' <=> u \in todo \cup busy
      BY <1>1, <1>3, <1>4, <2>3
    <3>2. /\ u \in todo \cup busy => fills[u] = rounds - 1
          /\ u \notin todo \cup busy /\ phase # "closed" => fills[u] = rounds
          /\ output[u] = IF fills[u] = 0 THEN {}
               ELSE FirstBlock(u) * BlockWords .. FirstBlock(u) * BlockWords + words - 1
      BY DEF IInv, Filled
    <3> QED BY <1>1, <2>1, <3>1, <3>2
  <2> QED BY <2>2, <2>3
<1>10. Followed'
  <2>1. \A e \in Events : counted'[t][e] <= fills'[t]
    <3>1. \A e \in Events : counted[t][e] \in Int /\ counted[t][e] <= fills[t]
      BY DEF IInv, TypeOK, Followed
    <3> QED BY <1>2, <1>3, <1>4, <3>1
  <2>2. ~migrated => \A e \in available[t] :
                       counted'[t][e] = IF e \notin silent[t] THEN fills'[t] ELSE 0
    <3> SUFFICES ASSUME ~migrated, NEW e \in available[t]
                 PROVE  counted'[t][e] = IF e \notin silent[t] THEN fills'[t] ELSE 0
      OBVIOUS
    <3>1. /\ e \in Events /\ counted[t][e] \in Int /\ owners[t] = thread[t]
          /\ counted[t][e] = IF e \notin silent[t] THEN fills[t] ELSE 0
      BY <1>1 DEF IInv, TypeOK, Followed, Counting
    <3>2. CASE e \notin silent[t]
      BY <1>2, <1>3, <1>4, <3>1, <3>2 DEF Measures
    <3>3. CASE e \in silent[t]
      <4>1. ~Measures(t, e)
        BY <1>1, <3>1, <3>3 DEF Measures, IInv, Silenced
      <4> QED BY <1>4, <3>1, <3>3, <4>1
    <3> QED BY <3>2, <3>3
  <2>3. owners[t] # Nobody
    BY <1>1 DEF IInv, Followed
  <2>4. ASSUME NEW u \in Slots, u # t
        PROVE  /\ owners[u] = Nobody => fills'[u] = 0 /\ u \notin busy'
               /\ ~migrated /\ u \in busy' => owners[u] = thread[u]
               /\ \A e \in Events : counted'[u][e] <= fills'[u]
               /\ ~migrated => \A e \in available[u] :
                                 counted'[u][e] = IF e \notin silent[u] THEN fills'[u] ELSE 0
               /\ build.clock = "rdtsc" => counted'[u]["cycles"] = fills'[u]
    <3>1. fills'[u] = fills[u] /\ counted'[u] = counted[u] /\ (u \in busy' <=> u \in busy)
      BY <1>1, <1>3, <1>4, <2>4
    <3> QED BY <2>4, <3>1 DEF IInv, Followed, Counting
  <2>5. t \notin busy'
    BY <1>1
  <2>6. build.clock = "rdtsc" => counted'[t]["cycles"] = fills'[t]
    BY <1>2, <1>3, <1>4 DEF IInv, TypeOK, Followed, Measures, Events
  <2>7. UNCHANGED <<owners, thread, available, silent, migrated, build>>
    BY <1>1 DEF setup
  <2> SUFFICES ASSUME NEW u \in Slots
               PROVE  /\ owners[u] = Nobody => fills'[u] = 0 /\ u \notin busy'
                      /\ ~migrated /\ u \in busy' => owners[u] = thread[u]
                      /\ \A e \in Events : counted'[u][e] <= fills'[u]
                      /\ ~migrated => \A e \in available[u] :
                                        counted'[u][e] = IF e \notin silent[u] THEN fills'[u] ELSE 0
                      /\ build.clock = "rdtsc" => counted'[u]["cycles"] = fills'[u]
    BY <2>7 DEF Followed, Counting
  <2> QED BY <2>1, <2>2, <2>3, <2>4, <2>5, <2>6
<1>11. RowIsLast'
  BY <1>1, <1>2 DEF IInv, RowIsLast
<1>13. Silenced'
  BY <1>1 DEF IInv, Silenced, setup
<1>12. Round!End(t)
  BY <1>1, <1>2 DEF Round!End
<1> QED BY <1>7, <1>8, <1>9, <1>10, <1>11, <1>12, <1>13 DEF IInv, Mapped, Round!Next

\* A round ends when every slot has filled its buffer.
LEMMA JoinStep ==
  ASSUME IInv, Join
  PROVE  IInv' /\ Mapped
<1>1. /\ UNCHANGED <<setup, todo, busy, thread, counters, buffers, rounds, row>>
      /\ phase = "running" /\ todo = {} /\ busy = {} /\ phase' = "idle"
  BY DEF Join
<1>2. TypeOK' /\ Regions'
  BY <1>1 DEF IInv, TypeOK, Regions, setup, counters, buffers
<1>3. Filled' /\ Followed' /\ Silenced'
  BY <1>1 DEF IInv, Filled, Followed, Silenced, Counting, setup, counters, buffers, FirstBlock
<1>4. RowIsLast'
  BY <1>1 DEF IInv, RowIsLast
<1>5. Round!Join
  BY <1>1 DEF Round!Join
<1> QED BY <1>2, <1>3, <1>4, <1>5 DEF IInv, Mapped, Round!Next

\* The row is written between two rounds, from counters nobody uses any more.
LEMMA ReportStep ==
  ASSUME IInv, Report
  PROVE  IInv' /\ Mapped
<1>1. /\ UNCHANGED <<setup, todo, busy, thread, counters, buffers, rounds>>
      /\ phase = "idle" /\ phase' = "closed" /\ todo = {} /\ busy = {}
  BY DEF Report, IInv, Regions
<1>2. /\ row'.kind \in {"migrated", "row"}
      /\ row'.kind = "row" => /\ ~migrated /\ row'.perf = PerfReport
                              /\ row'.words = rounds * N * words
                              /\ row'.cycles = Total("cycles") /\ row'.source = CycleSource
                              /\ row'.misses = Total("icache_misses")
                              /\ row'.instructions = Total("instructions")
  BY DEF Report
<1>3. TypeOK' /\ Regions'
  BY <1>1, <1>2 DEF IInv, TypeOK, Regions, setup, counters, buffers
<1>4. Filled' /\ Followed' /\ Silenced'
  BY <1>1 DEF IInv, Filled, Followed, Silenced, Counting, setup, counters, buffers, FirstBlock
<1>5. PerfReport' = PerfReport /\ \A e \in Events : Total(e)' = Total(e)
  BY <1>1, SameTotals DEF setup, counters
<1>6. \A t \in Slots : fills[t] = rounds
  BY <1>1 DEF IInv, Filled
<1>7. row'.kind = "row" /\ row'.source = "rdtsc" => row'.cycles = rounds * N
  <2> SUFFICES ASSUME CycleSource = "rdtsc" PROVE Total("cycles") = rounds * N
    BY <1>2
  <2>1. build.clock = "rdtsc"
    BY Zenon DEF CycleSource
  <2>2. \A t \in Slots : counted[t]["cycles"] = IF t \in Slots THEN rounds ELSE 0
    BY <1>6, <2>1 DEF IInv, Followed
  <2>3. rounds \in Int
    BY DEF IInv, TypeOK
  <2>4. Total("cycles") = rounds * Cardinality(Slots)
    BY <2>2, <2>3, TotalOfSlots
  <2> QED BY <2>4, SlotCount
<1>8. RowIsLast'
  BY <1>1, <1>2, <1>5, <1>6, <1>7 DEF RowIsLast, counters, buffers, setup, Events
<1>9. Round!Close
  BY <1>1 DEF Round!Close
<1> QED BY <1>3, <1>4, <1>8, <1>9 DEF IInv, Mapped, Round!Next

\* Nothing happens.
LEMMA StutterStep ==
  ASSUME IInv, UNCHANGED vars
  PROVE  IInv' /\ Mapped
<1>1. UNCHANGED <<setup, counters, buffers, phase, todo, busy, thread, rounds, row>>
  BY DEF vars
<1>2. TypeOK' /\ Regions'
  BY <1>1 DEF IInv, TypeOK, Regions, setup, counters, buffers
<1>3. Filled' /\ Followed' /\ Silenced'
  BY <1>1 DEF IInv, Filled, Followed, Silenced, Counting, setup, counters, buffers, FirstBlock
<1>4. RowIsLast'
  BY <1>1, SameTotals DEF IInv, RowIsLast, Events, setup, counters, buffers
<1>5. UNCHANGED Round!vars
  BY <1>1 DEF Round!vars
<1> QED BY <1>2, <1>3, <1>4, <1>5 DEF IInv, Mapped

---------------------------------------------------------------------------

\* Every step keeps the invariant and is a step of ForkJoin, or none.
LEMMA NextStep == IInv /\ [Next]_vars => IInv' /\ Mapped
<1> SUFFICES ASSUME IInv, [Next]_vars PROVE IInv' /\ Mapped
  OBVIOUS
<1>1. CASE CheckTeam \/ Fork \/ Join \/ Report
  BY <1>1, CheckTeamStep, ForkStep, JoinStep, ReportStep
<1>2. ASSUME NEW t \in Slots, Start(t) \/ End(t) PROVE IInv' /\ Mapped
  BY <1>2, StartStep, EndStep
<1>3. CASE UNCHANGED vars \/ Terminated
  BY <1>3, StutterStep DEF Terminated
<1> QED BY <1>1, <1>2, <1>3 DEF Next

(***************************************************************************)
(* The inductive invariant: how many fills each slot has made and its      *)
(* counters have measured, in every phase of a round.                      *)
(* (bench_scaling.cpp 191-354)                                             *)
(***************************************************************************)
THEOREM ScalingInvariant == Spec => []IInv
BY InitInv, NextStep, PTL DEF Spec

\* With either runtime, each round runs every slot's job once: ForkJoin.
THEOREM ScalingForksAndJoins == Spec => RoundsForkAndJoin
BY InitInv, NextStep, PTL DEF Spec, Mapped, RoundsForkAndJoin, Round!Spec

\* A row that is reported holds counts of the slot's own thread only.
THEOREM CountersFollowSlots == Spec => []CountersAreTheSlots
<1>1. IInv => CountersAreTheSlots
  BY DEF IInv, RowIsLast, Followed, Counting, CountersAreTheSlots, Reported
<1> QED BY <1>1, ScalingInvariant, PTL

(***************************************************************************)
(* An MPKI that is reported divides the misses of every round of every     *)
(* worker whose event counts by the instructions of every round of every   *)
(* worker whose event counts, and all workers had both.                    *)
(* (bench_scaling.cpp 325-347)                                             *)
(***************************************************************************)
THEOREM MpkiLeavesNoCountOut == Spec => []MpkiIsOfAllThatCount
<1>1. IInv => MpkiIsOfAllThatCount
  <2> SUFFICES ASSUME IInv, row.kind = "row", row.perf = "on"
               PROVE  /\ \A t \in Slots : PerfEvents \subseteq available[t]
                      /\ row.misses = rounds * Cardinality(Counting("icache_misses"))
                      /\ row.instructions = rounds * Cardinality(Counting("instructions"))
                      /\ row.instructions # 0
    BY DEF MpkiIsOfAllThatCount, Reported
  <2>1. /\ PerfReport = "on" /\ ~migrated /\ \A t \in Slots : fills[t] = rounds
        /\ row.misses = Total("icache_misses") /\ row.instructions = Total("instructions")
    BY DEF IInv, RowIsLast
  <2>2. (\A t \in Slots : PerfEvents \subseteq available[t]) /\ Total("instructions") # 0
    BY <2>1 DEF PerfReport
  <2>3. ASSUME NEW e \in PerfEvents PROVE Total(e) = rounds * Cardinality(Counting(e))
    <3>1. \A t \in Slots : counted[t][e] = IF t \in Counting(e) THEN rounds ELSE 0
      BY <2>1, <2>2 DEF IInv, Followed
    <3>2. rounds \in Int /\ Counting(e) \in SUBSET Slots
      BY DEF IInv, TypeOK, Counting
    <3> QED BY <3>1, <3>2, TotalOfSlots
  <2> QED BY <2>1, <2>2, <2>3 DEF PerfEvents
<1> QED BY <1>1, ScalingInvariant, PTL

---------------------------------------------------------------------------

\* A worker's blocks are its words: the range of slot t starts at word t * words.
LEMMA RangeStarts ==
  ASSUME TypeOK, NEW t \in Slots
  PROVE  /\ words \in Nat \ {0} /\ t \in Nat
         /\ FirstBlock(t) * BlockWords = t * words
<1>1. words \in Nat \ {0} /\ words % BlockWords = 0 /\ t \in Nat
  BY ScalingAssumption DEF TypeOK, Slots
<1> DEFINE q == words \div BlockWords
<1>2. words = 4 * q /\ q \in Int
  BY <1>1 DEF BlockWords
<1> HIDE DEF q
<1>3. (t * q) * 4 = t * (4 * q)
  BY <1>1, <1>2
<1>4. FirstBlock(t) * BlockWords = (t * q) * 4
  BY DEF FirstBlock, BlockWords, q
<1> QED BY <1>1, <1>2, <1>3, <1>4

\* The range of a slot ends where, or before, that of a later slot begins.
LEMMA RangesInOrder ==
  ASSUME NEW w \in Nat \ {0}, NEW t \in Nat, NEW u \in Nat, t < u
  PROVE  t * w + w <= u * w
<1>1. \E d \in Nat : u = t + 1 + d
  <2>1. u - t - 1 \in Nat /\ u = t + 1 + (u - t - 1)
    OBVIOUS
  <2> QED BY <2>1
<1>2. PICK d \in Nat : u = t + 1 + d
  BY <1>1
<1>3. u * w = t * w + w + d * w
  BY <1>2
<1>4. d * w \in Nat
  OBVIOUS
<1>5. t * w \in Nat
  OBVIOUS
<1> QED BY <1>3, <1>4, <1>5

\* The ends of an interval that is not empty.
LEMMA IntervalEnds ==
  ASSUME NEW a \in Int, NEW b \in Int, a <= b
  PROVE  Min(a .. b) = a /\ Max(a .. b) = b
<1>1. /\ a \in a .. b /\ \A y \in a .. b : a <= y
      /\ b \in a .. b /\ \A y \in a .. b : b >= y
  OBVIOUS
<1>2. \A x \in a .. b : (\A y \in a .. b : x <= y) => x = a
  BY <1>1
<1>3. \A x \in a .. b : (\A y \in a .. b : x >= y) => x = b
  BY <1>1
<1> QED BY <1>1, <1>2, <1>3 DEF Min, Max

\* The streams of the workers never overlap and leave nothing out.
THEOREM StreamsNeverOverlap == Spec => []StreamsAreDisjoint
<1>1. IInv => StreamsAreDisjoint
  <2> SUFFICES ASSUME IInv, NEW t \in Slots, NEW u \in Slots
               PROVE  /\ t # u => output[t] \cap output[u] = {}
                      /\ u = t + 1 /\ fills[t] > 0 /\ fills[u] > 0 =>
                           Max(output[t]) + 1 = Min(output[u])
    BY DEF StreamsAreDisjoint
  <2> DEFINE from(v) == v * words
             to(v)   == v * words + words - 1
  <2>1. words \in Nat \ {0} /\ t \in Nat /\ u \in Nat
    BY RangeStarts DEF IInv
  <2>2. \A v \in {t, u} : /\ output[v] \in {{}, from(v) .. to(v)}
                          /\ fills[v] > 0 => output[v] = from(v) .. to(v)
                          /\ from(v) \in Nat /\ to(v) \in Int /\ from(v) <= to(v)
    <3> SUFFICES ASSUME NEW v \in {t, u}
                 PROVE  /\ output[v] \in {{}, from(v) .. to(v)}
                        /\ fills[v] > 0 => output[v] = from(v) .. to(v)
                        /\ from(v) \in Nat /\ to(v) \in Int /\ from(v) <= to(v)
      OBVIOUS
    <3>1. FirstBlock(v) * BlockWords = from(v)
      BY RangeStarts DEF IInv
    <3>2. output[v] = IF fills[v] = 0 THEN {} ELSE from(v) .. to(v)
      BY <3>1 DEF IInv, Filled
    <3>3. v * words \in Nat
      BY <2>1
    <3> QED BY <2>1, <3>2, <3>3
  <2>3. CASE t < u
    <3>1. t * words + words <= u * words
      BY <2>1, <2>3, RangesInOrder
    <3>2. to(t) < from(u)
      BY <2>1, <2>2, <3>1
    <3>3. output[t] \cap output[u] = {}
      BY <2>2, <3>2
    <3>4. ASSUME u = t + 1, fills[t] > 0, fills[u] > 0
          PROVE  Max(output[t]) + 1 = Min(output[u])
      <4>1. Max(output[t]) = to(t) /\ Min(output[u]) = from(u)
        BY <2>2, <3>4, IntervalEnds
      <4>2. from(u) = to(t) + 1
        BY <2>1, <3>4
      <4> QED BY <4>1, <4>2
    <3> QED BY <3>3, <3>4
  <2>4. CASE u < t
    <3>1. u * words + words <= t * words
      BY <2>1, <2>4, RangesInOrder
    <3>2. to(u) < from(t)
      BY <2>1, <2>2, <3>1
    <3>3. output[t] \cap output[u] = {}
      BY <2>2, <3>2
    <3> QED BY <2>1, <2>4, <3>3
  <2>5. CASE t = u
    BY <2>1, <2>5
  <2> QED BY <2>1, <2>3, <2>4, <2>5
<1> QED BY <1>1, ScalingInvariant, PTL

\* A row's bytes are those of the fills made, and rdtsc's cycles are of the same fills.
THEOREM BytesAreFilled == Spec => []BytesWereFilled
<1>1. IInv => BytesWereFilled
  <2> SUFFICES ASSUME IInv, row.kind = "row"
               PROVE  /\ row.words = words * MapThenSumSet(LAMBDA t : fills[t], Slots)
                      /\ row.source = "rdtsc" => row.cycles * words = row.words
    BY DEF BytesWereFilled, Reported
  <2>1. words \in Int /\ rounds \in Int /\ N \in Int /\ \A t \in Slots : fills[t] = rounds
    BY SlotCount, ScalingAssumption DEF IInv, TypeOK, RowIsLast
  <2>2. row.words = rounds * N * words
    BY DEF IInv, RowIsLast
  <2>3. MapThenSumSet(LAMBDA t : fills[t], Slots) = rounds * N
    BY <2>1, FillsOfSlots
  <2>4. row.words = words * MapThenSumSet(LAMBDA t : fills[t], Slots)
    BY <2>1, <2>2, <2>3
  <2>5. row.source = "rdtsc" => row.cycles * words = row.words
    BY <2>1, <2>2 DEF IInv, RowIsLast
  <2> QED BY <2>4, <2>5
<1> QED BY <1>1, ScalingInvariant, PTL
=============================================================================
