----------------------- MODULE ExperimentReportProofs -----------------------
(***************************************************************************)
(* Proofs about ExperimentReport, for every set of experiments that        *)
(* satisfies ReportAssumption and any bounds.  IInv says of the rows, at   *)
(* every step, which arms they may be of and whose turns have been taken.  *)
(* From it, ServedReads: what the report is served from is a Reading.      *)
(* What follows is of any Reading, or of two whose rows are in another     *)
(* order: the sections of quality, the ranking, the plan, the rebuilding.  *)
(***************************************************************************)
EXTENDS ExperimentReport, FiniteSetTheorems, WellFoundedInduction, TLAPS

-----------------------------------------------------------------------------
(***************************************************************************)
(* A report is a function of its reading.                                  *)
(***************************************************************************)
LEMMA ReportIs ==
  ASSUME NEW in
  PROVE  build_report(in) = Published(in, Trials(in), Sections(in, Trials(in)))
<1>1. \A x, y : x \in {y} <=> x = y
  OBVIOUS
<1> QED BY Zenon DEF build_report, Once

\* The trials a quality number may be computed from.
Quality(trials) == {t \in trials : t.outcome \in QualityOutcomes}

\* The sections of a reading depend on its tasks, on every score of its
\* trials, and, of the trials themselves, on those of a quality outcome.
LEMMA SectionsAgree ==
  ASSUME NEW in, NEW jn, NEW T, NEW U,
         in.lineup = jn.lineup, in.tasks = jn.tasks,
         Scored(T) = Scored(U), Quality(T) = Quality(U)
  PROVE  Sections(in, T) = Sections(jn, U)
<1>1. \A s : applicable_tasks(in, T, s) = applicable_tasks(jn, U, s)
  BY DEF applicable_tasks
<1>2. \A s : eligible_tasks(in, T, s) = eligible_tasks(jn, U, s)
  BY DEF eligible_tasks
<1>3. experiment_series(T) = experiment_series(U)
  BY DEF experiment_series
<1>4. \A p, s, mine : Asked(T, p, s, mine) = Asked(U, p, s, mine)
  <2> SUFFICES ASSUME NEW p, NEW s, NEW mine
               PROVE  Asked(T, p, s, mine) = Asked(U, p, s, mine)
    OBVIOUS
  <2>1. {x \in T : x.arm = p /\ x.task \in mine /\ x.outcome \in QualityOutcomes}
          = {x \in U : x.arm = p /\ x.task \in mine /\ x.outcome \in QualityOutcomes}
    BY DEF Quality
  <2> QED BY <2>1 DEF Asked
<1>5. \A p, s : scorer_report(in, T, p, s) = scorer_report(jn, U, p, s)
  BY <1>1, <1>2, <1>4 DEF scorer_report
<1> QED BY <1>3, <1>5 DEF Sections, Arms

-----------------------------------------------------------------------------
(***************************************************************************)
(* The plan: every arm has its turn in every cell.                         *)
(***************************************************************************)
LEMMA Division ==
  ASSUME NEW a \in Nat, NEW n \in Nat \ {0}
  PROVE  a \div n \in Nat /\ a % n \in 0..(n - 1) /\ a = n * (a \div n) + (a % n)
OBVIOUS

LEMMA SmallMultiple ==
  ASSUME NEW n \in Nat \ {0}, NEW q \in Int, NEW d \in Int, d = n * q, -n < d, d < n
  PROVE  d = 0
<1>1. CASE q >= 1
  <2>1. n * q >= n
    BY <1>1
  <2> QED BY <2>1
<1>2. CASE q <= -1
  <2>1. n * (-q) >= n
    BY <1>2
  <2> QED BY <2>1
<1>3. CASE q = 0
  BY <1>3
<1> QED BY <1>1, <1>2, <1>3

\* In the order of a cell every arm of the lineup has exactly one turn.
THEOREM RotationIsAPermutation ==
  ASSUME NEW size \in Nat \ {0}, NEW rotation \in Nat
  PROVE  rotate(size, rotation) \in Bijection(1..size, 1..size)
<1> DEFINE f == rotate(size, rotation)
<1>1. /\ f = [i \in 1..size |-> f[i]]
      /\ \A i \in 1..size : f[i] = ((i - 1 + rotation) % size) + 1 /\ i - 1 + rotation \in Nat
  BY DEF rotate
<1> HIDE DEF f
<1>2. f \in [1..size -> 1..size]
  <2>1. ASSUME NEW i \in 1..size PROVE f[i] \in 1..size
    <3>1. (i - 1 + rotation) % size \in 0..(size - 1)
      BY <1>1, Division
    <3> QED BY <1>1, <3>1
  <2> QED BY <1>1, <2>1
<1>3. f \in Injection(1..size, 1..size)
  <2> SUFFICES ASSUME NEW i \in 1..size, NEW j \in 1..size, f[i] = f[j] PROVE i = j
    BY <1>2 DEF Injection, IsInjective
  <2> DEFINE a == i - 1 + rotation
             b == j - 1 + rotation
  <2>1. /\ a \in Nat /\ b \in Nat /\ a - b = i - j
        /\ f[i] = (a % size) + 1 /\ f[j] = (b % size) + 1
    BY <1>1
  <2> HIDE DEF a, b
  <2>2. PICK q \in Nat, m \in 0..(size - 1) : a = size * q + m /\ m = a % size
    <3>1. a \div size \in Nat /\ a % size \in 0..(size - 1)
          /\ a = size * (a \div size) + (a % size)
      BY <2>1, Division, Zenon
    <3> QED BY <3>1, Zenon
  <2>3. PICK r \in Nat, n \in 0..(size - 1) : b = size * r + n /\ n = b % size
    <3>1. b \div size \in Nat /\ b % size \in 0..(size - 1)
          /\ b = size * (b \div size) + (b % size)
      BY <2>1, Division, Zenon
    <3> QED BY <3>1, Zenon
  <2>4. m = n
    <3>1. m + 1 = n + 1
      BY <2>1, <2>2, <2>3, Zenon
    <3> QED BY <3>1
  <2>5. a - b = size * (q - r) /\ q - r \in Int
    <3>1. (size * q + m) - (size * r + m) = size * (q - r)
      OBVIOUS
    <3>2. q - r \in Int
      OBVIOUS
    <3> QED BY <2>2, <2>3, <2>4, <3>1, <3>2, Zenon
  <2>6. i - j = 0
    BY <2>1, <2>5, SmallMultiple
  <2> QED BY <2>6
<1>4. IsFiniteSet(1..size)
  BY FS_Interval
<1> QED BY <1>3, <1>4, FS_Injection DEF f, Bijection

\* Over a full cycle of repeats every arm occupies every place equally often,
\* as rotate's docstring promises: once, whichever repeat the cycle begins at.
\* The arm at a place is a rotation of the cell's rotation.
THEOREM RotationIsBalanced ==
  ASSUME NEW size \in Nat \ {0}, NEW task_index \in Nat, NEW first \in Nat,
         NEW i \in 1..size, NEW arm \in 1..size
  PROVE  \E r \in 0..(size - 1) : \A q \in 0..(size - 1) :
           rotate(size, rotation_for(size, task_index, first + q))[i] = arm <=> q = r
<1> DEFINE k == task_index + first
           f == rotate(size, k)
           g == rotate(size, i - 1)
           turn(q) == rotate(size, rotation_for(size, task_index, first + q))[i]
<1>1. /\ k \in Nat /\ i - 1 \in Nat
      /\ \A j \in 1..size : f[j] = ((j - 1 + k) % size) + 1 /\ g[j] = ((j - 1 + (i - 1)) % size) + 1
  BY DEF rotate
<1>2. ASSUME NEW q \in 0..(size - 1) PROVE turn(q) = g[f[q + 1]]
  <2> DEFINE m == (q + k) % size
  <2>1. q + k \in Nat /\ task_index + (first + q) = q + k
    OBVIOUS
  <2>2. rotation_for(size, task_index, first + q) = m
    BY <2>1 DEF rotation_for
  <2>3. m \in 0..(size - 1)
    BY <2>1, Division
  <2>4. f[q + 1] = m + 1
    <3>1. q + 1 \in 1..size /\ (q + 1) - 1 = q
      OBVIOUS
    <3> QED BY <1>1, <3>1
  <2>5. turn(q) = ((i - 1 + m) % size) + 1
    BY <2>2 DEF rotate
  <2> HIDE DEF m, turn, f, g
  <2>6. m + 1 \in 1..size /\ (m + 1) - 1 + (i - 1) = i - 1 + m
    BY <2>3
  <2>7. g[m + 1] = ((i - 1 + m) % size) + 1
    BY <1>1, <2>6
  <2> QED BY <2>4, <2>5, <2>7
<1>3. f \in Bijection(1..size, 1..size) /\ g \in Bijection(1..size, 1..size)
  BY <1>1, RotationIsAPermutation
<1> HIDE DEF f, g, turn, k
<1>4. PICK j \in 1..size : g[j] = arm
  BY <1>3 DEF Bijection, Surjection
<1>5. PICK l \in 1..size : f[l] = j
  BY <1>3 DEF Bijection, Surjection
<1>6. \A x, y \in 1..size : f[x] \in 1..size /\ (f[x] = f[y] <=> x = y) /\ (g[x] = g[y] <=> x = y)
  BY <1>3 DEF Bijection, Injection, IsInjective
<1>7. ASSUME NEW q \in 0..(size - 1) PROVE turn(q) = arm <=> q = l - 1
  <2>1. q + 1 \in 1..size
    OBVIOUS
  <2>2. g[f[q + 1]] = arm <=> f[q + 1] = j
    BY <1>4, <1>6, <2>1
  <2>3. f[q + 1] = j <=> q + 1 = l
    BY <1>5, <1>6, <2>1
  <2> QED BY <1>2, <2>2, <2>3
<1>8. l - 1 \in 0..(size - 1)
  OBVIOUS
<1> QED BY <1>7, <1>8 DEF turn

\* What the assumption says of the one that is run.
LEMMA TheExperiment ==
  ASSUME experiment \in Experiments
  PROVE  /\ Len(experiment.lineup) \in Nat \ {0}
         /\ DOMAIN experiment.lineup = 1..Len(experiment.lineup)
         /\ Arms(experiment) = 1..Len(experiment.lineup)
         /\ \A p \in Arms(experiment) : experiment.lineup[p] \in ToSet(experiment.lineup)
         /\ dataset \in Seq([kind : Kinds \cup {None}, cutoff : BOOLEAN])
         /\ experiment.order \in Seq(DOMAIN dataset)
         /\ experiment.legacy \in BOOLEAN
<1>1. /\ experiment.lineup \in Seq(ToSet(experiment.lineup)) /\ experiment.lineup # <<>>
      /\ dataset \in Seq([kind : Kinds \cup {None}, cutoff : BOOLEAN])
      /\ experiment.order \in Seq(DOMAIN dataset)
      /\ experiment.legacy \in BOOLEAN
  BY ReportAssumption DEF dataset
<1>2. PICK S, x : S = ToSet(experiment.lineup) /\ x = experiment.lineup /\ x \in Seq(S) /\ x # <<>>
  BY <1>1
<1>3. Len(x) \in Nat \ {0} /\ DOMAIN x = 1..Len(x) /\ \A p \in DOMAIN x : x[p] \in S
  BY <1>2
<1> QED BY <1>1, <1>2, <1>3 DEF Arms

LEMMA TheTasks ==
  ASSUME experiment \in Experiments, NEW t \in DOMAIN dataset
  PROVE  t \in Nat /\ dataset[t].kind \in Kinds \cup {None} /\ dataset[t].cutoff \in BOOLEAN
<1> DEFINE D == [kind : Kinds \cup {None}, cutoff : BOOLEAN]
<1>1. dataset \in Seq(D)
  BY TheExperiment
<1>2. dataset[t] \in D /\ t \in Nat
  <2> HIDE DEF D
  <2> QED BY <1>1
<1> QED BY <1>2

\* A cell is a task, a repeat, and an order in which every arm goes once.
LEMMA ThePlan ==
  ASSUME experiment \in Experiments
  PROVE  /\ Len(Cells) \in Nat /\ DOMAIN Cells = 1..Len(Cells)
         /\ \A k \in 1..Len(Cells) :
              /\ Cells[k].task \in DOMAIN dataset
              /\ Cells[k].repeat \in Nat
              /\ Cells[k].order \in Bijection(Arms(experiment), Arms(experiment))
<1> DEFINE n == Len(experiment.order)
           size == Len(experiment.lineup)
           cell(k) == [task   |-> experiment.order[((k - 1) \div Repeats) + 1],
                       repeat |-> (k - 1) % Repeats,
                       order  |-> rotate(size, rotation_for(size, (k - 1) \div Repeats,
                                                            (k - 1) % Repeats))]
<1>1. /\ n \in Nat /\ \A i \in 1..n : experiment.order[i] \in DOMAIN dataset
      /\ size \in Nat \ {0} /\ Arms(experiment) = 1..size
      /\ Repeats \in Nat \ {0}
  <2>1. PICK S, x : S = DOMAIN dataset /\ x = experiment.order /\ x \in Seq(S)
    BY TheExperiment
  <2>2. Len(x) \in Nat /\ \A i \in 1..Len(x) : x[i] \in S
    BY <2>1
  <2> QED BY <2>1, <2>2, TheExperiment, ReportAssumption
<1>2. Cells = [k \in 1..(n * Repeats) |-> cell(k)]
  BY DEF Cells, plan_trials
<1> HIDE DEF n, size
<1>3. n * Repeats \in Nat
  BY <1>1
<1>4. Len(Cells) = n * Repeats /\ DOMAIN Cells = 1..(n * Repeats)
  <2> HIDE DEF cell
  <2> QED BY <1>2, <1>3
<1>5. ASSUME NEW k \in 1..(n * Repeats)
      PROVE  /\ cell(k).task \in DOMAIN dataset
             /\ cell(k).repeat \in Nat
             /\ cell(k).order \in Bijection(Arms(experiment), Arms(experiment))
  <2>1. PICK q \in Nat, r \in 0..(Repeats - 1) :
          /\ q = (k - 1) \div Repeats /\ r = (k - 1) % Repeats
          /\ k - 1 = Repeats * q + r
    <3>1. k - 1 \in Nat
      BY <1>3
    <3>2. /\ (k - 1) \div Repeats \in Nat /\ (k - 1) % Repeats \in 0..(Repeats - 1)
          /\ k - 1 = Repeats * ((k - 1) \div Repeats) + ((k - 1) % Repeats)
      BY <1>1, <3>1, Division, Zenon
    <3> QED BY <3>2, Zenon
  <2>2. q + 1 \in 1..n
    <3>1. CASE q >= n
      <4>1. Repeats * q >= Repeats * n
        BY <1>1, <3>1
      <4>2. Repeats * n = n * Repeats /\ Repeats * q \in Nat
        BY <1>1
      <4>3. PICK v \in Nat : v = Repeats * q
        BY <4>2
      <4>4. k - 1 >= v
        BY <2>1, <4>3
      <4>5. v >= n * Repeats
        BY <4>1, <4>2, <4>3
      <4> QED BY <1>3, <4>4, <4>5
    <3>2. CASE q < n
      BY <3>2, <1>1
    <3> QED BY <3>1, <3>2, <1>1
  <2>3. rotation_for(size, q, r) \in Nat
    <3>1. q + r \in Nat
      BY <1>1, <2>1
    <3>2. (q + r) % size \in 0..(size - 1)
      BY <1>1, <3>1, Division
    <3> QED BY <1>1, <3>2 DEF rotation_for
  <2>4. rotate(size, rotation_for(size, q, r)) \in Bijection(1..size, 1..size)
    BY <1>1, <2>3, RotationIsAPermutation
  <2> QED BY <1>1, <2>1, <2>2, <2>4
<1>6. \A k \in 1..(n * Repeats) : Cells[k] = cell(k)
  <2> HIDE DEF cell
  <2> QED BY <1>2
<1> HIDE DEF cell
<1> QED BY <1>3, <1>4, <1>5, <1>6

-----------------------------------------------------------------------------
(***************************************************************************)
(* What holds of the rows at every step.                                   *)
(***************************************************************************)
\* A position recorded is one the row's model occupies, and the runner's
\* rows have the model and the position of their arm.
RowsAreArms ==
  \A r \in DOMAIN results :
    /\ results[r].position # None => results[r].position \in Slots(experiment, results[r].model)
    /\ results[r].arm # None => /\ results[r].model = experiment.lineup[results[r].arm]
                               /\ results[r].position = row_position(results[r].arm)

\* In a cell an arm has one turn, and those of the newest had it by now.
TurnsAreTaken ==
  /\ groups = <<>> => place = Len(experiment.lineup)
  /\ \A q, r \in DOMAIN results :
       /\ results[q].group = results[r].group
       /\ results[q].arm = results[r].arm /\ results[r].arm # None
       => q = r
  /\ \A r \in DOMAIN results :
       results[r].group = Len(groups) /\ results[r].arm # None =>
         \E i \in 1..place : results[r].arm = Cells[Len(groups)].order[i]

\* A score that is no person's is by the scorer of its task.
ScorersAnswer ==
  \A k \in DOMAIN scores :
    scores[k].scorer # "human" =>
      scores[k].scorer = dataset[groups[results[scores[k].result].group].task].kind

\* What a pass is still to score has a scorer.
PassIsScored ==
  pass # None =>
    /\ pass.groups \subseteq scorable_groups
    /\ \A r \in pass.rows : results[r].group \in scorable_groups

IInv == TypeOK /\ RowsAreArms /\ TurnsAreTaken /\ ScorersAnswer /\ PassIsScored

LEMMA Appended ==
  ASSUME NEW S, NEW s \in Seq(S), NEW x \in S
  PROVE  /\ Append(s, x) \in Seq(S)
         /\ Len(s) \in Nat /\ Len(Append(s, x)) = Len(s) + 1
         /\ DOMAIN s = 1..Len(s) /\ DOMAIN Append(s, x) = 1..(Len(s) + 1)
         /\ \A i \in 1..Len(s) : Append(s, x)[i] = s[i]
         /\ Append(s, x)[Len(s) + 1] = x
OBVIOUS

LEMMA WiderSeq ==
  ASSUME NEW S, NEW T, S \subseteq T, NEW s \in Seq(S)
  PROVE  s \in Seq(T)
OBVIOUS

\* What the types say of each row.
LEMMA Typed ==
  ASSUME TypeOK
  PROVE  /\ Len(groups) \in Nat /\ DOMAIN groups = 1..Len(groups)
         /\ Len(results) \in Nat /\ DOMAIN results = 1..Len(results)
         /\ Len(scores) \in Nat /\ DOMAIN scores = 1..Len(scores)
         /\ Len(groups) <= Len(Cells)
         /\ \A g \in 1..Len(groups) : groups[g].task \in DOMAIN dataset /\ groups[g].repeat \in Nat
         /\ \A r \in 1..Len(results) : results[r] \in RowSet(Len(groups))
         /\ \A k \in 1..Len(scores) : scores[k] \in ScoreSet(Len(results))
<1> DEFINE G == [task : DOMAIN dataset, repeat : Nat]
           R == RowSet(Len(groups))
           S == ScoreSet(Len(results))
<1>1. groups \in Seq(G) /\ results \in Seq(R) /\ scores \in Seq(S)
  BY DEF TypeOK
<1>x. \A g \in G : g.task \in DOMAIN dataset /\ g.repeat \in Nat
  OBVIOUS
<1> HIDE DEF G, R, S
<1>2. /\ Len(groups) \in Nat /\ DOMAIN groups = 1..Len(groups)
      /\ \A g \in 1..Len(groups) : groups[g] \in G
  BY <1>1
<1>3. /\ Len(results) \in Nat /\ DOMAIN results = 1..Len(results)
      /\ \A r \in 1..Len(results) : results[r] \in R
  BY <1>1
<1>4. /\ Len(scores) \in Nat /\ DOMAIN scores = 1..Len(scores)
      /\ \A k \in 1..Len(scores) : scores[k] \in S
  BY <1>1
<1>5. \A g \in 1..Len(groups) : groups[g].task \in DOMAIN dataset /\ groups[g].repeat \in Nat
  BY <1>2, <1>x
<1> QED BY <1>2, <1>3, <1>4, <1>5 DEF R, S, TypeOK

\* A set of numbers up to n has a least and a greatest.
LEMMA Extremes ==
  ASSUME NEW n \in Nat, NEW S \in SUBSET (1..n), S # {}
  PROVE  /\ Min(S) \in S /\ Max(S) \in S
         /\ \A j \in S : Min(S) <= j /\ j <= Max(S)
<1> DEFINE Smaller == StrictSubsetOrdering(1..n)
           above == {(i + 1)..n : i \in S}
           below == {1..(i - 1) : i \in S}
<1>0. /\ IsWellFoundedOn(Smaller, SUBSET (1..n))
      /\ above \in SUBSET (SUBSET (1..n)) /\ above # {}
      /\ below \in SUBSET (SUBSET (1..n)) /\ below # {}
  <2>1. IsFiniteSet(1..n)
    BY FS_Interval
  <2>2. ASSUME NEW i \in S PROVE (i + 1)..n \in SUBSET (1..n) /\ 1..(i - 1) \in SUBSET (1..n)
    <3>1. i \in 1..n
      OBVIOUS
    <3> QED BY <3>1
  <2>3. IsWellFoundedOn(Smaller, SUBSET (1..n))
    BY <2>1, FS_StrictSubsetOrderingWellFounded, FS_FiniteSubsetsOfFinite
  <2> QED BY <2>2, <2>3
<1>1. PICK i \in S : \A v \in above : <<v, (i + 1)..n>> \notin Smaller
  <2>1. PICK u \in above : \A v \in above : <<v, u>> \notin Smaller
    <3> HIDE DEF above, Smaller
    <3> QED BY <1>0, WFMin
  <2> QED BY <2>1
<1>2. PICK k \in S : \A v \in below : <<v, 1..(k - 1)>> \notin Smaller
  <2>1. PICK u \in below : \A v \in below : <<v, u>> \notin Smaller
    <3> HIDE DEF below, Smaller
    <3> QED BY <1>0, WFMin
  <2> QED BY <2>1
<1>3. ASSUME NEW j \in S PROVE j <= i /\ k <= j
  <2>1. i \in 1..n /\ j \in 1..n /\ k \in 1..n
    OBVIOUS
  <2>2. ASSUME j > i PROVE FALSE
    <3>1. (j + 1)..n \subseteq (i + 1)..n /\ j \in (i + 1)..n /\ j \notin (j + 1)..n
      BY <2>1, <2>2
    <3>2. (j + 1)..n \in above /\ (i + 1)..n \in above
      OBVIOUS
    <3> QED BY <1>0, <1>1, <3>1, <3>2 DEF StrictSubsetOrdering
  <2>3. ASSUME k > j PROVE FALSE
    <3>1. 1..(j - 1) \subseteq 1..(k - 1) /\ j \in 1..(k - 1) /\ j \notin 1..(j - 1)
      BY <2>1, <2>3
    <3>2. 1..(j - 1) \in below /\ 1..(k - 1) \in below
      OBVIOUS
    <3> QED BY <1>0, <1>2, <3>1, <3>2 DEF StrictSubsetOrdering
  <2> QED BY <2>1, <2>2, <2>3
<1>4. Max(S) \in S /\ \A j \in S : j <= Max(S)
  BY <1>3 DEF Max
<1>5. Min(S) \in S /\ \A j \in S : Min(S) <= j
  BY <1>3 DEF Min
<1> QED BY <1>4, <1>5

LEMMA SlotsAre ==
  ASSUME experiment \in Experiments
  PROVE  /\ \A m : Slots(experiment, m) \in SUBSET (1..Len(experiment.lineup))
         /\ \A p \in Arms(experiment) : /\ p \in Slots(experiment, experiment.lineup[p])
                                         /\ row_position(p) \in Slots(experiment, experiment.lineup[p])
<1>1. \A m : Slots(experiment, m) \in SUBSET (1..Len(experiment.lineup))
  BY TheExperiment DEF Slots
<1>2. ASSUME NEW p \in Arms(experiment)
      PROVE  /\ p \in Slots(experiment, experiment.lineup[p])
             /\ row_position(p) \in Slots(experiment, experiment.lineup[p])
  <2>1. p \in Slots(experiment, experiment.lineup[p])
    BY DEF Slots
  <2>2. Min(Slots(experiment, experiment.lineup[p])) \in Slots(experiment, experiment.lineup[p])
    BY <1>1, <2>1, Extremes, TheExperiment
  <2> QED BY <2>1, <2>2 DEF row_position
<1> QED BY <1>1, <1>2

LEMMA InitHolds == Init => IInv
<1> SUFFICES ASSUME Init PROVE IInv
  OBVIOUS
<1>1. /\ experiment \in Experiments /\ place = Len(experiment.lineup) /\ over = FALSE
      /\ groups = <<>> /\ results = <<>> /\ scores = <<>> /\ pass = None
  BY DEF Init
<1>2. TypeOK
  <2>1. place \in 0..Len(experiment.lineup) /\ 0 <= Len(Cells)
    BY <1>1, TheExperiment, ThePlan
  <2>2. \A S : <<>> \in Seq(S)
    OBVIOUS
  <2>3. Len(groups) = 0
    BY <1>1
  <2> QED BY <1>1, <2>1, <2>2, <2>3 DEF TypeOK
<1>3. RowsAreArms /\ TurnsAreTaken /\ ScorersAnswer /\ PassIsScored
  BY <1>1 DEF RowsAreArms, TurnsAreTaken, ScorersAnswer, PassIsScored
<1> QED BY <1>2, <1>3 DEF IInv

\* A row more, of a group that is there.
LEMMA NewRow ==
  ASSUME IInv, NEW row \in RowSet(Len(groups)), results' = Append(results, row),
         place' \in 0..Len(experiment.lineup),
         UNCHANGED <<experiment, over, groups, scores, pass>>
  PROVE  /\ TypeOK' /\ ScorersAnswer' /\ PassIsScored'
         /\ Len(results) \in Nat
         /\ DOMAIN results = 1..Len(results) /\ DOMAIN results' = 1..(Len(results) + 1)
         /\ \A r \in 1..Len(results) : results'[r] = results[r]
         /\ results'[Len(results) + 1] = row
<1>1. TypeOK
  BY DEF IInv
<1>2. results \in Seq(RowSet(Len(groups)))
  BY <1>1 DEF TypeOK
<1>3. /\ results' \in Seq(RowSet(Len(groups)))
      /\ Len(results) \in Nat /\ Len(results') = Len(results) + 1
      /\ DOMAIN results = 1..Len(results) /\ DOMAIN results' = 1..(Len(results) + 1)
      /\ \A r \in 1..Len(results) : results'[r] = results[r]
      /\ results'[Len(results) + 1] = row
  BY <1>2, Appended
<1>4. /\ ScoreSet(Len(results)) \subseteq ScoreSet(Len(results'))
      /\ 1..Len(results) \subseteq 1..Len(results')
  <2>1. 1..Len(results) \subseteq 1..Len(results')
    BY <1>3
  <2> QED BY <2>1 DEF ScoreSet
<1>5. scores' \in Seq(ScoreSet(Len(results')))
  <2>1. scores \in Seq(ScoreSet(Len(results)))
    BY <1>1 DEF TypeOK
  <2> QED BY <1>4, <2>1, WiderSeq
<1>6. pass' \in {None} \cup [judge : {None, Judge}, groups : SUBSET (1..Len(groups')),
                            rows : SUBSET (1..Len(results'))]
  BY <1>1, <1>4 DEF TypeOK
<1>7. Len(Cells)' = Len(Cells) /\ dataset' = dataset /\ RowSet(Len(groups))' = RowSet(Len(groups))
  BY DEF Cells, dataset, RowSet
<1>8. TypeOK'
  BY <1>1, <1>3, <1>5, <1>6, <1>7 DEF TypeOK, ScoreSet
<1>9. ScorersAnswer'
  <2>1. \A k \in DOMAIN scores : scores[k].result \in 1..Len(results)
    BY <1>1, Typed DEF ScoreSet
  <2> QED BY <1>3, <1>7, <2>1 DEF IInv, ScorersAnswer
<1>10. PassIsScored'
  <2>1. scorable_groups' = scorable_groups
    BY <1>7 DEF scorable_groups
  <2>2. pass # None => pass.rows \subseteq 1..Len(results)
    BY <1>1 DEF TypeOK
  <2> QED BY <1>3, <2>1, <2>2 DEF IInv, PassIsScored
<1> QED BY <1>3, <1>8, <1>9, <1>10

LEMMA Endings ==
  \A position : \A ending \in TrialEndings \cup HandEndings(position) :
    /\ ending.error \in {None, "error", "refused", "aborted"}
    /\ ending.sent \in BOOLEAN /\ ending.text \in BOOLEAN
<1>1. ASSUME NEW e \in {None, "error", "refused", "aborted"}, NEW s \in BOOLEAN, NEW t \in BOOLEAN,
             NEW ending, ending = [error |-> e, sent |-> s, text |-> t]
      PROVE  /\ ending.error \in {None, "error", "refused", "aborted"}
             /\ ending.sent \in BOOLEAN /\ ending.text \in BOOLEAN
  BY <1>1
<1> QED BY <1>1, Zenon DEF TrialEndings, StreamEndings, HandEndings

\* The runner's next row is of an arm that has not had its turn.
LEMMA TrialStep ==
  ASSUME IInv, NEW ending \in TrialEndings, RunTrial(ending)
  PROVE  IInv'
<1> DEFINE n    == Len(results)
           g    == Len(groups)
           arm  == Cells[g].order[place + 1]
           row  == Row(g, experiment.lineup[arm], row_position(arm), arm, ending)
<1>1. /\ ~over /\ place < Len(experiment.lineup)
      /\ results' = Append(results, row)
      /\ place' = place + 1
      /\ UNCHANGED <<experiment, over, groups, scores, pass>>
  BY DEF RunTrial
<1>2. /\ TypeOK /\ experiment \in Experiments /\ place \in Nat
      /\ g \in Nat /\ DOMAIN groups = 1..g /\ g <= Len(Cells)
      /\ n \in Nat /\ DOMAIN results = 1..n
      /\ \A r \in 1..n : results[r] \in RowSet(g)
  BY Typed DEF IInv, TypeOK
<1>3. g \in 1..g /\ g \in 1..Len(Cells)
  <2>1. g # 0
    BY <1>1, <1>2, TheExperiment DEF IInv, TypeOK, TurnsAreTaken
  <2> QED BY <1>2, <2>1, ThePlan
<1>4. /\ Cells[g].order \in Bijection(Arms(experiment), Arms(experiment))
      /\ Arms(experiment) = 1..Len(experiment.lineup)
      /\ place + 1 \in Arms(experiment)
  BY <1>1, <1>2, <1>3, ThePlan, TheExperiment
<1>5. /\ arm \in Arms(experiment)
      /\ \A i \in 1..place : Cells[g].order[i] # arm
  <2>1. \A i \in 1..place : i \in Arms(experiment) /\ i # place + 1
    BY <1>1, <1>2, <1>4, TheExperiment
  <2> QED BY <1>4, <2>1 DEF Bijection, Injection, Surjection, IsInjective
<1>6. /\ experiment.lineup[arm] \in ToSet(experiment.lineup)
      /\ row_position(arm) \in Slots(experiment, experiment.lineup[arm])
      /\ row_position(arm) \in Arms(experiment)
      /\ arm # None
  <2> HIDE DEF arm
  <2>1. /\ experiment.lineup[arm] \in ToSet(experiment.lineup)
        /\ row_position(arm) \in Slots(experiment, experiment.lineup[arm])
    BY <1>2, <1>5, TheExperiment, SlotsAre
  <2>2. row_position(arm) \in Arms(experiment)
    BY <2>1 DEF Slots
  <2>3. arm # None
    BY <1>4, <1>5, ReportAssumption
  <2> QED BY <2>1, <2>2, <2>3
<1>7. /\ ending.error \in {None, "error", "refused", "aborted"}
      /\ ending.sent \in BOOLEAN /\ ending.text \in BOOLEAN
  BY Endings
<1>8. /\ row \in RowSet(g)
      /\ row.group = g /\ row.model = experiment.lineup[arm]
      /\ row.position = row_position(arm) /\ row.arm = arm
  <2> HIDE DEF arm
  <2>1. row \in RowSet(g)
    BY <1>3, <1>5, <1>6, <1>7 DEF Row, RowSet
  <2> QED BY <2>1 DEF Row
<1>9. place' \in 0..Len(experiment.lineup)
  BY <1>1, <1>2, TheExperiment
<1> HIDE DEF row, arm
<1>10. /\ TypeOK' /\ ScorersAnswer' /\ PassIsScored'
       /\ DOMAIN results' = 1..(n + 1)
       /\ \A r \in 1..n : results'[r] = results[r]
       /\ results'[n + 1] = row
  BY <1>1, <1>8, <1>9, NewRow
<1>11. \A p : row_position(p)' = row_position(p) /\ Slots(experiment, p)' = Slots(experiment, p)
  BY <1>1 DEF row_position, Slots, Arms
<1>12. RowsAreArms'
  BY <1>1, <1>2, <1>6, <1>8, <1>10, <1>11 DEF IInv, RowsAreArms
<1>13. Cells' = Cells
  BY <1>1 DEF Cells
<1>14. TurnsAreTaken'
  <2>1. groups' # <<>>
    BY <1>1, <1>2, <1>3
  <2>2. \A r \in 1..n : results[r].group = g => results[r].arm # arm
    BY <1>2, <1>5, <1>6 DEF IInv, TurnsAreTaken
  <2>3. ASSUME NEW q \in 1..(n + 1), NEW r \in 1..(n + 1),
               results'[q].group = results'[r].group,
               results'[q].arm = results'[r].arm, results'[r].arm # None
        PROVE  q = r
    <3>1. q \in 1..n \/ q = n + 1
      BY <1>2
    <3>2. r \in 1..n \/ r = n + 1
      BY <1>2
    <3>3. CASE q \in 1..n /\ r \in 1..n
      BY <2>3, <3>3, <1>2, <1>10 DEF IInv, TurnsAreTaken
    <3>4. CASE q = n + 1 /\ r \in 1..n
      BY <2>2, <2>3, <3>4, <1>8, <1>10
    <3>5. CASE q \in 1..n /\ r = n + 1
      BY <2>2, <2>3, <3>5, <1>8, <1>10
    <3> QED BY <3>1, <3>2, <3>3, <3>4, <3>5
  <2>4. ASSUME NEW r \in 1..(n + 1), results'[r].group = g, results'[r].arm # None
        PROVE  \E i \in 1..(place + 1) : results'[r].arm = Cells[g].order[i]
    <3>1. CASE r \in 1..n
      <4>1. \E i \in 1..place : results[r].arm = Cells[g].order[i]
        BY <1>2, <1>10, <2>4, <3>1 DEF IInv, TurnsAreTaken
      <4>2. 1..place \subseteq 1..(place + 1)
        BY <1>2
      <4> QED BY <1>10, <3>1, <4>1, <4>2
    <3>2. CASE r = n + 1
      <4>1. place + 1 \in 1..(place + 1)
        BY <1>2
      <4> QED BY <1>8, <1>10, <3>2, <4>1 DEF arm
    <3> QED BY <3>1, <3>2, <1>2
  <2> QED BY <1>1, <1>10, <1>13, <2>1, <2>3, <2>4 DEF TurnsAreTaken
<1> QED BY <1>10, <1>12, <1>14 DEF IInv

\* A row by hand is nobody's turn.
LEMMA ByHandStep ==
  ASSUME IInv, NEW group \in DOMAIN groups, NEW model \in ToSet(experiment.lineup),
         NEW position \in Slots(experiment, model) \cup {None},
         NEW ending \in HandEndings(position),
         RunByHand(group, model, position, ending)
  PROVE  IInv'
<1> DEFINE n   == Len(results)
           row == Row(group, model, position, None, ending)
<1>1. /\ results' = Append(results, row)
      /\ UNCHANGED <<experiment, place, over, groups, scores, pass>>
  BY DEF RunByHand
<1>2. /\ TypeOK /\ experiment \in Experiments /\ place \in 0..Len(experiment.lineup)
      /\ DOMAIN groups = 1..Len(groups)
      /\ n \in Nat /\ DOMAIN results = 1..n
  BY Typed DEF IInv, TypeOK
<1>3. position \in Arms(experiment) \cup {None}
  BY DEF Slots
<1>4. /\ row \in RowSet(Len(groups))
      /\ row.model = model /\ row.position = position /\ row.arm = None
  BY <1>2, <1>3, Endings DEF Row, RowSet
<1> HIDE DEF row
<1>5. /\ TypeOK' /\ ScorersAnswer' /\ PassIsScored'
      /\ DOMAIN results' = 1..(n + 1)
      /\ \A r \in 1..n : results'[r] = results[r]
      /\ results'[n + 1] = row
  BY <1>1, <1>2, <1>4, NewRow
<1>6. \A r \in 1..(n + 1) : r \in 1..n \/ r = n + 1
  BY <1>2
<1>7. \A p : row_position(p)' = row_position(p) /\ Slots(experiment, p)' = Slots(experiment, p)
  BY <1>1 DEF row_position, Slots, Arms
<1>8. RowsAreArms'
  BY <1>1, <1>2, <1>4, <1>5, <1>6, <1>7 DEF IInv, RowsAreArms
<1>9. TurnsAreTaken'
  <2>1. Cells' = Cells
    BY <1>1 DEF Cells
  <2>2. \A r \in DOMAIN results' : results'[r].arm # None => r \in DOMAIN results /\ results'[r] = results[r]
    BY <1>2, <1>4, <1>5, <1>6
  <2> QED BY <1>1, <2>1, <2>2 DEF IInv, TurnsAreTaken
<1> QED BY <1>5, <1>8, <1>9 DEF IInv

\* A new cell has no rows yet.
LEMMA CellStep == ASSUME IInv, BeginCell PROVE IInv'
<1> DEFINE n     == Len(groups)
           group == [task |-> Cells[n + 1].task, repeat |-> Cells[n + 1].repeat]
           G     == [task : DOMAIN dataset, repeat : Nat]
<1>1. /\ n < Len(Cells) /\ groups' = Append(groups, group) /\ place' = 0
      /\ UNCHANGED <<experiment, over, results, scores, pass>>
  BY DEF BeginCell
<1>2. /\ TypeOK /\ experiment \in Experiments /\ groups \in Seq(G)
      /\ n \in Nat /\ DOMAIN groups = 1..n
      /\ DOMAIN results = 1..Len(results) /\ \A r \in 1..Len(results) : results[r] \in RowSet(n)
      /\ DOMAIN scores = 1..Len(scores)
      /\ \A k \in 1..Len(scores) : scores[k] \in ScoreSet(Len(results))
  BY Typed DEF IInv, TypeOK
<1>3. n + 1 \in 1..Len(Cells)
  BY <1>1, <1>2, ThePlan
<1>4. group \in G
  BY <1>2, <1>3, ThePlan
<1>5. /\ groups' \in Seq(G) /\ Len(groups') = n + 1 /\ DOMAIN groups' = 1..(n + 1)
      /\ \A g \in 1..n : groups'[g] = groups[g]
  <2> HIDE DEF G, group
  <2> QED BY <1>1, <1>2, <1>4, Appended
<1>6. /\ Cells' = Cells /\ dataset' = dataset /\ 1..n \subseteq 1..(n + 1)
      /\ \A m : ScoreSet(m)' = ScoreSet(m) /\ RowSet(m)' = RowSet(m)
  BY <1>1, <1>2 DEF Cells, dataset, ScoreSet, RowSet
<1>7. results \in Seq(RowSet(n + 1))
  <2>1. RowSet(n) \subseteq RowSet(n + 1)
    BY <1>6 DEF RowSet
  <2> QED BY <1>2, <2>1, WiderSeq DEF TypeOK
<1>8. TypeOK'
  <2>1. 0 \in 0..Len(experiment.lineup)
    BY <1>2, TheExperiment
  <2>2. /\ pass' \in {None} \cup [judge : {None, Judge}, groups : SUBSET (1..Len(groups')),
                                 rows : SUBSET (1..Len(results'))]
    BY <1>1, <1>2, <1>5, <1>6 DEF TypeOK
  <2>3. Len(groups') <= Len(Cells)
    BY <1>1, <1>2, <1>5, ThePlan
  <2> QED BY <1>1, <1>2, <1>5, <1>6, <1>7, <2>1, <2>2, <2>3 DEF TypeOK
<1>9. RowsAreArms'
  <2>1. \A p : row_position(p)' = row_position(p) /\ Slots(experiment, p)' = Slots(experiment, p)
    BY <1>1 DEF row_position, Slots, Arms
  <2> QED BY <1>1, <2>1 DEF IInv, RowsAreArms
<1>10. TurnsAreTaken'
  <2>1. \A r \in DOMAIN results : results[r].group # n + 1
    BY <1>2 DEF RowSet
  <2>2. groups' # <<>>
    BY <1>5, <1>2
  <2> QED BY <1>1, <1>5, <2>1, <2>2 DEF IInv, TurnsAreTaken
<1>11. ScorersAnswer'
  <2>1. \A k \in DOMAIN scores : results[scores[k].result].group \in 1..n
    BY <1>2 DEF ScoreSet, RowSet
  <2> QED BY <1>1, <1>2, <1>5, <1>6, <2>1 DEF IInv, ScorersAnswer
<1>12. PassIsScored'
  <2>1. scorable_groups \subseteq scorable_groups'
    BY <1>2, <1>5, <1>6 DEF scorable_groups
  <2> QED BY <1>1, <2>1 DEF IInv, PassIsScored
<1> QED BY <1>8, <1>9, <1>10, <1>11, <1>12 DEF IInv

\* The end of the run, and the pass's own moves.
LEMMA QuietStep ==
  ASSUME IInv, UNCHANGED <<experiment, place, groups, results, scores>>, over' \in BOOLEAN,
         pass' \in {None} \cup [judge : {None, Judge}, groups : SUBSET (1..Len(groups)),
                              rows : SUBSET (1..Len(results))],
         pass' = None \/ PassIsScored'
  PROVE  IInv'
<1>1. TypeOK'
  BY DEF IInv, TypeOK, Cells, dataset, RowSet, ScoreSet
<1>2. RowsAreArms'
  <2>1. \A p : row_position(p)' = row_position(p) /\ Slots(experiment, p)' = Slots(experiment, p)
    BY DEF row_position, Slots, Arms
  <2> QED BY <2>1 DEF IInv, RowsAreArms
<1>3. TurnsAreTaken'
  BY DEF IInv, TurnsAreTaken, Cells
<1>4. ScorersAnswer'
  BY DEF IInv, ScorersAnswer, dataset
<1>5. PassIsScored'
  BY DEF PassIsScored
<1> QED BY <1>1, <1>2, <1>3, <1>4, <1>5 DEF IInv

PassSet ==
  [judge : {None, Judge}, groups : SUBSET (1..Len(groups)), rows : SUBSET (1..Len(results))]

LEMMA PassMoves ==
  ASSUME IInv, EndRun \/ (\E judge \in {None, Judge} : StartScoring(judge)) \/ NextGroup
  PROVE  IInv'
<1>1. /\ over \in BOOLEAN /\ pass \in {None} \cup PassSet
      /\ DOMAIN groups = 1..Len(groups) /\ DOMAIN results = 1..Len(results)
  BY Typed DEF IInv, TypeOK, PassSet
<1>a. UNCHANGED <<groups, experiment>> => scorable_groups' = scorable_groups
  BY DEF scorable_groups, dataset
<1>2. CASE EndRun
  <2>1. PassIsScored'
    BY <1>2, <1>a DEF EndRun, IInv, PassIsScored
  <2> QED BY <1>1, <1>2, <2>1, QuietStep DEF EndRun, PassSet
<1>3. CASE \E judge \in {None, Judge} : StartScoring(judge)
  <2>1. pass' \in PassSet
    BY <1>1, <1>3 DEF StartScoring, PassSet, scorable_groups
  <2>2. PassIsScored'
    BY <1>3, <1>a DEF StartScoring, PassIsScored
  <2> QED BY <1>1, <1>3, <2>1, <2>2, QuietStep DEF StartScoring, PassSet
<1>4. CASE NextGroup
  <2>1. PICK g \in pass.groups : pass' = [pass EXCEPT !.rows = get_group(g), !.groups = @ \ {g}]
    BY <1>4 DEF NextGroup
  <2>2. pass \in PassSet /\ get_group(g) \in SUBSET (1..Len(results))
    BY <1>1, <1>4 DEF NextGroup, get_group
  <2>3. pass' \in PassSet
    BY <2>1, <2>2 DEF PassSet
  <2>4. pass'.groups \subseteq pass.groups /\ pass'.rows = get_group(g)
    BY <2>1, <2>2 DEF PassSet
  <2>5. g \in scorable_groups /\ pass.groups \subseteq scorable_groups
    BY <1>4 DEF NextGroup, IInv, PassIsScored
  <2>6. PassIsScored'
    BY <1>4, <1>a, <2>4, <2>5 DEF NextGroup, PassIsScored, get_group
  <2> QED BY <1>1, <1>4, <2>3, <2>6, QuietStep DEF NextGroup, PassSet
<1> QED BY <1>2, <1>3, <1>4

\* A score more: by the scorer of its task, or a person's.
LEMMA NewScore ==
  ASSUME IInv, NEW r \in DOMAIN results, NEW scorer \in Kinds \cup {"human"},
         scorer # "human" => scorer = dataset[groups[results[r].group].task].kind,
         NEW judge \in {None, Judge}, NEW verdict,
         verdict.score \in Nat \cup {None}, verdict.passed \in BOOLEAN \cup {None},
         Score(r, scorer, judge, verdict),
         pass' \in {None} \cup PassSet, PassIsScored',
         UNCHANGED <<experiment, place, over, groups, results>>
  PROVE  IInv'
<1> DEFINE n   == Len(results)
           row == [result |-> r, scorer |-> scorer, judge |-> judge,
                   score |-> verdict.score, passed |-> verdict.passed]
<1>1. /\ TypeOK /\ DOMAIN results = 1..n /\ scores \in Seq(ScoreSet(n))
      /\ Len(scores) \in Nat /\ DOMAIN scores = 1..Len(scores)
  BY Typed DEF IInv, TypeOK
<1>2. row \in ScoreSet(n)
  BY <1>1 DEF ScoreSet
<1>3. row.scorer = scorer /\ row.result = r
  OBVIOUS
<1>4. scores' = Append(scores, row)
  BY DEF Score
<1> HIDE DEF row
<1>5. /\ scores' \in Seq(ScoreSet(n)) /\ DOMAIN scores' = 1..(Len(scores) + 1)
      /\ \A k \in 1..Len(scores) : scores'[k] = scores[k]
      /\ scores'[Len(scores) + 1] = row
  BY <1>1, <1>2, <1>4, Appended
<1>6. TypeOK'
  BY <1>1, <1>5 DEF TypeOK, Cells, dataset, RowSet, ScoreSet, PassSet
<1>7. RowsAreArms' /\ TurnsAreTaken'
  BY DEF IInv, RowsAreArms, TurnsAreTaken, Slots, Arms, row_position, Cells
<1>8. ScorersAnswer'
  <2>1. \A k \in DOMAIN scores' : k \in DOMAIN scores \/ k = Len(scores) + 1
    BY <1>1, <1>5
  <2> QED BY <1>1, <1>3, <1>5, <2>1 DEF IInv, ScorersAnswer, dataset
<1> QED BY <1>6, <1>7, <1>8 DEF IInv

LEMMA ScoreStep ==
  ASSUME IInv, NEW score \in {0, 1, None}, NEW passed \in BOOLEAN \cup {None},
         ScoreNext([score |-> score, passed |-> passed])
  PROVE  IInv'
<1> DEFINE verdict == [score |-> score, passed |-> passed]
<1>1. PICK r \in pass.rows :
        /\ LET kind == dataset[groups[results[r].group].task].kind
           IN  Score(r, kind, IF kind = "judge" THEN pass.judge ELSE None, verdict)
        /\ pass' = [pass EXCEPT !.rows = @ \ {r}]
        /\ pass # None
        /\ UNCHANGED <<experiment, place, over, groups, results>>
  BY DEF ScoreNext
<1> DEFINE kind  == dataset[groups[results[r].group].task].kind
           judge == IF kind = "judge" THEN pass.judge ELSE None
<1>2. /\ pass \in PassSet /\ DOMAIN results = 1..Len(results)
      /\ experiment \in Experiments /\ TypeOK
  BY <1>1, Typed DEF IInv, TypeOK, PassSet
<1>3. r \in DOMAIN results /\ judge \in {None, Judge} /\ pass' \in PassSet
  BY <1>1, <1>2 DEF PassSet
<1>4. kind \in Kinds
  <2>1. results[r].group \in 1..Len(groups)
    BY <1>2, <1>3, Typed DEF RowSet
  <2>2. groups[results[r].group].task \in DOMAIN dataset
    BY <1>2, <2>1, Typed
  <2>3. results[r].group \in scorable_groups
    BY <1>1 DEF IInv, PassIsScored
  <2>4. kind # None
    BY <2>3 DEF scorable_groups
  <2> QED BY <1>2, <2>2, <2>4, TheTasks
<1>8. PassIsScored'
  <2>1. pass'.groups = pass.groups /\ pass'.rows \subseteq pass.rows
    BY <1>1, <1>2 DEF PassSet
  <2>2. scorable_groups' = scorable_groups
    BY <1>1 DEF scorable_groups, dataset
  <2> QED BY <1>1, <2>1, <2>2 DEF IInv, PassIsScored
<1>5. verdict.score \in Nat \cup {None} /\ verdict.passed \in BOOLEAN \cup {None}
  OBVIOUS
<1>6. Score(r, kind, judge, verdict)
  BY <1>1
<1> HIDE DEF verdict, judge, kind
<1>7. kind # "human" => kind = dataset[groups[results[r].group].task].kind
  BY DEF kind
<1> QED BY <1>1, <1>3, <1>4, <1>5, <1>6, <1>7, <1>8, NewScore

LEMMA RateStep ==
  ASSUME IInv, NEW r \in DOMAIN results, NEW score \in Ratings, Rate(r, score)
  PROVE  IInv'
<1> DEFINE verdict == [score |-> score, passed |-> None]
<1>1. verdict.score \in Nat \cup {None} /\ verdict.passed \in BOOLEAN \cup {None}
  BY ReportAssumption
<1>2. /\ Score(r, "human", None, verdict)
      /\ UNCHANGED <<experiment, place, over, groups, results, pass>>
  BY DEF Rate
<1>3. pass' \in {None} \cup PassSet
  BY <1>2 DEF IInv, TypeOK, PassSet
<1>4. PassIsScored'
  BY <1>2 DEF IInv, PassIsScored, scorable_groups, dataset
<1> HIDE DEF verdict
<1> QED BY <1>1, <1>2, <1>3, <1>4, NewScore

LEMMA StepIInv == IInv /\ [Next]_vars => IInv'
<1> SUFFICES ASSUME IInv, [Next]_vars PROVE IInv'
  OBVIOUS
<1>1. CASE UNCHANGED vars
  <2>1. PassIsScored'
    BY <1>1 DEF vars, IInv, PassIsScored, scorable_groups, dataset
  <2> QED BY <1>1, <2>1, QuietStep DEF vars, IInv, TypeOK
<1>2. CASE Next
  BY <1>2, CellStep, TrialStep, ByHandStep, PassMoves, ScoreStep, RateStep DEF Next
<1> QED BY <1>1, <1>2

\* The experiment's cells, its rows, its scores and its pass keep their types
\* for every lineup, dataset and order, whoever files runs and ratings.
THEOREM ReportTypeCorrect == Spec => []TypeOK
<1>1. IInv => TypeOK
  BY DEF IInv
<1> QED BY <1>1, InitHolds, StepIInv, PTL DEF Spec

-----------------------------------------------------------------------------
(***************************************************************************)
(* A reading: what both of them are, whatever the order of their rows.     *)
(***************************************************************************)
Reading(in) ==
  /\ \E n \in Nat \ {0} : Arms(in) = 1..n
  /\ IsFiniteSet(in.groups) /\ IsFiniteSet(in.rows) /\ IsFiniteSet(in.scores)
  /\ \A group, other \in in.groups : group.id = other.id => group = other
  /\ \A row \in in.rows : row.id \in Nat /\ row.at \in Nat
  /\ \A row, other \in in.rows : row.id = other.id => row = other
  /\ \A row, other \in in.rows : row.group = other.group /\ row.at = other.at => row = other
  /\ \A row \in in.rows : row.position # None => row.position \in Slots(in, row.model)
  /\ \A row \in in.rows : \E group \in in.groups : group.id = row.group
  /\ \E n \in Nat : \A score \in in.scores : score.id \in 1..n
  /\ \A score \in in.scores : score.score \in Nat \cup {None}
  /\ \A score, other \in in.scores : score.id = other.id => score = other

\* The positions recorded decide, in every cell.
AllPlaced(in) ==
  \A group \in in.groups : \A row \in Cell(in, group) :
    Usable(in, Cell(in, group), row.model)

RowTrial(in, group, row, arm) ==
  [arm |-> arm, task |-> group.task, group |-> group.id,
   outcome |-> trial_outcome(row), row |-> row.id,
   scores |-> {score \in in.scores : score.result = row.id}]

MissingTrial(group, p) ==
  [arm |-> p, task |-> group.task, group |-> group.id,
   outcome |-> "missing", row |-> None, scores |-> {}]

\* The arm a row of a cell is, in a reading.
ArmOf(in, group, row) == cell_arm(in, row, Cell(in, group))

LEMMA CellTrialsAre ==
  ASSUME NEW in, NEW group, NEW t
  PROVE  t \in CellTrials(in, group) <=>
           \/ \E row \in Cell(in, group) : /\ ArmOf(in, group, row) # None
                                          /\ t = RowTrial(in, group, row, ArmOf(in, group, row))
           \/ \E p \in Arms(in) : /\ \A row \in Cell(in, group) : ArmOf(in, group, row) # p
                                  /\ t = MissingTrial(group, p)
<1> DEFINE cell == Cell(in, group)
           ran  == {RowTrial(in, group, row, ArmOf(in, group, row)) : row \in cell}
           seen == {trial.arm : trial \in ran}
<1>1. CellTrials(in, group) = {trial \in ran : trial.arm # None}
                                \cup {MissingTrial(group, p) : p \in Arms(in) \ seen}
  BY DEF CellTrials, RowTrial, MissingTrial, ArmOf
<1>2. \A row, arm : RowTrial(in, group, row, arm).arm = arm
  BY DEF RowTrial
<1>3. \A p : p \in seen <=> \E row \in cell : ArmOf(in, group, row) = p
  <2> HIDE DEF cell
  <2>1. \A x : x \in ran <=> \E row \in cell : x = RowTrial(in, group, row, ArmOf(in, group, row))
    OBVIOUS
  <2> HIDE DEF ran
  <2>2. \A p : p \in seen <=> \E x \in ran : x.arm = p
    OBVIOUS
  <2> QED BY <1>2, <2>1, <2>2
<1> HIDE DEF seen, cell
<1> QED BY <1>1, <1>2, <1>3 DEF cell

LEMMA TrialsAre ==
  ASSUME NEW in, NEW t
  PROVE  t \in Trials(in) <=>
           \E group \in in.groups : Cell(in, group) # {} /\ t \in CellTrials(in, group)
BY DEF Trials, recorded_groups

\* Where the positions decide, a row's arm is its position.
LEMMA PlacedArms ==
  ASSUME NEW in, Reading(in), AllPlaced(in), NEW group \in in.groups, NEW row \in Cell(in, group)
  PROVE  /\ ArmOf(in, group, row) = row.position
         /\ row.position \in Slots(in, row.model) /\ row.position # None
<1>1. Usable(in, Cell(in, group), row.model)
  BY DEF AllPlaced
<1>2. row \in Of(Cell(in, group), row.model)
  BY DEF Of
<1>3. row.position \in Slots(in, row.model) /\ row.position \in Arms(in)
  BY <1>1, <1>2 DEF Usable, Slots
<1>4. row.position # None
  BY <1>3, ReportAssumption DEF Reading
<1> QED BY <1>1, <1>3, <1>4 DEF ArmOf, cell_arm

\* Rows that are nobody's answer, and have no score, change no section.
LEMMA NobodysRows ==
  ASSUME NEW in, NEW jn, Reading(in), Reading(jn), AllPlaced(in), AllPlaced(jn),
         jn.lineup = in.lineup, jn.tasks = in.tasks, jn.scores = in.scores,
         in.groups \subseteq jn.groups, in.rows \subseteq jn.rows,
         \A row \in jn.rows \ in.rows : /\ trial_outcome(row) \notin QualityOutcomes
                                       /\ \A score \in in.scores : score.result # row.id
  PROVE  Sections(in, Trials(in)) = Sections(jn, Trials(jn))
<1> DEFINE Trial(group, row) == RowTrial(in, group, row, row.position)
<1>1. \A group, row : RowTrial(jn, group, row, row.position) = Trial(group, row)
  BY DEF RowTrial
<1>2. \A group, row : /\ Trial(group, row).outcome = trial_outcome(row)
                      /\ Trial(group, row).scores = {score \in in.scores : score.result = row.id}
  BY DEF RowTrial
<1>3. \A group, p : /\ MissingTrial(group, p).outcome \notin QualityOutcomes
                    /\ MissingTrial(group, p).scores = {}
  BY DEF MissingTrial, QualityOutcomes
<1> HIDE DEF Trial
<1>4. \A group \in in.groups : \A row \in Cell(in, group) : Trial(group, row) \in Trials(in)
  <2> SUFFICES ASSUME NEW group \in in.groups, NEW row \in Cell(in, group)
               PROVE  Trial(group, row) \in Trials(in)
    OBVIOUS
  <2>1. Trial(group, row) \in CellTrials(in, group)
    BY PlacedArms, CellTrialsAre DEF Trial
  <2> QED BY <2>1, TrialsAre
<1>5. \A group \in jn.groups : \A row \in Cell(jn, group) : Trial(group, row) \in Trials(jn)
  <2> SUFFICES ASSUME NEW group \in jn.groups, NEW row \in Cell(jn, group)
               PROVE  Trial(group, row) \in Trials(jn)
    OBVIOUS
  <2>1. Trial(group, row) \in CellTrials(jn, group)
    BY <1>1, PlacedArms, CellTrialsAre
  <2> QED BY <2>1, TrialsAre
\* Every trial of either that counts for quality or has a score is a row's,
\* and the row is in the first reading.
<1>6. ASSUME NEW t \in Trials(in), t.outcome \in QualityOutcomes \/ t.scores # {}
      PROVE  \E group \in in.groups : \E row \in Cell(in, group) : t = Trial(group, row)
  <2>1. PICK group \in in.groups : t \in CellTrials(in, group)
    BY TrialsAre
  <2>2. PICK row \in Cell(in, group) : t = RowTrial(in, group, row, ArmOf(in, group, row))
    BY <1>3, <1>6, <2>1, CellTrialsAre
  <2> QED BY <2>2, PlacedArms DEF Trial
<1>7. ASSUME NEW t \in Trials(jn), t.outcome \in QualityOutcomes \/ t.scores # {}
      PROVE  \E group \in in.groups : \E row \in Cell(in, group) : t = Trial(group, row)
  <2>1. PICK group \in jn.groups : t \in CellTrials(jn, group)
    BY TrialsAre
  <2>2. PICK row \in Cell(jn, group) : t = RowTrial(jn, group, row, ArmOf(jn, group, row))
    BY <1>3, <1>7, <2>1, CellTrialsAre
  <2>3. t = Trial(group, row)
    BY <1>1, <2>2, PlacedArms
  <2>4. row \in in.rows
    BY <1>2, <1>7, <2>3 DEF Cell
  <2>5. PICK g \in in.groups : g.id = row.group
    BY <2>4 DEF Reading
  <2>6. g = group
    BY <2>5 DEF Reading, Cell
  <2> QED BY <2>3, <2>4, <2>5, <2>6 DEF Cell
<1>8. \A group \in in.groups : \A row \in Cell(in, group) : group \in jn.groups /\ row \in Cell(jn, group)
  BY DEF Cell
<1>9. Quality(Trials(in)) = Quality(Trials(jn))
  <2>1. \A t \in Trials(in) : t.outcome \in QualityOutcomes => t \in Trials(jn)
    BY <1>5, <1>6, <1>8
  <2>2. \A t \in Trials(jn) : t.outcome \in QualityOutcomes => t \in Trials(in)
    BY <1>4, <1>7
  <2> QED BY <2>1, <2>2 DEF Quality
<1>10. Scored(Trials(in)) = Scored(Trials(jn))
  <2>1. \A t \in Trials(in) : t.scores # {} => t \in Trials(jn)
    BY <1>5, <1>6, <1>8
  <2>2. \A t \in Trials(jn) : t.scores # {} => t \in Trials(in)
    BY <1>4, <1>7
  <2> QED BY <2>1, <2>2 DEF Scored
<1> QED BY <1>9, <1>10, SectionsAgree

-----------------------------------------------------------------------------
(***************************************************************************)
(* What is nobody's answer moves no number of quality.                     *)
(***************************************************************************)
\* The rows of either reading of the state are a reading, whatever tasks come
\* with them.
LEMMA InputsRead ==
  ASSUME IInv, NEW tasks, NEW at, at \in [DOMAIN results -> Nat],
         \A q, r \in DOMAIN results :
           results[q].group = results[r].group /\ at[q] = at[r] => q = r
  PROVE  Reading(Inputs(tasks, Rows(at)))
<1> DEFINE in == Inputs(tasks, Rows(at))
           row(r) == [id |-> r, group |-> results[r].group, at |-> at[r],
                      model |-> results[r].model, position |-> results[r].position,
                      error |-> results[r].error, sent |-> results[r].sent]
           group(g) == [id |-> g, task |-> groups[g].task]
           score(k) == [id |-> k, result |-> scores[k].result, scorer |-> scores[k].scorer,
                        judge |-> scores[k].judge, score |-> scores[k].score,
                        passed |-> scores[k].passed]
<1>1. /\ in.lineup = experiment.lineup
      /\ in.groups = {group(g) : g \in DOMAIN groups}
      /\ in.rows = {row(r) : r \in DOMAIN results}
      /\ in.scores = {score(k) : k \in DOMAIN scores}
  BY DEF Inputs, Rows
<1>2. /\ \A r : /\ row(r).id = r /\ row(r).group = results[r].group /\ row(r).at = at[r]
               /\ row(r).position = results[r].position /\ row(r).model = results[r].model
      /\ \A g : group(g).id = g
      /\ \A k : score(k).id = k /\ score(k).score = scores[k].score
  OBVIOUS
<1> HIDE DEF in, row, group, score
<1>3. /\ experiment \in Experiments /\ TypeOK
      /\ Len(groups) \in Nat /\ DOMAIN groups = 1..Len(groups)
      /\ Len(results) \in Nat /\ DOMAIN results = 1..Len(results)
      /\ Len(scores) \in Nat /\ DOMAIN scores = 1..Len(scores)
      /\ \A r \in 1..Len(results) : results[r] \in RowSet(Len(groups))
      /\ \A k \in 1..Len(scores) : scores[k] \in ScoreSet(Len(results))
  BY Typed DEF IInv, TypeOK
<1>4. \A n \in Nat : \A f : IsFiniteSet({f[i] : i \in 1..n})
  <2> SUFFICES ASSUME NEW n \in Nat, NEW f PROVE IsFiniteSet({f[i] : i \in 1..n})
    OBVIOUS
  <2> DEFINE g == [i \in 1..n |-> f[i]]
             T == {f[i] : i \in 1..n}
  <2>1. g \in Surjection(1..n, T)
    BY DEF Surjection
  <2>2. IsFiniteSet(1..n)
    BY FS_Interval
  <2> QED BY <2>1, <2>2, FS_Surjection
<1>5. IsFiniteSet(in.groups) /\ IsFiniteSet(in.rows) /\ IsFiniteSet(in.scores)
  <2> DEFINE f == [g \in DOMAIN groups |-> group(g)]
             h == [r \in DOMAIN results |-> row(r)]
             e == [k \in DOMAIN scores |-> score(k)]
  <2> HIDE DEF f, h, e
  <2>1. /\ in.groups = {f[g] : g \in 1..Len(groups)}
        /\ in.rows = {h[r] : r \in 1..Len(results)}
        /\ in.scores = {e[k] : k \in 1..Len(scores)}
    <3>1. in.groups = {f[g] : g \in 1..Len(groups)}
      BY <1>1, <1>3 DEF f
    <3>2. in.rows = {h[r] : r \in 1..Len(results)}
      BY <1>1, <1>3 DEF h
    <3>3. in.scores = {e[k] : k \in 1..Len(scores)}
      BY <1>1, <1>3 DEF e
    <3> QED BY <3>1, <3>2, <3>3
  <2>2. IsFiniteSet({f[g] : g \in 1..Len(groups)})
    BY <1>3, <1>4
  <2>3. IsFiniteSet({h[r] : r \in 1..Len(results)})
    BY <1>3, <1>4
  <2>4. IsFiniteSet({e[k] : k \in 1..Len(scores)})
    BY <1>3, <1>4
  <2> QED BY <2>1, <2>2, <2>3, <2>4
<1>6. /\ \A m : Slots(in, m) = Slots(experiment, m)
      /\ \E n \in Nat \ {0} : Arms(in) = 1..n
  BY <1>1, <1>3, TheExperiment DEF Slots, Arms
<1>7. \A x \in in.groups, other \in in.groups : x.id = other.id => x = other
  BY <1>1, <1>2
<1>8. /\ \A x \in in.rows : x.id \in Nat /\ x.at \in Nat
      /\ \A x, other \in in.rows : x.id = other.id => x = other
      /\ \A x, other \in in.rows : x.group = other.group /\ x.at = other.at => x = other
  BY <1>1, <1>2, <1>3
<1>9. \A x \in in.rows : x.position # None => x.position \in Slots(in, x.model)
  BY <1>1, <1>2, <1>6 DEF IInv, RowsAreArms
<1>10. \A x \in in.rows : \E g \in in.groups : g.id = x.group
  <2>1. \A r \in DOMAIN results : results[r].group \in DOMAIN groups
    BY <1>3 DEF RowSet
  <2>2. ASSUME NEW r \in DOMAIN results PROVE \E g \in in.groups : g.id = row(r).group
    <3>1. group(results[r].group) \in in.groups
      BY <1>1, <2>1
    <3> QED BY <1>2, <3>1
  <2> QED BY <1>1, <2>2
<1>11. /\ \E n \in Nat : \A x \in in.scores : x.id \in 1..n
       /\ \A x \in in.scores : x.score \in Nat \cup {None}
       /\ \A x, other \in in.scores : x.id = other.id => x = other
  <2>1. \A k \in DOMAIN scores : scores[k].score \in Nat \cup {None}
    BY <1>3 DEF ScoreSet
  <2>2. \A x \in in.scores : x.id \in 1..Len(scores)
    BY <1>1, <1>2, <1>3
  <2>3. \E n \in Nat : \A x \in in.scores : x.id \in 1..n
    BY <1>3, <2>2
  <2>4. \A x \in in.scores : x.score \in Nat \cup {None}
    BY <1>1, <1>2, <2>1
  <2>5. \A x, other \in in.scores : x.id = other.id => x = other
    BY <1>1, <1>2
  <2> QED BY <2>3, <2>4, <2>5
<1> QED BY <1>5, <1>6, <1>7, <1>8, <1>9, <1>10, <1>11 DEF Reading, in

\* What the report publishes as its sections.
LEMMA ServedSections ==
  \A read : Served(read).sections = Sections(report_inputs(read), Trials(report_inputs(read)))
BY ReportIs DEF Served, Published

\* The served report's own reading.
ServedReads ==
  \A read \in BOOLEAN : /\ Reading(report_inputs(read))
                        /\ Placed => AllPlaced(report_inputs(read))
                        /\ Served(read).sections
                             = Sections(report_inputs(read), Trials(report_inputs(read)))

LEMMA ServedReadsHold == IInv => ServedReads
<1> SUFFICES ASSUME IInv, NEW read \in BOOLEAN
             PROVE  /\ Reading(report_inputs(read))
                    /\ Placed => AllPlaced(report_inputs(read))
  BY ServedSections DEF ServedReads
<1> DEFINE at == [r \in DOMAIN results |-> r]
<1>1. DOMAIN results \subseteq Nat
  BY Typed DEF IInv
<1>2. Reading(report_inputs(read))
  BY <1>1, InputsRead DEF report_inputs
<1>3. ASSUME Placed PROVE AllPlaced(report_inputs(read))
  <2> DEFINE in == report_inputs(read)
             jn == report_inputs(FALSE)
  <2>1. in.lineup = jn.lineup /\ in.rows = jn.rows /\ in.groups = jn.groups
    BY DEF report_inputs, Inputs
  <2>2. \A row \in in.rows : row.model \in ToSet(experiment.lineup)
    <3>1. \A r \in DOMAIN results : results[r].model \in ToSet(experiment.lineup)
      BY Typed DEF IInv, RowSet
    <3> QED BY <3>1 DEF report_inputs, Inputs, Rows
  <2> HIDE DEF in, jn
  <2>3. \A cell, m : Usable(in, cell, m) <=> Usable(jn, cell, m)
    BY <2>1 DEF Usable, Slots, Arms
  <2>4. \A group : Cell(in, group) = Cell(jn, group) /\ Cell(in, group) \subseteq in.rows
    BY <2>1 DEF Cell
  <2> QED BY <1>3, <2>1, <2>2, <2>3, <2>4 DEF AllPlaced, Placed, in, jn
<1> QED BY <1>2, <1>3

\* A step that stores no score adds a row at most, and a group at most.
LEMMA Grows ==
  ASSUME IInv, Next, scores' = scores
  PROVE  /\ experiment' = experiment
         /\ \A g \in DOMAIN groups : g \in DOMAIN groups' /\ groups'[g] = groups[g]
         /\ \/ results' = results
            \/ /\ Len(results') = Len(results) + 1
               /\ DOMAIN results' = 1..(Len(results) + 1)
               /\ \A r \in DOMAIN results : results'[r] = results[r]
<1>1. /\ groups \in Seq([task : DOMAIN dataset, repeat : Nat])
      /\ results \in Seq(RowSet(Len(groups))) /\ scores \in Seq(ScoreSet(Len(results)))
      /\ DOMAIN groups = 1..Len(groups) /\ Len(groups) \in Nat
      /\ DOMAIN results = 1..Len(results) /\ Len(results) \in Nat
  BY Typed DEF IInv, TypeOK
<1>2. ASSUME NEW s, NEW S, s \in Seq(S), NEW x
      PROVE  /\ Len(Append(s, x)) = Len(s) + 1 /\ DOMAIN Append(s, x) = 1..(Len(s) + 1)
             /\ \A i \in 1..Len(s) : i \in 1..(Len(s) + 1) /\ Append(s, x)[i] = s[i]
             /\ Append(s, x) # s
  <2>1. PICK T : T = S \cup {x}
    OBVIOUS
  <2>2. s \in Seq(T) /\ x \in T
    BY <1>2, <2>1, WiderSeq
  <2>3. Len(s) \in Nat /\ Len(Append(s, x)) = Len(s) + 1
        /\ DOMAIN Append(s, x) = 1..(Len(s) + 1)
        /\ \A i \in 1..Len(s) : Append(s, x)[i] = s[i]
    BY <2>2, Appended
  <2> QED BY <2>3
<1>3. CASE BeginCell
  <2>1. \E x : groups' = Append(groups, x)
    BY <1>3 DEF BeginCell
  <2>2. results' = results /\ experiment' = experiment
    BY <1>3 DEF BeginCell
  <2> QED BY <1>1, <1>2, <2>1, <2>2
<1>4. CASE \/ \E ending \in TrialEndings : RunTrial(ending)
           \/ \E group \in DOMAIN groups, model \in ToSet(experiment.lineup) :
                \E position \in Slots(experiment, model) \cup {None} :
                   \E ending \in HandEndings(position) : RunByHand(group, model, position, ending)
  <2>1. /\ \E x : results' = Append(results, x)
        /\ experiment' = experiment /\ groups' = groups
    BY <1>4 DEF RunTrial, RunByHand
  <2> QED BY <1>1, <1>2, <2>1
<1>5. CASE EndRun \/ (\E judge \in {None, Judge} : StartScoring(judge)) \/ NextGroup
  BY <1>5 DEF EndRun, StartScoring, NextGroup
<1>6. CASE \/ \E score \in {0, 1, None}, passed \in BOOLEAN \cup {None} :
                ScoreNext([score |-> score, passed |-> passed])
           \/ \E r \in DOMAIN results, score \in Ratings : Rate(r, score)
  <2>1. \E x : scores' = Append(scores, x)
    BY <1>6 DEF ScoreNext, Rate, Score
  <2> QED BY <1>1, <1>2, <2>1
<1> QED BY <1>3, <1>4, <1>5, <1>6 DEF Next

LEMMA QualityStep ==
  ASSUME IInv, IInv', ServedReads, ServedReads', Next, Placed, Placed', scores' = scores,
         Len(results') > Len(results) =>
           trial_outcome(results'[Len(results')]) \in {"refused", "stopped"},
         NEW read \in BOOLEAN
  PROVE  Sections(report_inputs(read), Trials(report_inputs(read)))'
           = Sections(report_inputs(read), Trials(report_inputs(read)))
<1> DEFINE in == report_inputs(read)
           at(rs) == [r \in DOMAIN rs |-> r]
<1>1. /\ Reading(in) /\ AllPlaced(in)
  BY DEF ServedReads
<1>2. PICK jn : jn = in'
  OBVIOUS
<1>3. /\ Reading(jn) /\ AllPlaced(jn)
  <2>1. Reading(in)' /\ AllPlaced(in)'
    BY DEF ServedReads
  <2> QED BY <1>2, <2>1 DEF Reading, AllPlaced
<1>4. /\ experiment' = experiment
      /\ \A g \in DOMAIN groups : g \in DOMAIN groups' /\ groups'[g] = groups[g]
      /\ \/ results' = results
         \/ /\ Len(results') = Len(results) + 1
            /\ DOMAIN results' = 1..(Len(results) + 1)
            /\ \A r \in DOMAIN results : results'[r] = results[r]
  BY Grows
<1>5. /\ Len(results) \in Nat /\ DOMAIN results = 1..Len(results)
      /\ \A k \in DOMAIN scores : scores[k].result \in 1..Len(results)
  BY Typed DEF IInv, ScoreSet
<1> DEFINE row(rs, r) == [id |-> r, group |-> rs[r].group, at |-> at(rs)[r],
                          model |-> rs[r].model, position |-> rs[r].position,
                          error |-> rs[r].error, sent |-> rs[r].sent]
           group(gs, g) == [id |-> g, task |-> gs[g].task]
<1>6. /\ in.rows = {row(results, r) : r \in DOMAIN results}
      /\ jn.rows = {row(results', r) : r \in DOMAIN results'}
      /\ in.groups = {group(groups, g) : g \in DOMAIN groups}
      /\ jn.groups = {group(groups', g) : g \in DOMAIN groups'}
      /\ in.lineup = experiment.lineup /\ jn.lineup = experiment'.lineup
  BY <1>2 DEF report_inputs, Inputs, Rows
<1>7. jn.scores = in.scores
  BY <1>2 DEF report_inputs, Inputs
<1>8. jn.tasks = in.tasks
  BY <1>2, <1>4 DEF report_inputs, Inputs, Tasks, dataset
<1>9. \A score \in in.scores : score.result \in 1..Len(results)
  <2>1. in.scores = {[id |-> k, result |-> scores[k].result, scorer |-> scores[k].scorer,
                      judge |-> scores[k].judge, score |-> scores[k].score,
                      passed |-> scores[k].passed] : k \in DOMAIN scores}
    BY DEF report_inputs, Inputs
  <2> QED BY <1>5, <2>1
<1>10. in.groups \subseteq jn.groups
  BY <1>4, <1>6
<1>11. \A r \in DOMAIN results : r \in DOMAIN results' /\ row(results', r) = row(results, r)
  BY <1>4, <1>5
<1>12. ASSUME NEW x \in jn.rows \ in.rows
       PROVE  /\ trial_outcome(x) \notin QualityOutcomes
              /\ \A score \in in.scores : score.result # x.id
  <2>1. PICK r \in DOMAIN results' : x = row(results', r)
    BY <1>6
  <2>2. r \notin DOMAIN results
    BY <1>6, <1>11, <2>1
  <2>3. r = Len(results) + 1 /\ Len(results') = Len(results) + 1
    BY <1>4, <1>5, <2>2
  <2>4. x.id = r /\ x.error = results'[r].error /\ x.sent = results'[r].sent
    BY <2>1
  <2>5. trial_outcome(x) = trial_outcome(results'[r])
    BY <2>4 DEF trial_outcome
  <2>6. trial_outcome(results'[r]) \in {"refused", "stopped"}
    BY <1>5, <2>3
  <2> HIDE DEF in, row, group
  <2>7. trial_outcome(x) \notin QualityOutcomes
    BY <2>5, <2>6 DEF QualityOutcomes
  <2>8. Len(results) \in Nat /\ x.id = Len(results) + 1
    BY <1>5, <2>3, <2>4
  <2>9. \A score \in in.scores : score.result # x.id
    BY <1>9, <2>8
  <2> QED BY <2>7, <2>9
<1>13. in.rows \subseteq jn.rows /\ jn.lineup = in.lineup
  <2> HIDE DEF in, row, group
  <2>1. in.rows \subseteq jn.rows
    BY <1>6, <1>11
  <2>2. jn.lineup = in.lineup
    BY <1>4, <1>6
  <2> QED BY <2>1, <2>2
<1>14. Sections(in, Trials(in)) = Sections(jn, Trials(jn))
  <2> HIDE DEF in
  <2> QED BY <1>1, <1>3, <1>7, <1>8, <1>10, <1>12, <1>13, NobodysRows
<1>15. Sections(in, Trials(in))' = Sections(in', Trials(in'))
  <2> HIDE DEF in
  <2> QED BY DEF Sections, Trials, experiment_series, scorer_report, applicable_tasks,
            eligible_tasks, recorded_groups, CellTrials, Cell, cell_arm, Usable, Slots, Arms
<1> QED BY <1>2, <1>14, <1>15

-----------------------------------------------------------------------------
(***************************************************************************)
(* A score that says again what the newest of its key said.                *)
(***************************************************************************)
\* What the newest row of a key says is what the key says.
LEMMA NewestIs ==
  ASSUME NEW in, Reading(in), NEW own \in SUBSET in.scores, NEW newest \in own,
         \A row \in own : <<row.scorer, row.judge>> = <<newest.scorer, newest.judge>> =>
                            row.id <= newest.id
  PROVE  latest_for(own, <<newest.scorer, newest.judge>>)
           = [score |-> newest.score, passed |-> newest.passed]
<1> DEFINE series   == <<newest.scorer, newest.judge>>
           matching == {row \in own : <<row.scorer, row.judge>> = series}
           chosen   == CHOOSE row \in matching : \A other \in matching : other.id <= row.id
<1>1. newest \in matching /\ \A row \in matching : row.id <= newest.id
  OBVIOUS
<1>2. \A row \in matching : row \in in.scores
  OBVIOUS
<1>3. latest_for(own, series) = [score |-> chosen.score, passed |-> chosen.passed]
  <2>1. matching # {}
    BY <1>1
  <2> QED BY <2>1, Zenon DEF latest_for
<1> HIDE DEF series, matching
<1>4. chosen \in matching /\ newest.id <= chosen.id
  BY <1>1
<1> HIDE DEF chosen
<1>5. \A row \in in.scores : row.id \in Nat
  BY DEF Reading
<1>6. chosen.id = newest.id
  BY <1>1, <1>2, <1>4, <1>5
<1>7. chosen = newest
  BY <1>1, <1>2, <1>4, <1>6 DEF Reading
<1> QED BY <1>3, <1>7 DEF series

\* A reading jn is in with one score more, which repeats the newest of its
\* result, scorer and judge.
SaidAgain(in, jn, old, new) ==
  /\ jn.lineup = in.lineup /\ jn.tasks = in.tasks
  /\ jn.groups = in.groups /\ jn.rows = in.rows
  /\ old \in in.scores /\ jn.scores = in.scores \cup {new}
  /\ new.result = old.result /\ new.scorer = old.scorer /\ new.judge = old.judge
  /\ new.score = old.score /\ new.passed = old.passed
  /\ \A s \in in.scores : s.id <= new.id
  /\ \A s \in in.scores :
       s.result = old.result /\ s.scorer = old.scorer /\ s.judge = old.judge => s.id <= old.id

\* A trial of the one and the same trial of the other.
Twins(in, t, u, old, new) ==
  /\ u.arm = t.arm /\ u.task = t.task /\ u.group = t.group /\ u.outcome = t.outcome
  /\ \/ u.scores = t.scores
     \/ /\ u.scores = t.scores \cup {new}
        /\ t.scores = {s \in in.scores : s.result = old.result}

\* The arm that the order of a model's rows gives a row.
NthArm(slots, row, cell) ==
  LET nth  == Cardinality({other \in Of(cell, row.model) : other.at <= row.at})
      left == {p \in slots : Cardinality({q \in slots : q <= p}) = nth}
  IN  IF left # {} THEN Max(left) ELSE None

LEMMA TwinTrials ==
  ASSUME NEW in, NEW jn, NEW old, NEW new, SaidAgain(in, jn, old, new)
  PROVE  /\ \A t \in Trials(in) : \E u \in Trials(jn) : Twins(in, t, u, old, new)
         /\ \A u \in Trials(jn) : \E t \in Trials(in) : Twins(in, t, u, old, new)
<1>1. /\ in.groups = jn.groups /\ Arms(in) = Arms(jn)
      /\ \A group : Cell(in, group) = Cell(jn, group)
  BY DEF SaidAgain, Arms, Cell
<1>2. \A group, row : ArmOf(in, group, row) = ArmOf(jn, group, row)
  <2>1. \A m : Slots(in, m) = Slots(jn, m)
    BY <1>1 DEF Slots, SaidAgain
  <2>2. \A cell, m : Usable(in, cell, m) <=> Usable(jn, cell, m)
    BY <2>1 DEF Usable
  <2>3. \A kn, row, cell : cell_arm(kn, row, cell) =
          IF Usable(kn, cell, row.model) THEN row.position
          ELSE NthArm(Slots(kn, row.model), row, cell)
    BY DEF cell_arm, NthArm
  <2>4. \A row, cell : cell_arm(in, row, cell) = cell_arm(jn, row, cell)
    BY <2>1, <2>2, <2>3
  <2> QED BY <1>1, <2>4 DEF ArmOf
<1>3. ASSUME NEW group, NEW row, NEW arm
      PROVE  Twins(in, RowTrial(in, group, row, arm), RowTrial(jn, group, row, arm), old, new)
  <2> DEFINE t == RowTrial(in, group, row, arm)
             u == RowTrial(jn, group, row, arm)
  <2>1. u.arm = t.arm /\ u.task = t.task /\ u.group = t.group /\ u.outcome = t.outcome
    BY DEF RowTrial
  <2>2. /\ t.scores = {s \in in.scores : s.result = row.id}
        /\ u.scores = {s \in jn.scores : s.result = row.id}
    BY DEF RowTrial
  <2> HIDE DEF t, u
  <2>3. CASE row.id = old.result
    <3>1. u.scores = t.scores \cup {new}
      BY <2>2, <2>3 DEF SaidAgain
    <3> QED BY <2>1, <2>2, <2>3, <3>1 DEF Twins, t, u
  <2>4. CASE row.id # old.result
    <3>1. u.scores = t.scores
      BY <2>2, <2>4 DEF SaidAgain
    <3> QED BY <2>1, <3>1 DEF Twins, t, u
  <2> QED BY <2>3, <2>4
<1>4. \A group, p : Twins(in, MissingTrial(group, p), MissingTrial(group, p), old, new)
  BY DEF Twins
<1>5. ASSUME NEW t \in Trials(in) PROVE \E u \in Trials(jn) : Twins(in, t, u, old, new)
  <2>1. PICK group \in in.groups : Cell(in, group) # {} /\ t \in CellTrials(in, group)
    BY TrialsAre
  <2>2. \A u \in CellTrials(jn, group) : u \in Trials(jn)
    BY <1>1, <2>1, TrialsAre
  <2>3. CASE \E row \in Cell(in, group) :
               /\ ArmOf(in, group, row) # None
               /\ t = RowTrial(in, group, row, ArmOf(in, group, row))
    <3>1. PICK row \in Cell(in, group) :
            /\ ArmOf(in, group, row) # None
            /\ t = RowTrial(in, group, row, ArmOf(in, group, row))
      BY <2>3
    <3>2. PICK arm : arm = ArmOf(jn, group, row)
      OBVIOUS
    <3>3. RowTrial(jn, group, row, arm) \in CellTrials(jn, group)
      BY <1>1, <1>2, <3>1, <3>2, CellTrialsAre
    <3> QED BY <1>2, <1>3, <2>2, <3>1, <3>2, <3>3
  <2>4. CASE \E p \in Arms(in) : /\ \A row \in Cell(in, group) : ArmOf(in, group, row) # p
                                 /\ t = MissingTrial(group, p)
    <3>1. t \in CellTrials(jn, group)
      BY <1>1, <1>2, <2>4, CellTrialsAre
    <3> QED BY <1>4, <2>2, <2>4, <3>1
  <2> QED BY <2>1, <2>3, <2>4, CellTrialsAre
<1>6. ASSUME NEW u \in Trials(jn) PROVE \E t \in Trials(in) : Twins(in, t, u, old, new)
  <2>1. PICK group \in jn.groups : Cell(jn, group) # {} /\ u \in CellTrials(jn, group)
    BY TrialsAre
  <2>2. \A t \in CellTrials(in, group) : t \in Trials(in)
    BY <1>1, <2>1, TrialsAre
  <2>3. CASE \E row \in Cell(jn, group) :
               /\ ArmOf(jn, group, row) # None
               /\ u = RowTrial(jn, group, row, ArmOf(jn, group, row))
    <3>1. PICK row \in Cell(jn, group) :
            /\ ArmOf(jn, group, row) # None
            /\ u = RowTrial(jn, group, row, ArmOf(jn, group, row))
      BY <2>3
    <3>2. PICK arm : arm = ArmOf(in, group, row)
      OBVIOUS
    <3>3. RowTrial(in, group, row, arm) \in CellTrials(in, group)
      BY <1>1, <1>2, <3>1, <3>2, CellTrialsAre
    <3> QED BY <1>2, <1>3, <2>2, <3>1, <3>2, <3>3
  <2>4. CASE \E p \in Arms(jn) : /\ \A row \in Cell(jn, group) : ArmOf(jn, group, row) # p
                                 /\ u = MissingTrial(group, p)
    <3>1. u \in CellTrials(in, group)
      BY <1>1, <1>2, <2>4, CellTrialsAre
    <3> QED BY <1>4, <2>2, <2>4, <3>1
  <2> QED BY <2>1, <2>3, <2>4, CellTrialsAre
<1> QED BY <1>5, <1>6

\* Twins have the same newest of every key.
LEMMA TwinsLatest ==
  ASSUME NEW in, NEW jn, NEW old, NEW new, SaidAgain(in, jn, old, new),
         Reading(in), Reading(jn), NEW t \in Trials(in), NEW u \in Trials(jn),
         Twins(in, t, u, old, new), NEW series
  PROVE  latest_for(u.scores, series) = latest_for(t.scores, series)
<1> PICK T : T = t.scores
  OBVIOUS
<1> PICK U : U = u.scores
  OBVIOUS
<1>1. CASE U = T
  BY <1>1
<1>2. CASE U = T \cup {new} /\ T = {s \in in.scores : s.result = old.result}
  <2>1. /\ old \in T /\ T \in SUBSET in.scores
        /\ new \in U /\ U \in SUBSET jn.scores
        /\ new.scorer = old.scorer /\ new.judge = old.judge
        /\ new.score = old.score /\ new.passed = old.passed
    BY <1>2 DEF SaidAgain
  <2>2. CASE series = <<old.scorer, old.judge>>
    <3>1. \A row \in T : <<row.scorer, row.judge>> = <<old.scorer, old.judge>> => row.id <= old.id
      BY <1>2 DEF SaidAgain
    <3>2. \A row \in U : row.id <= new.id
      <4>1. new.id \in Nat
        BY <2>1 DEF Reading
      <4> QED BY <1>2, <4>1 DEF SaidAgain
    <3>3. latest_for(T, series) = [score |-> old.score, passed |-> old.passed]
      BY <2>1, <2>2, <3>1, NewestIs
    <3>4. latest_for(U, <<new.scorer, new.judge>>) = [score |-> new.score, passed |-> new.passed]
      BY <2>1, <3>2, NewestIs
    <3> QED BY <2>1, <2>2, <3>3, <3>4
  <2>3. CASE series # <<old.scorer, old.judge>>
    <3>1. {row \in U : <<row.scorer, row.judge>> = series}
            = {row \in T : <<row.scorer, row.judge>> = series}
      BY <1>2, <2>1, <2>3
    <3>2. latest_for(U, series) = latest_for(T, series)
      BY <3>1, Zenon DEF latest_for
    <3> QED BY <3>2
  <2> QED BY <2>2, <2>3
<1> QED BY <1>1, <1>2 DEF Twins

\* What the sections read of the scores, the newest of a trial apart.
Facts(T) == {<<x.task, x.row.scorer, x.row.judge, x.row.passed>> : x \in Scored(T)}

LEMMA FactsAre ==
  ASSUME NEW T, NEW task, NEW scorer, NEW judge, NEW passed
  PROVE  <<task, scorer, judge, passed>> \in Facts(T) <=>
           \E t \in T : \E row \in t.scores :
             t.task = task /\ row.scorer = scorer /\ row.judge = judge /\ row.passed = passed
<1>1. \A x : x \in Scored(T) <=>
        \E t \in T : \E row \in t.scores : x = [task |-> t.task, row |-> row]
  BY DEF Scored
<1>2. <<task, scorer, judge, passed>> \in Facts(T) <=>
        \E x \in Scored(T) : x.task = task /\ x.row.scorer = scorer
                               /\ x.row.judge = judge /\ x.row.passed = passed
  BY DEF Facts
<1>3. ASSUME NEW x \in Scored(T)
      PROVE  \E t \in T : \E row \in t.scores : t.task = x.task /\ row = x.row
  BY <1>1
<1>4. ASSUME NEW t \in T, NEW row \in t.scores
      PROVE  \E x \in Scored(T) : x.task = t.task /\ x.row = row
  <2> DEFINE x == [task |-> t.task, row |-> row]
  <2>1. x \in Scored(T)
    BY <1>1, <1>4
  <2>2. x.task = t.task /\ x.row = row
    OBVIOUS
  <2> QED BY <2>1, <2>2
<1> HIDE DEF Scored, Facts
<1> QED BY <1>2, <1>3, <1>4

\* The tasks some score by the scorer is about, and those of them whose
\* score a judge gave a verdict with.
Witnessed(T, s) == {x.task : x \in {y \in Scored(T) : y.row.scorer = s}}

Judged(T, s) ==
  {x.task : x \in {y \in Scored(T) : /\ y.row.scorer = s
                                       /\ y.row.judge # None
                                       /\ y.row.passed # None}}

LEMMA FactsTell ==
  ASSUME NEW T, NEW U, Facts(T) = Facts(U)
  PROVE  /\ \A series : series \in experiment_series(T) => series \in experiment_series(U)
         /\ \A s, task : task \in Witnessed(T, s) => task \in Witnessed(U, s)
         /\ \A s, task : task \in Judged(T, s) => task \in Judged(U, s)
<1>1. ASSUME NEW x \in Scored(T)
      PROVE  \E y \in Scored(U) : /\ y.task = x.task /\ y.row.scorer = x.row.scorer
                                   /\ y.row.judge = x.row.judge
                                   /\ y.row.passed = x.row.passed
  <2> DEFINE f(z) == <<z.task, z.row.scorer, z.row.judge, z.row.passed>>
  <2>1. f(x) \in Facts(U)
    BY DEF Facts
  <2>2. PICK y \in Scored(U) : f(x) = f(y)
    BY <2>1 DEF Facts
  <2> QED BY <2>2
<1>2. ASSUME NEW series \in experiment_series(T) PROVE series \in experiment_series(U)
  BY <1>1 DEF experiment_series
<1>3. ASSUME NEW s, NEW task \in Witnessed(T, s) PROVE task \in Witnessed(U, s)
  BY <1>1 DEF Witnessed
<1>4. ASSUME NEW s, NEW task \in Judged(T, s) PROVE task \in Judged(U, s)
  BY <1>1 DEF Judged
<1> QED BY <1>2, <1>3, <1>4

\* What the dataset says of a scorer, and which of its tasks have a cutoff.
Declared(tasks, s) == IF tasks = None THEN {} ELSE {task.id : task \in {t \in tasks : t.kind = s}}

CutoffsOf(tasks) == {task.id : task \in {t \in tasks : t.cutoff}}

\* The sections depend on their facts, and on what is asked of each arm.
LEMMA FactsDecide ==
  ASSUME NEW in, NEW jn, NEW T, NEW U, in.lineup = jn.lineup, in.tasks = jn.tasks,
         Facts(T) = Facts(U),
         \A p, series, mine : Asked(T, p, series, mine) = Asked(U, p, series, mine)
  PROVE  Sections(in, T) = Sections(jn, U)
<1>1. /\ experiment_series(T) = experiment_series(U)
      /\ \A s : Witnessed(T, s) = Witnessed(U, s) /\ Judged(T, s) = Judged(U, s)
  <2>1. \A series : series \in experiment_series(T) <=> series \in experiment_series(U)
    BY FactsTell
  <2>2. \A s, task : task \in Witnessed(T, s) <=> task \in Witnessed(U, s)
    BY FactsTell
  <2>3. \A s, task : task \in Judged(T, s) <=> task \in Judged(U, s)
    BY FactsTell
  <2>4. experiment_series(T) = experiment_series(U)
    BY <2>1, Zenon DEF experiment_series
  <2>5. ASSUME NEW s PROVE Witnessed(T, s) = Witnessed(U, s)
    BY <2>2, Zenon DEF Witnessed
  <2>6. ASSUME NEW s PROVE Judged(T, s) = Judged(U, s)
    BY <2>3, Zenon DEF Judged
  <2> QED BY <2>4, <2>5, <2>6
<1>2. \A kn, V, s : applicable_tasks(kn, V, s) =
        IF Declared(kn.tasks, s) # {} THEN Declared(kn.tasks, s) ELSE Witnessed(V, s)
  BY Zenon DEF applicable_tasks, Declared, Witnessed
<1>3. \A kn, V, s : eligible_tasks(kn, V, s) =
        IF kn.tasks # None THEN CutoffsOf(kn.tasks) ELSE Judged(V, s)
  BY Zenon DEF eligible_tasks, CutoffsOf, Judged
<1>4. \A s : applicable_tasks(in, T, s) = applicable_tasks(jn, U, s)
  BY <1>1, <1>2
<1>5. \A s : eligible_tasks(in, T, s) = eligible_tasks(jn, U, s)
  BY <1>1, <1>3
<1>6. \A p, s : scorer_report(in, T, p, s) = scorer_report(jn, U, p, s)
  BY <1>4, <1>5 DEF scorer_report
<1> QED BY <1>1, <1>6 DEF Sections, Arms

LEMMA AgainMovesNothing ==
  ASSUME NEW in, NEW jn, NEW old, NEW new, SaidAgain(in, jn, old, new),
         Reading(in), Reading(jn)
  PROVE  Sections(in, Trials(in)) = Sections(jn, Trials(jn))
<1> PICK T : T = Trials(in)
  OBVIOUS
<1> PICK U : U = Trials(jn)
  OBVIOUS
<1>1. /\ \A t \in T : \E u \in U : Twins(in, t, u, old, new)
      /\ \A u \in U : \E t \in T : Twins(in, t, u, old, new)
  BY TwinTrials
<1>2. \A t \in T, u \in U : Twins(in, t, u, old, new) =>
         \A series : latest_for(u.scores, series) = latest_for(t.scores, series)
  BY TwinsLatest
<1>3. \A t, u : Twins(in, t, u, old, new) =>
         /\ u.task = t.task
         /\ \A row \in u.scores : \E other \in t.scores :
              other.scorer = row.scorer /\ other.judge = row.judge /\ other.passed = row.passed
         /\ t.scores \subseteq u.scores
  BY DEF Twins, SaidAgain
<1>4. ASSUME NEW task, NEW scorer, NEW judge, NEW passed
      PROVE  <<task, scorer, judge, passed>> \in Facts(T)
               <=> <<task, scorer, judge, passed>> \in Facts(U)
  BY <1>1, <1>3, FactsAre
<1>5. Facts(T) = Facts(U)
  <2>1. \A V : \A f \in Facts(V) : f = <<f[1], f[2], f[3], f[4]>>
    BY DEF Facts
  <2> QED BY <1>4, <2>1
<1>6. ASSUME NEW p, NEW series, NEW mine
      PROVE  Asked(T, p, series, mine) = Asked(U, p, series, mine)
  <2> DEFINE of(t) == [task |-> t.task, group |-> t.group, outcome |-> t.outcome,
                       latest |-> latest_for(t.scores, series)]
             counts(t) == t.arm = p /\ t.task \in mine /\ t.outcome \in QualityOutcomes
  <2>1. \A V, y : y \in Asked(V, p, series, mine) <=> \E t \in V : counts(t) /\ y = of(t)
    BY DEF Asked
  <2>2. \A t \in T, u \in U : Twins(in, t, u, old, new) =>
           of(t) = of(u) /\ (counts(t) <=> counts(u))
    BY <1>2 DEF Twins
  <2> HIDE DEF of, counts
  <2>3. \A y : y \in Asked(T, p, series, mine) <=> y \in Asked(U, p, series, mine)
    BY <1>1, <2>1, <2>2
  <2> QED BY <2>3, Zenon DEF Asked
<1> QED BY <1>5, <1>6, FactsDecide DEF SaidAgain

\* A score that is stored leaves the rows and the groups alone.
LEMMA ScoresAlone ==
  ASSUME Next, scores' # scores
  PROVE  UNCHANGED <<experiment, groups, results>>
BY DEF Next, BeginCell, RunTrial, EndRun, RunByHand, StartScoring, NextGroup, ScoreNext, Rate

LEMMA AgainStep ==
  ASSUME IInv, ServedReads, ServedReads', Next, SaysAgain, NEW read \in BOOLEAN
  PROVE  Sections(report_inputs(read), Trials(report_inputs(read)))'
           = Sections(report_inputs(read), Trials(report_inputs(read)))
<1> DEFINE in == report_inputs(read)
           n  == Len(scores)
<1>1. PICK jn : jn = in'
  OBVIOUS
<1>2. Reading(in) /\ Reading(jn)
  <2>1. Reading(in)'
    BY DEF ServedReads
  <2> QED BY <1>1, <2>1 DEF ServedReads, Reading
<1>3. PICK k \in DOMAIN scores :
        /\ scores' = Append(scores, scores[k])
        /\ \A j \in DOMAIN scores :
             <<scores[j].result, scores[j].scorer, scores[j].judge>>
               = <<scores[k].result, scores[k].scorer, scores[k].judge>> => j <= k
  BY DEF SaysAgain
<1>4. /\ n \in Nat /\ DOMAIN scores = 1..n /\ DOMAIN scores' = 1..(n + 1)
      /\ \A j \in 1..n : scores'[j] = scores[j]
      /\ scores'[n + 1] = scores[k] /\ Len(scores') = n + 1
  <2>1. scores \in Seq(ScoreSet(Len(results))) /\ DOMAIN scores = 1..Len(scores)
    BY Typed DEF IInv, TypeOK
  <2>2. scores[k] \in ScoreSet(Len(results))
    BY <2>1, <1>3
  <2> QED BY <1>3, <2>1, <2>2, Appended
<1>5. UNCHANGED <<experiment, groups, results>>
  <2>1. scores' # scores
    BY <1>4
  <2> QED BY <2>1, ScoresAlone
<1> DEFINE score(ss, j) == [id |-> j, result |-> ss[j].result, scorer |-> ss[j].scorer,
                            judge |-> ss[j].judge, score |-> ss[j].score,
                            passed |-> ss[j].passed]
<1>6. /\ in.scores = {score(scores, j) : j \in DOMAIN scores}
      /\ jn.scores = {score(scores', j) : j \in DOMAIN scores'}
  BY <1>1 DEF report_inputs, Inputs
<1>7. jn.lineup = in.lineup /\ jn.tasks = in.tasks /\ jn.groups = in.groups /\ jn.rows = in.rows
  BY <1>1, <1>5 DEF report_inputs, Inputs, Rows, Tasks, dataset
<1>8. \A ss, j : LET s == score(ss, j)
                 IN  /\ s.id = j /\ s.result = ss[j].result /\ s.scorer = ss[j].scorer
                     /\ s.judge = ss[j].judge /\ s.score = ss[j].score
                     /\ s.passed = ss[j].passed
  OBVIOUS
<1>9. \A j \in 1..n : score(scores', j) = score(scores, j)
  BY <1>4
<1> HIDE DEF in, score
<1>10. PICK old : old = score(scores, k)
  OBVIOUS
<1>11. PICK new : new = score(scores', n + 1)
  OBVIOUS
<1>12. jn.scores = in.scores \cup {new}
  <2>1. 1..(n + 1) = 1..n \cup {n + 1}
    BY <1>4
  <2> QED BY <1>4, <1>6, <1>9, <1>11, <2>1
<1>13. /\ old \in in.scores
       /\ new.result = old.result /\ new.scorer = old.scorer /\ new.judge = old.judge
       /\ new.score = old.score /\ new.passed = old.passed
  <2>1. old \in in.scores
    BY <1>3, <1>6, <1>10
  <2>2. /\ new.result = scores'[n + 1].result /\ new.scorer = scores'[n + 1].scorer
        /\ new.judge = scores'[n + 1].judge /\ new.score = scores'[n + 1].score
        /\ new.passed = scores'[n + 1].passed
    BY <1>8, <1>11
  <2>3. /\ old.result = scores[k].result /\ old.scorer = scores[k].scorer
        /\ old.judge = scores[k].judge /\ old.score = scores[k].score
        /\ old.passed = scores[k].passed
    BY <1>8, <1>10
  <2> QED BY <1>4, <2>1, <2>2, <2>3
<1>14. \A s \in in.scores : \E j \in 1..n : s = score(scores, j)
  BY <1>4, <1>6
<1>15. \A s \in in.scores : s.id <= new.id
  BY <1>4, <1>8, <1>11, <1>14
<1>16. ASSUME NEW s \in in.scores,
              s.result = old.result, s.scorer = old.scorer, s.judge = old.judge
       PROVE  s.id <= old.id
  BY <1>3, <1>4, <1>8, <1>10, <1>14, <1>16
<1>17. Sections(in, Trials(in)) = Sections(jn, Trials(jn))
  BY <1>2, <1>7, <1>12, <1>13, <1>15, <1>16, AgainMovesNothing DEF SaidAgain
<1>18. Sections(in, Trials(in))' = Sections(in', Trials(in'))
  BY DEF Sections, Trials, experiment_series, scorer_report, applicable_tasks,
         eligible_tasks, recorded_groups, CellTrials, Cell, cell_arm, Usable, Slots, Arms
<1> QED BY <1>1, <1>17, <1>18 DEF in

\* A refused or stopped trial, a new cell, the end of a run, every move of a
\* pass, and a score or a rating sent twice leave each published section as
\* it was, for every lineup, plan and dataset, while the positions recorded
\* decide.
THEOREM NobodysAnswerMovesNothing == Spec => QualityIsTheModelsOwn
<1>1. IInv /\ IInv' /\ ServedReads /\ ServedReads' /\ [Next]_vars =>
        [ LET added == Len(results') > Len(results)
              last  == results'[Len(results')]
          IN  /\ scores' = scores \/ SaysAgain
              /\ added => trial_outcome(last) \in {"refused", "stopped"}
              /\ Placed /\ Placed'
              => \A read \in BOOLEAN : Served(read)'.sections = Served(read).sections
        ]_vars
  <2> SUFFICES ASSUME IInv, IInv', ServedReads, ServedReads', Next,
                      scores' = scores \/ SaysAgain,
                      Len(results') > Len(results) =>
                        trial_outcome(results'[Len(results')]) \in {"refused", "stopped"},
                      Placed, Placed', NEW read \in BOOLEAN
               PROVE  Served(read)'.sections = Served(read).sections
    BY DEF vars
  <2> DEFINE of == Sections(report_inputs(read), Trials(report_inputs(read)))
  <2>1. of' = of
    <3>1. CASE scores' = scores
      BY <3>1, QualityStep
    <3>2. CASE SaysAgain
      BY <3>2, AgainStep
    <3> QED BY <3>1, <3>2
  <2>2. Served(read).sections = of /\ (Served(read).sections = of)'
    BY DEF ServedReads
  <2> QED BY <2>1, <2>2
<1> QED BY <1>1, InitHolds, StepIInv, ServedReadsHold, PTL DEF Spec, QualityIsTheModelsOwn

-----------------------------------------------------------------------------
(***************************************************************************)
(* Totals.  A section's total is what the community module's MapThenSumSet *)
(* computes by a recursive function on the subsets of the trials: a        *)
(* natural number, 0 of no trials.                                         *)
(***************************************************************************)
LEMMA SmallestSubset ==
  ASSUME NEW S, IsFiniteSet(S), NEW B \in SUBSET (SUBSET S), B # {}
  PROVE  \E u \in B : \A v \in B : v \subseteq u => v = u
<1>1. IsWellFoundedOn(StrictSubsetOrdering(S), SUBSET S)
  BY FS_StrictSubsetOrderingWellFounded, FS_FiniteSubsetsOfFinite
<1>2. \E u \in B : \A v \in B : <<v, u>> \notin StrictSubsetOrdering(S)
  BY <1>1, WFMin
<1> QED BY <1>2 DEF StrictSubsetOrdering

\* The trial the sum takes first from a set.
First(s) == CHOOSE t \in s : TRUE

LEMMA FirstIn == \A s : s # {} => First(s) \in s
BY DEF First

\* it is the sum's recursive function on the subsets of S.
IsTotal(S, it) ==
  it = [s \in SUBSET S |-> IF s = {} THEN 0 ELSE First(s).latest.score + it[s \ {First(s)}]]

LEMMA TotalAt ==
  ASSUME NEW S, NEW it, IsTotal(S, it), NEW s \in SUBSET S
  PROVE  it[s] = IF s = {} THEN 0 ELSE First(s).latest.score + it[s \ {First(s)}]
BY DEF IsTotal

\* Two such functions agree where both are defined.
LEMMA TotalsAgree ==
  ASSUME NEW S, NEW T, IsFiniteSet(S), NEW g, NEW h, IsTotal(S, g), IsTotal(T, h)
  PROVE  \A s \in SUBSET S : s \in SUBSET T => g[s] = h[s]
<1> DEFINE B == {s \in SUBSET S : s \in SUBSET T /\ g[s] # h[s]}
<1> SUFFICES ASSUME B # {} PROVE FALSE
  OBVIOUS
<1>1. PICK u \in B : \A v \in B : v \subseteq u => v = u
  <2>1. B \in SUBSET (SUBSET S)
    OBVIOUS
  <2> HIDE DEF B
  <2> QED BY <2>1, SmallestSubset
<1>2. u \in SUBSET S /\ u \in SUBSET T
  OBVIOUS
<1>3. /\ g[u] = IF u = {} THEN 0 ELSE First(u).latest.score + g[u \ {First(u)}]
      /\ h[u] = IF u = {} THEN 0 ELSE First(u).latest.score + h[u \ {First(u)}]
  BY <1>2, TotalAt
<1>4. u # {} => g[u \ {First(u)}] = h[u \ {First(u)}]
  BY <1>1, FirstIn
<1> QED BY <1>3, <1>4

\* A smallest set without such a function would have one, made of those of
\* its subsets.
LEMMA TotalExists ==
  ASSUME NEW S, IsFiniteSet(S)
  PROVE  \E it : IsTotal(S, it)
<1> DEFINE B == {s \in SUBSET S : ~ \E it : IsTotal(s, it)}
           It(t) == CHOOSE it : IsTotal(t, it)
<1> SUFFICES ASSUME B # {} PROVE FALSE
  OBVIOUS
<1>1. PICK u \in B : \A v \in B : v \subseteq u => v = u
  <2>1. B \in SUBSET (SUBSET S)
    OBVIOUS
  <2> HIDE DEF B
  <2> QED BY <2>1, SmallestSubset
<1>2. \A t \in SUBSET u : t # u => IsTotal(t, It(t)) /\ IsFiniteSet(t)
  BY <1>1, FS_Subset
<1> DEFINE rest(t) == t \ {First(t)}
           g == [t \in SUBSET u |->
                   IF t = {} THEN 0 ELSE First(t).latest.score + It(rest(t))[rest(t)]]
<1>3. \A t \in SUBSET u : t # {} => rest(t) \in SUBSET u /\ rest(t) # u /\ rest(t) \subseteq t
  BY FirstIn
<1>4. ASSUME NEW t \in SUBSET u, t # {}
      PROVE  g[rest(t)] = It(rest(t))[rest(t)]
  <2> DEFINE w == rest(t)
  <2>1. w \in SUBSET u /\ IsTotal(w, It(w)) /\ IsFiniteSet(w)
    BY <1>2, <1>3, <1>4
  <2>2. It(w)[w] = IF w = {} THEN 0 ELSE First(w).latest.score + It(w)[rest(w)]
    <3> HIDE DEF It, w
    <3> QED BY <2>1, TotalAt
  <2>3. w # {} => It(w)[rest(w)] = It(rest(w))[rest(w)]
    <3> HIDE DEF It, w
    <3>1. w # {} => IsTotal(rest(w), It(rest(w))) /\ rest(w) \in SUBSET w
      <4> HIDE DEF rest
      <4> QED BY <1>2, <1>3, <2>1
    <3> QED BY <2>1, <3>1, TotalsAgree
  <2>4. g[w] = IF w = {} THEN 0 ELSE First(w).latest.score + It(rest(w))[rest(w)]
    BY <2>1
  <2> QED BY <2>2, <2>3, <2>4
<1>5. ASSUME NEW t \in SUBSET u
      PROVE  g[t] = IF t = {} THEN 0 ELSE First(t).latest.score + g[rest(t)]
  <2>1. t # {} => g[t] = First(t).latest.score + It(rest(t))[rest(t)]
    OBVIOUS
  <2>2. t # {} => g[rest(t)] = It(rest(t))[rest(t)]
    BY <1>4
  <2>3. t = {} => g[t] = 0
    OBVIOUS
  <2> HIDE DEF g, It, rest
  <2> QED BY <2>1, <2>2, <2>3
<1>6. IsTotal(u, g)
  <2>1. g = [t \in SUBSET u |-> g[t]]
    OBVIOUS
  <2> HIDE DEF g
  <2> QED BY <1>5, <2>1 DEF IsTotal
<1> QED BY <1>1, <1>6

LEMMA TotalIsNatural ==
  ASSUME NEW asked, IsFiniteSet(asked), \A t \in asked : t.latest.score \in Nat
  PROVE  TotalScore(asked) \in Nat /\ (asked = {} => TotalScore(asked) = 0)
<1> DEFINE it == CHOOSE i : IsTotal(asked, i)
           B  == {s \in SUBSET asked : it[s] \notin Nat}
<1>1. IsTotal(asked, it)
  BY TotalExists
<1>2. TotalScore(asked) = it[asked]
  BY DEF TotalScore, MapThenSumSet, MapThenFoldSet, IsTotal, First
<1> HIDE DEF it
<1>3. ASSUME B # {} PROVE FALSE
  <2>1. PICK u \in B : \A v \in B : v \subseteq u => v = u
    <3>1. B \in SUBSET (SUBSET asked)
      OBVIOUS
    <3> HIDE DEF B
    <3> QED BY <1>3, <3>1, SmallestSubset
  <2>2. it[u] = IF u = {} THEN 0 ELSE First(u).latest.score + it[u \ {First(u)}]
    <3>1. u \in SUBSET asked
      OBVIOUS
    <3> QED BY <1>1, <3>1, TotalAt
  <2>3. u # {} => First(u).latest.score \in Nat /\ it[u \ {First(u)}] \in Nat
    BY <2>1, FirstIn
  <2> QED BY <2>2, <2>3
<1>4. it[asked] \in Nat
  BY <1>3
<1>5. asked = {} => it[asked] = 0
  BY <1>1, TotalAt
<1> QED BY <1>2, <1>4, <1>5

-----------------------------------------------------------------------------
(***************************************************************************)
(* A ranking and those it does not measure.                                *)
(***************************************************************************)
LEMMA TrialScores ==
  ASSUME NEW in, NEW t \in Trials(in)
  PROVE  t.scores \subseteq in.scores
<1>1. PICK group \in in.groups : t \in CellTrials(in, group)
  BY TrialsAre
<1>2. \A row, arm : RowTrial(in, group, row, arm).scores \subseteq in.scores
  BY DEF RowTrial
<1>3. \A p : MissingTrial(group, p).scores \subseteq in.scores
  BY DEF MissingTrial
<1> QED BY <1>1, <1>2, <1>3, CellTrialsAre

\* What the newest score says, where there is one, is what a score says.
LEMMA LatestIs ==
  ASSUME NEW in, Reading(in), NEW own \in SUBSET in.scores, NEW series,
         latest_for(own, series) # None
  PROVE  \E row \in own :
           latest_for(own, series) = [score |-> row.score, passed |-> row.passed]
<1> DEFINE matching == {row \in own : <<row.scorer, row.judge>> = series}
           ids == {row.id : row \in matching}
           newest == CHOOSE row \in matching : \A other \in matching : other.id <= row.id
<1>1. matching # {} /\ matching \subseteq own
  BY DEF latest_for
<1>2. latest_for(own, series) = [score |-> newest.score, passed |-> newest.passed]
  BY <1>1, Zenon DEF latest_for
<1>3. PICK n \in Nat : ids \in SUBSET (1..n)
  BY <1>1 DEF Reading
<1>4. ids # {}
  BY <1>1
<1>5. \E row \in matching : \A other \in matching : other.id <= row.id
  <2>1. Max(ids) \in ids /\ \A j \in ids : j <= Max(ids)
    <3> HIDE DEF ids
    <3> QED BY <1>3, <1>4, Extremes
  <2> QED BY <2>1
<1> HIDE DEF matching
<1>6. newest \in own
  BY <1>1, <1>5
<1> QED BY <1>2, <1>6

LEMMA TrialsFinite ==
  ASSUME NEW in, Reading(in)
  PROVE  IsFiniteSet(Trials(in))
<1> DEFINE byRow == [x \in in.groups \X in.rows |->
                       RowTrial(in, x[1], x[2], ArmOf(in, x[1], x[2]))]
           byArm == [x \in in.groups \X Arms(in) |-> MissingTrial(x[1], x[2])]
           R == {byRow[x] : x \in in.groups \X in.rows}
           M == {byArm[x] : x \in in.groups \X Arms(in)}
<1>1. /\ IsFiniteSet(in.groups) /\ IsFiniteSet(in.rows)
      /\ IsFiniteSet(Arms(in))
  BY FS_Interval DEF Reading
<1>2. IsFiniteSet(R)
  <2>1. byRow \in Surjection(in.groups \X in.rows, R)
    BY DEF Surjection
  <2>2. IsFiniteSet(in.groups \X in.rows)
    BY <1>1, FS_Product
  <2> QED BY <2>1, <2>2, FS_Surjection
<1>3. IsFiniteSet(M)
  <2>1. byArm \in Surjection(in.groups \X Arms(in), M)
    BY DEF Surjection
  <2>2. IsFiniteSet(in.groups \X Arms(in))
    BY <1>1, FS_Product
  <2> QED BY <2>1, <2>2, FS_Surjection
<1>4. ASSUME NEW t \in Trials(in) PROVE t \in R \cup M
  <2>1. PICK group \in in.groups : t \in CellTrials(in, group)
    BY TrialsAre
  <2>2. ASSUME NEW row \in Cell(in, group), t = RowTrial(in, group, row, ArmOf(in, group, row))
        PROVE  t \in R
    <3>1. <<group, row>> \in in.groups \X in.rows
      BY DEF Cell
    <3>2. byRow[<<group, row>>] = t
      BY <2>2, <3>1
    <3> QED BY <3>1, <3>2
  <2>3. ASSUME NEW p \in Arms(in), t = MissingTrial(group, p)
        PROVE  t \in M
    <3>1. <<group, p>> \in in.groups \X Arms(in) /\ byArm[<<group, p>>] = t
      BY <2>3
    <3> QED BY <3>1
  <2> HIDE DEF R, M
  <2> QED BY <2>1, <2>2, <2>3, CellTrialsAre
<1>5. Trials(in) \subseteq R \cup M /\ IsFiniteSet(R \cup M)
  BY <1>2, <1>3, <1>4, FS_Union
<1> HIDE DEF R, M
<1> QED BY <1>5, FS_Subset

\* What the ranking needs of a section: counts, and no total without a
\* measured trial.
Counted(section) ==
  /\ section.measured \in Nat
  /\ section.mean[1] \in Nat /\ section.mean[2] \in Nat
  /\ section.measured <= section.mean[2]
  /\ section.measured = 0 => section.mean[1] = 0

LEMMA SectionCounted ==
  ASSUME NEW arm, NEW series, NEW asked, NEW eligible, IsFiniteSet(asked),
         \A t \in asked : t.latest # None /\ t.latest.score # None => t.latest.score \in Nat
  PROVE  Counted(Section(arm, series, asked, eligible))
<1> DEFINE rated    == {t \in asked : t.latest # None}
           scored   == {t \in rated : t.latest.score # None}
           measured == {t \in scored : t.outcome = "done"}
           failures == {t \in asked : t.outcome # "done"}
           section  == Section(arm, series, asked, eligible)
<1>1. /\ section.mean = <<TotalScore(measured), Cardinality(measured \cup failures)>>
      /\ section.measured = Cardinality(measured)
  BY DEF Section
<1>2. /\ measured \in SUBSET asked /\ measured \cup failures \in SUBSET asked
      /\ measured \in SUBSET (measured \cup failures)
      /\ \A t \in measured : t.latest.score \in Nat
  OBVIOUS
<1> HIDE DEF measured, failures, section
<1>3. /\ IsFiniteSet(measured) /\ IsFiniteSet(measured \cup failures)
      /\ Cardinality(measured) \in Nat /\ Cardinality(measured \cup failures) \in Nat
      /\ Cardinality(measured) <= Cardinality(measured \cup failures)
  BY <1>2, FS_Subset, FS_CardinalityType
<1>4. Cardinality(measured) = 0 => measured = {}
  BY <1>3, FS_EmptySet
<1>5. TotalScore(measured) \in Nat /\ (measured = {} => TotalScore(measured) = 0)
  BY <1>2, <1>3, TotalIsNatural
<1>6. section.mean[1] = TotalScore(measured) /\ section.mean[2] = Cardinality(measured \cup failures)
  BY <1>1
<1> QED BY <1>1, <1>3, <1>4, <1>5, <1>6 DEF Counted, section

LEMMA SectionsCounted ==
  ASSUME NEW in, Reading(in)
  PROVE  /\ IsFiniteSet(Sections(in, Trials(in)))
         /\ \A section \in Sections(in, Trials(in)) : Counted(section)
<1> DEFINE T == Trials(in)
           Pairs == Arms(in) \X experiment_series(T)
           of == [x \in Pairs |-> scorer_report(in, T, x[1], x[2])]
           series == [score \in in.scores |-> <<score.scorer, score.judge>>]
           All == {series[score] : score \in in.scores}
<1>1. IsFiniteSet(T)
  BY TrialsFinite
<1>2. \A t \in T : t.scores \subseteq in.scores
  BY TrialScores
<1> HIDE DEF T
<1>3. IsFiniteSet(experiment_series(T))
  <2>1. series \in Surjection(in.scores, All)
    BY DEF Surjection
  <2>2. IsFiniteSet(All)
    BY <2>1, FS_Surjection DEF Reading
  <2>3. \A s \in Scored(T) : s.row \in in.scores
    BY <1>2 DEF Scored
  <2>4. experiment_series(T) \in SUBSET All
    BY <2>3 DEF experiment_series
  <2> HIDE DEF All
  <2> QED BY <2>2, <2>4, FS_Subset
<1>4. IsFiniteSet(Sections(in, T))
  <2>1. Sections(in, T) = {of[x] : x \in Pairs}
    <3>1. \A p \in Arms(in) : \A sr \in experiment_series(T) :
            <<p, sr>> \in Pairs /\ of[<<p, sr>>] = scorer_report(in, T, p, sr)
      OBVIOUS
    <3>2. \A x \in Pairs : /\ x[1] \in Arms(in) /\ x[2] \in experiment_series(T)
                           /\ of[x] = scorer_report(in, T, x[1], x[2])
      OBVIOUS
    <3>3. \A y : y \in Sections(in, T) <=>
                  \E p \in Arms(in) : \E sr \in experiment_series(T) : y = scorer_report(in, T, p, sr)
      BY DEF Sections
    <3> HIDE DEF Pairs, of
    <3>4. ASSUME NEW y \in Sections(in, T) PROVE \E x \in Pairs : y = of[x]
      <4>1. PICK p \in Arms(in), sr \in experiment_series(T) : y = scorer_report(in, T, p, sr)
        BY <3>3
      <4>2. <<p, sr>> \in Pairs /\ y = of[<<p, sr>>]
        BY <3>1, <4>1
      <4> QED BY <4>2
    <3>5. ASSUME NEW x \in Pairs PROVE of[x] \in Sections(in, T)
      BY <3>2, <3>3
    <3> QED BY <3>4, <3>5
  <2>2. of \in Surjection(Pairs, {of[x] : x \in Pairs})
    BY DEF Surjection
  <2>3. IsFiniteSet(Pairs)
    <3>1. IsFiniteSet(Arms(in))
      BY FS_Interval DEF Reading
    <3> QED BY <1>3, <3>1, FS_Product
  <2> HIDE DEF Pairs
  <2> QED BY <2>1, <2>2, <2>3, FS_Surjection
<1>5. ASSUME NEW p, NEW sr
      PROVE  Counted(scorer_report(in, T, p, sr))
  <2> DEFINE mine  == applicable_tasks(in, T, sr[1])
             asked == Asked(T, p, sr, mine)
             D == {x \in T : x.arm = p /\ x.task \in mine /\ x.outcome \in QualityOutcomes}
             f == [t \in D |-> [task |-> t.task, group |-> t.group, outcome |-> t.outcome,
                                latest |-> latest_for(t.scores, sr)]]
  <2>1. f \in Surjection(D, asked)
    BY DEF Surjection, Asked
  <2>2. IsFiniteSet(D)
    BY <1>1, FS_Subset
  <2>3. IsFiniteSet(asked)
    <3> HIDE DEF D, f, asked
    <3> QED BY <2>1, <2>2, FS_Surjection
  <2>4. ASSUME NEW t \in asked, t.latest # None, t.latest.score # None
        PROVE  t.latest.score \in Nat
    <3>1. PICK x \in T : t.latest = latest_for(x.scores, sr)
      BY DEF Asked
    <3>2. x.scores \in SUBSET in.scores
      BY <1>2
    <3>3. PICK row \in x.scores : t.latest = [score |-> row.score, passed |-> row.passed]
      BY <2>4, <3>1, <3>2, LatestIs
    <3>4. t.latest.score = row.score /\ row \in in.scores
      BY <3>2, <3>3
    <3> QED BY <2>4, <3>4 DEF Reading
  <2> HIDE DEF asked
  <2> QED BY <2>3, <2>4, SectionCounted DEF scorer_report, asked
<1> QED BY <1>4, <1>5 DEF Sections, T

\* A series chosen has a section that measured something.
LEMMA ChosenIsMeasured ==
  ASSUME NEW primary, NEW S, choose_metric(primary, S) # None
  PROVE  \E section \in S : section.series = choose_metric(primary, S) /\ section.measured > 0
<1> DEFINE available == {section.series[1] : section \in S}
           metric    == IF primary # None THEN primary
                        ELSE IF Cardinality(available) = 1
                             THEN CHOOSE s \in available : TRUE ELSE None
           rankable  == rankable_series(metric, S)
           judged    == {series \in rankable : series[2] # None}
<1>1. /\ rankable # {}
      /\ choose_metric(primary, S) = IF judged # {} THEN CHOOSE s \in judged : TRUE
                                                    ELSE CHOOSE s \in rankable : TRUE
  BY DEF choose_metric
<1>2. choose_metric(primary, S) \in rankable
  <2>1. judged \subseteq rankable
    OBVIOUS
  <2> HIDE DEF judged, rankable
  <2> QED BY <1>1, <2>1
<1> HIDE DEF metric
<1> QED BY <1>2 DEF rankable_series

\* What is above a section with a mean is above one without a total.
LEMMA AboveNothing ==
  ASSUME NEW a \in Nat, NEW b \in Nat, NEW c \in Nat, NEW d \in Nat, NEW e \in Nat \ {0},
         a * d > c * b
  PROVE  a * e > 0
<1>1. c * b \in Nat
  OBVIOUS
<1>2. a # 0
  BY <1>1
<1>3. a * e >= 1 * e
  BY <1>2
<1> QED BY <1>3

LEMMA RankedBelow ==
  ASSUME NEW S, IsFiniteSet(S), \A s \in S : Counted(s),
         NEW s \in S, s.measured > 0, NEW q \in S, q.mean[2] # 0, q.measured = 0
  PROVE  Cardinality({o \in S : o.mean[2] # 0 /\ Above(o.mean, s.mean)})
           <= Cardinality({o \in S : o.mean[2] # 0 /\ Above(o.mean, q.mean)})
<1> DEFINE above(x) == {o \in S : o.mean[2] # 0 /\ Above(o.mean, x.mean)}
<1>1. ASSUME NEW o \in S, Above(o.mean, s.mean) PROVE Above(o.mean, q.mean)
  <2>1. /\ o.mean[1] \in Nat /\ o.mean[2] \in Nat /\ s.mean[1] \in Nat /\ s.mean[2] \in Nat
        /\ q.mean[1] = 0 /\ q.mean[2] \in Nat \ {0}
    BY DEF Counted
  <2>2. o.mean[1] * q.mean[2] > 0
    BY <1>1, <2>1, AboveNothing DEF Above
  <2>3. 0 * o.mean[2] = 0
    BY <2>1
  <2> QED BY <2>1, <2>2, <2>3 DEF Above
<1>2. above(s) \in SUBSET above(q)
  BY <1>1
<1>3. IsFiniteSet(above(q))
  BY FS_Subset
<1> HIDE DEF above
<1>4. Cardinality(above(s)) <= Cardinality(above(q))
  BY <1>2, <1>3, FS_Subset
<1> QED BY <1>4 DEF above

\* FailingNeverWins, of one report.
MeasuredArms(report) ==
  {section.arm : section \in
    {s \in report.sections : s.series = report.ranking /\ s.measured > 0}}

FairlyRanked(report) ==
  report.ranking # None =>
    /\ MeasuredArms(report) # {}
    /\ \A p \in MeasuredArms(report) : \E place_of \in report.ranks :
         /\ place_of.arm = p
         /\ \A other \in report.ranks :
              other.arm \notin MeasuredArms(report) => place_of.rank <= other.rank

LEMMA ReadingRanks ==
  ASSUME NEW in, Reading(in)
  PROVE  FairlyRanked(build_report(in))
<1> SUFFICES ASSUME NEW report, report = build_report(in), report.ranking # None
             PROVE  FairlyRanked(report)
  BY DEF FairlyRanked
<1> DEFINE S == Sections(in, Trials(in))
           ranking == choose_metric(in.primary, S)
           R == {s \in S : s.series = ranking}
           measured == {section.arm : section \in {s \in S : s.series = ranking /\ s.measured > 0}}
           above(x) == {o \in R : o.mean[2] # 0 /\ Above(o.mean, x.mean)}
<1>1. report.sections = S /\ report.ranking = ranking /\ report.ranks = min_ranks(R)
  BY ReportIs DEF Published
<1>2. IsFiniteSet(S) /\ \A s \in S : Counted(s)
  BY SectionsCounted
<1> HIDE DEF S
<1>3. PICK section \in S : section.series = ranking /\ section.measured > 0
  BY <1>1, ChosenIsMeasured
<1>4. IsFiniteSet(R) /\ \A s \in R : Counted(s)
  BY <1>2, FS_Subset
<1> HIDE DEF ranking
<1>5. ASSUME NEW p \in measured
      PROVE  \E place_of \in min_ranks(R) :
               /\ place_of.arm = p
               /\ \A other \in min_ranks(R) : other.arm \notin measured => place_of.rank <= other.rank
  <2>1. PICK s \in R : s.arm = p /\ s.measured > 0
    OBVIOUS
  <2>2. \A q \in R : q.arm \notin measured => ~(q.measured > 0)
    OBVIOUS
  <2> HIDE DEF R, measured
  <2>3. s.mean[2] # 0
    BY <1>4, <2>1 DEF Counted
  <2> DEFINE ranked(x) == [arm |-> x.arm, rank |-> 1 + Cardinality(above(x))]
  <2>4. min_ranks(R) = {ranked(x) : x \in {y \in R : y.mean[2] # 0}}
    BY DEF min_ranks
  <2>5. ASSUME NEW q \in R, q.mean[2] # 0, q.arm \notin measured
        PROVE  1 + Cardinality(above(s)) <= 1 + Cardinality(above(q))
    <3>1. q.measured = 0
      BY <1>4, <2>2, <2>5 DEF Counted
    <3>2. Cardinality(above(s)) <= Cardinality(above(q))
      BY <1>4, <2>1, <2>5, <3>1, RankedBelow
    <3>3. IsFiniteSet(above(s)) /\ IsFiniteSet(above(q))
      BY <1>4, FS_Subset
    <3> HIDE DEF above
    <3>4. Cardinality(above(s)) \in Nat /\ Cardinality(above(q)) \in Nat
      BY <3>3, FS_CardinalityType
    <3> QED BY <3>2, <3>4
  <2>6. \A x : ranked(x).arm = x.arm /\ ranked(x).rank = 1 + Cardinality(above(x))
    OBVIOUS
  <2> HIDE DEF ranked, above
  <2>7. ranked(s) \in min_ranks(R)
    BY <2>1, <2>3, <2>4
  <2>8. \A other \in min_ranks(R) : other.arm \notin measured => ranked(s).rank <= other.rank
    BY <2>4, <2>5, <2>6
  <2> QED BY <2>1, <2>6, <2>7, <2>8
<1>6. measured # {} /\ MeasuredArms(report) = measured
  BY <1>1, <1>3 DEF MeasuredArms
<1> HIDE DEF measured, R
<1> QED BY <1>1, <1>5, <1>6 DEF FairlyRanked

\* No arm nobody measured is ranked above one somebody did, no measured arm is
\* left out of a ranking and no ranking is made where nobody measured, for
\* every number of arms, cells, scores and judges.
THEOREM NobodyWinsByFailing == Spec => []FailingNeverWins
<1>1. ServedReads => FailingNeverWins
  <2> SUFFICES ASSUME ServedReads PROVE FailingNeverWins
    OBVIOUS
  <2>1. ASSUME NEW read \in BOOLEAN PROVE FairlyRanked(Served(read))
    <3> DEFINE in == report_inputs(read)
    <3>1. Reading(in) /\ Served(read) = build_report(in)
      BY <2>1 DEF ServedReads, Served
    <3> HIDE DEF in
    <3> QED BY <3>1, ReadingRanks
  <2>2. FailingNeverWins <=> \A report \in {Served(read) : read \in BOOLEAN} : FairlyRanked(report)
    BY DEF FailingNeverWins, FairlyRanked, MeasuredArms
  <2> QED BY <2>1, <2>2
<1> QED BY <1>1, InitHolds, StepIInv, ServedReadsHold, PTL DEF Spec

-----------------------------------------------------------------------------
(***************************************************************************)
(* The plan is accounted for.                                              *)
(***************************************************************************)
\* Numbering the members of a set of numbers uses every number to its size.
LEMMA EveryRank ==
  ASSUME NEW n \in Nat, NEW S \in SUBSET (1..n), NEW k \in 1..Cardinality(S)
  PROVE  \E p \in S : Cardinality({q \in S : q <= p}) = k
<1> DEFINE upto(p) == {q \in S : q <= p}
           rank == [p \in S |-> Cardinality(upto(p))]
           size == Cardinality(S)
<1>1. IsFiniteSet(S) /\ size \in Nat
  <2>1. IsFiniteSet(1..n)
    BY FS_Interval
  <2> QED BY <2>1, FS_Subset, FS_CardinalityType
<1>2. ASSUME NEW p \in S
      PROVE  /\ upto(p) \in SUBSET S /\ IsFiniteSet(upto(p)) /\ p \in upto(p)
             /\ Cardinality(upto(p)) \in 1..size
  <2>1. upto(p) \in SUBSET S /\ p \in upto(p)
    OBVIOUS
  <2> HIDE DEF upto
  <2>2. IsFiniteSet(upto(p)) /\ Cardinality(upto(p)) <= size /\ Cardinality(upto(p)) \in Nat
    BY <1>1, <2>1, FS_Subset, FS_CardinalityType
  <2>3. Cardinality(upto(p)) # 0
    BY <2>1, <2>2, FS_EmptySet
  <2> QED BY <1>1, <2>1, <2>2, <2>3
<1>3. ASSUME NEW p \in S, NEW q \in S, p < q
      PROVE  Cardinality(upto(p)) # Cardinality(upto(q))
  <2>1. upto(p) \in SUBSET upto(q) /\ q \in upto(q) /\ q \notin upto(p)
    <3>1. \A x \in S : x \in Nat
      OBVIOUS
    <3>2. (\A x \in S : x <= p => x <= q) /\ q <= q /\ ~(q <= p)
      BY <1>3, <3>1
    <3> QED BY <3>2
  <2> HIDE DEF upto
  <2> QED BY <1>2, <2>1, FS_Subset
<1>4. rank \in Injection(S, 1..size)
  <2>1. \A p, q \in S : rank[p] = rank[q] => p = q
    <3>1. \A p, q \in S : p < q \/ q < p \/ p = q
      OBVIOUS
    <3> HIDE DEF upto
    <3> QED BY <1>3, <3>1
  <2>2. rank \in [S -> 1..size]
    <3> HIDE DEF upto
    <3> QED BY <1>2
  <2> HIDE DEF rank
  <2> QED BY <2>1, <2>2 DEF Injection, IsInjective
<1>5. IsFiniteSet(1..size) /\ Cardinality(1..size) = size
  BY <1>1, FS_Interval
<1>6. rank \in Surjection(S, 1..size)
  <2> HIDE DEF rank
  <2> QED BY <1>4, <1>5, FS_Injection
<1>7. \E p \in S : rank[p] = k
  <2> HIDE DEF rank
  <2> QED BY <1>6 DEF Surjection
<1> QED BY <1>7

LEMMA CellFinite ==
  ASSUME NEW in, Reading(in), NEW group
  PROVE  /\ IsFiniteSet(Cell(in, group))
         /\ \A m : IsFiniteSet(Of(Cell(in, group), m))
<1>1. IsFiniteSet(Cell(in, group))
  BY FS_Subset DEF Reading, Cell
<1> QED BY <1>1, FS_Subset DEF Of

\* Where the positions do not decide, a row's arm has its place among the
\* model's slots.
LEMMA PlaceAmongSlots ==
  ASSUME NEW in, Reading(in), NEW group, NEW row \in Cell(in, group),
         ~Usable(in, Cell(in, group), row.model)
  PROVE  LET mine == Of(Cell(in, group), row.model)
             slots == Slots(in, row.model)
             nth == Cardinality({x \in mine : x.at <= row.at})
         IN  /\ ArmOf(in, group, row) = None \/ /\ ArmOf(in, group, row) \in slots
                                                /\ Cardinality({q \in slots : q <= ArmOf(in, group, row)}) = nth
             /\ (\E p \in slots : Cardinality({q \in slots : q <= p}) = nth)
                  => ArmOf(in, group, row) \in slots
<1> DEFINE mine == Of(Cell(in, group), row.model)
           slots == Slots(in, row.model)
           nth == Cardinality({x \in mine : x.at <= row.at})
           left == {p \in slots : Cardinality({q \in slots : q <= p}) = nth}
<1>1. ArmOf(in, group, row) = IF left # {} THEN Max(left) ELSE None
  BY DEF ArmOf, cell_arm
<1>2. PICK n \in Nat : left \in SUBSET (1..n)
  BY DEF Reading, Slots
<1>3. left # {} => Max(left) \in left
  <2> HIDE DEF left
  <2> QED BY <1>2, Extremes
<1>4. CASE left # {}
  <2>1. ArmOf(in, group, row) \in left
    BY <1>1, <1>3, <1>4
  <2> QED BY <2>1
<1>5. CASE left = {}
  BY <1>1, <1>5
<1> QED BY <1>4, <1>5

\* A row's arm is a slot of its model, or none; and no two rows of a cell
\* have one arm.
LEMMA ArmsTellApart ==
  ASSUME NEW in, Reading(in), NEW group
  PROVE  /\ \A row \in Cell(in, group) : ArmOf(in, group, row) \in Slots(in, row.model) \cup {None}
         /\ \A row, other \in Cell(in, group) :
              ArmOf(in, group, row) = ArmOf(in, group, other) /\ ArmOf(in, group, row) # None
              => row = other
<1> DEFINE arm(row) == ArmOf(in, group, row)
           mine(m) == Of(Cell(in, group), m)
           before(row) == {x \in mine(row.model) : x.at <= row.at}
<1>1. ASSUME NEW row \in Cell(in, group), Usable(in, Cell(in, group), row.model)
      PROVE  arm(row) = row.position /\ arm(row) \in Slots(in, row.model) /\ row \in mine(row.model)
  BY <1>1 DEF ArmOf, cell_arm, Usable, Of
<1>2. ASSUME NEW row \in Cell(in, group) PROVE arm(row) \in Slots(in, row.model) \cup {None}
  BY <1>1, PlaceAmongSlots
<1>3. ASSUME NEW row \in Cell(in, group), NEW other \in Cell(in, group),
             arm(row) = arm(other), arm(row) # None
      PROVE  row = other
  <2>1. row.model = other.model
    <3>1. arm(row) \in Slots(in, row.model) /\ arm(row) \in Slots(in, other.model)
      BY <1>2, <1>3
    <3> HIDE DEF arm
    <3> QED BY <3>1 DEF Slots
  <2>2. CASE Usable(in, Cell(in, group), row.model)
    <3>1. row.position = other.position /\ row \in mine(row.model) /\ other \in mine(row.model)
      BY <1>1, <1>3, <2>1, <2>2
    <3> QED BY <2>2, <3>1 DEF Usable
  <2>3. CASE ~Usable(in, Cell(in, group), row.model)
    <3>1. Cardinality(before(row)) = Cardinality(before(other))
      <4>1. Cardinality({q \in Slots(in, row.model) : q <= arm(row)}) = Cardinality(before(row))
        BY <1>3, <2>3, PlaceAmongSlots
      <4>2. Cardinality({q \in Slots(in, other.model) : q <= arm(other)}) = Cardinality(before(other))
        BY <1>3, <2>1, <2>3, PlaceAmongSlots
      <4> HIDE DEF arm, before
      <4> QED BY <1>3, <2>1, <4>1, <4>2
    <3>2. /\ row \in before(row) /\ other \in before(other)
          /\ IsFiniteSet(before(row)) /\ IsFiniteSet(before(other))
          /\ row.at \in Nat /\ other.at \in Nat
      <4>1. /\ row.at \in Nat /\ other.at \in Nat
            /\ row \in mine(row.model) /\ other \in mine(row.model)
        BY <2>1 DEF Reading, Cell, Of
      <4>2. IsFiniteSet(mine(row.model))
        BY CellFinite
      <4>3. before(row) \in SUBSET mine(row.model) /\ before(other) \in SUBSET mine(row.model)
        BY <2>1
      <4>4. IsFiniteSet(before(row)) /\ IsFiniteSet(before(other))
        <5> HIDE DEF before, mine
        <5> QED BY <4>2, <4>3, FS_Subset
      <4> QED BY <2>1, <4>1, <4>4
    <3>3. ASSUME NEW a \in Cell(in, group), NEW b \in Cell(in, group), a.model = b.model,
                 a.at \in Nat, b.at \in Nat, a.at < b.at, b \in before(b), IsFiniteSet(before(b)),
                 Cardinality(before(a)) = Cardinality(before(b))
          PROVE  FALSE
      <4>1. before(a) \in SUBSET before(b) /\ b \notin before(a)
        BY <3>3 DEF Reading, Cell, Of
      <4> HIDE DEF before
      <4> QED BY <3>3, <4>1, FS_Subset
    <3>4. row.at = other.at
      <4> HIDE DEF before
      <4> QED BY <2>1, <3>1, <3>2, <3>3
    <3> QED BY <3>4 DEF Reading, Cell
  <2> QED BY <2>2, <2>3
<1> QED BY <1>2, <1>3

\* As many rows of the model as it has slots, or fewer, all have an arm.
LEMMA RowHasArm ==
  ASSUME NEW in, Reading(in), NEW group, NEW row \in Cell(in, group),
         Usable(in, Cell(in, group), row.model)
           \/ Cardinality(Of(Cell(in, group), row.model)) <= Cardinality(Slots(in, row.model))
  PROVE  ArmOf(in, group, row) \in Slots(in, row.model)
<1> DEFINE mine == Of(Cell(in, group), row.model)
           slots == Slots(in, row.model)
           before == {x \in mine : x.at <= row.at}
<1>1. CASE Usable(in, Cell(in, group), row.model)
  BY <1>1 DEF ArmOf, cell_arm, Usable, Of
<1>2. CASE ~Usable(in, Cell(in, group), row.model)
  <2>1. /\ before \in SUBSET mine /\ row \in before /\ IsFiniteSet(mine)
    <3>1. row.at \in Nat /\ row \in mine
      BY DEF Reading, Cell, Of
    <3> QED BY <3>1, CellFinite
  <2>2. PICK n \in Nat : slots \in SUBSET (1..n)
    BY DEF Reading, Slots
  <2>3. Cardinality(mine) <= Cardinality(slots)
    BY <1>2
  <2> HIDE DEF mine, before, slots
  <2>4. IsFiniteSet(slots) /\ Cardinality(slots) \in Nat
    <3>1. IsFiniteSet(1..n)
      BY FS_Interval
    <3> QED BY <2>2, <3>1, FS_Subset, FS_CardinalityType
  <2>5. /\ IsFiniteSet(before) /\ Cardinality(before) <= Cardinality(mine)
        /\ Cardinality(before) \in Nat /\ Cardinality(mine) \in Nat
    BY <2>1, FS_Subset, FS_CardinalityType
  <2>6. Cardinality(before) # 0
    BY <2>1, <2>5, FS_EmptySet
  <2>7. Cardinality(before) \in 1..Cardinality(slots)
    BY <2>3, <2>4, <2>5, <2>6
  <2>8. \E p \in slots : Cardinality({q \in slots : q <= p}) = Cardinality(before)
    BY <2>2, <2>7, EveryRank
  <2> QED BY <1>2, <2>8, PlaceAmongSlots DEF slots, before, mine
<1> QED BY <1>1, <1>2

\* A recorded cell has exactly one trial of every arm.
LEMMA OneTrialEach ==
  ASSUME NEW in, Reading(in), NEW group, NEW p \in Arms(in)
  PROVE  /\ \E t \in CellTrials(in, group) : t.arm = p
         /\ \A t, u \in CellTrials(in, group) : t.arm = p /\ u.arm = p => t = u
         /\ \A t \in CellTrials(in, group) : t.group = group.id
<1> DEFINE arm(row) == ArmOf(in, group, row)
           ran(row) == RowTrial(in, group, row, arm(row))
           missing(q) == MissingTrial(group, q)
<1>1. /\ \A row : ran(row).arm = arm(row) /\ ran(row).group = group.id
      /\ \A q : missing(q).arm = q /\ missing(q).group = group.id
  BY DEF RowTrial, MissingTrial
<1>2. \A t : t \in CellTrials(in, group) <=>
               \/ \E row \in Cell(in, group) : arm(row) # None /\ t = ran(row)
               \/ \E q \in Arms(in) : (\A row \in Cell(in, group) : arm(row) # q) /\ t = missing(q)
  BY CellTrialsAre
<1>3. \A row, other \in Cell(in, group) : arm(row) = arm(other) /\ arm(row) # None => row = other
  BY ArmsTellApart
<1>4. p # None
  BY ReportAssumption DEF Reading
<1> HIDE DEF arm, ran, missing
<1>5. \E t \in CellTrials(in, group) : t.arm = p
  <2>1. CASE \E row \in Cell(in, group) : arm(row) = p
    BY <1>1, <1>2, <1>4, <2>1
  <2>2. CASE \A row \in Cell(in, group) : arm(row) # p
    BY <1>1, <1>2, <2>2
  <2> QED BY <2>1, <2>2
<1>6. ASSUME NEW t \in CellTrials(in, group), NEW u \in CellTrials(in, group), t.arm = p, u.arm = p
      PROVE  t = u
  <2>1. CASE \E row \in Cell(in, group) : arm(row) = p
    <3>1. PICK row \in Cell(in, group) : arm(row) = p
      BY <2>1
    <3>2. t = ran(row) /\ u = ran(row)
      BY <1>1, <1>2, <1>3, <1>4, <1>6, <3>1
    <3> QED BY <3>2
  <2>2. CASE \A row \in Cell(in, group) : arm(row) # p
    <3>1. t = missing(p) /\ u = missing(p)
      BY <1>1, <1>2, <1>6, <2>2
    <3> QED BY <3>1
  <2> QED BY <2>1, <2>2
<1>7. \A t \in CellTrials(in, group) : t.group = group.id
  BY <1>1, <1>2
<1> QED BY <1>5, <1>6, <1>7

\* So the trials of an arm are as many as the cells recorded.
LEMMA TrialsPerArm ==
  ASSUME NEW in, Reading(in), NEW p \in Arms(in)
  PROVE  LET published == {[arm |-> t.arm, group |-> t.group, outcome |-> t.outcome,
                            row |-> t.row] : t \in Trials(in)}
         IN  Cardinality({trial \in published : trial.arm = p}) = Cardinality(recorded_groups(in))
<1> DEFINE short(t) == [arm |-> t.arm, group |-> t.group, outcome |-> t.outcome, row |-> t.row]
           mine == {trial \in {short(t) : t \in Trials(in)} : trial.arm = p}
           recorded == recorded_groups(in)
           the(group) == CHOOSE t \in CellTrials(in, group) : t.arm = p
           f == [group \in recorded |-> short(the(group))]
<1>1. \A t : short(t).arm = t.arm /\ short(t).group = t.group
  OBVIOUS
<1>2. ASSUME NEW group \in recorded
      PROVE  /\ the(group) \in CellTrials(in, group) /\ the(group).arm = p
             /\ the(group).group = group.id /\ the(group) \in Trials(in)
             /\ \A t \in CellTrials(in, group) : t.arm = p => t = the(group)
  <2>1. the(group) \in CellTrials(in, group) /\ the(group).arm = p
    <3>1. \E t \in CellTrials(in, group) : t.arm = p
      BY OneTrialEach
    <3> QED BY <3>1
  <2>2. the(group) \in Trials(in)
    <3> HIDE DEF the
    <3> QED BY <2>1, TrialsAre DEF recorded_groups
  <2> HIDE DEF the
  <2> QED BY <2>1, <2>2, OneTrialEach
<1> HIDE DEF the, short
<1>3. f \in Injection(recorded, mine)
  <2>1. f \in [recorded -> mine]
    BY <1>1, <1>2
  <2>2. \A g, h \in recorded : f[g] = f[h] => g = h
    <3>1. \A g \in recorded : f[g].group = g.id
      BY <1>1, <1>2
    <3>2. \A g, h \in recorded : g.id = h.id => g = h
      BY DEF Reading, recorded_groups
    <3> HIDE DEF f
    <3> QED BY <3>1, <3>2
  <2> HIDE DEF f
  <2> QED BY <2>1, <2>2 DEF Injection, IsInjective
<1>4. f \in Surjection(recorded, mine)
  <2>1. ASSUME NEW trial \in mine PROVE \E g \in recorded : f[g] = trial
    <3>1. PICK t \in Trials(in) : trial = short(t)
      OBVIOUS
    <3>2. PICK g \in in.groups : Cell(in, g) # {} /\ t \in CellTrials(in, g)
      BY TrialsAre
    <3>3. g \in recorded /\ t.arm = p
      BY <1>1, <3>1, <3>2 DEF recorded_groups
    <3>4. f[g] = trial
      BY <1>2, <3>1, <3>2, <3>3
    <3> QED BY <3>3, <3>4
  <2> HIDE DEF f
  <2> QED BY <1>3, <2>1 DEF Surjection, Injection
<1>5. IsFiniteSet(recorded)
  BY FS_Subset DEF Reading, recorded_groups
<1> HIDE DEF f
<1>6. Cardinality(mine) = Cardinality(recorded)
  BY <1>3, <1>4, <1>5, FS_Surjection
<1> QED BY <1>6 DEF short

\* Each arm's trials and the cells that never ran make the plan.
LEMMA CellsAddUp ==
  ASSUME IInv, ServedReads, NEW p \in Arms(experiment)
  PROVE  Cardinality({trial \in Served(FALSE).trials : trial.arm = p}) + Served(FALSE).not_run
           = Len(Cells)
<1> DEFINE in == report_inputs(FALSE)
           recorded == Cardinality(recorded_groups(in))
           published == {[arm |-> t.arm, group |-> t.group, outcome |-> t.outcome,
                          row |-> t.row] : t \in Trials(in)}
           of == [g \in 1..Len(groups) |-> [id |-> g, task |-> groups[g].task]]
           n == Len(groups)
<1>1. /\ Reading(in) /\ in.lineup = experiment.lineup /\ in.cells = Len(Cells)
      /\ in.groups = {[id |-> g, task |-> groups[g].task] : g \in DOMAIN groups}
  BY DEF ServedReads, report_inputs, Inputs
<1>2. /\ n \in Nat /\ DOMAIN groups = 1..n /\ n <= Len(Cells) /\ Len(Cells) \in Nat
  BY Typed, ThePlan DEF IInv, TypeOK
<1>3. /\ Served(FALSE).trials = published
      /\ Served(FALSE).not_run = IF in.cells > recorded THEN in.cells - recorded ELSE 0
  BY ReportIs DEF Served, Published
<1>4. p \in Arms(in)
  BY <1>1 DEF Arms
<1>5. recorded \in Nat /\ recorded <= n
  <2>1. of \in Surjection(1..n, in.groups)
    BY <1>1, <1>2 DEF Surjection
  <2>2. IsFiniteSet(1..n) /\ Cardinality(1..n) = n
    <3> HIDE DEF n
    <3>1. n \in Nat
      BY <1>2
    <3> QED BY <3>1, FS_Interval
  <2> HIDE DEF in, of
  <2>3. IsFiniteSet(in.groups) /\ Cardinality(in.groups) <= n
    BY <2>1, <2>2, FS_Surjection
  <2>4. recorded_groups(in) \in SUBSET in.groups
    BY DEF recorded_groups
  <2>5. /\ recorded \in Nat /\ recorded <= Cardinality(in.groups)
        /\ Cardinality(in.groups) \in Nat
    BY <2>3, <2>4, FS_Subset, FS_CardinalityType
  <2> QED BY <1>2, <2>3, <2>5
<1> HIDE DEF in
<1>6. Cardinality({trial \in published : trial.arm = p}) = recorded
  BY <1>1, <1>4, TrialsPerArm
<1>7. {trial \in Served(FALSE).trials : trial.arm = p} = {trial \in published : trial.arm = p}
  BY <1>3, Zenon
<1> HIDE DEF recorded, published
<1>8. PICK c \in Nat, d \in Nat : c = Len(Cells) /\ d = recorded /\ d <= c
  BY <1>2, <1>5
<1>9. Served(FALSE).not_run = IF c > d THEN c - d ELSE 0
  BY <1>1, <1>3, <1>8, Zenon
<1>10. \A x : x = (IF c > d THEN c - d ELSE 0) => d + x = c
  BY <1>8
<1>11. d + Served(FALSE).not_run = c
  BY <1>9, <1>10, Zenon
<1> QED BY <1>6, <1>7, <1>8, <1>11, Zenon

\* What a reading publishes of a row that has an arm.
LEMMA RowPublished ==
  ASSUME NEW in, Reading(in), NEW group \in in.groups, NEW row \in Cell(in, group),
         ArmOf(in, group, row) # None
  PROVE  LET published == {[arm |-> t.arm, group |-> t.group, outcome |-> t.outcome,
                            row |-> t.row] : t \in Trials(in)}
             trial == [arm |-> ArmOf(in, group, row), group |-> group.id,
                       outcome |-> trial_outcome(row), row |-> row.id]
         IN  {x \in published : x.row = row.id} = {trial}
<1> DEFINE short(t) == [arm |-> t.arm, group |-> t.group, outcome |-> t.outcome, row |-> t.row]
           trial == [arm |-> ArmOf(in, group, row), group |-> group.id,
                     outcome |-> trial_outcome(row), row |-> row.id]
           ran == RowTrial(in, group, row, ArmOf(in, group, row))
           published == {short(t) : t \in Trials(in)}
<1>1. short(ran) = trial
  BY DEF RowTrial
<1>2. ran \in Trials(in)
  <2>1. ran \in CellTrials(in, group)
    BY CellTrialsAre
  <2> HIDE DEF ran
  <2> QED BY <2>1, TrialsAre
<1>3. ASSUME NEW t \in Trials(in), t.row = row.id PROVE t = ran
  <2>1. PICK g \in in.groups : t \in CellTrials(in, g)
    BY TrialsAre
  <2>2. \A q : MissingTrial(g, q).row # row.id
    BY ReportAssumption DEF MissingTrial, Reading, Cell
  <2>3. PICK x \in Cell(in, g) : t = RowTrial(in, g, x, ArmOf(in, g, x))
    BY <1>3, <2>1, <2>2, CellTrialsAre
  <2>4. x.id = row.id
    BY <1>3, <2>3 DEF RowTrial
  <2>5. x = row
    BY <2>4 DEF Reading, Cell
  <2>6. g = group
    BY <2>5 DEF Reading, Cell
  <2> QED BY <2>3, <2>5, <2>6
<1>4. \A t : short(t).row = t.row
  OBVIOUS
<1>5. trial.row = row.id
  OBVIOUS
<1> HIDE DEF short, trial, ran
<1>6. {x \in published : x.row = row.id} = {trial}
  BY <1>1, <1>2, <1>3, <1>4, <1>5
<1> QED BY <1>6 DEF short, trial

\* In a cell no hand has touched, each model has a row for each of its slots
\* at most, and where the build places arms by themselves the positions
\* recorded are the arms.
LEMMA Untouched ==
  ASSUME IInv, NEW in, Reading(in), NEW at, in.lineup = experiment.lineup,
         in.rows = Rows(at), NEW r \in DOMAIN results,
         \A q \in DOMAIN results : results[q].group = results[r].group => results[q].arm # None,
         NEW group, group.id = results[r].group,
         NEW row \in Cell(in, group), row.id = r
  PROVE  /\ ArmOf(in, group, row) \in Slots(in, results[r].model)
         /\ ~experiment.legacy => /\ Usable(in, Cell(in, group), row.model)
                                  /\ ArmOf(in, group, row) = results[r].arm
<1> DEFINE mine == Of(Cell(in, group), row.model)
           slots == Slots(in, row.model)
           f == [x \in mine |-> results[x.id].arm]
<1>1. /\ DOMAIN results = 1..Len(results) /\ experiment \in Experiments
      /\ \A q \in DOMAIN results : results[q].arm \in Arms(experiment) \cup {None}
      /\ Arms(in) = Arms(experiment) /\ \A m : Slots(in, m) = Slots(experiment, m)
  <2>1. /\ DOMAIN results = 1..Len(results) /\ experiment \in Experiments
        /\ \A q \in DOMAIN results : results[q].arm \in Arms(experiment) \cup {None}
    BY Typed DEF IInv, TypeOK, RowSet
  <2>2. Arms(in) = Arms(experiment) /\ \A m : Slots(in, m) = Slots(experiment, m)
    BY DEF Arms, Slots
  <2> QED BY <2>1, <2>2
<1>2. ASSUME NEW x \in in.rows
      PROVE  /\ x.id \in DOMAIN results /\ x.group = results[x.id].group
             /\ x.model = results[x.id].model /\ x.position = results[x.id].position
  BY <1>2 DEF Rows
<1>3. ASSUME NEW x \in Cell(in, group)
      PROVE  /\ x.id \in DOMAIN results /\ results[x.id].group = results[r].group
             /\ results[x.id].arm # None /\ results[x.id].arm \in Arms(experiment)
             /\ x.model = experiment.lineup[results[x.id].arm]
             /\ x.position = row_position(results[x.id].arm)
  <2>1. x \in in.rows /\ x.group = group.id
    BY DEF Cell
  <2>2. /\ x.id \in DOMAIN results /\ results[x.id].group = results[r].group
        /\ x.model = results[x.id].model /\ x.position = results[x.id].position
    BY <1>2, <2>1
  <2>3. results[x.id].arm # None
    BY <2>2
  <2> QED BY <1>1, <2>2, <2>3 DEF IInv, RowsAreArms
<1>4. ASSUME NEW x \in Cell(in, group), NEW y \in Cell(in, group),
             results[x.id].arm = results[y.id].arm
      PROVE  x = y
  <2>1. x.id = y.id
    BY <1>3, <1>4 DEF IInv, TurnsAreTaken
  <2> QED BY <2>1 DEF Reading, Cell
<1>5. ASSUME NEW x \in mine PROVE x \in Cell(in, group) /\ results[x.id].arm \in slots
  BY <1>1, <1>3 DEF Of, Slots
<1>6. Cardinality(mine) <= Cardinality(slots)
  <2>1. f \in Injection(mine, slots)
    <3>1. \A x, y \in mine : f[x] = f[y] => x = y
      BY <1>4, <1>5
    <3>2. f \in [mine -> slots]
      BY <1>5
    <3> HIDE DEF mine, f, slots
    <3> QED BY <3>1, <3>2 DEF Injection, IsInjective
  <2>2. IsFiniteSet(slots)
    <3>1. IsFiniteSet(Arms(in))
      BY FS_Interval DEF Reading
    <3> QED BY <3>1, FS_Subset DEF Slots
  <2> HIDE DEF f, mine, slots
  <2> QED BY <2>1, <2>2, FS_Injection
<1>7. row.model = results[r].model
  BY <1>2 DEF Cell
<1>8. ArmOf(in, group, row) \in Slots(in, results[r].model)
  BY <1>6, <1>7, RowHasArm
<1>9. ASSUME ~experiment.legacy
      PROVE  Usable(in, Cell(in, group), row.model) /\ ArmOf(in, group, row) = results[r].arm
  <2>1. \A x \in Cell(in, group) : x.position = results[x.id].arm
    BY <1>3, <1>9 DEF row_position
  <2>2. Usable(in, Cell(in, group), row.model)
    BY <1>4, <1>5, <2>1 DEF Usable
  <2> QED BY <2>1, <2>2 DEF ArmOf, cell_arm
<1> QED BY <1>8, <1>9

\* Every arm's outcomes and what never ran add up to the plan's cells, and
\* each trial of a cell no hand has touched is counted once, as its own arm's
\* or a copy's: for every plan, lineup and number of rows filed by hand.
THEOREM ThePlanIsAccounted == Spec => []PlanIsAccounted
<1>1. IInv /\ ServedReads => PlanIsAccounted
  <2> SUFFICES ASSUME IInv, ServedReads PROVE PlanIsAccounted
    OBVIOUS
  <2> DEFINE in == report_inputs(FALSE)
             at == [r \in DOMAIN results |-> r]
             published == {[arm |-> t.arm, group |-> t.group, outcome |-> t.outcome,
                            row |-> t.row] : t \in Trials(in)}
             touched == {results[r].group : r \in ByHand}
             of(r) == {trial \in Served(FALSE).trials : trial.row = r}
  <2>1. /\ Reading(in) /\ in.lineup = experiment.lineup /\ in.rows = Rows(at)
        /\ in.groups = {[id |-> g, task |-> groups[g].task] : g \in DOMAIN groups}
    BY DEF ServedReads, report_inputs, Inputs
  <2>2. Served(FALSE).trials = published
    BY ReportIs DEF Served, Published
  <2>3. ASSUME NEW r \in DOMAIN results, results[r].group \notin touched
        PROVE  \E trial \in Served(FALSE).trials :
                 /\ of(r) = {trial}
                 /\ experiment.lineup[trial.arm] = results[r].model
                 /\ ~experiment.legacy => trial.arm = results[r].arm
    <3> HIDE DEF in
    <3>1. \A q \in DOMAIN results : results[q].group = results[r].group => results[q].arm # None
      BY <2>3 DEF ByHand
    <3>2. PICK row \in in.rows : row.id = r /\ row.group = results[r].group
      <4> DEFINE x == [id |-> r, group |-> results[r].group, at |-> at[r],
                       model |-> results[r].model, position |-> results[r].position,
                       error |-> results[r].error, sent |-> results[r].sent]
      <4>1. x \in in.rows
        BY <2>1 DEF Rows
      <4>2. x.id = r /\ x.group = results[r].group
        OBVIOUS
      <4> HIDE DEF x
      <4> QED BY <4>1, <4>2
    <3>3. PICK group \in in.groups : group.id = row.group
      BY <2>1 DEF Reading
    <3>4. row \in Cell(in, group) /\ group.id = results[r].group
      BY <3>2, <3>3 DEF Cell
    <3>5. /\ ArmOf(in, group, row) \in Slots(in, results[r].model)
          /\ ~experiment.legacy => ArmOf(in, group, row) = results[r].arm
      BY <2>1, <3>1, <3>2, <3>4, Untouched
    <3>6. /\ ArmOf(in, group, row) # None
          /\ experiment.lineup[ArmOf(in, group, row)] = results[r].model
      <4> DEFINE arm == ArmOf(in, group, row)
      <4>1. arm \in Slots(in, results[r].model)
        BY <3>5
      <4> HIDE DEF arm
      <4>2. arm \in Nat
        BY <2>1, <4>1 DEF Slots, Reading
      <4>3. arm # None /\ experiment.lineup[arm] = results[r].model
        BY <2>1, <4>1, <4>2, ReportAssumption DEF Slots
      <4> QED BY <4>3 DEF arm
    <3> DEFINE trial == [arm |-> ArmOf(in, group, row), group |-> group.id,
                         outcome |-> trial_outcome(row), row |-> row.id]
    <3>7. {x \in published : x.row = row.id} = {trial}
      BY <2>1, <3>4, <3>6, RowPublished
    <3>8. trial.arm = ArmOf(in, group, row)
      OBVIOUS
    <3> HIDE DEF trial, published
    <3>9. of(r) = {trial} /\ trial \in Served(FALSE).trials
      BY <2>2, <3>2, <3>7
    <3> QED BY <3>5, <3>6, <3>8, <3>9
  <2>4. \A p \in Arms(experiment) :
          Cardinality({trial \in Served(FALSE).trials : trial.arm = p}) + Served(FALSE).not_run
            = Len(Cells)
    BY CellsAddUp
  <2>5. \A report : report \in {Served(FALSE)} <=> report = Served(FALSE)
    OBVIOUS
  <2> HIDE DEF in, published
  <2> QED BY <2>3, <2>4, <2>5, Zenon DEF PlanIsAccounted
<1> QED BY <1>1, InitHolds, StepIInv, ServedReadsHold, PTL DEF Spec

-----------------------------------------------------------------------------
(***************************************************************************)
(* The report rebuilt.                                                     *)
(***************************************************************************)
\* Two readings of the same rows, in the orders each has them: f takes a row
\* of the one to what the other has of it.
SameRows(in, jn, f) ==
  /\ in.lineup = jn.lineup /\ in.groups = jn.groups /\ in.scores = jn.scores
  /\ f \in Surjection(in.rows, jn.rows)
  /\ \A row \in in.rows :
       /\ f[row].id = row.id /\ f[row].group = row.group /\ f[row].model = row.model
       /\ f[row].position = row.position /\ f[row].error = row.error /\ f[row].sent = row.sent

\* The orders decide alike where the positions do not.
SameOrder(in, f, group, row) ==
  Usable(in, Cell(in, group), row.model)
    \/ \A other \in Of(Cell(in, group), row.model) : other.at <= row.at <=> f[other].at <= f[row].at

LEMMA SameCells ==
  ASSUME NEW in, Reading(in), NEW jn, NEW f, SameRows(in, jn, f), NEW group
  PROVE  /\ \A x \in Cell(in, group) : f[x] \in Cell(jn, group)
         /\ \A y \in Cell(jn, group) : \E x \in Cell(in, group) : y = f[x]
         /\ \A m : Usable(jn, Cell(jn, group), m) <=> Usable(in, Cell(in, group), m)
<1>1. ASSUME NEW x \in Cell(in, group)
      PROVE  /\ f[x] \in Cell(jn, group) /\ x \in in.rows
             /\ f[x].model = x.model /\ f[x].position = x.position
  BY DEF SameRows, Surjection, Cell
<1>2. ASSUME NEW y \in Cell(jn, group) PROVE \E x \in Cell(in, group) : y = f[x]
  <2>1. PICK x \in in.rows : y = f[x]
    BY DEF SameRows, Surjection, Cell
  <2> QED BY <2>1 DEF SameRows, Cell
<1>3. \A m : Slots(in, m) = Slots(jn, m)
  BY DEF SameRows, Slots, Arms
<1>4. ASSUME NEW m, Usable(in, Cell(in, group), m) PROVE Usable(jn, Cell(jn, group), m)
  BY <1>1, <1>2, <1>3, <1>4 DEF Usable, Of
<1>5. ASSUME NEW m, Usable(jn, Cell(jn, group), m) PROVE Usable(in, Cell(in, group), m)
  <2>1. \A x, y \in Cell(in, group) : f[x] = f[y] => x.id = y.id
    BY <1>1 DEF SameRows
  <2>2. \A x \in Of(Cell(in, group), m) : x.position \in Slots(in, m)
    BY <1>1, <1>3, <1>5 DEF Usable, Of
  <2>3. ASSUME NEW x \in Of(Cell(in, group), m), NEW y \in Of(Cell(in, group), m),
               x.position = y.position
        PROVE  x = y
    <3>1. x \in Cell(in, group) /\ y \in Cell(in, group) /\ x.model = m /\ y.model = m
      BY DEF Of
    <3>2. f[x] \in Of(Cell(jn, group), m) /\ f[y] \in Of(Cell(jn, group), m)
      BY <1>1, <3>1 DEF Of
    <3>3. f[x].position = f[y].position
      BY <1>1, <2>3, <3>1
    <3>4. f[x] = f[y]
      BY <1>5, <3>2, <3>3 DEF Usable
    <3>5. x.id = y.id
      BY <2>1, <3>1, <3>4
    <3> QED BY <1>1, <3>1, <3>5 DEF Reading
  <2> QED BY <2>2, <2>3 DEF Usable
<1> QED BY <1>1, <1>2, <1>4, <1>5

LEMMA SameArms ==
  ASSUME NEW in, Reading(in), NEW jn, NEW f, SameRows(in, jn, f), NEW group,
         NEW row \in Cell(in, group), SameOrder(in, f, group, row)
  PROVE  ArmOf(jn, group, f[row]) = ArmOf(in, group, row)
<1> DEFINE m == row.model
           mine == Of(Cell(in, group), m)
           yours == Of(Cell(jn, group), m)
           S == {x \in mine : x.at <= row.at}
           T == {y \in yours : y.at <= f[row].at}
           g == [x \in S |-> f[x]]
<1>1. /\ f[row].model = m /\ f[row].position = row.position
      /\ \A x \in Cell(in, group) : f[x] \in Cell(jn, group) /\ f[x].model = x.model /\ f[x].id = x.id
      /\ \A y \in Cell(jn, group) : \E x \in Cell(in, group) : y = f[x]
      /\ Usable(jn, Cell(jn, group), m) <=> Usable(in, Cell(in, group), m)
  <2>1. \A x \in Cell(in, group) : /\ f[x].model = x.model /\ f[x].id = x.id
                                   /\ f[x].position = x.position
    BY DEF SameRows, Cell
  <2>2. /\ \A x \in Cell(in, group) : f[x] \in Cell(jn, group)
        /\ \A y \in Cell(jn, group) : \E x \in Cell(in, group) : y = f[x]
        /\ Usable(jn, Cell(jn, group), m) <=> Usable(in, Cell(in, group), m)
    BY SameCells
  <2> QED BY <2>1, <2>2
<1>2. Slots(in, m) = Slots(jn, m)
  BY DEF SameRows, Slots, Arms
<1>3. CASE Usable(in, Cell(in, group), m)
  BY <1>1, <1>3 DEF ArmOf, cell_arm
<1>4. CASE ~Usable(in, Cell(in, group), m)
  <2>1. \A x \in mine : x.at <= row.at <=> f[x].at <= f[row].at
    BY <1>4 DEF SameOrder
  <2>2. \A x \in mine : f[x] \in yours /\ f[x].id = x.id
    BY <1>1 DEF Of
  <2>3. \A y \in yours : \E x \in mine : y = f[x]
    BY <1>1 DEF Of
  <2>4. \A x, y \in mine : x.id = y.id => x = y
    BY DEF Reading, Cell, Of
  <2>5. IsFiniteSet(mine)
    BY CellFinite
  <2> HIDE DEF mine, yours
  <2>6. IsFiniteSet(S)
    BY <2>5, FS_Subset
  <2>7. g \in Bijection(S, T)
    <3>1. g \in [S -> T]
      BY <2>1, <2>2
    <3>2. \A x, y \in S : g[x] = g[y] => x = y
      BY <2>2, <2>4
    <3>3. \A y \in T : \E x \in S : g[x] = y
      BY <2>1, <2>3
    <3> HIDE DEF g, S, T
    <3> QED BY <3>1, <3>2, <3>3 DEF Bijection, Injection, Surjection, IsInjective
  <2>8. Cardinality(S) = Cardinality(T)
    <3> HIDE DEF g, S, T
    <3>1. ExistsBijection(S, T)
      BY <2>7 DEF ExistsBijection
    <3> QED BY <2>6, <3>1, FS_Bijection
  <2> DEFINE left(n) == {p \in Slots(in, m) : Cardinality({q \in Slots(in, m) : q <= p}) = n}
  <2>9. ArmOf(in, group, row) = IF left(Cardinality(S)) # {} THEN Max(left(Cardinality(S))) ELSE None
    BY <1>4 DEF ArmOf, cell_arm, mine
  <2>10. ArmOf(jn, group, f[row]) = IF left(Cardinality(T)) # {} THEN Max(left(Cardinality(T))) ELSE None
    BY <1>1, <1>2, <1>4 DEF ArmOf, cell_arm, yours
  <2> HIDE DEF left, S, T
  <2> QED BY <2>8, <2>9, <2>10
<1> QED BY <1>3, <1>4

LEMMA SameTrials ==
  ASSUME NEW in, Reading(in), NEW jn, NEW f, SameRows(in, jn, f),
         \A group \in in.groups : \A row \in Cell(in, group) : SameOrder(in, f, group, row)
  PROVE  Trials(in) = Trials(jn) /\ recorded_groups(in) = recorded_groups(jn)
<1>1. ASSUME NEW group \in in.groups PROVE CellTrials(in, group) = CellTrials(jn, group)
  <2>1. ASSUME NEW row \in Cell(in, group)
        PROVE  /\ f[row] \in Cell(jn, group)
               /\ ArmOf(jn, group, f[row]) = ArmOf(in, group, row)
               /\ \A arm : RowTrial(jn, group, f[row], arm) = RowTrial(in, group, row, arm)
    <3>1. f[row] \in Cell(jn, group)
      BY SameCells
    <3>2. ArmOf(jn, group, f[row]) = ArmOf(in, group, row)
      BY SameArms
    <3>3. trial_outcome(f[row]) = trial_outcome(row) /\ f[row].id = row.id
      BY DEF trial_outcome, SameRows, Cell
    <3>4. in.scores = jn.scores
      BY DEF SameRows
    <3> QED BY <3>1, <3>2, <3>3, <3>4 DEF RowTrial
  <2>2. \A y \in Cell(jn, group) : \E x \in Cell(in, group) : y = f[x]
    BY SameCells
  <2>3. Arms(in) = Arms(jn)
    BY DEF SameRows, Arms
  <2>4. \A t : t \in CellTrials(in, group) <=>
           \/ \E row \in Cell(in, group) : /\ ArmOf(in, group, row) # None
                                          /\ t = RowTrial(in, group, row, ArmOf(in, group, row))
           \/ \E p \in Arms(in) : /\ \A row \in Cell(in, group) : ArmOf(in, group, row) # p
                                  /\ t = MissingTrial(group, p)
    BY CellTrialsAre
  <2>5. \A t : t \in CellTrials(jn, group) <=>
           \/ \E row \in Cell(jn, group) : /\ ArmOf(jn, group, row) # None
                                          /\ t = RowTrial(jn, group, row, ArmOf(jn, group, row))
           \/ \E p \in Arms(jn) : /\ \A row \in Cell(jn, group) : ArmOf(jn, group, row) # p
                                  /\ t = MissingTrial(group, p)
    BY CellTrialsAre
  <2>6. ASSUME NEW t \in CellTrials(in, group) PROVE t \in CellTrials(jn, group)
    BY <2>1, <2>2, <2>3, <2>4, <2>5
  <2>7. ASSUME NEW t \in CellTrials(jn, group) PROVE t \in CellTrials(in, group)
    BY <2>1, <2>2, <2>3, <2>4, <2>5
  <2> QED BY <2>6, <2>7
<1>2. in.groups = jn.groups
  BY DEF SameRows
<1>3. \A group : Cell(in, group) = {} <=> Cell(jn, group) = {}
  BY SameCells
<1>4. recorded_groups(in) = recorded_groups(jn)
  BY <1>2, <1>3 DEF recorded_groups
<1>5. \A t : t \in Trials(in) <=> t \in Trials(jn)
  BY <1>1, <1>2, <1>3, TrialsAre
<1> QED BY <1>4, <1>5

\* The sections depend on a task's being asked of only where there is a
\* trial of it, and only for the scorers of some score.
LEMMA SameSections ==
  ASSUME NEW in, NEW jn, NEW T, in.lineup = jn.lineup,
         \A s : eligible_tasks(in, T, s) = eligible_tasks(jn, T, s),
         \A y \in Scored(T) : \A t \in T :
           t.task \in applicable_tasks(in, T, y.row.scorer)
             <=> t.task \in applicable_tasks(jn, T, y.row.scorer)
  PROVE  Sections(in, T) = Sections(jn, T)
<1>1. ASSUME NEW p, NEW sr \in experiment_series(T)
      PROVE  scorer_report(in, T, p, sr) = scorer_report(jn, T, p, sr)
  <2>a. PICK y \in Scored(T) : sr[1] = y.row.scorer
    BY DEF experiment_series
  <2>1. {x \in T : x.arm = p /\ x.task \in applicable_tasks(in, T, sr[1]) /\ x.outcome \in QualityOutcomes}
          = {x \in T : x.arm = p /\ x.task \in applicable_tasks(jn, T, sr[1]) /\ x.outcome \in QualityOutcomes}
    BY <2>a
  <2>2. Asked(T, p, sr, applicable_tasks(in, T, sr[1])) = Asked(T, p, sr, applicable_tasks(jn, T, sr[1]))
    BY <2>1 DEF Asked
  <2> QED BY <2>2 DEF scorer_report
<1> QED BY <1>1 DEF Sections, Arms

\* The rows of the served report and of the one rebuilt are the same but for
\* their order, which decides alike: the positions do where they can, and in
\* a record of the older build that no hand has touched a model's rows of a
\* cell have one position, so the export has them by their ids too.
LEMMA PlacesKeepOrder ==
  ASSUME IInv, NEW q \in DOMAIN results, NEW r \in DOMAIN results,
         results[q].group = results[r].group, results[q].position = results[r].position
  PROVE  q <= r <=> export_place(q) <= export_place(r)
<1> DEFINE at(x) == results[x].position
           before(x, y) == \/ at(x) # None /\ at(y) = None
                           \/ /\ at(x) # None /\ at(y) # None
                              /\ at(x) < at(y)
                           \/ at(x) = at(y) /\ x <= y
           upto(y) == {x \in DOMAIN results : results[x].group = results[y].group /\ before(x, y)}
<1>1. \A y : export_place(y) = Cardinality(upto(y))
  BY DEF export_place
<1>2. /\ IsFiniteSet(DOMAIN results) /\ DOMAIN results \subseteq Nat
      /\ \A x \in DOMAIN results : at(x) \in Nat \cup {None}
  <2>1. Len(results) \in Nat /\ DOMAIN results = 1..Len(results)
    BY Typed DEF IInv
  <2>2. \A x \in DOMAIN results : results[x].position \in Arms(experiment) \cup {None}
    BY Typed DEF IInv, RowSet
  <2>3. Arms(experiment) \subseteq Nat
    BY TheExperiment DEF IInv, TypeOK
  <2>4. IsFiniteSet(1..Len(results))
    BY <2>1, FS_Interval
  <2>5. DOMAIN results \subseteq Nat
    BY <2>1
  <2> QED BY <2>1, <2>2, <2>3, <2>4, <2>5
<1>3. ASSUME NEW x \in DOMAIN results, NEW y \in DOMAIN results, x <= y,
             results[x].group = results[y].group, at(x) = at(y)
      PROVE  upto(x) \subseteq upto(y) /\ y \in upto(y) /\ (x # y => y \notin upto(x))
  <2>1. x \in Nat /\ y \in Nat /\ \A z \in DOMAIN results : z \in Nat
    BY <1>2
  <2>2. ASSUME NEW z \in DOMAIN results, before(z, x) PROVE before(z, y)
    <3>1. at(z) = at(x) /\ z <= x => z <= y
      BY <1>3, <2>1
    <3> HIDE DEF at
    <3> QED BY <1>3, <2>2, <3>1
  <2>3. before(y, y)
    BY <2>1
  <2>4. x # y => ~before(y, x)
    <3>1. ~(y <= x) \/ x = y
      BY <1>3, <2>1
    <3>2. at(x) # None => ~(at(y) < at(x))
      <4>1. \A v \in Nat : ~(v < v)
        OBVIOUS
      <4> HIDE DEF at
      <4> QED BY <1>2, <1>3, <4>1
    <3> HIDE DEF at
    <3> QED BY <1>3, <3>1, <3>2
  <2> HIDE DEF before, at
  <2> QED BY <1>3, <2>2, <2>3, <2>4
<1>4. \A y : upto(y) \in SUBSET DOMAIN results
  OBVIOUS
<1> HIDE DEF upto, before
<1>5. \A y : IsFiniteSet(upto(y)) /\ Cardinality(upto(y)) \in Nat
  BY <1>2, <1>4, FS_Subset, FS_CardinalityType
<1>6. CASE q <= r
  <2>1. upto(q) \in SUBSET upto(r)
    BY <1>3, <1>6
  <2>2. Cardinality(upto(q)) <= Cardinality(upto(r))
    BY <1>5, <2>1, FS_Subset
  <2> QED BY <1>1, <1>6, <2>2
<1>7. CASE ~(q <= r)
  <2>1. r <= q /\ r # q
    BY <1>2, <1>7
  <2>2. upto(r) \in SUBSET upto(q) /\ q \in upto(q) /\ q \notin upto(r)
    BY <1>3, <2>1
  <2>3. Cardinality(upto(r)) <= Cardinality(upto(q)) /\ Cardinality(upto(r)) # Cardinality(upto(q))
    BY <1>5, <2>2, FS_Subset
  <2>4. ~(Cardinality(upto(q)) <= Cardinality(upto(r)))
    BY <1>5, <2>3
  <2> QED BY <1>1, <1>7, <2>4
<1> QED BY <1>6, <1>7

LEMMA ExportKeepsTrials ==
  ASSUME IInv, ServedReads, Placed \/ ByHand = {}, NEW read \in BOOLEAN
  PROVE  LET in == report_inputs(read)
             jn == rebuild_from_export(read)
         IN  Trials(in) = Trials(jn) /\ recorded_groups(in) = recorded_groups(jn)
<1> DEFINE in == report_inputs(read)
           jn == rebuild_from_export(read)
           own == [r \in DOMAIN results |-> r]
           line == [r \in DOMAIN results |-> export_place(r)]
           row(at, r) == [id |-> r, group |-> results[r].group, at |-> at[r],
                          model |-> results[r].model, position |-> results[r].position,
                          error |-> results[r].error, sent |-> results[r].sent]
           f == [x \in in.rows |-> row(line, x.id)]
<1>1. /\ in.lineup = jn.lineup /\ in.groups = jn.groups /\ in.scores = jn.scores
      /\ in.lineup = experiment.lineup /\ in.rows = Rows(own)
      /\ in.rows = {row(own, r) : r \in DOMAIN results}
      /\ jn.rows = {row(line, r) : r \in DOMAIN results}
  BY DEF report_inputs, rebuild_from_export, Inputs, Rows
<1>2. \A at, r : /\ row(at, r).id = r /\ row(at, r).group = results[r].group /\ row(at, r).at = at[r]
                 /\ row(at, r).model = results[r].model /\ row(at, r).position = results[r].position
                 /\ row(at, r).error = results[r].error /\ row(at, r).sent = results[r].sent
  OBVIOUS
<1>3. Reading(in) /\ (Placed => AllPlaced(in))
  BY DEF ServedReads
<1>4. \A r \in DOMAIN results : own[r] = r /\ line[r] = export_place(r)
  OBVIOUS
<1> HIDE DEF in, jn, own, line, row
<1>5. ASSUME NEW x \in in.rows
      PROVE  /\ x.id \in DOMAIN results /\ x = row(own, x.id) /\ f[x] = row(line, x.id)
             /\ x.at = x.id /\ f[x].at = export_place(x.id)
             /\ x.model = results[x.id].model /\ x.group = results[x.id].group
             /\ x.position = results[x.id].position
  BY <1>1, <1>2, <1>4
<1>6. SameRows(in, jn, f)
  <2>1. f \in Surjection(in.rows, jn.rows)
    <3>1. f \in [in.rows -> jn.rows]
      BY <1>1, <1>5
    <3>2. ASSUME NEW y \in jn.rows PROVE \E x \in in.rows : f[x] = y
      <4>1. PICK r \in DOMAIN results : y = row(line, r)
        BY <1>1
      <4>2. row(own, r) \in in.rows /\ row(own, r).id = r
        BY <1>1, <1>2
      <4>3. f[row(own, r)] = y
        BY <4>1, <4>2
      <4> QED BY <4>2, <4>3
    <3> HIDE DEF f
    <3> QED BY <3>1, <3>2 DEF Surjection
  <2>2. ASSUME NEW x \in in.rows
        PROVE  /\ f[x].id = x.id /\ f[x].group = x.group /\ f[x].model = x.model
               /\ f[x].position = x.position /\ f[x].error = x.error /\ f[x].sent = x.sent
    <3>1. f[x] = row(line, x.id) /\ x = row(own, x.id)
      BY <1>5
    <3> HIDE DEF f
    <3> QED BY <1>2, <3>1
  <2> HIDE DEF f
  <2> QED BY <1>1, <2>1, <2>2 DEF SameRows
<1>7. ASSUME NEW group \in in.groups, NEW x \in Cell(in, group)
      PROVE  SameOrder(in, f, group, x)
  <2>1. CASE Placed
    BY <1>3, <2>1 DEF AllPlaced, SameOrder
  <2>2. CASE ByHand = {}
    <3>1. x \in in.rows /\ group.id = results[x.id].group /\ x.id \in DOMAIN results
      BY <1>5 DEF Cell
    <3>2. CASE ~experiment.legacy
      <4>1. \A q \in DOMAIN results : results[q].arm # None
        BY <2>2 DEF ByHand
      <4>2. Usable(in, Cell(in, group), x.model)
        BY <1>1, <1>3, <3>1, <3>2, <4>1, Untouched
      <4> QED BY <4>2 DEF SameOrder
    <3>3. CASE experiment.legacy
      <4>1. ASSUME NEW r \in DOMAIN results
            PROVE  results[r].position = Min(Slots(experiment, results[r].model))
        BY <2>2, <3>3 DEF IInv, RowsAreArms, row_position, ByHand
      <4>2. ASSUME NEW other \in Of(Cell(in, group), x.model)
            PROVE  other.at <= x.at <=> f[other].at <= f[x].at
        <5>1. other \in in.rows /\ other.model = x.model /\ other.group = x.group
          BY DEF Of, Cell
        <5>2. /\ other.id \in DOMAIN results /\ results[other.id].group = results[x.id].group
              /\ results[other.id].position = results[x.id].position
          <6>1. /\ other.id \in DOMAIN results /\ other.group = results[other.id].group
                /\ other.model = results[other.id].model
                /\ x.id \in DOMAIN results /\ x.group = results[x.id].group
                /\ x.model = results[x.id].model
            BY <1>5, <3>1, <5>1
          <6>2. results[other.id].model = results[x.id].model
            BY <5>1, <6>1
          <6>3. results[other.id].position = results[x.id].position
            BY <4>1, <6>1, <6>2, Zenon
          <6> QED BY <5>1, <6>1, <6>3
        <5>3. other.id <= x.id <=> export_place(other.id) <= export_place(x.id)
          BY <3>1, <5>2, PlacesKeepOrder
        <5>4. /\ other.at = other.id /\ x.at = x.id
              /\ f[other].at = export_place(other.id) /\ f[x].at = export_place(x.id)
          BY <1>5, <3>1, <5>1
        <5> HIDE DEF f
        <5> QED BY <5>3, <5>4
      <4> HIDE DEF f
      <4> QED BY <4>2 DEF SameOrder
    <3> QED BY <3>2, <3>3
  <2> QED BY <2>1, <2>2
<1> HIDE DEF f
<1>8. Trials(in) = Trials(jn) /\ recorded_groups(in) = recorded_groups(jn)
  BY <1>3, <1>6, <1>7, SameTrials
<1> QED BY <1>8 DEF in, jn

\* Of some tasks, those with a cutoff and those of a kind; and the tasks some
\* score by the scorer is about.
WithCutoff(ids) == {t \in ids : dataset[t].cutoff}

OfKind(ids, s) == {t \in ids : dataset[t].kind = s}

\* What the dataset, or the cutoff tasks of an export, tell a reading.
LEMMA TasksTell ==
  ASSUME IInv, NEW ids \in SUBSET DOMAIN dataset, NEW T, NEW in, in.tasks = Tasks(experiment, ids)
  PROVE  /\ \A s : eligible_tasks(in, T, s) = WithCutoff(ids)
         /\ \A s : applicable_tasks(in, T, s) =
                     IF OfKind(ids, s) # {} THEN OfKind(ids, s) ELSE Witnessed(T, s)
<1>1. in.tasks # None
  BY ReportAssumption DEF IInv, TypeOK, dataset
<1> DEFINE task(t) == [id |-> t, kind |-> dataset[t].kind, cutoff |-> dataset[t].cutoff]
           K == Tasks(experiment, ids)
<1>2. /\ K = {task(t) : t \in ids}
      /\ \A t : task(t).id = t /\ task(t).kind = dataset[t].kind /\ task(t).cutoff = dataset[t].cutoff
  BY DEF Tasks, dataset
<1> HIDE DEF task, K
<1>3. \A t \in ids : task(t) \in K
  BY <1>2
<1>4. \A x \in K : x.id \in ids /\ x.kind = dataset[x.id].kind /\ x.cutoff = dataset[x.id].cutoff
  BY <1>2
<1>5. {x.id : x \in {y \in K : y.cutoff}} = WithCutoff(ids)
  <2>1. \A t : t \in {x.id : x \in {y \in K : y.cutoff}} <=> t \in WithCutoff(ids)
    BY <1>2, <1>3, <1>4, Zenon DEF WithCutoff
  <2> QED BY <2>1, Zenon
<1>6. ASSUME NEW s PROVE {x.id : x \in {y \in K : y.kind = s}} = OfKind(ids, s)
  <2>1. \A t : t \in {x.id : x \in {y \in K : y.kind = s}} <=> t \in OfKind(ids, s)
    BY <1>2, <1>3, <1>4 DEF OfKind
  <2> QED BY <2>1, Zenon
<1>7. in.tasks = K
  BY DEF K
<1>8. \A s : eligible_tasks(in, T, s) = WithCutoff(ids)
  BY <1>1, <1>5, <1>7, Zenon DEF eligible_tasks
<1>9. ASSUME NEW s
      PROVE  applicable_tasks(in, T, s) = IF OfKind(ids, s) # {} THEN OfKind(ids, s) ELSE Witnessed(T, s)
  BY <1>1, <1>6, <1>7, Zenon DEF applicable_tasks, Witnessed
<1> QED BY <1>8, <1>9

LEMMA SliceEligible ==
  ASSUME IInv, NEW T, NEW in, in.tasks = Tasks(experiment, DOMAIN dataset),
         NEW jn, jn.tasks = threshold_slice
  PROVE  \A s : eligible_tasks(in, T, s) = eligible_tasks(jn, T, s)
<1> DEFINE D == DOMAIN dataset
           C == WithCutoff(D)
<1>1. in.tasks = Tasks(experiment, D) /\ jn.tasks = Tasks(experiment, C)
  BY DEF threshold_slice, WithCutoff
<1>2. WithCutoff(C) = C /\ C \in SUBSET D
  BY DEF WithCutoff
<1>3. \A s : eligible_tasks(jn, T, s) = WithCutoff(C)
  BY <1>1, <1>2, TasksTell
<1>4. \A s : eligible_tasks(in, T, s) = WithCutoff(D)
  BY <1>1, TasksTell
<1> QED BY <1>2, <1>3, <1>4

\* The trials of the served report and the tables they come from.
TablesSay(T) ==
  /\ \A t \in T : \E g \in DOMAIN groups : t.task = groups[g].task /\ get_group(g) # {}
  /\ \A x \in Scored(T) : \E k \in DOMAIN scores :
       /\ x.row.scorer = scores[k].scorer
       /\ x.task = groups[results[scores[k].result].group].task
  /\ Placed \/ ByHand = {} =>
       \A k \in DOMAIN scores : \E x \in Scored(T) :
         /\ x.row.scorer = scores[k].scorer
         /\ x.task = groups[results[scores[k].result].group].task

LEMMA TrialsAndTables ==
  ASSUME IInv, ServedReads, NEW read \in BOOLEAN
  PROVE  TablesSay(Trials(report_inputs(read)))
<1> PICK T : T = Trials(report_inputs(read))
  OBVIOUS
<1> DEFINE in == report_inputs(read)
           own == [r \in DOMAIN results |-> r]
           row(r) == [id |-> r, group |-> results[r].group, at |-> own[r],
                      model |-> results[r].model, position |-> results[r].position,
                      error |-> results[r].error, sent |-> results[r].sent]
           group(g) == [id |-> g, task |-> groups[g].task]
           score(k) == [id |-> k, result |-> scores[k].result, scorer |-> scores[k].scorer,
                        judge |-> scores[k].judge, score |-> scores[k].score,
                        passed |-> scores[k].passed]
<1>1. /\ in.lineup = experiment.lineup /\ in.rows = Rows(own)
      /\ in.rows = {row(r) : r \in DOMAIN results}
      /\ in.groups = {group(g) : g \in DOMAIN groups}
      /\ in.scores = {score(k) : k \in DOMAIN scores}
  BY DEF report_inputs, Inputs, Rows
<1>2. /\ \A r : row(r).id = r /\ row(r).group = results[r].group /\ row(r).model = results[r].model
      /\ \A g : group(g).id = g /\ group(g).task = groups[g].task
      /\ \A k : score(k).result = scores[k].result /\ score(k).scorer = scores[k].scorer
  OBVIOUS
<1>3. /\ Reading(in) /\ (Placed => AllPlaced(in)) /\ T = Trials(in)
  BY DEF ServedReads
<1> HIDE DEF in, own, row, group, score
<1>4. /\ \A r \in DOMAIN results : results[r].group \in DOMAIN groups
      /\ \A k \in DOMAIN scores : scores[k].result \in DOMAIN results
      /\ \A r \in DOMAIN results : r # None
  <2>1. /\ DOMAIN groups = 1..Len(groups) /\ DOMAIN results = 1..Len(results)
        /\ DOMAIN scores = 1..Len(scores) /\ Len(results) \in Nat
        /\ \A r \in 1..Len(results) : results[r] \in RowSet(Len(groups))
        /\ \A k \in 1..Len(scores) : scores[k] \in ScoreSet(Len(results))
    BY Typed DEF IInv
  <2>2. \A r \in DOMAIN results : r \in Nat
    BY <2>1
  <2> QED BY <2>1, <2>2, ReportAssumption DEF RowSet, ScoreSet
<1>5. ASSUME NEW t \in T
      PROVE  \E g \in DOMAIN groups : /\ t.task = groups[g].task /\ Cell(in, group(g)) # {}
                                     /\ t \in CellTrials(in, group(g))
  <2>1. PICK x \in in.groups : Cell(in, x) # {} /\ t \in CellTrials(in, x)
    BY <1>3, TrialsAre
  <2>2. PICK g \in DOMAIN groups : x = group(g)
    BY <1>1
  <2>3. t.task = x.task
    BY <2>1, CellTrialsAre DEF RowTrial, MissingTrial
  <2> QED BY <1>2, <2>1, <2>2, <2>3
<1>6. ASSUME NEW g, NEW x \in Cell(in, group(g))
      PROVE  \E r \in DOMAIN results : x = row(r) /\ results[r].group = g
  BY <1>1, <1>2 DEF Cell
<1>7. ASSUME NEW t \in T
      PROVE  \E g \in DOMAIN groups : t.task = groups[g].task /\ get_group(g) # {}
  BY <1>5, <1>6 DEF get_group
<1>8. ASSUME NEW x \in Scored(T)
      PROVE  \E k \in DOMAIN scores : /\ x.row.scorer = scores[k].scorer
                                      /\ x.task = groups[results[scores[k].result].group].task
  <2>1. PICK t \in T : x.task = t.task /\ x.row \in t.scores
    BY DEF Scored
  <2>2. PICK g \in DOMAIN groups : t.task = groups[g].task /\ t \in CellTrials(in, group(g))
    BY <1>5
  <2>3. PICK y \in Cell(in, group(g)) : t = RowTrial(in, group(g), y, ArmOf(in, group(g), y))
    BY <2>1, <2>2, CellTrialsAre DEF MissingTrial
  <2>4. x.row \in in.scores /\ x.row.result = y.id
    BY <2>1, <2>3 DEF RowTrial
  <2>5. PICK k \in DOMAIN scores : x.row = score(k)
    BY <1>1, <2>4
  <2>6. PICK r \in DOMAIN results : y = row(r) /\ results[r].group = g
    BY <1>6
  <2>7. scores[k].result = r /\ x.row.scorer = scores[k].scorer
    BY <1>2, <2>4, <2>5, <2>6
  <2> QED BY <2>1, <2>2, <2>6, <2>7
<1>9. ASSUME Placed \/ ByHand = {}, NEW k \in DOMAIN scores
      PROVE  \E x \in Scored(T) : /\ x.row.scorer = scores[k].scorer
                                  /\ x.task = groups[results[scores[k].result].group].task
  <2> DEFINE r == scores[k].result
             g == results[r].group
             ran == RowTrial(in, group(g), row(r), ArmOf(in, group(g), row(r)))
  <2>1. r \in DOMAIN results /\ g \in DOMAIN groups
    BY <1>4
  <2> HIDE DEF r, g
  <2>2. group(g) \in in.groups /\ row(r) \in Cell(in, group(g)) /\ row(r).id = r
    BY <1>1, <1>2, <2>1 DEF Cell, g
  <2>3. ArmOf(in, group(g), row(r)) # None
    <3>1. CASE Placed
      BY <1>3, <2>2, <3>1, PlacedArms
    <3>2. CASE ByHand = {}
      <4>1. \A q \in DOMAIN results : results[q].arm # None
        BY <3>2 DEF ByHand
      <4>2. group(g).id = results[r].group
        BY <1>2 DEF g
      <4>3. ArmOf(in, group(g), row(r)) \in Slots(in, results[r].model)
        BY <1>1, <1>3, <2>1, <2>2, <4>1, <4>2, Untouched
      <4> HIDE DEF g
      <4>4. ArmOf(in, group(g), row(r)) \in Nat
        BY <1>3, <4>3 DEF Slots, Reading
      <4> QED BY <4>4, ReportAssumption
    <3> QED BY <1>9, <3>1, <3>2
  <2>4. ran \in CellTrials(in, group(g))
    BY <2>2, <2>3, CellTrialsAre
  <2>5. ran.task = groups[g].task /\ score(k) \in ran.scores
    BY <1>1, <1>2, <2>2 DEF RowTrial, r
  <2> HIDE DEF ran
  <2>6. ran \in T
    BY <1>3, <2>2, <2>4, TrialsAre
  <2> DEFINE x == [task |-> ran.task, row |-> score(k)]
  <2>7. x \in Scored(T)
    BY <2>5, <2>6 DEF Scored
  <2>8. x.row.scorer = scores[k].scorer /\ x.task = groups[g].task
    BY <1>2, <2>5
  <2> HIDE DEF x
  <2> QED BY <2>7, <2>8 DEF g, r
<1>10. TablesSay(T)
  BY <1>7, <1>8, <1>9 DEF TablesSay
<1> QED BY <1>10

\* Where no kind mixes and every task has its score, the tasks with a cutoff
\* answer for the same trials as the whole dataset.
LEMMA SliceAnswersAlike ==
  ASSUME IInv, Placed \/ ByHand = {}, OneRulePerKind, EveryTaskScored,
         NEW in, in.tasks = Tasks(experiment, DOMAIN dataset), NEW jn, jn.tasks = threshold_slice,
         NEW T, TablesSay(T), NEW y \in Scored(T), NEW s, s = y.row.scorer, NEW t \in T
  PROVE  t.task \in applicable_tasks(in, T, s) <=> t.task \in applicable_tasks(jn, T, s)
<1> DEFINE D == DOMAIN dataset
           W == OfKind(D, s)
           C == OfKind(WithCutoff(D), s)
           V == Witnessed(T, s)
<1>1. /\ applicable_tasks(in, T, s) = IF W # {} THEN W ELSE V
      /\ applicable_tasks(jn, T, s) = IF C # {} THEN C ELSE V
  <2>1. jn.tasks = Tasks(experiment, WithCutoff(D)) /\ WithCutoff(D) \in SUBSET D
    BY DEF threshold_slice, WithCutoff
  <2>2. applicable_tasks(in, T, s) = IF W # {} THEN W ELSE V
    BY TasksTell
  <2>3. applicable_tasks(jn, T, s) = IF C # {} THEN C ELSE V
    BY <2>1, TasksTell
  <2> QED BY <2>2, <2>3
<1>2. C # {} => W = C
  BY DEF OneRulePerKind, OfKind, WithCutoff
<1>3. ASSUME W # {} PROVE t.task \in W <=> t.task \in V
  <2>1. s # None
    <3>1. PICK k \in DOMAIN scores : s = scores[k].scorer
      BY DEF TablesSay
    <3>2. scores[k] \in ScoreSet(Len(results))
      BY <3>1, Typed DEF IInv
    <3> QED BY <3>1, <3>2, ReportAssumption DEF ScoreSet
  <2>2. s # "human"
    <3>1. s \in Kinds
      BY <1>3, <2>1, TheTasks DEF IInv, TypeOK, OfKind
    <3> QED BY <3>1 DEF Kinds
  <2>3. PICK g \in DOMAIN groups : t.task = groups[g].task /\ get_group(g) # {}
    BY DEF TablesSay
  <2>4. t.task \in DOMAIN dataset
    BY <2>3, Typed DEF IInv
  <2>5. ASSUME t.task \in W PROVE t.task \in V
    <3>a. g \in scorable_groups
      BY <2>1, <2>3, <2>5 DEF OfKind, scorable_groups
    <3>1. PICK k \in DOMAIN scores : /\ groups[results[scores[k].result].group].task = groups[g].task
                                     /\ scores[k].scorer = dataset[groups[g].task].kind
      BY <2>3, <3>a DEF EveryTaskScored
    <3>2. PICK x \in Scored(T) : /\ x.row.scorer = scores[k].scorer
                                 /\ x.task = groups[results[scores[k].result].group].task
      BY DEF TablesSay
    <3>3. x.row.scorer = s /\ x.task = t.task
      BY <2>3, <2>5, <3>1, <3>2 DEF OfKind
    <3> QED BY <3>3 DEF Witnessed
  <2>6. ASSUME t.task \in V PROVE t.task \in W
    <3>1. PICK x \in Scored(T) : x.task = t.task /\ x.row.scorer = s
      BY <2>6 DEF Witnessed
    <3>2. PICK k \in DOMAIN scores : /\ x.row.scorer = scores[k].scorer
                                     /\ x.task = groups[results[scores[k].result].group].task
      BY DEF TablesSay
    <3>3. dataset[t.task].kind = s
      BY <2>2, <3>1, <3>2 DEF IInv, ScorersAnswer
    <3> QED BY <2>4, <3>3 DEF OfKind
  <2> QED BY <2>5, <2>6
<1>4. W = {} => C = {}
  BY DEF OfKind, WithCutoff
<1> HIDE DEF W, C, V
<1> QED BY <1>1, <1>2, <1>3, <1>4

LEMMA PublishedAlike ==
  ASSUME NEW in, NEW jn, Trials(in) = Trials(jn), recorded_groups(in) = recorded_groups(jn),
         in.cells = jn.cells, in.primary = jn.primary,
         Sections(in, Trials(in)) = Sections(jn, Trials(in))
  PROVE  build_report(in) = build_report(jn)
BY ReportIs, Zenon DEF Published

\* An export rebuilds the report the bench serves, whatever the experiment and
\* the order its rows were stored in: with no dataset read, always, and with
\* one when its kinds do not mix and every task has been scored, as long as
\* the positions recorded decide or no run was filed by hand.
THEOREM ExportRebuilds == Spec => []RebuildsAlike
<1>1. IInv /\ ServedReads => RebuildsAlike
  <2> SUFFICES ASSUME IInv, ServedReads, Placed \/ ByHand = {} PROVE RebuildsAlike
    BY DEF RebuildsAlike
  <2>1. ASSUME NEW read \in BOOLEAN, NEW in, in = report_inputs(read),
               NEW jn, jn = rebuild_from_export(read)
        PROVE  /\ in.lineup = jn.lineup /\ in.cells = jn.cells /\ in.primary = jn.primary
               /\ Trials(in) = Trials(jn) /\ recorded_groups(in) = recorded_groups(jn)
    <3>1. in.lineup = jn.lineup /\ in.cells = jn.cells /\ in.primary = jn.primary
      BY <2>1 DEF report_inputs, rebuild_from_export, Inputs
    <3>2. Trials(in) = Trials(jn) /\ recorded_groups(in) = recorded_groups(jn)
      BY <2>1, ExportKeepsTrials, Zenon
    <3> QED BY <3>1, <3>2
  <2>2. PICK a : a = report_inputs(FALSE)
    OBVIOUS
  <2>3. PICK b : b = rebuild_from_export(FALSE)
    OBVIOUS
  <2>4. PICK c : c = report_inputs(TRUE)
    OBVIOUS
  <2>5. PICK d : d = rebuild_from_export(TRUE)
    OBVIOUS
  <2>6. /\ a.lineup = b.lineup /\ a.cells = b.cells /\ a.primary = b.primary
        /\ Trials(a) = Trials(b) /\ recorded_groups(a) = recorded_groups(b)
    BY <2>1, <2>2, <2>3, Zenon
  <2>7. /\ c.lineup = d.lineup /\ c.cells = d.cells /\ c.primary = d.primary
        /\ Trials(c) = Trials(d) /\ recorded_groups(c) = recorded_groups(d)
    BY <2>1, <2>4, <2>5, Zenon
  <2>8. a.tasks = b.tasks
    BY <2>2, <2>3 DEF report_inputs, rebuild_from_export, Inputs
  <2>9. Sections(a, Trials(a)) = Sections(b, Trials(a))
    BY <2>6, <2>8, SectionsAgree
  <2>10. ASSUME OneRulePerKind, EveryTaskScored
         PROVE  Sections(c, Trials(c)) = Sections(d, Trials(c))
    <3>1. PICK T : T = Trials(c)
      OBVIOUS
    <3>2. /\ c.tasks = Tasks(experiment, DOMAIN dataset) /\ d.tasks = threshold_slice
          /\ TablesSay(T)
      <4>1. c.tasks = Tasks(experiment, DOMAIN dataset) /\ d.tasks = threshold_slice
        BY <2>4, <2>5 DEF report_inputs, rebuild_from_export, Inputs
      <4>2. TablesSay(T)
        BY <2>4, <3>1, TrialsAndTables, Zenon
      <4> QED BY <4>1, <4>2
    <3>3. \A s : eligible_tasks(c, T, s) = eligible_tasks(d, T, s)
      BY <3>2, SliceEligible
    <3>4. \A y \in Scored(T) : \A t \in T :
            t.task \in applicable_tasks(c, T, y.row.scorer)
              <=> t.task \in applicable_tasks(d, T, y.row.scorer)
      BY <2>10, <3>2, SliceAnswersAlike
    <3> QED BY <2>7, <3>1, <3>3, <3>4, SameSections
  <2>11. build_report(a) = build_report(b)
    BY <2>6, <2>9, PublishedAlike
  <2>12. OneRulePerKind /\ EveryTaskScored => build_report(c) = build_report(d)
    BY <2>7, <2>10, PublishedAlike
  <2> QED BY <2>2, <2>3, <2>4, <2>5, <2>11, <2>12, Zenon DEF RebuildsAlike, Served, Rebuilt
<1> QED BY <1>1, InitHolds, StepIInv, ServedReadsHold, PTL DEF Spec
=============================================================================
