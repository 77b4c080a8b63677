-------------------------- MODULE ExperimentReport --------------------------
(***************************************************************************)
(* The rows of one experiment, from its first group to its last rating,    *)
(* and the two readings of them: the report the bench serves and the       *)
(* report rebuilt from an export (bench/main.py, bench/store.py).          *)
(***************************************************************************)
EXTENDS ReportRules, SequencesExt

CONSTANTS
  Experiments, \* those to run: [lineup, tasks, order, legacy, primary]; tasks
               \* by id in the ids' text order, [kind, cutoff]; order is the
               \* task order the seed gave; legacy: by a build that looked
               \* an arm's position up by its model
  Repeats,
  Judge,       \* the judge model a pass may be given
  Ratings,     \* the scores a person gives
  MaxResults,  \* bound: stored results
  MaxByHand,   \* bound: those of them filed by hand
  MaxScores    \* bound: stored scores

\* What a task's scorer may be (SCORERS, bench/datasets.py).
Kinds == {"exact", "normalized_exact", "contains", "regex", "judge"}

\* The tasks of a dataset, as a reading has them.
Tasks(e, ids) ==
  {[id |-> t, kind |-> e.tasks[t].kind, cutoff |-> e.tasks[t].cutoff] : t \in ids}

\* A lineup has an arm at least, and a human's rating is no task's scorer.
\* A task with no scorer has the kind None.
ASSUME ReportAssumption ==
  /\ Repeats \in Nat \ {0}
  /\ Ratings \subseteq Nat
  /\ None \notin Nat \cup Kinds \cup {"human"}
  /\ \A e \in Experiments :
       /\ e.lineup \in Seq(ToSet(e.lineup)) /\ e.lineup # <<>>
       /\ e.tasks \in Seq([kind : Kinds \cup {None}, cutoff : BOOLEAN])
       /\ e.order \in Seq(DOMAIN e.tasks)
       /\ e.legacy \in BOOLEAN
       /\ \A ids \in SUBSET DOMAIN e.tasks : None # Tasks(e, ids)

VARIABLES
  experiment,  \* the one that is run
  place,       \* trials done in the newest cell
  over,        \* the runner has ended, however it ended
  groups,      \* the cells' groups in the order of their ids
  results,     \* result rows in the order of their ids
  scores,      \* score rows in the order of their ids
  pass         \* the newest scoring pass, or None before the first

vars == <<experiment, place, over, groups, results, scores, pass>>

Cells == plan_trials(experiment.order, experiment.lineup, Repeats)

dataset == experiment.tasks

Init ==
  /\ experiment \in Experiments
  /\ place = Len(experiment.lineup)
  /\ over = FALSE
  /\ groups = <<>>
  /\ results = <<>>
  /\ scores = <<>>
  /\ pass = None

-----------------------------------------------------------------------------
(***************************************************************************)
(* The runner.                                                             *)
(***************************************************************************)
Row(group, model, position, arm, ending) ==
  [group |-> group, model |-> model, position |-> position, arm |-> arm,
   error |-> ending.error, sent |-> ending.sent, text |-> ending.text]

\* A trial ends with an answer, an upstream error, or refused unsent.
TrialEndings ==
  {[error |-> None, sent |-> TRUE, text |-> TRUE],
   [error |-> "error", sent |-> TRUE, text |-> FALSE],
   [error |-> "refused", sent |-> FALSE, text |-> FALSE]}

\* A streamed run ends with an answer, an error, or stopped; the last two
\* may keep the text that had arrived.
StreamEndings ==
  {[error |-> None, sent |-> TRUE, text |-> TRUE],
   [error |-> "error", sent |-> TRUE, text |-> FALSE],
   [error |-> "aborted", sent |-> TRUE, text |-> TRUE]}

\* What a run by hand may leave of a model.  A refused stream leaves no row;
\* a member refused in a batch has one, at its place in the batch.
HandEndings(position) ==
  StreamEndings \cup
    {[error |-> "refused", sent |-> FALSE, text |-> FALSE] : p \in {position} \ {None}}

\* The next cell's group, before its first trial.
BeginCell ==
  /\ ~over
  /\ place = Len(experiment.lineup)
  /\ Len(groups) < Len(Cells)
  /\ groups' = Append(groups, [task   |-> Cells[Len(groups) + 1].task,
                               repeat |-> Cells[Len(groups) + 1].repeat])
  /\ place' = 0
  /\ UNCHANGED <<experiment, over, results, scores, pass>>

\* The position a trial's row is given.
row_position(arm) ==
  IF experiment.legacy THEN Min(Slots(experiment, experiment.lineup[arm])) ELSE arm

\* The cell's next trial, in the rotated order.
RunTrial(ending) ==
  /\ ~over
  /\ place < Len(experiment.lineup)
  /\ Len(results) < MaxResults
  /\ LET arm == Cells[Len(groups)].order[place + 1]
     IN  results' = Append(results, Row(Len(groups), experiment.lineup[arm],
                                        row_position(arm), arm, ending))
  /\ place' = place + 1
  /\ UNCHANGED <<experiment, over, groups, scores, pass>>

\* Finished, stopped, failed or killed; a trial whose row was not written
\* ends the run too.
EndRun ==
  /\ ~over
  /\ over' = TRUE
  /\ UNCHANGED <<experiment, place, groups, results, scores, pass>>

ByHand == {r \in DOMAIN results : results[r].arm = None}

\* A run by hand filed in a cell's group: a stream of a model of the lineup
\* at the position the client claims, if any; or a member of a batch, whose
\* rows are one transaction, here one after another.
RunByHand(group, model, position, ending) ==
  /\ Len(results) < MaxResults
  /\ Cardinality(ByHand) < MaxByHand
  /\ results' = Append(results, Row(group, model, position, None, ending))
  /\ UNCHANGED <<experiment, place, over, groups, scores, pass>>

-----------------------------------------------------------------------------
(***************************************************************************)
(* Scores.                                                                 *)
(***************************************************************************)
\* The order of a pass over the groups: task, repeat, id.
experiment_groups(g, h) ==
  \/ groups[g].task < groups[h].task
  \/ /\ groups[g].task = groups[h].task
     /\ \/ groups[g].repeat < groups[h].repeat
        \/ groups[g].repeat = groups[h].repeat /\ g <= h

\* A group's results, which are taken in the order of their runs.
get_group(g) == {r \in DOMAIN results : results[r].group = g}

\* The groups whose task has a scorer: a pass skips the others.
scorable_groups == {g \in DOMAIN groups : dataset[groups[g].task].kind # None}

\* A pass starts once the experiment is over and any earlier pass ended:
\* done, stopped, failed or killed, which it may be at any point.
StartScoring(judge) ==
  /\ over
  /\ pass' = [judge |-> judge, groups |-> scorable_groups, rows |-> {}]
  /\ UNCHANGED <<experiment, place, over, groups, results, scores>>

\* The rows of the next group are read when the pass gets to it.
NextGroup ==
  /\ pass # None
  /\ pass.rows = {}
  /\ \E g \in pass.groups :
       /\ \A h \in pass.groups : experiment_groups(g, h)
       /\ pass' = [pass EXCEPT !.rows = get_group(g), !.groups = @ \ {g}]
  /\ UNCHANGED <<experiment, place, over, groups, results, scores>>

\* Every score a row may be given; a judge that was not given, cannot
\* answer, or has nothing to judge leaves a gap, and so does a pattern that
\* does not finish in time.
Verdicts(r, judge) ==
  LET spec == dataset[groups[results[r].group].task]
      text == results[r].text
  IN  IF spec.kind = "judge"
      THEN {[score |-> s, passed |-> IF s # None /\ spec.cutoff THEN s = 1 ELSE None] :
              s \in IF judge # None /\ text THEN {0, 1, None} ELSE {None}}
      ELSE {[score |-> s, passed |-> IF s = None THEN None ELSE s = 1] :
              s \in IF text THEN {0, 1} \cup (IF spec.kind = "regex" THEN {None} ELSE {})
                             ELSE {0}}

Score(r, scorer, judge, verdict) ==
  scores' = Append(scores, [result |-> r, scorer |-> scorer, judge |-> judge,
                            score |-> verdict.score, passed |-> verdict.passed])

ScoreNext(verdict) ==
  /\ pass # None
  /\ \E r \in pass.rows :
       /\ \A q \in pass.rows : r <= q
       /\ LET kind == dataset[groups[results[r].group].task].kind
          IN  /\ verdict \in Verdicts(r, pass.judge)
              /\ Score(r, kind, IF kind = "judge" THEN pass.judge ELSE None, verdict)
       /\ pass' = [pass EXCEPT !.rows = @ \ {r}]
  /\ UNCHANGED <<experiment, place, over, groups, results>>

\* A rating by a person, of any stored result.
Rate(r, score) ==
  /\ Score(r, "human", None, [score |-> score, passed |-> None])
  /\ UNCHANGED <<experiment, place, over, groups, results, pass>>

\* The last score the bound allows ends the model.
Next ==
  /\ Len(scores) < MaxScores
  /\ \/ BeginCell
     \/ \E ending \in TrialEndings : RunTrial(ending)
     \/ EndRun
     \/ \E group \in DOMAIN groups, model \in ToSet(experiment.lineup) :
           \E position \in Slots(experiment, model) \cup {None} :
              \E ending \in HandEndings(position) : RunByHand(group, model, position, ending)
     \/ \E judge \in {None, Judge} : StartScoring(judge)
     \/ NextGroup
     \/ \E score \in {0, 1, None}, passed \in BOOLEAN \cup {None} :
           ScoreNext([score |-> score, passed |-> passed])
     \/ \E r \in DOMAIN results, score \in Ratings : Rate(r, score)

Spec == Init /\ [][Next]_vars

\* A row of one of n groups, and a score of one of n rows.
RowSet(n) ==
  [group : 1..n, model : ToSet(experiment.lineup), position : Arms(experiment) \cup {None},
   error : {None, "error", "refused", "aborted"}, sent : BOOLEAN, text : BOOLEAN,
   arm : Arms(experiment) \cup {None}]

ScoreSet(n) ==
  [result : 1..n, scorer : Kinds \cup {"human"}, judge : {None, Judge},
   score : Nat \cup {None}, passed : BOOLEAN \cup {None}]

TypeOK ==
  /\ experiment \in Experiments /\ place \in 0..Len(experiment.lineup) /\ over \in BOOLEAN
  /\ groups \in Seq([task : DOMAIN dataset, repeat : Nat]) /\ Len(groups) <= Len(Cells)
  /\ results \in Seq(RowSet(Len(groups)))
  /\ scores \in Seq(ScoreSet(Len(results)))
  /\ pass \in {None} \cup [judge : {None, Judge}, groups : SUBSET (1..Len(groups)),
                           rows : SUBSET (1..Len(results))]

-----------------------------------------------------------------------------
(***************************************************************************)
(* The two readings.                                                       *)
(***************************************************************************)
\* The rows as a reading has them, "at" being its order within a cell.
Rows(at) ==
  {[id |-> r, group |-> results[r].group, at |-> at[r],
    model |-> results[r].model, position |-> results[r].position,
    error |-> results[r].error, sent |-> results[r].sent] : r \in DOMAIN results}

Inputs(tasks, rows) ==
  [lineup |-> experiment.lineup,
   primary |-> experiment.primary,
   groups |-> {[id |-> g, task |-> groups[g].task] : g \in DOMAIN groups},
   rows   |-> rows,
   scores |-> {[id |-> k, result |-> scores[k].result, scorer |-> scores[k].scorer,
                judge |-> scores[k].judge, score |-> scores[k].score,
                passed |-> scores[k].passed] : k \in DOMAIN scores},
   tasks  |-> tasks,
   cells  |-> Len(Cells)]

\* Behind the report served: the rows by their ids; read: whether a dataset
\* was.
report_inputs(read) ==
  Inputs(IF read THEN Tasks(experiment, DOMAIN dataset) ELSE None, Rows([r \in DOMAIN results |-> r]))

\* An export carries the tasks with a cutoff and no others.
threshold_slice == Tasks(experiment, {t \in DOMAIN dataset : dataset[t].cutoff})

\* Variant: newest first.
export_place_reversed(r) ==
  Cardinality({q \in DOMAIN results : results[q].group = results[r].group /\ q >= r})

\* A row's place in its cell's lines: by position, unplaced ones last, then
\* by id.
export_place(r) ==
  LET at(q) == results[q].position
      before(q) == \/ at(q) # None /\ at(r) = None
                   \/ /\ at(q) # None /\ at(r) # None
                      /\ at(q) < at(r)
                   \/ at(q) = at(r) /\ q <= r
  IN  Cardinality({q \in DOMAIN results :
                     results[q].group = results[r].group /\ before(q)})

\* Behind a report rebuilt from the export: its lines and its manifest.
rebuild_from_export(read) ==
  Inputs(IF read THEN threshold_slice ELSE None,
         Rows([r \in DOMAIN results |-> export_place(r)]))

Served(read)  == build_report(report_inputs(read))
Rebuilt(read) == build_report(rebuild_from_export(read))

-----------------------------------------------------------------------------
(***************************************************************************)
(* Properties.                                                             *)
(***************************************************************************)
\* The positions recorded tell the rows of every cell apart.
Placed ==
  LET in == report_inputs(FALSE)
  IN  \A group \in in.groups : \A model \in ToSet(experiment.lineup) : Usable(in, Cell(in, group), model)

\* No kind has both tasks with a cutoff and tasks without.
OneRulePerKind ==
  \A s, t \in DOMAIN dataset : dataset[s].kind = dataset[t].kind =>
                                 dataset[s].cutoff = dataset[t].cutoff

\* Every task with a scorer and a recorded trial has a score by it.
EveryTaskScored ==
  \A g \in scorable_groups : get_group(g) # {} =>
     \E k \in DOMAIN scores :
        /\ groups[results[scores[k].result].group].task = groups[g].task
        /\ scores[k].scorer = dataset[groups[g].task].kind

\* An export rebuilds the report the bench serves (README.md:15-16): always
\* when no dataset is read, and with one when its kinds do not mix and no
\* task waits for its first score, as long as the positions recorded decide
\* or no run was filed by hand.
RebuildsAlike ==
  (Placed \/ ByHand = {}) =>
    /\ Served(FALSE) = Rebuilt(FALSE)
    /\ OneRulePerKind /\ EveryTaskScored => Served(TRUE) = Rebuilt(TRUE)

\* The same claim without the conditions.
RebuildsFromExport == \A read \in BOOLEAN : Served(read) = Rebuilt(read)

\* The plan is accounted for: each arm's outcomes and what never ran add up
\* to the plan's cells, and in a cell no hand has touched every trial is its
\* own arm's, or, in a record that cannot tell copies apart, a copy's: no
\* trial is dropped and none is counted twice.
PlanIsAccounted ==
  \A report \in {Served(FALSE)} :
    LET of(r) == {trial \in report.trials : trial.row = r}
        touched == {results[r].group : r \in ByHand}
    IN  /\ \A p \in Arms(experiment) :
             Cardinality({trial \in report.trials : trial.arm = p})
               + report.not_run = Len(Cells)
        /\ \A r \in DOMAIN results : results[r].group \notin touched =>
             \E trial \in report.trials :
                /\ of(r) = {trial}
                /\ experiment.lineup[trial.arm] = results[r].model
                /\ ~experiment.legacy => trial.arm = results[r].arm

\* A ranking never puts an arm nobody measured above one somebody did, nor
\* leaves the measured one out, and there is none where nobody measured.
FailingNeverWins ==
  \A report \in {Served(read) : read \in BOOLEAN} :
    LET measured == {section.arm : section \in
                       {s \in report.sections : s.series = report.ranking /\ s.measured > 0}}
    IN  report.ranking # None =>
          /\ measured # {}
          /\ \A p \in measured : \E place_of \in report.ranks :
               /\ place_of.arm = p
               /\ \A other \in report.ranks :
                    other.arm \notin measured => place_of.rank <= other.rank

\* The newest score says again what the newest of its result, scorer and
\* judge said: a retry, or a pass that runs once more.
SaysAgain ==
  \E k \in DOMAIN scores :
    /\ scores' = Append(scores, scores[k])
    /\ \A j \in DOMAIN scores :
         <<scores[j].result, scores[j].scorer, scores[j].judge>>
           = <<scores[k].result, scores[k].scorer, scores[k].judge>> => j <= k

\* What is nobody's answer moves no number of quality: a trial refused or
\* stopped, a new cell, the end of the run, and a score or a rating sent
\* twice leave every section as it was, where the positions recorded decide.
QualityIsTheModelsOwn ==
  [][ LET added == Len(results') > Len(results)
          last  == results'[Len(results')]
      IN  /\ scores' = scores \/ SaysAgain
          /\ added => trial_outcome(last) \in {"refused", "stopped"}
          /\ Placed /\ Placed'
          => \A read \in BOOLEAN : Served(read)'.sections = Served(read).sections
    ]_vars
=============================================================================
