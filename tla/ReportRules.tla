---------------------------- MODULE ReportRules ----------------------------
(***************************************************************************)
(* What a report says of the rows it is given (bench/report.py): pure, so  *)
(* that the rows may come from the database or from an export.  All of a   *)
(* reading is sets of records:                                             *)
(*                                                                         *)
(*   in.lineup  the declared lineup, a model per place                       *)
(*   in.primary the declared primary_metric, or None                       *)
(*   in.groups  the experiment's groups, [id, task]                        *)
(*   in.rows    their results, [id, group, at, model, position, error,     *)
(*              sent]; "at" is the row's place among the rows of its cell  *)
(*   in.scores  the score rows, [id, result, scorer, judge, score, passed] *)
(*   in.tasks   the dataset's tasks, [id, kind, cutoff], the kind None     *)
(*              where a task has no scorer; or None, no dataset was read    *)
(*   in.cells   how many cells the plan has                                *)
(*                                                                         *)
(* Latencies, providers, documents and the wording are left out; the money *)
(* of a row is in ResultRecord, and here only whose row it is.             *)
(***************************************************************************)
EXTENDS TrialPlan, FiniteSets, FiniteSetsExt

CONSTANT None

\* f of v, with v computed once: an argument is computed at every use.
Once(v, f(_)) == CHOOSE y \in {f(x) : x \in {v}} : TRUE

\* Variant: a trial somebody cut is the model's failure.
QualityOutcomesCut == {"done", "error", "stopped"}

\* The outcomes a quality number may be computed from.
QualityOutcomes == {"done", "error"}

\* Derived from the row; a refusal is an error with nothing sent.  The code
\* asks it of rows whose run keeps its provenance, and calls an older row an
\* error; the runs of an experiment all keep theirs.
trial_outcome(row) ==
  CASE row.error = None -> "done"
    [] row.error # None /\ ~row.sent -> "refused"
    [] row.error = "aborted" /\ row.sent -> "stopped"
    [] OTHER -> "error"

-----------------------------------------------------------------------------
(***************************************************************************)
(* Which arm each row of a cell belongs to.                                *)
(***************************************************************************)
Arms(in) == DOMAIN in.lineup

Slots(in, model) == {p \in Arms(in) : in.lineup[p] = model}

\* The rows of a cell that are the model's.
Of(cell, model) == {row \in cell : row.model = model}

\* Every one of them has a position of its own that the model occupies.
Usable(in, cell, model) ==
  /\ \A row \in Of(cell, model) : row.position \in Slots(in, model)
  /\ \A row, other \in Of(cell, model) :
        row.position = other.position => row = other

\* Variant, the rule before duplicated lineups: the position alone decides.
cell_arm_by_position(in, row, cell) == row.position

\* By the recorded position if it can tell the rows apart, by the order of
\* the rows if not; rows beyond the model's slots belong to no arm.
cell_arm(in, row, cell) ==
  LET nth  == Cardinality({other \in Of(cell, row.model) : other.at <= row.at})
      left == {p \in Slots(in, row.model) :
                 Cardinality({q \in Slots(in, row.model) : q <= p}) = nth}
  IN  IF Usable(in, cell, row.model) THEN row.position
      ELSE IF left # {} THEN Max(left) ELSE None

Cell(in, group) == {row \in in.rows : row.group = group.id}

\* A cell with no result is not one the report can describe.
recorded_groups(in) == {group \in in.groups : Cell(in, group) # {}}

\* The trials of one recorded cell: every row that is an arm's, and missing
\* for every arm that has none.
CellTrials(in, group) ==
  LET cell == Cell(in, group)
      ran  == {[arm |-> cell_arm(in, row, cell), task |-> group.task, group |-> group.id,
                outcome |-> trial_outcome(row), row |-> row.id,
                scores |-> {score \in in.scores : score.result = row.id}] : row \in cell}
      seen == {trial.arm : trial \in ran}
  IN  {trial \in ran : trial.arm # None} \cup
      {[arm |-> p, task |-> group.task, group |-> group.id,
        outcome |-> "missing", row |-> None, scores |-> {}] : p \in Arms(in) \ seen}

Trials(in) == UNION {CellTrials(in, group) : group \in recorded_groups(in)}

-----------------------------------------------------------------------------
(***************************************************************************)
(* One section: a series, which is a scorer and its judge, over one arm.   *)
(* A mean is <<sum, count>>, its count 0 where there is none.              *)
(***************************************************************************)
\* What the newest row of the full key says, or None.
latest_for(scores, series) ==
  LET matching == {row \in scores : <<row.scorer, row.judge>> = series}
      newest   == CHOOSE row \in matching : \A other \in matching : other.id <= row.id
  IN  IF matching = {} THEN None
      ELSE [score |-> newest.score, passed |-> newest.passed]

\* Every score of a trial with the task it is about.
Scored(trials) ==
  UNION {{[task |-> trial.task, row |-> row] : row \in trial.scores} :
           trial \in trials}

experiment_series(trials) ==
  {<<s.row.scorer, s.row.judge>> : s \in Scored(trials)}

\* The tasks the scorer answers for: those the dataset says, or, where it
\* never mentions the scorer, those some row witnesses.
applicable_tasks(in, trials, scorer) ==
  LET declared == IF in.tasks = None THEN {}
                  ELSE {task.id : task \in {t \in in.tasks : t.kind = scorer}}
  IN  IF declared # {} THEN declared
      ELSE {s.task : s \in {x \in Scored(trials) : x.row.scorer = scorer}}

\* The tasks of the pass rate: those with a cutoff, by the dataset, or by
\* the judge rows that were given a verdict.
eligible_tasks(in, trials, scorer) ==
  IF in.tasks # None THEN {task.id : task \in {t \in in.tasks : t.cutoff}}
  ELSE {s.task : s \in {x \in Scored(trials) :
                          /\ x.row.scorer = scorer
                          /\ x.row.judge # None
                          /\ x.row.passed # None}}

\* An arm's trials on the tasks a series answers for, each with its newest
\* score.
Asked(trials, arm, series, mine) ==
  {[task |-> t.task, group |-> t.group, outcome |-> t.outcome,
    latest |-> latest_for(t.scores, series)] :
     t \in {x \in trials : /\ x.arm = arm
                           /\ x.task \in mine
                           /\ x.outcome \in QualityOutcomes}}

TotalScore(asked) == MapThenSumSet(LAMBDA t : t.latest.score, asked)

\* A failed trial adds a zero; one nobody could score adds nothing.
Section(arm, series, asked, eligible) ==
  LET rated    == {t \in asked : t.latest # None}
      scored   == {t \in rated : t.latest.score # None}
      measured == {t \in scored : t.outcome = "done"}
      failures == {t \in asked : t.outcome # "done"}
      judged   == {t \in rated : t.task \in eligible /\ t.latest.passed # None}
  IN  [arm      |-> arm,
       series   |-> series,
       mean     |-> <<TotalScore(measured), Cardinality(measured \cup failures)>>,
       measured |-> Cardinality(measured),
       scored   |-> Cardinality(scored),
       failed   |-> Cardinality(rated \ scored),
       unscored |-> Cardinality(asked \ rated),
       eligible |-> Cardinality({t \in asked : t.task \in eligible}),
       verdicts |-> Cardinality(judged),
       passed   |-> Cardinality({t \in judged : t.latest.passed})]

scorer_report(in, trials, arm, series) ==
  LET mine     == applicable_tasks(in, trials, series[1])
      eligible == eligible_tasks(in, trials, series[1])
      asked    == Asked(trials, arm, series, mine)
  IN  Section(arm, series, asked, eligible)

-----------------------------------------------------------------------------
(***************************************************************************)
(* The ranking.                                                            *)
(***************************************************************************)
\* Of two means.
Above(a, b) == a[1] * b[2] > b[1] * a[2]

\* Equal values share a rank and the next rank skips; no value, no rank.
min_ranks(sections) ==
  {[arm  |-> section.arm,
    rank |-> 1 + Cardinality({other \in sections : /\ other.mean[2] # 0
                                                   /\ Above(other.mean, section.mean)})] :
     section \in {s \in sections : s.mean[2] # 0}}

\* Variant: any series of the metric will do.
rankable_series_any(metric, sections) ==
  {section.series : section \in {s \in sections : s.series[1] = metric}}

\* Only a series somebody measured on some arm can order anything.
rankable_series(metric, sections) ==
  {section.series : section \in {s \in sections : /\ s.series[1] = metric
                                                  /\ s.measured > 0}}

\* The series the ranking is computed on, or None: the declared metric or the
\* only one, with at most one judge.
choose_metric(primary, sections) ==
  LET available == {section.series[1] : section \in sections}
      metric    == IF primary # None THEN primary
                   ELSE IF Cardinality(available) = 1
                        THEN CHOOSE s \in available : TRUE ELSE None
      rankable  == rankable_series(metric, sections)
      judged    == {series \in rankable : series[2] # None}
  IN  IF metric = None \/ rankable = {} \/ Cardinality(judged) > 1 THEN None
      ELSE IF judged # {} THEN CHOOSE s \in judged : TRUE
                          ELSE CHOOSE s \in rankable : TRUE

Sections(in, trials) ==
  {scorer_report(in, trials, p, series) :
     p \in Arms(in), series \in experiment_series(trials)}

\* The report of a reading, the trials and sections derived from it.
Published(in, trials, sections) ==
  LET recorded == Cardinality(recorded_groups(in))
      ranking  == choose_metric(in.primary, sections)
  IN  [not_run  |-> IF in.cells > recorded THEN in.cells - recorded ELSE 0,
       trials   |-> {[arm |-> t.arm, group |-> t.group, outcome |-> t.outcome,
                      row |-> t.row] : t \in trials},
       sections |-> sections,
       ranking  |-> ranking,
       ranks    |-> IF ranking = None THEN {}
                    ELSE min_ranks({s \in sections : s.series = ranking})]

build_report(reading) ==
  Once(reading, LAMBDA in :
    Once(Trials(in), LAMBDA trials :
      Once(Sections(in, trials), LAMBDA sections :
        Published(in, trials, sections))))
=============================================================================
