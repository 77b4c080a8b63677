------------------------- MODULE MCExperimentReport -------------------------
EXTENDS ExperimentReport

CONSTANTS a, b

Unscored == [kind |-> None, cutoff |-> FALSE]
Exact    == [kind |-> "contains", cutoff |-> FALSE]
Judged   == [kind |-> "judge", cutoff |-> FALSE]
Cutoff   == [kind |-> "judge", cutoff |-> TRUE]

MCExperiments ==
  {[lineup |-> <<a, a>>, tasks |-> <<Judged>>, order |-> <<1>>,
    legacy |-> TRUE, primary |-> None],
   [lineup |-> <<a, b>>, tasks |-> <<Exact, Cutoff>>, order |-> <<2, 1>>,
    legacy |-> FALSE, primary |-> "judge"],
   [lineup |-> <<a>>, tasks |-> <<Unscored, Exact>>, order |-> <<1, 2>>,
    legacy |-> FALSE, primary |-> None]}

\* A kind with both sorts of task, as the violation needs.
MCMixed ==
  {[lineup |-> <<a, a>>, tasks |-> <<Judged, Cutoff>>, order |-> <<2, 1>>,
    legacy |-> FALSE, primary |-> None]}
=============================================================================
