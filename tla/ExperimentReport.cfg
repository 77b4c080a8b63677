SPECIFICATION Spec
CONSTANTS
  a = a
  b = b
  None = None
  Judge = Judge
  Experiments <- MCExperiments
  Repeats = 1
  Ratings = {1}
  MaxResults = 3
  MaxByHand = 1
  MaxScores = 2
INVARIANTS
  RebuildsAlike
  PlanIsAccounted
  FailingNeverWins
PROPERTIES
  QualityIsTheModelsOwn
CHECK_DEADLOCK FALSE
