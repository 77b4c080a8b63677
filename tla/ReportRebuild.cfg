SPECIFICATION Spec
CONSTANTS
  a = a
  b = b
  None = None
  Judge = Judge
  Experiments <- MCMixed
  Repeats = 1
  Ratings = {1}
  MaxResults = 3
  MaxByHand = 0
  MaxScores = 2
INVARIANT RebuildsFromExport
CHECK_DEADLOCK FALSE
