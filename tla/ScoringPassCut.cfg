CONSTANTS
  Trials <- MCTwoTrials
  Passes <- MCOnePass
  Judged <- MCJudged
  Faulty = FALSE
  NoCall = NoCall

SPECIFICATION Spec

INVARIANTS
  StoppedWentOut
