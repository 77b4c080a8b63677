CONSTANTS
  Trials <- MCTrials
  Passes <- MCPasses
  Judged <- MCJudged
  Faulty = TRUE
  NoCall = NoCall

SPECIFICATION ShutdownSpec

INVARIANTS
  SentIsRecorded
  SealedCountsStayTrue
  RecordsTellTheTruth
  PassOutcomesAreTrue

PROPERTIES
  EveryPassEnds
  ShutdownEnds
