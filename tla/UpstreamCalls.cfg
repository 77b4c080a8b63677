CONSTANTS
  b1 = b1  b2 = b2  s1 = s1  t1 = t1  j1 = j1
  Calls <- MCCalls
  Kind <- MCKind
  Worst <- MCWorst
  Requests <- MCRequests
  Limit = 3
  NoLimit = NoLimit
  Costs = {0, 1, 3}
  Slots = 2

SPECIFICATION FairSpec

INVARIANTS
  ClaimsFollowCalls
  LedgerBound
  SleepersHaveAWaker

PROPERTIES
  CeilingClosesTheWire
  StopSendsNoJudgeCall
  KeepsTheContract
  EveryCallEnds
