CONSTANTS
  b1 = b1  b2 = b2  s1 = s1  t1 = t1  j1 = j1
  Calls <- MCFewCalls
  Kind <- MCFewKind
  Worst <- MCFewWorst
  Requests <- MCFewRequests
  Limit = 2
  NoLimit = NoLimit
  Costs = {0, 1, 3}
  Slots = 1

SPECIFICATION Spec

PROPERTIES
  StopSendsNoWaitingTrial
