CONSTANTS
  Experiments <- MCExperiments
  Plan <- MCPlan
  Pinned <- MCPinned
  HaltOnRefusal <- MCHaltOnRefusal
  None = None
  Listed = 1
  Faulty = FALSE

SPECIFICATION Spec

INVARIANTS
  RunningHasARunner
