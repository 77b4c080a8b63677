CONSTANTS
  Experiments <- MCExperiments
  Plan <- MCPlan
  Pinned <- MCPinned
  HaltOnRefusal <- MCHaltOnRefusal
  None = None
  Listed = 2
  Faulty = TRUE

SPECIFICATION Spec

INVARIANTS
  SlotIsFreed
