CONSTANTS
  c1 = c1  c2 = c2  h1 = h1  h2 = h2
  Clones <- MCClones
  Heads <- MCHeads
  Faulty = FALSE
  None = None

SPECIFICATION Spec

SYMMETRY Symmetry

INVARIANTS
  FailedUpdateKeepsTheClone
