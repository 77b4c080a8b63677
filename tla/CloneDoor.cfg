CONSTANTS
  c1 = c1  c2 = c2  h1 = h1  h2 = h2
  Clones <- MCClones
  Heads <- MCHeads
  Faulty = TRUE
  None = None

SPECIFICATION Spec

SYMMETRY Symmetry

INVARIANTS
  FinalIsWhole
  RowDescribesTheTree
  WalksReadWholeTrees

PROPERTIES
  OnlyASweepLosesATree
