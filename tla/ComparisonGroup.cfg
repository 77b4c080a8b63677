SPECIFICATION Spec

CONSTANTS
  None = None
  f = f
  t = t
  Files = {f}
  Trees = {t}
  Versions = {1, 2}
  SeesImages = {"a", "b"}
  OldReadings <- MCOldReadings
  OldGroups <- MCOldGroups
  Declarations <- MCDeclarations
  Requests <- MCRequests
  Guesses = FALSE
  MaxGroups = 3
  MaxMembers = 2
  MaxCaptures = 2

INVARIANTS
  OneExperiment
  RecordsWhatWasSent
  PinsAreHonourable
