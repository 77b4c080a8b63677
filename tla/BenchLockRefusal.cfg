CONSTANTS
  s1 = s1  s2 = s2  apply = apply  dry = dry
  name = name  link = link  db = db
  Nobody = Nobody
  Procs <- MCProcs
  Kind <- MCKind
  Paths <- MCPaths
  Files <- MCFiles
  Resolves <- MCResolves
SPECIFICATION Spec

PROPERTIES RefusalNamesTheHolder
