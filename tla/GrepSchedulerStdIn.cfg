SPECIFICATION Spec
CONSTANTS
  main = main
  w1 = w1
  w2 = w2
  a = a
  b = b
  c = c
  d = d
  StdIn = StdIn
  Threads <- MCThreads
  EngineThread = main
  Files <- MCFiles
  FileGroups <- MCGroupsShort
  Unreadable = {c}
  GrepStdIn = TRUE
  StdInIsPipe = TRUE
  EngineKinds = {"EmitMatches"}
INVARIANTS
  StdInSearched
