SPECIFICATION FairSpec
CONSTANTS
  main = main
  w1 = w1
  w2 = w2
  a = a
  b = b
  c = c
  d = d
  StdIn = StdIn
  Threads <- MCThreads
  EngineThread = main
  Files <- MCFiles
  FileGroups <- MCGroups
  Unreadable = {c}
  GrepStdIn = TRUE
  StdInIsPipe = FALSE
  EngineKinds = {"QuietMode", "EmitMatches"}
INVARIANTS
  SearchInvariant
  AnswerInvariant
  GroupsNotShared
  PrintedInOrder
  EverythingPrinted
  AnswerCorrect
PROPERTIES
  SearchReturns
