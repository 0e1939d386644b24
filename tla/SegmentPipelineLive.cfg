SPECIFICATION FairSpec
CONSTANTS
  t1 = t1
  t2 = t2
  t3 = t3
INVARIANTS
  RunsSequentially
PROPERTIES
  EverySegmentPasses
  AllThreadsLeave
