SPECIFICATION FairSpec
CONSTANTS
  w1 = w1
  w2 = w2
  w3 = w3
  w4 = w4
  Workers <- MCWorkers
  MinimumThreads = 2
  MaximumThreads = 4
  Period = 1
  LastSegment = 3
INVARIANTS
  TypeOK
  ScanInArray
  OneThreadPerSlot
  FreedWhenIdle
PROPERTIES
  DriverReturns
