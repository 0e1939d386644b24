SPECIFICATION Spec
CONSTANTS
  t1 = t1
  t2 = t2
  t3 = t3
  Threads <- MCThree
  NumKernels = 3
  Pipelines <- MCPipelines
  InitialCapacity = 1
  MaxItems = 11
  MaxSegments = 4
  AllOnes = 99
SYMMETRY MCThreadSymmetry
INVARIANTS
  TypeOK
  ReadsWhatWasProduced
  UnreadKept
  StoresFit
  NothingLeaked
  ReclaimInvariant
  StreamInvariant
PROPERTIES
  ImplementsStreamSet
