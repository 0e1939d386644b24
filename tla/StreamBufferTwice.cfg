SPECIFICATION Spec
CONSTANTS
  t1 = t1
  t2 = t2
  t3 = t3
  Threads <- MCTwo
  NumKernels = 3
  Pipelines <- MCSequential
  InitialCapacity = 1
  MaxItems = 7
  MaxSegments = 5
  AllOnes = 99
SYMMETRY MCThreadSymmetry
INVARIANTS
  FreedOnce
