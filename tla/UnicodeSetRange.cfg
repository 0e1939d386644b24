SPECIFICATION Spec
CONSTANTS
  QuadBits = 3
  QuadCount = 4
  Operands <- MCOperands
  MergingRanges = TRUE
INVARIANT
  MembersExact
