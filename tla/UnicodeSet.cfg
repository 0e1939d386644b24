SPECIFICATION Spec
CONSTANTS
  QuadBits = 3
  QuadCount = 4
  Operands <- MCOperands
  MergingRanges = FALSE
INVARIANTS
  TypeOK
  MembersExact
  IterationExact
  PredicatesExact
  OrderTotal
  ComparisonsExact
