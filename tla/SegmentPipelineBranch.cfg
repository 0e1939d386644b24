SPECIFICATION Spec
CONSTANTS
  t1 = t1
  t2 = t2
  t3 = t3
  Threads <- MCThree
  NumKernels = 6
  NumPartitions = 4
  KernelPartitionId <- MCPartition6
  FirstKernelInPartition <- MCFirst6
  PartitionJumpTargetId <- MCJump6
  Producers <- MCProducers6
  DataParallel = {3, 4, 5}
  CanSetTerminateSignal = {1}
  MustExplicitlyTerminate = {1}
  MayFatallyTerminate = {1}
  PropagationTargets = {2}
  TerminationCheck = {3, 4}
  SerializeThreads = FALSE
  LastInput = 2
SYMMETRY MCThreadSymmetry
INVARIANTS
  TypeOK
  TerminationInvariant
  LockInvariant
  EarlierSegmentsFirst
  ReleasesOwnSegment
  NeverOvertaken
  NeverInvokedAfterTermination
  CompletedAfterProducer
  LeavesWhenTerminated
PROPERTIES
  ImplementsOrder
  TerminatesOnce
