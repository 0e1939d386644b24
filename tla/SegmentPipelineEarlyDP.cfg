SPECIFICATION Spec
CONSTANTS
  t1 = t1
  t2 = t2
  t3 = t3
  Threads <- MCTwo
  NumKernels = 3
  NumPartitions = 3
  KernelPartitionId <- MCPartition3
  FirstKernelInPartition <- MCFirst3
  PartitionJumpTargetId <- MCJump3
  Producers <- MCProducers3
  DataParallel = {2}
  CanSetTerminateSignal = {1, 2}
  MustExplicitlyTerminate = {1}
  MayFatallyTerminate = {}
  PropagationTargets = {}
  TerminationCheck = {2, 3}
  SerializeThreads = FALSE
  LastInput = 2
INVARIANTS
  ReleasesOwnSegment
