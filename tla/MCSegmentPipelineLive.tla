----------------------- MODULE MCSegmentPipelineLive -----------------------
(***************************************************************************)
(* Fair runs of three compiled pipelines, one of them with the option      *)
(* SerializeThreads.  Which pipeline it is does not change during a run.   *)
(***************************************************************************)
EXTENDS Naturals

CONSTANTS t1, t2, t3

VARIABLES compiled, nextSegNo, pre, post, signal, returned, pc, segNo, kernelId,
          target, seen, closing

\* A source, a partition {2, 3} that jumps past the end of the phase, and a
\* last kernel.
Straight == INSTANCE SegmentPipeline WITH
  Threads <- {t1, t2}, NumKernels <- 4, NumPartitions <- 3,
  KernelPartitionId <- <<1, 2, 2, 3>>, FirstKernelInPartition <- <<1, 2, 4, 5>>,
  PartitionJumpTargetId <- <<2, 4, 4>>, Producers <- <<{}, {1}, {2}, {3}>>,
  DataParallel <- {2, 4}, CanSetTerminateSignal <- {1, 3},
  MustExplicitlyTerminate <- {1}, MayFatallyTerminate <- {},
  PropagationTargets <- {4}, TerminationCheck <- {3},
  SerializeThreads <- FALSE, LastInput <- 1

\* The last two kernels are one partition that ends by its own code only.
Explicit == INSTANCE SegmentPipeline WITH
  Threads <- {t1, t2}, NumKernels <- 4, NumPartitions <- 3,
  KernelPartitionId <- <<1, 2, 3, 3>>, FirstKernelInPartition <- <<1, 2, 3, 5>>,
  PartitionJumpTargetId <- <<2, 3, 4>>, Producers <- <<{}, {1}, {2}, {3}>>,
  DataParallel <- {2, 3}, CanSetTerminateSignal <- {1, 4},
  MustExplicitlyTerminate <- {4}, MayFatallyTerminate <- {},
  PropagationTargets <- {2}, TerminationCheck <- {3},
  SerializeThreads <- FALSE, LastInput <- 2

\* The first pipeline again, with three threads that run one after the other.
Serial == INSTANCE SegmentPipeline WITH
  Threads <- {t1, t2, t3}, NumKernels <- 4, NumPartitions <- 3,
  KernelPartitionId <- <<1, 2, 2, 3>>, FirstKernelInPartition <- <<1, 2, 4, 5>>,
  PartitionJumpTargetId <- <<2, 4, 4>>, Producers <- <<{}, {1}, {2}, {3}>>,
  DataParallel <- {}, CanSetTerminateSignal <- {1, 3},
  MustExplicitlyTerminate <- {1}, MayFatallyTerminate <- {},
  PropagationTargets <- {4}, TerminationCheck <- {3},
  SerializeThreads <- TRUE, LastInput <- 1

vars == <<compiled, nextSegNo, pre, post, signal, returned, pc, segNo, kernelId,
          target, seen, closing>>

Init == \/ compiled = "straight" /\ Straight!Init
        \/ compiled = "explicit" /\ Explicit!Init
        \/ compiled = "serial" /\ Serial!Init

ThreadStep(t) ==
  /\ \/ compiled = "straight" /\ t # t3 /\ Straight!ThreadStep(t)
     \/ compiled = "explicit" /\ t # t3 /\ Explicit!ThreadStep(t)
     \/ compiled = "serial" /\ Serial!ThreadStep(t)
  /\ UNCHANGED compiled

Finished == (\A t \in DOMAIN pc : pc[t] = "done") /\ UNCHANGED vars

Next == (\E t \in {t1, t2, t3} : ThreadStep(t)) \/ Finished

FairSpec == Init /\ [][Next]_vars /\ \A t \in {t1, t2, t3} : WF_vars(ThreadStep(t))

-----------------------------------------------------------------------------
\* Every segment number that was fetched passes every kernel
\* (obtainCurrentSegmentNumber, releaseAllSynchronizationLocksUntil).
EverySegmentPasses ==
  /\ compiled = "straight" => Straight!EverySegmentPasses
  /\ compiled = "explicit" => Explicit!EverySegmentPasses
  /\ compiled = "serial" => Serial!EverySegmentPasses

\* Once the input ends every thread leaves the pipeline loop and can be joined.
AllThreadsLeave == <>(\A t \in DOMAIN pc : pc[t] = "done")

\* With SerializeThreads at most one thread works at a time, "Force segment
\* threads to run sequentially".
RunsSequentially == compiled = "serial" => Serial!RunsSequentially
=============================================================================
