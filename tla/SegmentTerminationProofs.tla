----------------------- MODULE SegmentTerminationProofs -----------------------
(***************************************************************************)
(* Theorems about how the threads of a pipeline end their kernels and leave *)
(* the pipeline, for any number of threads, kernels and partitions, and that *)
(* they never all wait for one another.                                    *)
(***************************************************************************)
EXTENDS SegmentPipelineProofs

USE DEF Kernels, Partitions

\* The kernels at which a thread can look for a signal, a root or a follower.
LEMMA RootsAreKernels ==
  ASSUME NEW k \in Kernels
  PROVE  /\ RootOf(k) \in Kernels
         /\ TerminationSignalIndex(k) \in Kernels
         /\ ~HasTerminationSignal(k) => TerminationSignalIndex(k) = RootOf(k)
         /\ IsPartitionRoot(k) <=> RootOf(k) = k
<1>1. KernelPartitionId[k] \in 1 .. NumPartitions
  BY PartitionAssumption
<1>2. KernelPartitionId[k] \in 1 .. NumPartitions + 1
  BY <1>1, CountAssumption
<1>3. RootOf(k) \in 1 .. NumKernels + 1 /\ RootOf(k) <= k
  BY <1>2, PartitionAssumption DEF RootOf
<1>4. RootOf(k) \in Kernels
  BY <1>3, CountAssumption
<1>5. QED BY <1>4 DEF TerminationSignalIndex, RootOf, IsPartitionRoot

\* What the partitioning analysis numbers are natural numbers.
LEMMA FirstKernelsNat ==
  ASSUME NEW p \in 1 .. NumPartitions + 1
  PROVE  FirstKernelInPartition[p] \in Nat
<1>1. FirstKernelInPartition[p] \in 1 .. NumKernels + 1
  BY PartitionAssumption
<1>2. QED BY <1>1, CountAssumption

\* Kernels of one partition have one root, and a kernel's partition cannot lie
\* behind one that starts later.
LEMMA PartitionOfKernel ==
  ASSUME NEW k \in Kernels, NEW p \in Partitions,
         FirstKernelInPartition[p] <= k, k < FirstKernelInPartition[p + 1]
  PROVE  KernelPartitionId[k] = p
<1> DEFINE q == KernelPartitionId[k]
<1>1. q \in 1 .. NumPartitions
  BY PartitionAssumption
<1>2. /\ q \in 1 .. NumPartitions + 1 /\ p \in 1 .. NumPartitions + 1
      /\ q + 1 \in 1 .. NumPartitions + 1 /\ p + 1 \in 1 .. NumPartitions + 1
  BY <1>1, CountAssumption
<1>3. FirstKernelInPartition[q] <= k /\ k < FirstKernelInPartition[q + 1]
  BY PartitionAssumption
<1> HIDE DEF q
<1>4. /\ FirstKernelInPartition[q] \in Nat /\ FirstKernelInPartition[p] \in Nat
      /\ FirstKernelInPartition[q + 1] \in Nat /\ FirstKernelInPartition[p + 1] \in Nat
  BY <1>2, FirstKernelsNat
<1>5. \A i, j \in 1 .. NumPartitions + 1 :
        i < j => FirstKernelInPartition[i] < FirstKernelInPartition[j]
  BY PartitionAssumption
<1>6. ~(q < p)
  <2>1. q < p => q + 1 = p \/ q + 1 < p
    BY <1>1
  <2>2. q < p => FirstKernelInPartition[q + 1] <= FirstKernelInPartition[p]
    BY <1>2, <1>4, <1>5, <2>1
  <2>3. QED BY <1>3, <1>4, <2>2
<1>7. ~(p < q)
  <2>1. p < q => p + 1 = q \/ p + 1 < q
    BY <1>1
  <2>2. p < q => FirstKernelInPartition[p + 1] <= FirstKernelInPartition[q]
    BY <1>2, <1>4, <1>5, <2>1
  <2>3. QED BY <1>3, <1>4, <2>2
<1>8. p = q
  BY <1>1, <1>6, <1>7
<1>9. QED BY <1>8 DEF q

\* The first kernel of each partition is its root.
LEMMA FirstIsRoot ==
  ASSUME NEW p \in Partitions
  PROVE  FirstKernelInPartition[p] \in Kernels
         /\ IsPartitionRoot(FirstKernelInPartition[p])
<1>1. /\ p \in 1 .. NumPartitions + 1 /\ p + 1 \in 1 .. NumPartitions + 1
      /\ NumPartitions + 1 \in 1 .. NumPartitions + 1
      /\ p < p + 1 /\ p < NumPartitions + 1
  BY CountAssumption
<1>2. /\ FirstKernelInPartition[p] \in 1 .. NumKernels + 1
      /\ FirstKernelInPartition[p] < NumKernels + 1
      /\ FirstKernelInPartition[p] < FirstKernelInPartition[p + 1]
  BY <1>1, PartitionAssumption
<1>3. FirstKernelInPartition[p] \in Kernels
  BY <1>2, CountAssumption
<1>4. FirstKernelInPartition[p] <= FirstKernelInPartition[p]
  BY <1>3, CountAssumption
<1>5. KernelPartitionId[FirstKernelInPartition[p]] = p
  BY <1>2, <1>3, <1>4, PartitionOfKernel
<1>6. QED BY <1>3, <1>5 DEF IsPartitionRoot

\* A kernel that is not a root follows another kernel of its partition; the
\* first kernel of the phase is a root.
LEMMA FollowersFollow ==
  ASSUME NEW k \in Kernels
  PROVE  /\ k + 1 \in Kernels /\ ~IsPartitionRoot(k + 1) => FollowedInPartition(k)
         /\ FollowedInPartition(k) => k + 1 \in Kernels /\ RootOf(k + 1) = RootOf(k)
<1>1. ASSUME k + 1 \in Kernels, ~IsPartitionRoot(k + 1)
      PROVE  FollowedInPartition(k)
  <2> DEFINE p == KernelPartitionId[k + 1]
  <2>1. p \in Partitions /\ RootOf(k + 1) \in Kernels /\ RootOf(k + 1) # k + 1
    BY <1>1, PartitionAssumption, RootsAreKernels
  <2>2. FirstKernelInPartition[p] <= k + 1 /\ k + 1 < FirstKernelInPartition[p + 1]
    BY <1>1, PartitionAssumption
  <2>3. p + 1 \in 1 .. NumPartitions + 1
    BY <2>1, CountAssumption
  <2>4. FirstKernelInPartition[p + 1] \in Nat
    BY <2>3, FirstKernelsNat
  <2>5. FirstKernelInPartition[p] = RootOf(k + 1)
    BY DEF RootOf
  <2>6. FirstKernelInPartition[p] <= k /\ k < FirstKernelInPartition[p + 1]
    BY <2>1, <2>2, <2>4, <2>5, CountAssumption
  <2> HIDE DEF p
  <2>7. KernelPartitionId[k] = p
    BY <2>1, <2>6, PartitionOfKernel
  <2>8. k < NumKernels
    BY <1>1, CountAssumption
  <2>9. QED BY <2>7, <2>8 DEF FollowedInPartition, p
<1>2. ASSUME FollowedInPartition(k)
      PROVE  k + 1 \in Kernels /\ RootOf(k + 1) = RootOf(k)
  BY <1>2, CountAssumption DEF FollowedInPartition, RootOf
<1>3. QED BY <1>1, <1>2

\* The first kernel of the phase leads the first partition.
LEMMA KernelOneIsRoot == 1 \in Kernels /\ IsPartitionRoot(1)
<1>1. 1 \in Kernels
  BY CountAssumption
<1>2. RootOf(1) \in Kernels
  BY <1>1, RootsAreKernels
<1>3. RootOf(1) <= 1
  BY <1>1, PartitionAssumption DEF RootOf
<1>4. QED BY <1>1, <1>2, <1>3, RootsAreKernels, CountAssumption

-----------------------------------------------------------------------------
\* A thread's step leaves the control state of every other thread alone.
LEMMA OthersKeep ==
  ASSUME TypeOK, NEW t \in Threads, ThreadStep(t), NEW u \in Threads, u # t
  PROVE  /\ pc'[u] = pc[u] /\ segNo'[u] = segNo[u] /\ kernelId'[u] = kernelId[u]
         /\ target'[u] = target[u] /\ seen'[u] = seen[u] /\ closing'[u] = closing[u]
<1>1. CASE \/ ExitTerminatedToNextPartition(t) \/ ExitTerminatedByJump(t)
           \/ ExitTerminatedDirectly(t) \/ InsufficientIO(t)
  BY <1>1 DEF ExitTerminatedToNextPartition, ExitTerminatedByJump, TypeOK,
     ExitTerminatedDirectly, InsufficientIO, JumpTo, ExitDirectly, Goto, threadVars
<1>2. CASE \/ ObtainSegmentNumber(t) \/ Acquire(t) \/ ReleaseSkippedPost(t)
           \/ RecordTermination(t)
  BY <1>2 DEF ObtainSegmentNumber, Acquire, ReleaseSkippedPost, RecordTermination,
     Read, Goto, TypeOK
<1>3. CASE \/ CatchPropagatedTermination(t) \/ InvokeKernel(t) \/ InvokeFinally(t)
           \/ ReturnNormally(t) \/ ReturnTerminated(t)
           \/ ReleaseAfterTermination(t) \/ AwaitPost(t) \/ ExitKernel(t)
           \/ AcquireJumpTarget(t) \/ ReleaseSkippedPre(t) \/ EndSegment(t)
  BY <1>3 DEF CatchPropagatedTermination, InvokeKernel, InvokeFinally, ReturnNormally,
     ReturnTerminated, ReleaseAfterTermination, AwaitPost, ExitKernel,
     AcquireJumpTarget, ReleaseSkippedPre, EndSegment, Goto, threadVars, TypeOK
<1>4. QED BY <1>1, <1>2, <1>3 DEF ThreadStep

\* writeTerminationSignal is the only writer of a termination signal.
LEMMA SignalStep ==
  ASSUME NEW t \in Threads, ThreadStep(t)
  PROVE  UNCHANGED signal \/ RecordTermination(t)
BY DEF ThreadStep, ExitTerminatedToNextPartition, ExitTerminatedByJump,
   ExitTerminatedDirectly, InsufficientIO, JumpTo, ExitDirectly,
   ObtainSegmentNumber, Acquire, ReleaseSkippedPost,
   CatchPropagatedTermination, InvokeKernel, InvokeFinally, ReturnNormally,
   ReturnTerminated, ReleaseAfterTermination, AwaitPost, ExitKernel,
   AcquireJumpTarget, ReleaseSkippedPre, EndSegment

\* A thread's copy of the signals changes where it starts a segment, reads a
\* kernel's signal or records one.
LEMMA SeenStep ==
  ASSUME NEW t \in Threads, ThreadStep(t)
  PROVE  \/ UNCHANGED seen
         \/ ObtainSegmentNumber(t) \/ Acquire(t) \/ ReleaseSkippedPost(t)
         \/ RecordTermination(t)
BY DEF ThreadStep, ExitTerminatedToNextPartition, ExitTerminatedByJump,
   ExitTerminatedDirectly, InsufficientIO, JumpTo, ExitDirectly, threadVars,
   CatchPropagatedTermination, InvokeKernel, InvokeFinally, ReturnNormally,
   ReturnTerminated, ReleaseAfterTermination, AwaitPost, ExitKernel,
   AcquireJumpTarget, ReleaseSkippedPre, EndSegment

\* No other thread is inside a kernel, or about to invoke it, when a thread
\* that may record the kernel's termination is at it: the thread's segment
\* holds both counters of the kernel, or the only one.
LEMMA RecordsAlone ==
  ASSUME LockInvariant, NEW t \in Threads, NEW u \in Threads,
         pc[t] \in {"completed", "aborted"},
         kernelId[t] \in DataParallel => MayExit(t, kernelId[t]),
         pc[u] \in {"entered", "run", "final", "completed", "aborted"},
         kernelId[u] = kernelId[t]
  PROVE  u = t
<1> DEFINE k == kernelId[t]
<1>1. /\ Active(t) /\ Active(u) /\ k \in Kernels
      /\ EntryCount(k) = segNo[t] /\ segNo[t] \in Nat /\ segNo[u] \in Nat
  BY DEF LockInvariant, HoldsCounters, Holds, Active, TypeOK
<1>2. segNo[t] = segNo[u]
  <2>1. CASE pc[u] # "run"
    BY <1>1, <2>1 DEF LockInvariant, HoldsCounters, Holds
  <2>2. CASE pc[u] = "run" /\ k \notin DataParallel
    BY <1>1, <2>2 DEF LockInvariant, HoldsCounters, Holds, PastEntry, EntryCount
  <2>3. CASE pc[u] = "run" /\ k \in DataParallel
    <3>1. ~LetOut(t, k) /\ ~LetOut(u, k) /\ LetIn(u, k)
      BY <1>1, <2>3, CountAssumption DEF LetOut, LetIn, PastEntry
    <3>2. post[k] = segNo[t]
      BY <1>1, <2>3, <3>1, ExitHolds
    <3>3. ~(post[k] > segNo[u]) /\ pre[k] > segNo[u]
      BY <1>1, <2>3, <3>1 DEF LockInvariant, CountersMatchPositions
    <3>4. pre[k] = segNo[t]
      BY <1>1, <2>3 DEF EntryCount
    <3>5. QED BY <1>1, <3>2, <3>3, <3>4
  <2>4. QED BY <2>1, <2>2, <2>3
<1>3. QED BY <1>1, <1>2 DEF LockInvariant, SegmentsDistinct

\* Recording makes a signal of the kernel the thread is at, never the fatal one.
LEMMA RecordedSignal ==
  ASSUME LockInvariant, NEW t \in Threads, RecordTermination(t)
  PROVE  /\ kernelId[t] \in Kernels /\ pc[t] \in {"completed", "aborted"}
         /\ kernelId[t] \in DataParallel => MayExit(t, kernelId[t])
         /\ RecordedCode(t) \in {"Completed", "Aborted"}
         /\ HasTerminationSignal(kernelId[t]) =>
              /\ signal' = [signal EXCEPT ![kernelId[t]] = RecordedCode(t)]
              /\ seen' = [seen EXCEPT ![t][kernelId[t]] = RecordedCode(t)]
         /\ ~HasTerminationSignal(kernelId[t]) => UNCHANGED <<signal, seen>>
BY DEF RecordTermination, RecordedCode, At, LockInvariant, HoldsCounters, Holds, Active

\* readTerminationSignal copies at most the signal of the kernel it is called for.
LEMMA ReadCopies ==
  ASSUME TypeOK, NEW t \in Threads, NEW k, NEW u \in Threads, NEW j \in Kernels
  PROVE  Read(t, k)[u][j] = seen[u][j] \/ (u = t /\ j = k /\ Read(t, k)[u][j] = signal[j])
BY DEF Read, TypeOK

-----------------------------------------------------------------------------
\* As the pipeline starts no kernel has terminated.
LEMMA InitTermination == Init => TerminationInvariant
BY DEF Init, TerminationInvariant, SeenWasRecorded, InvokedUnterminated,
       FinalAfterProducer, CompletedAfterProducer, FollowersOpen, FollowerOpen,
       LeftTerminated, Alive, At

\* Signals are never taken back, and a thread only ever copies or makes them.
LEMMA SeenKeeps ==
  ASSUME LockInvariant, SeenWasRecorded, NEW t \in Threads, ThreadStep(t)
  PROVE  SeenWasRecorded'
<1>1. /\ TypeOK /\ signal \in [Kernels -> Signals]
      /\ seen \in [Threads -> [Kernels -> Signals]]
  BY DEF LockInvariant, TypeOK
<1>2. SUFFICES ASSUME NEW k \in Kernels, NEW u \in Threads
               PROVE  /\ signal'[k] # "Fatal"
                      /\ ~HasTerminationSignal(k) => signal'[k] = "None"
                      /\ seen'[u][k] # "Fatal"
                      /\ seen'[u][k] # "None" => signal'[k] # "None"
  BY DEF SeenWasRecorded, HasTerminationSignal
<1>3. /\ signal[k] # "Fatal"
      /\ ~HasTerminationSignal(k) => signal[k] = "None"
      /\ seen[u][k] # "Fatal"
      /\ seen[u][k] # "None" => signal[k] # "None"
  BY DEF SeenWasRecorded
<1>4. CASE RecordTermination(t)
  <2>1. /\ kernelId[t] \in Kernels /\ RecordedCode(t) \in {"Completed", "Aborted"}
        /\ HasTerminationSignal(kernelId[t]) =>
             /\ signal' = [signal EXCEPT ![kernelId[t]] = RecordedCode(t)]
             /\ seen' = [seen EXCEPT ![t][kernelId[t]] = RecordedCode(t)]
        /\ ~HasTerminationSignal(kernelId[t]) => UNCHANGED <<signal, seen>>
    BY <1>4, RecordedSignal
  <2>2. CASE HasTerminationSignal(kernelId[t])
    <3>1. signal'[k] = IF k = kernelId[t] THEN RecordedCode(t) ELSE signal[k]
      BY <1>1, <2>1, <2>2
    <3>2. seen'[u][k] = IF u = t /\ k = kernelId[t] THEN RecordedCode(t) ELSE seen[u][k]
      <4>1. seen' = [seen EXCEPT ![t][kernelId[t]] = RecordedCode(t)]
        BY <2>1, <2>2
      <4>2. CASE u = t
        BY <1>1, <2>1, <4>1, <4>2
      <4>3. CASE u # t
        BY <1>1, <4>1, <4>3
      <4>4. QED BY <4>2, <4>3
    <3>3. QED BY <1>3, <2>1, <2>2, <3>1, <3>2
  <2>3. CASE ~HasTerminationSignal(kernelId[t])
    BY <1>3, <2>1, <2>3
  <2>4. QED BY <2>2, <2>3
<1>5. CASE ~RecordTermination(t) /\ UNCHANGED seen
  BY <1>3, <1>5, SignalStep
<1>6. CASE ObtainSegmentNumber(t)
  BY <1>1, <1>3, <1>6 DEF ObtainSegmentNumber
<1>7. CASE Acquire(t)
  BY <1>1, <1>3, <1>7, ReadCopies DEF Acquire
<1>8. CASE ReleaseSkippedPost(t)
  BY <1>1, <1>3, <1>8, ReadCopies DEF ReleaseSkippedPost
<1>9. QED BY <1>4, <1>5, <1>6, <1>7, <1>8, SeenStep

\* Between the decision to invoke a kernel and the record of its end the
\* kernel's signal stays as it was found.
LEMMA InvokedKeeps ==
  ASSUME LockInvariant, LockInvariant', TerminationInvariant, SeenWasRecorded',
         NEW t \in Threads, ThreadStep(t)
  PROVE  InvokedUnterminated'
<1>1. /\ TypeOK /\ signal \in [Kernels -> Signals]
      /\ seen \in [Threads -> [Kernels -> Signals]]
      /\ pc \in [Threads -> ControlPoints]
      /\ kernelId \in [Threads -> 1 .. NumKernels + 1]
  BY DEF LockInvariant, TypeOK
<1>2. SUFFICES ASSUME NEW u \in Threads,
                      Alive(u)' \/ pc'[u] \in {"run", "final", "completed", "aborted"}
               PROVE  signal'[kernelId'[u]] = "None"
  BY DEF InvokedUnterminated
<1>3. CASE u # t
  <2>1. /\ pc'[u] = pc[u] /\ kernelId'[u] = kernelId[u] /\ seen'[u] = seen[u]
    BY <1>1, <1>3, OthersKeep
  <2>2. /\ Alive(u) \/ pc[u] \in {"run", "final", "completed", "aborted"}
        /\ pc[u] \in {"entered", "run", "final", "completed", "aborted"}
    BY <1>2, <2>1 DEF Alive, At, InitiallyTerminated, HasTerminationSignal
  <2>3. signal[kernelId[u]] = "None"
    BY <2>2 DEF TerminationInvariant, InvokedUnterminated
  <2>4. CASE UNCHANGED signal
    BY <2>1, <2>3, <2>4
  <2>5. CASE RecordTermination(t)
    <3>1. kernelId[u] # kernelId[t]
      BY <1>3, <2>2, <2>5, RecordedSignal, RecordsAlone
    <3>2. signal'[kernelId[u]] = signal[kernelId[u]]
      <4>1. kernelId[u] \in Kernels
        BY <2>2 DEF LockInvariant, HoldsCounters, Holds, Active
      <4>2. CASE HasTerminationSignal(kernelId[t])
        <5>1. signal' = [signal EXCEPT ![kernelId[t]] = RecordedCode(t)]
          BY <2>5, <4>2, RecordedSignal
        <5>2. QED BY <1>1, <3>1, <4>1, <5>1
      <4>3. CASE ~HasTerminationSignal(kernelId[t])
        BY <2>5, <4>3, RecordedSignal
      <4>4. QED BY <4>2, <4>3
    <3>3. QED BY <2>1, <2>3, <3>2
  <2>6. QED BY <2>4, <2>5, SignalStep
<1>4. CASE u = t
  <2>1. CASE Acquire(t)
    <3>1. /\ UNCHANGED <<kernelId, signal>> /\ pc'[t] = "entered"
          /\ seen' = Read(t, kernelId[t])
      BY <1>1, <2>1 DEF Acquire, Goto
    <3>2. kernelId[t] \in Kernels
      BY <2>1 DEF Acquire, At, LockInvariant, HoldsCounters, Holds, Active
    <3>3. HasTerminationSignal(kernelId[t]) => seen'[t][kernelId[t]] = signal[kernelId[t]]
      BY <1>1, <3>1, <3>2 DEF Read
    <3>4. ~HasTerminationSignal(kernelId[t]) => signal[kernelId[t]] = "None"
      BY <3>2 DEF TerminationInvariant, SeenWasRecorded
    <3>5. HasTerminationSignal(kernelId[t]) => seen'[t][kernelId[t]] = "None"
      BY <1>2, <1>4, <3>1 DEF Alive, InitiallyTerminated, At, HasTerminationSignal
    <3>6. QED BY <1>4, <3>1, <3>3, <3>4, <3>5
  <2>2. CASE ReleaseSkippedPost(t)
    <3>1. /\ UNCHANGED <<signal, target>> /\ kernelId'[t] = kernelId[t] + 1
          /\ pc'[t] \in {"entered", "skipPre", "skipPost", "endSegment"}
          /\ seen' = IF target[t] <= NumKernels THEN Read(t, kernelId[t] + 1) ELSE seen
          /\ pc'[t] = "entered" => ~(kernelId[t] + 1 < target[t]) /\ kernelId[t] + 1 <= NumKernels
          /\ kernelId[t] \in Kernels /\ target[t] \in 1 .. NumKernels + 1
      BY <1>1, <2>2 DEF ReleaseSkippedPost, Goto, FirstRelease, LockInvariant, TypeOK,
                        HoldsCounters, Holds, Active, At
    <3>2. pc'[t] = "entered"
      BY <1>2, <1>4, <3>1 DEF Alive, At
    <3>3. /\ kernelId'[t] \in Kernels /\ target[t] <= NumKernels
          /\ seen' = Read(t, kernelId'[t])
      BY <3>1, <3>2, CountAssumption
    <3>4. HasTerminationSignal(kernelId'[t]) => seen'[t][kernelId'[t]] = signal[kernelId'[t]]
      BY <1>1, <3>3 DEF Read
    <3>5. ~HasTerminationSignal(kernelId'[t]) => signal[kernelId'[t]] = "None"
      BY <3>3 DEF TerminationInvariant, SeenWasRecorded
    <3>6. HasTerminationSignal(kernelId'[t]) => seen'[t][kernelId'[t]] = "None"
      BY <1>2, <1>4, <3>2 DEF Alive, InitiallyTerminated, At, HasTerminationSignal
    <3>7. QED BY <1>4, <3>1, <3>4, <3>5, <3>6
  <2>3. CASE \/ CatchPropagatedTermination(t) \/ InvokeKernel(t) \/ InvokeFinally(t)
             \/ ReturnNormally(t) \/ ReturnTerminated(t)
    <3>1. /\ UNCHANGED <<signal, kernelId>>
          /\ Alive(t) \/ pc[t] \in {"run", "final"}
      BY <2>3 DEF CatchPropagatedTermination, InvokeKernel, InvokeFinally,
                  ReturnNormally, ReturnTerminated, At
    <3>2. QED
      BY <1>4, <3>1 DEF TerminationInvariant, InvokedUnterminated
  <2>4. CASE \/ ExitTerminatedToNextPartition(t) \/ ExitTerminatedByJump(t)
             \/ ExitTerminatedDirectly(t) \/ InsufficientIO(t)
    BY <1>1, <1>2, <1>4, <2>4
       DEF ExitTerminatedToNextPartition, ExitTerminatedByJump, ExitTerminatedDirectly,
           InsufficientIO, JumpTo, ExitDirectly, Goto, Alive, At
  <2>5. CASE \/ ObtainSegmentNumber(t) \/ RecordTermination(t)
             \/ ReleaseAfterTermination(t) \/ AwaitPost(t) \/ ExitKernel(t)
             \/ AcquireJumpTarget(t) \/ ReleaseSkippedPre(t) \/ EndSegment(t)
    BY <1>1, <1>2, <1>4, <2>5
       DEF ObtainSegmentNumber, RecordTermination, ReleaseAfterTermination, AwaitPost,
           ExitKernel, AcquireJumpTarget, ReleaseSkippedPre, EndSegment, Goto, Alive,
           At, FirstRelease
  <2>6. QED BY <2>1, <2>2, <2>3, <2>4, <2>5 DEF ThreadStep
<1>5. QED BY <1>3, <1>4

\* A recorded signal is not taken back.
LEMMA SignalsStay ==
  ASSUME LockInvariant, NEW t \in Threads, ThreadStep(t), NEW k \in Kernels,
         signal[k] # "None"
  PROVE  signal'[k] # "None"
<1>1. signal \in [Kernels -> Signals]
  BY DEF LockInvariant, TypeOK
<1>2. CASE RecordTermination(t)
  <2>1. CASE HasTerminationSignal(kernelId[t])
    <3>1. /\ signal' = [signal EXCEPT ![kernelId[t]] = RecordedCode(t)]
          /\ RecordedCode(t) \in {"Completed", "Aborted"}
      BY <1>2, <2>1, RecordedSignal
    <3>2. QED BY <1>1, <3>1
  <2>2. CASE ~HasTerminationSignal(kernelId[t])
    BY <1>2, <2>2, RecordedSignal
  <2>3. QED BY <2>1, <2>2
<1>3. QED BY <1>2, SignalStep

\* A thread finds a producer closed before it runs a root for the last time,
\* and reads no signal until it records that.
LEMMA FinalKeeps ==
  ASSUME LockInvariant, TerminationInvariant, NEW t \in Threads, ThreadStep(t)
  PROVE  FinalAfterProducer'
<1>1. /\ TypeOK /\ pc \in [Threads -> ControlPoints]
  BY DEF LockInvariant, TypeOK
<1>2. SUFFICES ASSUME NEW u \in Threads, pc'[u] \in {"final", "completed"},
                      IsPartitionRoot(kernelId'[u])
               PROVE  \E j \in Producers[kernelId'[u]] :
                        seen'[u][TerminationSignalIndex(j)] # "None"
  BY DEF FinalAfterProducer, IsPartitionRoot, AnyClosed, TerminationSignalIndex,
         HasTerminationSignal
<1>3. CASE u # t
  <2>1. /\ pc'[u] = pc[u] /\ kernelId'[u] = kernelId[u] /\ seen'[u] = seen[u]
    BY <1>1, <1>3, OthersKeep
  <2>2. AnyClosed(u, kernelId[u])
    BY <1>2, <2>1 DEF TerminationInvariant, FinalAfterProducer
  <2>3. QED BY <2>1, <2>2 DEF AnyClosed
<1>4. CASE u = t
  <2>1. \/ InvokeFinally(t)
        \/ ReturnNormally(t) /\ pc[t] = "final"
    BY <1>1, <1>2, <1>4
       DEF ThreadStep, ExitTerminatedToNextPartition, ExitTerminatedByJump,
           ExitTerminatedDirectly, InsufficientIO, JumpTo, ExitDirectly,
           ObtainSegmentNumber, Acquire, ReleaseSkippedPost, RecordTermination,
           CatchPropagatedTermination, InvokeKernel, ReturnNormally, At,
           ReturnTerminated, ReleaseAfterTermination, AwaitPost, ExitKernel,
           AcquireJumpTarget, ReleaseSkippedPre, EndSegment, Goto, FirstRelease
  <2>2. UNCHANGED <<kernelId, seen>>
    BY <2>1 DEF InvokeFinally, ReturnNormally, threadVars
  <2>3. AnyClosed(t, kernelId[t])
    BY <1>2, <1>4, <2>1, <2>2
       DEF InvokeFinally, MayBeFinal, TerminationInvariant, FinalAfterProducer
  <2>4. QED BY <1>4, <2>2, <2>3 DEF AnyClosed
<1>5. QED BY <1>3, <1>4

\* The signal Completed of a root has a terminated producer as its reason.
LEMMA CompletedKeeps ==
  ASSUME LockInvariant, TerminationInvariant, NEW t \in Threads, ThreadStep(t)
  PROVE  CompletedAfterProducer'
<1>1. /\ TypeOK /\ signal \in [Kernels -> Signals]
      /\ Producers \in [Kernels -> SUBSET Kernels]
  BY AttributeAssumption DEF LockInvariant, TypeOK
<1>2. SUFFICES ASSUME NEW k \in Kernels, signal'[k] = "Completed", IsPartitionRoot(k)
               PROVE  \E j \in Producers[k] : signal'[TerminationSignalIndex(j)] # "None"
  BY DEF CompletedAfterProducer, IsPartitionRoot, TerminationSignalIndex,
         HasTerminationSignal
<1>3. \E j \in Producers[k] : signal[TerminationSignalIndex(j)] # "None"
  <2>1. CASE signal[k] = "Completed"
    BY <1>2, <2>1 DEF TerminationInvariant, CompletedAfterProducer
  <2>2. CASE signal[k] # "Completed"
    <3>1. RecordTermination(t)
      BY <1>2, <2>2, SignalStep
    <3>2. HasTerminationSignal(kernelId[t])
      BY <1>2, <2>2, <3>1, RecordedSignal
    <3>3. signal' = [signal EXCEPT ![kernelId[t]] = RecordedCode(t)]
      BY <3>1, <3>2, RecordedSignal
    <3>4. k = kernelId[t] /\ RecordedCode(t) = "Completed"
      BY <1>1, <1>2, <2>2, <3>3
    <3>5. pc[t] = "completed"
      BY <3>4 DEF RecordedCode, At
    <3>6. AnyClosed(t, k)
      BY <1>2, <3>4, <3>5 DEF TerminationInvariant, FinalAfterProducer
    <3>7. \A j \in Producers[k] : TerminationSignalIndex(j) \in Kernels
      BY <1>1, RootsAreKernels
    <3>8. QED
      BY <3>6, <3>7 DEF AnyClosed, TerminationInvariant, SeenWasRecorded
  <2>3. QED BY <2>1, <2>2
<1>4. \A j \in Producers[k] : TerminationSignalIndex(j) \in Kernels
  BY <1>1, RootsAreKernels
<1>5. QED BY <1>3, <1>4, SignalsStay

\* A thread leaves only with every deciding partition seen as terminated.
LEMMA LeavingKeeps ==
  ASSUME LockInvariant, TerminationInvariant, NEW t \in Threads, ThreadStep(t)
  PROVE  LeftTerminated'
<1>1. TypeOK /\ pc \in [Threads -> ControlPoints]
  BY DEF LockInvariant, TypeOK
<1>2. SUFFICES ASSUME NEW u \in Threads, pc'[u] = "done", NEW p \in TerminationCheck
               PROVE  signal'[FirstKernelInPartition[p]] # "None"
  BY DEF LeftTerminated, At
<1>3. FirstKernelInPartition[p] \in Kernels
  BY AttributeAssumption, FirstIsRoot
<1>4. signal[FirstKernelInPartition[p]] # "None"
  <2>1. CASE pc[u] = "done"
    BY <2>1 DEF TerminationInvariant, LeftTerminated, At
  <2>2. CASE pc[u] # "done"
    <3>1. u = t
      BY <1>1, <1>2, <2>2, OthersKeep
    <3>2. EndSegment(t) /\ HasPipelineTerminated(t)
      BY <1>1, <1>2, <2>2, <3>1
         DEF ThreadStep, ExitTerminatedToNextPartition, ExitTerminatedByJump,
             ExitTerminatedDirectly, InsufficientIO, JumpTo, ExitDirectly,
             ObtainSegmentNumber, Acquire, ReleaseSkippedPost, RecordTermination,
             CatchPropagatedTermination, InvokeKernel, InvokeFinally, ReturnNormally,
             ReturnTerminated, ReleaseAfterTermination, AwaitPost, ExitKernel,
             AcquireJumpTarget, ReleaseSkippedPre, EndSegment, Goto, FirstRelease
    <3>3. \A k \in MayFatallyTerminate :
            seen[t][FirstKernelInPartition[KernelPartitionId[k]]] # "Fatal"
      <4> TAKE k \in MayFatallyTerminate
      <4>1. RootOf(k) \in Kernels
        BY AttributeAssumption, RootsAreKernels
      <4>2. QED BY <4>1 DEF TerminationInvariant, SeenWasRecorded, RootOf
    <3>4. seen[t][FirstKernelInPartition[p]] # "None"
      BY <3>2, <3>3 DEF HasPipelineTerminated
    <3>5. QED BY <1>3, <3>4 DEF TerminationInvariant, SeenWasRecorded
  <2>3. QED BY <2>1, <2>2
<1>5. QED BY <1>3, <1>4, SignalsStay

\* A thread takes a partition's root open or closing to the kernels behind it.
LEMMA FollowersKeep ==
  ASSUME LockInvariant, TerminationInvariant, NEW t \in Threads, ThreadStep(t)
  PROVE  FollowersOpen'
<1>1. /\ TypeOK /\ pc \in [Threads -> ControlPoints]
      /\ closing \in [Threads -> BOOLEAN]
      /\ seen \in [Threads -> [Kernels -> Signals]]
      /\ kernelId \in [Threads -> 1 .. NumKernels + 1]
      /\ target \in [Threads -> 1 .. NumKernels + 1]
  BY DEF LockInvariant, TypeOK
<1>2. ASSUME NEW u \in Threads, u # t
      PROVE  FollowerOpen(u)'
  <2>1. FollowerOpen(u)
    BY DEF TerminationInvariant, FollowersOpen
  <2>2. QED
    BY <1>1, <1>2, <2>1, OthersKeep
       DEF FollowerOpen, OpenOrClosing, IsPartitionRoot, FollowedInPartition, RootOf
<1>3. FollowerOpen(t)'
  <2> DEFINE k == kernelId[t]
  <2>1. /\ FollowerOpen(t)
        /\ Active(t) => k \in Kernels
    BY DEF TerminationInvariant, FollowersOpen, LockInvariant, HoldsCounters, Holds
  <2>2. k \in Kernels => /\ RootOf(k) \in Kernels
                         /\ IsPartitionRoot(k) <=> RootOf(k) = k
    BY RootsAreKernels
  \* Only a step at the root of a partition changes what the thread knows of it.
  <2>3. CASE ObtainSegmentNumber(t)
    <3>1. pc'[t] = "acquire" /\ kernelId'[t] = 1
      BY <1>1, <2>3 DEF ObtainSegmentNumber, Goto
    <3>2. QED
      BY <3>1, KernelOneIsRoot DEF FollowerOpen, IsPartitionRoot
  <2>4. CASE Acquire(t)
    <3>1. /\ pc[t] = "acquire" /\ pc'[t] = "entered" /\ UNCHANGED <<kernelId, closing>>
          /\ seen' = Read(t, k) /\ k \in Kernels
      BY <1>1, <2>1, <2>4 DEF Acquire, Goto, At, Active
    <3>2. ~IsPartitionRoot(k) => seen'[t][RootOf(k)] = seen[t][RootOf(k)]
      BY <1>1, <2>2, <3>1, ReadCopies
    <3>3. QED
      BY <2>1, <3>1, <3>2 DEF FollowerOpen, OpenOrClosing, IsPartitionRoot, RootOf
  <2>5. ASSUME NEW p \in 1 .. NumPartitions + 1, JumpTo(t, p)
        PROVE  FollowerOpen(t)'
    <3>1. target'[t] = FirstKernelInPartition[p] /\ pc'[t] \in {"jump", "jumpEnd"}
      BY <1>1, <2>5 DEF JumpTo, Goto
    <3>2. CASE p \in Partitions
      BY <3>1, <3>2, FirstIsRoot DEF FollowerOpen, IsPartitionRoot
    <3>3. CASE p = NumPartitions + 1
      <4>1. ~(target'[t] <= NumKernels)
        BY <3>1, <3>3, PartitionAssumption, CountAssumption
      <4>2. QED BY <3>1, <4>1 DEF FollowerOpen
    <3>4. QED BY <3>2, <3>3, CountAssumption
  <2>6. ASSUME At(t, "entered"), ExitDirectly(t), ~HasJump(k)
        PROVE  FollowerOpen(t)'
    <3>1. /\ pc[t] = "entered" /\ pc'[t] \in {"await", "exit"} /\ k \in Kernels
          /\ UNCHANGED <<kernelId, closing, seen>>
      BY <1>1, <2>1, <2>6 DEF ExitDirectly, Goto, At, Active, threadVars
    <3>2. IsPartitionRoot(k) => ~FollowedInPartition(k)
      BY <2>6 DEF HasJump, FollowedInPartition
    <3>3. QED
      BY <2>1, <3>1, <3>2
         DEF FollowerOpen, OpenOrClosing, IsPartitionRoot, RootOf, FollowedInPartition
  <2>7. CASE \/ ExitTerminatedToNextPartition(t) \/ ExitTerminatedByJump(t)
             \/ ExitTerminatedDirectly(t) \/ InsufficientIO(t)
    <3>1. At(t, "entered") /\ k \in Kernels
      BY <2>1, <2>7 DEF ExitTerminatedToNextPartition, ExitTerminatedByJump, Active,
         ExitTerminatedDirectly, InsufficientIO, InitiallyTerminated, Alive, At
    <3>2. /\ JumpTarget(k) \in 1 .. NumPartitions + 1
          /\ KernelPartitionId[k] + 1 \in 1 .. NumPartitions + 1
      BY <3>1, TargetsForward
    <3>3. \/ JumpTo(t, KernelPartitionId[k] + 1) \/ JumpTo(t, JumpTarget(k))
          \/ ExitDirectly(t) /\ ~HasJump(k)
      BY <2>7 DEF ExitTerminatedToNextPartition, ExitTerminatedByJump,
         ExitTerminatedDirectly, InsufficientIO
    <3>4. QED BY <2>5, <2>6, <3>1, <3>2, <3>3
  <2>8. CASE InvokeKernel(t)
    <3>1. /\ pc[t] = "entered" /\ pc'[t] = "run" /\ k \in Kernels /\ Alive(t)
          /\ UNCHANGED <<kernelId, seen>>
          /\ ~IsPartitionRoot(k) => UNCHANGED closing
      BY <1>1, <2>1, <2>8 DEF InvokeKernel, Alive, Goto, At, Active
    <3>2. IsPartitionRoot(k) => seen[t][k] = "None"
      BY <3>1 DEF TerminationInvariant, InvokedUnterminated, SeenWasRecorded
    <3>3. QED
      BY <2>1, <2>2, <3>1, <3>2
         DEF FollowerOpen, OpenOrClosing, IsPartitionRoot, RootOf, FollowedInPartition
  <2>9. CASE \/ CatchPropagatedTermination(t) \/ InvokeFinally(t)
             \/ ReturnNormally(t) \/ ReturnTerminated(t) \/ ReleaseAfterTermination(t)
             \/ AwaitPost(t)
    <3>1. UNCHANGED <<kernelId, seen, closing>>
      BY <2>9 DEF CatchPropagatedTermination, InvokeFinally, ReturnNormally,
         ReturnTerminated, ReleaseAfterTermination, AwaitPost, threadVars
    <3>2. \/ /\ pc[t] \in {"entered", "run", "final"}
             /\ pc'[t] \in {"final", "aborted", "completed"}
          \/ /\ pc[t] \in {"run", "terminated", "await"}
             /\ pc'[t] \in {"await", "exit"}
      BY <1>1, <2>9 DEF CatchPropagatedTermination, InvokeFinally, ReturnNormally,
         ReturnTerminated, ReleaseAfterTermination, AwaitPost, Alive, Goto, At
    <3>3. QED
      BY <2>1, <3>1, <3>2
         DEF FollowerOpen, OpenOrClosing, IsPartitionRoot, RootOf, FollowedInPartition
  <2>10. CASE RecordTermination(t)
    <3>1. /\ pc[t] \in {"completed", "aborted"} /\ pc'[t] \in {"terminated", "exit"}
          /\ k \in Kernels /\ UNCHANGED kernelId
          /\ IsPartitionRoot(k) => closing'[t]
          /\ ~IsPartitionRoot(k) => UNCHANGED closing
      BY <1>1, <2>1, <2>10 DEF RecordTermination, Goto, At, Active
    <3>2. ~IsPartitionRoot(k) => seen'[t][RootOf(k)] = seen[t][RootOf(k)]
      <4>1. CASE HasTerminationSignal(k)
        <5>1. seen' = [seen EXCEPT ![t][k] = RecordedCode(t)]
          BY <2>10, <4>1, RecordedSignal
        <5>2. QED BY <1>1, <2>2, <3>1, <5>1
      <4>2. CASE ~HasTerminationSignal(k)
        BY <2>10, <4>2, RecordedSignal
      <4>3. QED BY <4>1, <4>2
    <3>3. QED
      BY <2>1, <3>1, <3>2
         DEF FollowerOpen, OpenOrClosing, IsPartitionRoot, RootOf, FollowedInPartition
  <2>11. CASE ExitKernel(t)
    <3>1. /\ pc[t] = "exit" /\ pc'[t] \in {"acquire", "endSegment"} /\ k \in Kernels
          /\ pc'[t] = "acquire" => k # NumKernels
          /\ kernelId'[t] = k + 1 /\ UNCHANGED <<closing, seen>>
      BY <1>1, <2>1, <2>11 DEF ExitKernel, Goto, At, Active, threadVars
    <3>2. CASE pc'[t] = "endSegment"
      BY <3>2 DEF FollowerOpen
    <3>3. CASE pc'[t] = "acquire"
      <4>1. k + 1 \in Kernels
        BY <3>1, <3>3, CountAssumption
      <4>2. ~IsPartitionRoot(k + 1) => FollowedInPartition(k) /\ RootOf(k + 1) = RootOf(k)
        BY <3>1, <4>1, FollowersFollow
      <4>3. ~IsPartitionRoot(k + 1) => closing[t] \/ seen[t][RootOf(k + 1)] = "None"
        BY <2>1, <3>1, <4>2 DEF FollowerOpen, OpenOrClosing
      <4>4. QED
        BY <3>1, <3>3, <4>3 DEF FollowerOpen, OpenOrClosing, IsPartitionRoot, RootOf
    <3>4. QED BY <3>1, <3>2, <3>3
  <2>12. CASE AcquireJumpTarget(t) \/ ReleaseSkippedPre(t)
    <3>1. /\ pc[t] \in {"jump", "jumpEnd", "skipPre"} /\ UNCHANGED target
          /\ pc'[t] \in {"skipPre", "skipPost"}
          /\ pc[t] = "jumpEnd" => target[t] = NumKernels + 1
      BY <1>1, <2>12 DEF AcquireJumpTarget, ReleaseSkippedPre, FirstRelease, Goto, At,
         threadVars, LockInvariant, HoldsCounters, Holds
    <3>2. target'[t] <= NumKernels => IsPartitionRoot(target'[t])
      BY <2>1, <3>1, CountAssumption DEF FollowerOpen
    <3>3. QED BY <3>1, <3>2 DEF FollowerOpen, IsPartitionRoot
  <2>13. CASE ReleaseSkippedPost(t)
    <3>1. /\ pc[t] = "skipPost" /\ UNCHANGED target /\ kernelId'[t] = k + 1
          /\ pc'[t] \in {"skipPre", "skipPost", "entered", "endSegment"}
          /\ pc'[t] = "entered" => ~(k + 1 < target[t]) /\ k + 1 <= NumKernels
          /\ k \in Kernels /\ k < target[t]
      BY <1>1, <2>1, <2>13 DEF ReleaseSkippedPost, FirstRelease, Goto, At, Active,
         LockInvariant, HoldsCounters, Holds
    <3>2. target[t] <= NumKernels => IsPartitionRoot(target[t])
      BY <2>1, <3>1 DEF FollowerOpen
    <3>3. pc'[t] = "entered" => kernelId'[t] = target[t] /\ IsPartitionRoot(kernelId'[t])
      BY <1>1, <3>1, <3>2, CountAssumption
    <3>4. QED BY <3>1, <3>2, <3>3 DEF FollowerOpen, IsPartitionRoot
  <2>14. CASE EndSegment(t)
    <3>1. pc'[t] \in {"done", "fetch"}
      BY <1>1, <2>14 DEF EndSegment, Goto
    <3>2. QED BY <3>1 DEF FollowerOpen
  <2>15. QED
    BY <2>3, <2>4, <2>7, <2>8, <2>9, <2>10, <2>11, <2>12, <2>13, <2>14 DEF ThreadStep
<1>4. QED BY <1>2, <1>3 DEF FollowersOpen

-----------------------------------------------------------------------------
\* Every step of the generated code, the end of the program included, keeps
\* what is known of the termination signals.
LEMMA StepKeepsTermination ==
  ASSUME NoDataParallelTermination, LockInvariant, TerminationInvariant, [Next]_vars
  PROVE  TerminationInvariant'
<1>1. CASE \E t \in Threads : ThreadStep(t)
  <2>1. LockInvariant'
    BY StepKeepsInvariant
  <2>2. SeenWasRecorded'
    BY <1>1, SeenKeeps DEF TerminationInvariant
  <2>3. InvokedUnterminated'
    BY <1>1, <2>1, <2>2, InvokedKeeps
  <2>4. /\ FinalAfterProducer' /\ CompletedAfterProducer'
        /\ FollowersOpen' /\ LeftTerminated'
    BY <1>1, FinalKeeps, CompletedKeeps, FollowersKeep, LeavingKeeps
  <2>5. QED BY <2>2, <2>3, <2>4 DEF TerminationInvariant
<1>2. CASE UNCHANGED vars
  BY <1>2 DEF vars, TerminationInvariant, SeenWasRecorded, InvokedUnterminated,
     FinalAfterProducer, CompletedAfterProducer, FollowersOpen, FollowerOpen,
     LeftTerminated, Alive, InitiallyTerminated, AnyClosed, OpenOrClosing, At,
     HasTerminationSignal, IsPartitionRoot, TerminationSignalIndex, RootOf,
     FollowedInPartition
<1>3. QED BY <1>1, <1>2 DEF Next, Finished

\* The invariant of the termination signals: each is written by the one thread
\* that holds its kernel, and no thread acts on one that it did not read under
\* the kernel's counters.
THEOREM TerminationInvariantHolds ==
  ASSUME NoDataParallelTermination
  PROVE  Spec => []TerminationInvariant
<1>1. Init => TerminationInvariant
  BY InitTermination
<1>2. LockInvariant /\ TerminationInvariant /\ [Next]_vars => TerminationInvariant'
  BY StepKeepsTermination
<1>3. Spec => []LockInvariant
  BY LockInvariantHolds
<1>4. QED BY <1>1, <1>2, <1>3, PTL DEF Spec

\* signalAbnormalTermination records Aborted for every code that a kernel
\* returns: no signal is ever fatal, so the tests for Fatal in
\* hasPipelineTerminated, which are to halt the pipeline when a kernel reports a
\* fatal termination, never succeed.
FatalNeverRecorded ==
  \A k \in Kernels :
    /\ signal[k] # "Fatal"
    /\ \A t \in Threads : seen[t][k] # "Fatal"

THEOREM FatalIsNeverRecorded ==
  ASSUME NoDataParallelTermination
  PROVE  Spec => []FatalNeverRecorded
<1>1. TerminationInvariant => FatalNeverRecorded
  BY DEF TerminationInvariant, SeenWasRecorded, FatalNeverRecorded
<1>2. QED BY <1>1, TerminationInvariantHolds, PTL

\* What a recorded signal promises: neither the kernel nor, once its segment is
\* through, a kernel behind it in the partition is invoked again.
THEOREM TerminatedStaysIdle ==
  ASSUME NoDataParallelTermination
  PROVE  Spec => []NeverInvokedAfterTermination
<1>1. LockInvariant /\ TerminationInvariant => NeverInvokedAfterTermination
  <2> SUFFICES ASSUME LockInvariant, TerminationInvariant,
                      NEW t \in Threads, Invoking(t)
               PROVE  /\ signal[kernelId[t]] = "None"
                      /\ \/ closing[t] /\ ~IsPartitionRoot(kernelId[t])
                         \/ seen[t][TerminationSignalIndex(kernelId[t])] = "None"
    BY DEF NeverInvokedAfterTermination
  <2>1. pc[t] \in {"run", "final"} /\ kernelId[t] \in Kernels
    BY DEF Invoking, At, LockInvariant, HoldsCounters, Holds, Active
  <2>2. signal[kernelId[t]] = "None" /\ seen[t][kernelId[t]] = "None"
    BY <2>1 DEF TerminationInvariant, InvokedUnterminated, SeenWasRecorded
  <2>3. CASE HasTerminationSignal(kernelId[t])
    BY <2>2, <2>3 DEF TerminationSignalIndex
  <2>4. CASE ~HasTerminationSignal(kernelId[t])
    <3>1. /\ ~IsPartitionRoot(kernelId[t])
          /\ TerminationSignalIndex(kernelId[t]) = RootOf(kernelId[t])
      BY <2>1, <2>4, RootsAreKernels DEF HasTerminationSignal
    <3>2. OpenOrClosing(t)
      BY <2>1, <3>1 DEF TerminationInvariant, FollowersOpen, FollowerOpen
    <3>3. QED BY <2>2, <3>1, <3>2 DEF OpenOrClosing
  <2>5. QED BY <2>3, <2>4
<1>2. QED BY <1>1, LockInvariantHolds, TerminationInvariantHolds, PTL

\* Termination runs downstream: no root completes before one of its producers.
THEOREM ProducersEndFirst ==
  ASSUME NoDataParallelTermination
  PROVE  Spec => []CompletedAfterProducer
<1>1. TerminationInvariant => CompletedAfterProducer
  BY DEF TerminationInvariant
<1>2. QED BY <1>1, TerminationInvariantHolds, PTL

\* A thread that hasPipelineTerminated lets go leaves no partition behind that
\* still has to end, and no other thread inside its root.
THEOREM ThreadsLeaveInTime ==
  ASSUME NoDataParallelTermination
  PROVE  Spec => []LeavesWhenTerminated
<1>1. TerminationInvariant => LeavesWhenTerminated
  BY DEF TerminationInvariant, LeftTerminated, InvokedUnterminated,
         LeavesWhenTerminated, Invoking, At
<1>2. QED BY <1>1, TerminationInvariantHolds, PTL

\* However many threads execute a kernel, writeTerminationSignal is reached
\* once: the signal it leaves is final.
THEOREM SignalsWrittenOnce ==
  ASSUME NoDataParallelTermination
  PROVE  Spec => TerminatesOnce
<1>1. ASSUME LockInvariant, TerminationInvariant, [Next]_vars
      PROVE  [\A k \in Kernels : signal[k] # "None" => signal'[k] = signal[k]]_vars
  <2>1. CASE UNCHANGED signal
    BY <2>1
  <2>2. ASSUME NEW t \in Threads, ThreadStep(t), RecordTermination(t),
               NEW k \in Kernels, signal[k] # "None"
        PROVE  signal'[k] = signal[k]
    <3>1. pc[t] \in {"completed", "aborted"} /\ kernelId[t] # k
      BY <1>1, <2>2, RecordedSignal DEF TerminationInvariant, InvokedUnterminated
    <3>2. signal \in [Kernels -> Signals]
      BY <1>1 DEF LockInvariant, TypeOK
    <3>3. CASE HasTerminationSignal(kernelId[t])
      <4>1. signal' = [signal EXCEPT ![kernelId[t]] = RecordedCode(t)]
        BY <1>1, <2>2, <3>3, RecordedSignal
      <4>2. QED BY <3>1, <3>2, <4>1
    <3>4. CASE ~HasTerminationSignal(kernelId[t])
      BY <1>1, <2>2, <3>4, RecordedSignal
    <3>5. QED BY <3>3, <3>4
  <2>3. CASE \E t \in Threads : ThreadStep(t)
    BY <2>1, <2>2, <2>3, SignalStep
  <2>4. CASE UNCHANGED vars
    BY <2>4
  <2>5. QED BY <1>1, <2>3, <2>4 DEF Next, Finished
<1>2. QED
  BY <1>1, LockInvariantHolds, TerminationInvariantHolds, PTL DEF Spec, TerminatesOnce

-----------------------------------------------------------------------------
(* The option SerializeThreads.                                            *)

\* Why one thread works at a time: the counter that all threads wait for is
\* that of the last kernel, and it holds the segment of whoever has begun.
LastCounterIsMine ==
  SerializeThreads => \A t \in Threads : Working(t) => post[NumKernels] = segNo[t]

\* Two steps of a segment release a kernel's exit counter, and move past it.
LEMMA PostStep ==
  ASSUME LockInvariant, NEW t \in Threads, ThreadStep(t)
  PROVE  \/ UNCHANGED post
         \/ /\ Active(t) /\ kernelId[t] \in Kernels /\ post[kernelId[t]] = segNo[t]
            /\ post' = Release(post, t)
            /\ kernelId'[t] = kernelId[t] + 1
<1>1. CASE ExitKernel(t) \/ ReleaseSkippedPost(t)
  <2>1. Active(t) /\ kernelId[t] \in Kernels /\ post' = Release(post, t)
    BY <1>1 DEF ExitKernel, ReleaseSkippedPost, At, Active, LockInvariant,
                HoldsCounters, Holds
  <2>2. kernelId'[t] = kernelId[t] + 1
    BY <1>1 DEF ExitKernel, ReleaseSkippedPost, LockInvariant, TypeOK
  <2>3. post' # post => post[kernelId[t]] = segNo[t]
    BY <2>1, CounterStep DEF LetsIn, LetsOut
  <2>4. QED BY <2>1, <2>2, <2>3
<1>2. CASE ~(ExitKernel(t) \/ ReleaseSkippedPost(t))
  BY <1>2 DEF ThreadStep, ExitTerminatedToNextPartition, ExitTerminatedByJump,
     ExitTerminatedDirectly, InsufficientIO, JumpTo, ExitDirectly,
     ObtainSegmentNumber, Acquire, RecordTermination,
     CatchPropagatedTermination, InvokeKernel, InvokeFinally, ReturnNormally,
     ReturnTerminated, ReleaseAfterTermination, AwaitPost,
     AcquireJumpTarget, ReleaseSkippedPre, EndSegment
<1>3. QED BY <1>1, <1>2

\* The thread that has begun its segment keeps the last counter until it is
\* done with it; only then can another begin.
LEMMA SerialKeeps ==
  ASSUME LockInvariant, LockInvariant', LastCounterIsMine,
         NEW t \in Threads, ThreadStep(t)
  PROVE  LastCounterIsMine'
<1>1. /\ TypeOK /\ post \in [Kernels -> Nat] /\ pc \in [Threads -> ControlPoints]
      /\ segNo \in [Threads -> Nat]
      /\ kernelId \in [Threads -> 1 .. NumKernels + 1]
  BY DEF LockInvariant, TypeOK
<1>2. SUFFICES ASSUME SerializeThreads, NEW u \in Threads, Working(u)'
               PROVE  post'[NumKernels] = segNo'[u]
  BY DEF LastCounterIsMine
<1>3. CASE u # t
  <2>1. /\ pc'[u] = pc[u] /\ segNo'[u] = segNo[u] /\ kernelId'[u] = kernelId[u]
    BY <1>1, <1>3, OthersKeep
  <2>2. Working(u) /\ Active(u)
    BY <1>2, <2>1 DEF Working, Active, At
  <2>3. post[NumKernels] = segNo[u]
    BY <1>2, <2>2 DEF LastCounterIsMine
  <2>4. post'[NumKernels] = post[NumKernels]
    <3>1. CASE UNCHANGED post
      BY <3>1
    <3>2. CASE post' # post
      <4>1. /\ Active(t) /\ kernelId[t] \in Kernels
            /\ post[kernelId[t]] = segNo[t] /\ post' = Release(post, t)
        BY <3>2, PostStep
      <4>2. segNo[t] # segNo[u]
        BY <1>3, <2>2, <4>1 DEF LockInvariant, SegmentsDistinct
      <4>3. kernelId[t] # NumKernels
        BY <2>3, <4>1, <4>2
      <4>4. QED BY <1>1, <4>1, <4>3 DEF Release
    <3>3. QED BY <3>1, <3>2
  <2>5. QED BY <2>1, <2>3, <2>4
<1>4. CASE u = t
  <2>1. CASE Working(t)
    <3>1. post[NumKernels] = segNo[t]
      BY <1>2, <2>1 DEF LastCounterIsMine
    <3>2. segNo'[t] = segNo[t]
      BY <2>1 DEF Working, Active, At, ThreadStep, ExitTerminatedToNextPartition,
         ExitTerminatedByJump, ExitTerminatedDirectly, InsufficientIO, JumpTo,
         ExitDirectly, ObtainSegmentNumber, Acquire, RecordTermination, threadVars,
         CatchPropagatedTermination, InvokeKernel, InvokeFinally, ReturnNormally,
         ReturnTerminated, ReleaseAfterTermination, AwaitPost, ExitKernel,
         ReleaseSkippedPost, AcquireJumpTarget, ReleaseSkippedPre, EndSegment
    <3>3. CASE UNCHANGED post
      BY <1>4, <3>1, <3>2, <3>3
    <3>4. CASE post' # post
      <4>1. /\ kernelId[t] \in Kernels /\ post' = Release(post, t)
            /\ kernelId'[t] = kernelId[t] + 1
        BY <3>4, PostStep
      <4>2. kernelId'[t] \in Kernels
        BY <1>2, <1>4 DEF Working, LockInvariant, HoldsCounters, Holds
      <4>3. kernelId[t] # NumKernels
        BY <4>1, <4>2, CountAssumption
      <4>4. QED BY <1>1, <1>4, <3>1, <3>2, <4>1, <4>3 DEF Release
    <3>5. QED BY <3>3, <3>4
  <2>2. CASE ~Working(t)
    <3>1. Acquire(t)
      <4>1. pc[t] \in {"fetch", "endSegment", "done"} \/ (pc[t] = "acquire" /\ kernelId[t] = 1)
        BY <2>2 DEF Working, Active, At
      <4>2. ObtainSegmentNumber(t) \/ Acquire(t) \/ EndSegment(t)
        BY <4>1 DEF ThreadStep, At, ExitTerminatedToNextPartition, InitiallyTerminated,
           ExitTerminatedByJump, ExitTerminatedDirectly, InsufficientIO, Alive,
           RecordTermination, CatchPropagatedTermination, InvokeKernel,
           InvokeFinally, ReturnNormally, ReturnTerminated, ReleaseAfterTermination,
           AwaitPost, ExitKernel, ReleaseSkippedPost, AcquireJumpTarget,
           ReleaseSkippedPre
      <4>3. ~ObtainSegmentNumber(t)
        BY <1>1, <1>2, <1>4 DEF ObtainSegmentNumber, Goto, Working, At
      <4>4. ~EndSegment(t)
        BY <1>1, <1>2, <1>4 DEF EndSegment, Goto, Working, Active
      <4>5. QED BY <4>2, <4>3, <4>4
    <3>2. post[NumKernels] = segNo[t]
      BY <1>2, <3>1, AttributeAssumption DEF Acquire, MayEnter, WaitingOn, EntryCount
    <3>3. QED BY <1>4, <3>1, <3>2 DEF Acquire
  <2>3. QED BY <2>1, <2>2
<1>5. QED BY <1>3, <1>4

\* With SerializeThreads the whole of a segment, from the first kernel to the
\* last, is one critical section.
THEOREM SerializedThreadsAlternate ==
  ASSUME NoDataParallelTermination
  PROVE  Spec => []RunsSequentially
<1>1. Init => LastCounterIsMine
  BY DEF Init, LastCounterIsMine, Working, Active
<1>2. LockInvariant /\ LockInvariant' /\ LastCounterIsMine /\ [Next]_vars => LastCounterIsMine'
  <2> SUFFICES ASSUME LockInvariant, LockInvariant', LastCounterIsMine, [Next]_vars
               PROVE  LastCounterIsMine'
    OBVIOUS
  <2>1. CASE \E t \in Threads : ThreadStep(t)
    BY <2>1, SerialKeeps
  <2>2. CASE UNCHANGED vars
    BY <2>2 DEF vars, LastCounterIsMine, Working, Active, At
  <2>3. QED BY <2>1, <2>2 DEF Next, Finished
<1>3. LockInvariant /\ LastCounterIsMine => RunsSequentially
  BY DEF LockInvariant, SegmentsDistinct, LastCounterIsMine, RunsSequentially, Working
<1>4. QED BY <1>1, <1>2, <1>3, LockInvariantHolds, PTL DEF Spec

-----------------------------------------------------------------------------
(* No deadlock.                                                            *)

\* A thread spins on a counter that does not hold its segment number yet
\* (acquireSynchronizationLock); every other control point has a step.
Waits(t) ==
  \/ At(t, "acquire") /\ ~MayEnter(t, kernelId[t])
  \/ At(t, "jump") /\ ~MayEnter(t, target[t])
  \/ At(t, "jumpEnd") /\ ~MayExit(t, NumKernels)
  \/ At(t, "await") /\ ~MayExit(t, kernelId[t])
  \/ /\ pc[t] \in {"completed", "aborted"} /\ kernelId[t] \in DataParallel
     /\ ~MayExit(t, kernelId[t])

\* No segment is lost: a number that was fetched and has not passed the last
\* kernel is carried by a thread that is still inside its segment.
SegmentsCarried ==
  \A s \in Nat : post[NumKernels] <= s /\ s < nextSegNo =>
    \E t \in Threads : Active(t) /\ segNo[t] = s

\* The thread with the earliest segment waits for nobody.
EarliestNeverWaits ==
  \A t \in Threads :
    Active(t) /\ (\A u \in Threads : Active(u) => segNo[t] <= segNo[u]) => ~Waits(t)

\* Until all threads have left the loop, there is one that does not wait.
SomeThreadGoesOn ==
  (\A t \in Threads : At(t, "done")) \/ \E t \in Threads : ~At(t, "done") /\ ~Waits(t)

\* A thread inside its segment stays there with the same number until it has
\* released the exit counter of the last kernel.
LEMMA CarriesOn ==
  ASSUME LockInvariant, NEW t \in Threads, ThreadStep(t), Active(t)
  PROVE  /\ segNo' = segNo /\ nextSegNo' = nextSegNo
         /\ \/ Active(t)'
            \/ /\ kernelId[t] = NumKernels /\ post[NumKernels] = segNo[t]
               /\ post' = Release(post, t)
<1>1. pc \in [Threads -> ControlPoints] /\ kernelId[t] \in Kernels
  BY DEF LockInvariant, TypeOK, HoldsCounters, Holds
<1>2. \A label : Goto(t, label) => pc'[t] = label
  BY <1>1 DEF Goto
<1>3. ~ObtainSegmentNumber(t) /\ ~EndSegment(t)
  BY DEF ObtainSegmentNumber, EndSegment, Active, At
<1>4. segNo' = segNo /\ nextSegNo' = nextSegNo
  <2>1. UNCHANGED threadVars => segNo' = segNo
    BY DEF threadVars
  <2>2. CASE \/ ExitTerminatedToNextPartition(t) \/ ExitTerminatedByJump(t)
             \/ ExitTerminatedDirectly(t) \/ InsufficientIO(t)
    <3>1. (\E p : JumpTo(t, p)) \/ ExitDirectly(t)
      BY <2>2, Zenon DEF ExitTerminatedToNextPartition, ExitTerminatedByJump,
                         ExitTerminatedDirectly, InsufficientIO
    <3>2. QED BY <2>1, <3>1, Zenon DEF JumpTo, ExitDirectly
  <2>3. CASE \/ Acquire(t) \/ CatchPropagatedTermination(t) \/ InvokeKernel(t)
             \/ InvokeFinally(t) \/ ReturnNormally(t) \/ ReturnTerminated(t)
    BY <2>1, <2>3, Zenon DEF Acquire, CatchPropagatedTermination, InvokeKernel,
                             InvokeFinally, ReturnNormally, ReturnTerminated
  <2>4. CASE \/ RecordTermination(t) \/ ReleaseAfterTermination(t) \/ AwaitPost(t)
             \/ ExitKernel(t) \/ AcquireJumpTarget(t) \/ ReleaseSkippedPre(t)
             \/ ReleaseSkippedPost(t)
    BY <2>1, <2>4, Zenon DEF RecordTermination, ReleaseAfterTermination, AwaitPost,
                             ExitKernel, AcquireJumpTarget, ReleaseSkippedPre,
                             ReleaseSkippedPost
  <2>5. QED BY <1>3, <2>2, <2>3, <2>4, Zenon DEF ThreadStep
<1>5. CASE \/ ExitTerminatedToNextPartition(t) \/ ExitTerminatedByJump(t)
           \/ ExitTerminatedDirectly(t) \/ InsufficientIO(t)
  <2>1. (\E p : JumpTo(t, p)) \/ ExitDirectly(t)
    BY <1>5, Zenon DEF ExitTerminatedToNextPartition, ExitTerminatedByJump,
                       ExitTerminatedDirectly, InsufficientIO
  <2>2. \E label \in {"jump", "jumpEnd", "await", "exit"} : Goto(t, label)
    BY <2>1, Zenon DEF JumpTo, ExitDirectly
  <2>3. QED BY <1>2, <1>4, <2>2 DEF Active
<1>6. CASE \/ Acquire(t) \/ CatchPropagatedTermination(t) \/ InvokeKernel(t)
           \/ InvokeFinally(t) \/ ReturnTerminated(t)
  <2>1. \E label \in {"entered", "aborted", "run", "final"} : Goto(t, label)
    BY <1>6, Zenon DEF Acquire, CatchPropagatedTermination, InvokeKernel,
                       InvokeFinally, ReturnTerminated
  <2>2. QED BY <1>2, <1>4, <2>1 DEF Active
<1>7. CASE \/ RecordTermination(t) \/ ReleaseAfterTermination(t) \/ AwaitPost(t)
           \/ ReleaseSkippedPre(t) \/ ReturnNormally(t) \/ AcquireJumpTarget(t)
  <2>1. \E label \in {"terminated", "exit", "skipPost", "completed", "await", "skipPre"} :
          Goto(t, label)
    BY <1>7, Zenon DEF RecordTermination, ReleaseAfterTermination, AwaitPost,
                       ReleaseSkippedPre, ReturnNormally, AcquireJumpTarget, FirstRelease
  <2>2. QED BY <1>2, <1>4, <2>1 DEF Active
<1>8. CASE ExitKernel(t) \/ ReleaseSkippedPost(t)
  <2>1. post' = Release(post, t) /\ post[kernelId[t]] = segNo[t]
    <3>1. post' = Release(post, t) /\ pc[t] \in {"exit", "skipPost"}
      BY <1>8 DEF ExitKernel, ReleaseSkippedPost, At
    <3>2. CASE pc[t] = "exit"
      BY <3>1, <3>2 DEF LockInvariant, HoldsCounters, Holds
    <3>3. CASE pc[t] = "skipPost"
      <4>1. kernelId[t] < target[t] /\ target[t] \in Nat
        BY <3>3 DEF LockInvariant, HoldsCounters, Holds, TypeOK
      <4>2. kernelId[t] <= kernelId[t] /\ pc[t] \in {"skipPre", "skipPost"}
        BY <1>1, <3>3
      <4>3. QED BY <1>1, <3>1, <4>1, <4>2, PassedOver
    <3>4. QED BY <3>1, <3>2, <3>3
  <2>2. CASE kernelId[t] = NumKernels
    BY <1>4, <2>1, <2>2
  <2>3. CASE kernelId[t] # NumKernels
    <3>1. kernelId[t] + 1 <= NumKernels
      BY <1>1, <2>3, CountAssumption
    <3>2. CASE ExitKernel(t)
      <4>1. Goto(t, "acquire")
        BY <2>3, <3>2, Zenon DEF ExitKernel
      <4>2. QED BY <1>2, <1>4, <4>1 DEF Active
    <3>3. CASE ReleaseSkippedPost(t)
      <4>1. \E label \in {"skipPre", "skipPost", "entered"} : Goto(t, label)
        <5>1. Goto(t, IF kernelId[t] + 1 < target[t] THEN FirstRelease(kernelId[t] + 1)
                      ELSE IF kernelId[t] + 1 <= NumKernels THEN "entered" ELSE "endSegment")
          BY <3>3, Zenon DEF ReleaseSkippedPost
        <5>2. QED BY <3>1, <5>1, Zenon DEF FirstRelease
      <4>2. QED BY <1>2, <1>4, <4>1 DEF Active
    <3>4. QED BY <1>8, <3>2, <3>3
  <2>4. QED BY <2>2, <2>3
<1>9. QED BY <1>3, <1>5, <1>6, <1>7, <1>8, Zenon DEF ThreadStep

\* No step loses a segment.
LEMMA CarriedKeeps ==
  ASSUME LockInvariant, SegmentsCarried, NEW t \in Threads, ThreadStep(t)
  PROVE  SegmentsCarried'
<1>1. /\ TypeOK /\ post \in [Kernels -> Nat] /\ nextSegNo \in Nat
      /\ segNo \in [Threads -> Nat] /\ pc \in [Threads -> ControlPoints]
      /\ NumKernels \in Kernels
  <2>1. NumKernels \in Kernels
    BY CountAssumption
  <2>2. TypeOK
    BY DEF LockInvariant
  <2>3. QED BY <2>1, <2>2 DEF TypeOK
<1>2. \A u \in Threads \ {t} : segNo'[u] = segNo[u] /\ (Active(u) => Active(u)')
  <2> SUFFICES ASSUME NEW u \in Threads, u # t
               PROVE  segNo'[u] = segNo[u] /\ (Active(u) => Active(u)')
    OBVIOUS
  <2>1. pc'[u] = pc[u] /\ segNo'[u] = segNo[u]
    BY <1>1, OthersKeep
  <2>2. QED BY <2>1 DEF Active
<1>3. SUFFICES ASSUME NEW s \in Nat, post'[NumKernels] <= s, s < nextSegNo'
               PROVE  \E u \in Threads : Active(u)' /\ segNo'[u] = s
  BY DEF SegmentsCarried
<1>4. CASE ObtainSegmentNumber(t)
  <2>1. /\ pc' = [pc EXCEPT ![t] = "acquire"] /\ segNo' = [segNo EXCEPT ![t] = nextSegNo]
        /\ nextSegNo' = nextSegNo + 1 /\ post' = post /\ ~Active(t)
    BY <1>4 DEF ObtainSegmentNumber, Goto, At, Active
  <2>2. CASE s = nextSegNo
    <3>1. Active(t)' /\ segNo'[t] = s
      BY <1>1, <2>1, <2>2 DEF Active
    <3>2. QED BY <3>1
  <2>3. CASE s # nextSegNo
    <3>1. s < nextSegNo /\ post[NumKernels] <= s
      BY <1>1, <1>3, <2>1, <2>3
    <3>2. PICK u \in Threads : Active(u) /\ segNo[u] = s
      BY <3>1 DEF SegmentsCarried
    <3>3. u # t
      BY <2>1, <3>2
    <3>4. QED BY <1>2, <3>2, <3>3
  <2>4. QED BY <2>2, <2>3
<1>5. CASE ~ObtainSegmentNumber(t) /\ ~Active(t)
  <2>1. EndSegment(t)
    BY <1>5 DEF Active, ThreadStep, At, Acquire, ExitTerminatedToNextPartition,
       InitiallyTerminated, ExitTerminatedByJump, ExitTerminatedDirectly, InsufficientIO,
       Alive, RecordTermination, CatchPropagatedTermination, InvokeKernel, InvokeFinally,
       ReturnNormally, ReturnTerminated, ReleaseAfterTermination, AwaitPost, ExitKernel,
       ReleaseSkippedPost, AcquireJumpTarget, ReleaseSkippedPre
  <2>2. nextSegNo' = nextSegNo /\ post' = post
    BY <2>1, Zenon DEF EndSegment
  <2>3. PICK u \in Threads : Active(u) /\ segNo[u] = s
    BY <1>3, <2>2 DEF SegmentsCarried
  <2>4. u # t
    BY <1>5, <2>3
  <2>5. QED BY <1>2, <2>3, <2>4
<1>6. CASE Active(t)
  <2>1. segNo' = segNo /\ nextSegNo' = nextSegNo
    BY <1>6, CarriesOn
  <2>2. CASE Active(t)'
    <3>1. post'[NumKernels] = post[NumKernels] \/ post'[NumKernels] = segNo[t] + 1
      BY <1>1, PostStep DEF Release
    <3>2. post[NumKernels] <= segNo[t] /\ segNo[t] \in Nat
      <4>1. kernelId[t] \in Kernels
        BY <1>6 DEF LockInvariant, HoldsCounters, Holds
      <4>2. ~LetOut(t, NumKernels)
        BY <4>1, CountAssumption DEF LetOut
      <4>3. QED BY <1>1, <1>6, <4>2 DEF LockInvariant, CountersMatchPositions
    <3>3. post[NumKernels] <= s
      BY <1>1, <1>3, <3>1, <3>2
    <3>4. PICK u \in Threads : Active(u) /\ segNo[u] = s
      BY <1>3, <2>1, <3>3 DEF SegmentsCarried
    <3>5. QED BY <1>2, <2>1, <2>2, <3>4
  <2>3. CASE ~Active(t)'
    <3>1. /\ post[NumKernels] = segNo[t] /\ kernelId[t] = NumKernels
          /\ post' = Release(post, t)
      BY <1>6, <2>3, CarriesOn
    <3>2. post'[NumKernels] = segNo[t] + 1 /\ segNo[t] \in Nat
      BY <1>1, <3>1 DEF Release
    <3>3. post[NumKernels] <= s /\ s # segNo[t]
      BY <1>3, <3>1, <3>2
    <3>4. PICK u \in Threads : Active(u) /\ segNo[u] = s
      BY <1>3, <2>1, <3>3 DEF SegmentsCarried
    <3>5. u # t
      BY <3>3, <3>4
    <3>6. QED BY <1>2, <3>4, <3>5
  <2>4. QED BY <2>2, <2>3
<1>7. QED BY <1>4, <1>5, <1>6

\* A counter that a thread with the earliest segment still has to wait for
\* already holds its number.
LEMMA EarliestMayGo ==
  ASSUME LockInvariant, SegmentsCarried, NEW t \in Threads, Active(t),
         \A u \in Threads : Active(u) => segNo[t] <= segNo[u]
  PROVE  ~Waits(t)
<1>1. /\ TypeOK /\ post \in [Kernels -> Nat] /\ pre \in [Kernels -> Nat]
      /\ nextSegNo \in Nat /\ segNo \in [Threads -> Nat] /\ segNo[t] \in Nat
      /\ NumKernels \in Kernels /\ kernelId[t] \in Kernels /\ segNo[t] < nextSegNo
      /\ target[t] \in 1 .. NumKernels + 1
  <2>1. TypeOK
    BY DEF LockInvariant
  <2>2. NumKernels \in Kernels
    BY CountAssumption
  <2>3. kernelId[t] \in Kernels
    BY DEF LockInvariant, HoldsCounters, Holds
  <2>4. segNo[t] < nextSegNo
    BY DEF LockInvariant, SegmentsDistinct
  <2>5. QED BY <2>1, <2>2, <2>3, <2>4 DEF TypeOK
<1>2. \A k \in Kernels :
        /\ ~LetOut(t, k) => post[k] <= segNo[t]
        /\ k \in DataParallel /\ ~LetIn(t, k) => pre[k] <= segNo[t]
  <2> SUFFICES ASSUME NEW k \in Kernels
               PROVE  /\ ~LetOut(t, k) => post[k] <= segNo[t]
                      /\ k \in DataParallel /\ ~LetIn(t, k) => pre[k] <= segNo[t]
    OBVIOUS
  <2>1. /\ post[k] > segNo[t] <=> LetOut(t, k)
        /\ k \in DataParallel => (pre[k] > segNo[t] <=> LetIn(t, k))
    BY Zenon DEF LockInvariant, CountersMatchPositions
  <2>2. post[k] \in Nat /\ pre[k] \in Nat
    BY <1>1
  <2>3. QED BY <1>1, <2>1, <2>2
<1>3. post[NumKernels] = segNo[t]
  <2>1. post[NumKernels] <= segNo[t]
    BY <1>1, <1>2, CountAssumption DEF LetOut
  <2>2. SUFFICES ASSUME post[NumKernels] < segNo[t]
                 PROVE  FALSE
    BY <1>1, <2>1
  <2>3. post[NumKernels] \in Nat /\ post[NumKernels] < nextSegNo
    BY <1>1, <2>2
  <2>4. PICK u \in Threads : Active(u) /\ segNo[u] = post[NumKernels]
    BY <2>3 DEF SegmentsCarried
  <2>5. segNo[t] <= segNo[u]
    BY <2>4
  <2>6. QED BY <1>1, <2>2, <2>4, <2>5
\* Every counter is at least that of the last kernel.
<1>4. \A k \in Kernels : post[k] >= segNo[t]
                         /\ (k \in DataParallel => pre[k] >= segNo[t])
  <2> SUFFICES ASSUME NEW k \in Kernels
               PROVE  post[k] >= segNo[t] /\ (k \in DataParallel => pre[k] >= segNo[t])
    OBVIOUS
  <2>1. \A j \in Kernels : j \in DataParallel => post[j] <= pre[j]
    BY DEF LockInvariant, CountersOrdered
  <2>2. CASE k = NumKernels
    BY <1>1, <1>3, <2>1, <2>2
  <2>3. CASE k # NumKernels
    <3>1. k \in 1 .. NumKernels - 1
      BY <2>3, CountAssumption
    <3>2. EntryCount(NumKernels) <= post[k]
      BY <1>1, <3>1 DEF LockInvariant, CountersOrdered
    <3>3. post[NumKernels] <= EntryCount(NumKernels) /\ EntryCount(NumKernels) \in Nat
      BY <1>1, <2>1 DEF EntryCount
    <3>4. post[k] \in Nat /\ pre[k] \in Nat
      BY <1>1
    <3>5. post[k] >= segNo[t]
      BY <1>1, <1>3, <3>2, <3>3, <3>4
    <3>6. k \in DataParallel => post[k] <= pre[k]
      BY <2>1
    <3>7. QED
      <4> HIDE DEF Kernels
      <4>1. QED BY <1>1, <3>4, <3>5, <3>6
  <2>4. QED BY <2>2, <2>3
\* So the counters it has not passed hold its number.
<1>5. \A k \in Kernels :
        /\ ~LetOut(t, k) => post[k] = segNo[t]
        /\ ~LetIn(t, k) => EntryCount(k) = segNo[t]
  <2> SUFFICES ASSUME NEW k \in Kernels
               PROVE  /\ ~LetOut(t, k) => post[k] = segNo[t]
                      /\ ~LetIn(t, k) => EntryCount(k) = segNo[t]
    OBVIOUS
  <2> HIDE DEF Kernels
  <2>1. post[k] \in Nat /\ pre[k] \in Nat /\ segNo[t] \in Nat
    BY <1>1
  <2>2. ~LetOut(t, k) => post[k] = segNo[t]
    <3>1. post[k] >= segNo[t] /\ (~LetOut(t, k) => post[k] <= segNo[t])
      BY <1>2, <1>4, Zenon
    <3>2. QED BY <2>1, <3>1
  <2>3. k \in DataParallel /\ ~LetIn(t, k) => pre[k] = segNo[t]
    <3>1. k \in DataParallel =>
            pre[k] >= segNo[t] /\ (~LetIn(t, k) => pre[k] <= segNo[t])
      BY <1>2, <1>4, Zenon
    <3>2. QED BY <2>1, <3>1
  <2>4. LetOut(t, k) => LetIn(t, k)
    BY DEF LetOut, LetIn
  <2>5. QED BY <2>2, <2>3, <2>4 DEF EntryCount
<1>6. ~LetOut(t, NumKernels)
  BY <1>1, CountAssumption DEF LetOut
<1>7. ASSUME NEW k \in Kernels
      PROVE  /\ ~LetIn(t, k) => MayEnter(t, k)
             /\ ~LetOut(t, k) => MayExit(t, k)
  <2>1. CASE ~SerializeThreads
    BY <1>5, <2>1 DEF MayEnter, MayExit, WaitingOn
  <2>2. CASE SerializeThreads
    <3>1. DataParallel = {}
      BY <2>2, AttributeAssumption
    <3>2. QED BY <1>3, <2>2, <3>1 DEF MayEnter, MayExit, WaitingOn, EntryCount
  <2>3. QED BY <2>1, <2>2
<1>8. At(t, "acquire") => MayEnter(t, kernelId[t])
  <2>1. At(t, "acquire") => ~LetIn(t, kernelId[t])
    BY <1>1 DEF At, LetIn, PastEntry
  <2>2. QED BY <1>1, <1>7, <2>1
<1>9. At(t, "jump") => MayEnter(t, target[t])
  <2>1. At(t, "jump") => target[t] \in Kernels /\ kernelId[t] < target[t]
    BY <1>1, CountAssumption DEF LockInvariant, HoldsCounters, Holds, At
  <2>2. At(t, "jump") => ~LetIn(t, target[t])
    <3>1. kernelId[t] < target[t] => ~(target[t] < kernelId[t]) /\ target[t] # kernelId[t]
      BY <1>1
    <3>2. QED BY <2>1, <3>1, Zenon DEF LetIn
  <2>3. QED BY <1>7, <2>1, <2>2
<1>10. MayExit(t, NumKernels) /\ MayExit(t, kernelId[t])
  <2>1. ~LetOut(t, kernelId[t])
    BY <1>1 DEF LetOut
  <2>2. QED BY <1>1, <1>6, <1>7, <2>1
<1>11. QED BY <1>8, <1>9, <1>10 DEF Waits

\* Every segment number between the counter of the last kernel and the next
\* number is in a thread's hands, so none is missing from the sequence that
\* the locks admit.
THEOREM NoSegmentIsLost ==
  ASSUME NoDataParallelTermination
  PROVE  Spec => []SegmentsCarried
<1>1. Init => SegmentsCarried
  BY DEF Init, SegmentsCarried
<1>2. LockInvariant /\ SegmentsCarried /\ [Next]_vars => SegmentsCarried'
  <2> SUFFICES ASSUME LockInvariant, SegmentsCarried, [Next]_vars
               PROVE  SegmentsCarried'
    OBVIOUS
  <2>1. CASE \E t \in Threads : ThreadStep(t)
    BY <2>1, CarriedKeeps
  <2>2. CASE UNCHANGED vars
    BY <2>2 DEF vars, SegmentsCarried, Active
  <2>3. QED BY <2>1, <2>2 DEF Next, Finished
<1>3. QED BY <1>1, <1>2, LockInvariantHolds, PTL DEF Spec

\* Jumps included, the wait of the thread with the earliest segment is always
\* over: the releases that come before it on every counter have been made.
THEOREM EarliestSegmentAdvances ==
  ASSUME NoDataParallelTermination
  PROVE  Spec => []EarliestNeverWaits
<1>1. LockInvariant /\ SegmentsCarried => EarliestNeverWaits
  BY EarliestMayGo DEF EarliestNeverWaits
<1>2. QED BY <1>1, LockInvariantHolds, NoSegmentIsLost, PTL

\* The threads never all wait for one another.
THEOREM NoDeadlock ==
  ASSUME NoDataParallelTermination
  PROVE  Spec => []SomeThreadGoesOn
<1>1. LockInvariant /\ SegmentsCarried => SomeThreadGoesOn
  <2> SUFFICES ASSUME LockInvariant, SegmentsCarried,
                      NEW t \in Threads, ~At(t, "done")
               PROVE  \E u \in Threads : ~At(u, "done") /\ ~Waits(u)
    BY DEF SomeThreadGoesOn
  <2>1. CASE ~Active(t)
    BY <2>1 DEF Active, Waits, At
  <2>2. CASE Active(t)
    <3>1. /\ segNo \in [Threads -> Nat] /\ post[NumKernels] \in Nat
          /\ kernelId[t] \in Kernels /\ nextSegNo \in Nat /\ segNo[t] < nextSegNo
      BY <2>2, CountAssumption
         DEF LockInvariant, TypeOK, HoldsCounters, Holds, SegmentsDistinct
    <3>2. \A u \in Threads : Active(u) => post[NumKernels] <= segNo[u]
      <4> SUFFICES ASSUME NEW u \in Threads, Active(u)
                   PROVE  post[NumKernels] <= segNo[u]
        OBVIOUS
      <4>1. kernelId[u] \in Kernels
        BY DEF LockInvariant, HoldsCounters, Holds
      <4>2. ~LetOut(u, NumKernels) /\ NumKernels \in Kernels
        BY <4>1, CountAssumption DEF LetOut
      <4>3. QED BY <3>1, <4>2 DEF LockInvariant, CountersMatchPositions
    <3>3. post[NumKernels] < nextSegNo
      BY <2>2, <3>1, <3>2
    <3>4. PICK u \in Threads : Active(u) /\ segNo[u] = post[NumKernels]
      BY <3>1, <3>3 DEF SegmentsCarried
    <3>5. ~Waits(u)
      BY <3>2, <3>4, EarliestMayGo
    <3>6. QED BY <3>4, <3>5 DEF Active, At
  <2>3. QED BY <2>1, <2>2
<1>2. QED BY <1>1, LockInvariantHolds, NoSegmentIsLost, PTL
=============================================================================
