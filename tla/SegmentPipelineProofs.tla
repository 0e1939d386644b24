------------------------ MODULE SegmentPipelineProofs ------------------------
(***************************************************************************)
(* Theorems about SegmentPipeline, for any number of threads, kernels and  *)
(* partitions and any input length.                                        *)
(***************************************************************************)
EXTENDS SegmentPipeline, TLAPS

\* The condition under which the two-counter protocol is sound: a kernel that
\* can return a termination code is never executed data-parallel.
NoDataParallelTermination == DataParallel \cap CanSetTerminateSignal = {}

USE DEF Kernels, Partitions

\* Every jump leads forward, to a kernel of the phase or one past its last.
LEMMA JumpsForward ==
  ASSUME NEW k \in Kernels, NEW p \in 1 .. NumPartitions + 1,
         p > KernelPartitionId[k]
  PROVE  /\ FirstKernelInPartition[p] \in 1 .. NumKernels + 1
         /\ k < FirstKernelInPartition[p]
<1> DEFINE q == KernelPartitionId[k] + 1
<1>1. KernelPartitionId[k] \in 1 .. NumPartitions
  BY PartitionAssumption
<1>2. q \in 1 .. NumPartitions + 1 /\ p >= q
  BY <1>1, CountAssumption
<1>3. /\ FirstKernelInPartition[p] \in 1 .. NumKernels + 1
      /\ FirstKernelInPartition[q] \in 1 .. NumKernels + 1
  BY <1>2, PartitionAssumption
<1>4. k < FirstKernelInPartition[q]
  BY PartitionAssumption
<1>5. p = q \/ q < p
  BY <1>2, CountAssumption
<1>6. p = q \/ FirstKernelInPartition[q] < FirstKernelInPartition[p]
  BY <1>2, <1>5, PartitionAssumption
<1> HIDE DEF q
<1>7. QED BY <1>3, <1>4, <1>6, CountAssumption

\* The jump target that determinePartitionJumpIndices gives a kernel's
\* partition lies behind that partition.
LEMMA TargetsForward ==
  ASSUME NEW k \in Kernels
  PROVE  /\ JumpTarget(k) \in 1 .. NumPartitions + 1
         /\ JumpTarget(k) > KernelPartitionId[k]
         /\ KernelPartitionId[k] + 1 \in 1 .. NumPartitions + 1
         /\ KernelPartitionId[k] + 1 > KernelPartitionId[k]
<1>1. KernelPartitionId[k] \in 1 .. NumPartitions
  BY PartitionAssumption
<1>2. PartitionJumpTargetId[KernelPartitionId[k]]
        \in KernelPartitionId[k] + 1 .. NumPartitions + 1
  BY <1>1, PartitionAssumption
<1>3. QED BY <1>1, <1>2, CountAssumption DEF JumpTarget

-----------------------------------------------------------------------------
\* The counters and threads as the pipeline's initialization leaves them: no
\* segment has been fetched and every counter waits for segment 0.
LEMMA InitInvariant == Init => LockInvariant
BY CountAssumption, AttributeAssumption
   DEF Init, LockInvariant, TypeOK, Signals, ControlPoints,
       CountersMatchPositions, CountersBounded, SegmentsDistinct,
       CountersOrdered, HoldsCounters, Holds, Active, LetIn, LetOut, EntryCount,
       At, PastEntry

\* A thread that may enter a kernel holds that kernel's entry counter, also
\* when SerializeThreads makes it wait on the last kernel instead.
LEMMA EnterHolds ==
  ASSUME LockInvariant, NEW t \in Threads, Active(t), NEW k \in Kernels,
         MayEnter(t, k), ~LetIn(t, k)
  PROVE  EntryCount(k) = segNo[t]
<1>1. CASE ~SerializeThreads
  BY <1>1 DEF MayEnter, WaitingOn
<1>2. CASE SerializeThreads
  <2>1. DataParallel = {} /\ post[NumKernels] = segNo[t]
    BY <1>2, AttributeAssumption DEF MayEnter, WaitingOn, EntryCount
  <2>2. post[NumKernels] <= post[k]
    <3>1. CASE k = NumKernels
      BY <3>1 DEF LockInvariant, TypeOK
    <3>2. CASE k # NumKernels
      BY <2>1, <3>2, CountAssumption DEF LockInvariant, CountersOrdered, EntryCount
    <3>3. QED BY <3>1, <3>2
  <2>3. ~(post[k] > segNo[t])
    BY <2>1 DEF LockInvariant, CountersMatchPositions, LetIn, LetOut
  <2>4. QED
    BY <2>1, <2>2, <2>3, CountAssumption DEF LockInvariant, TypeOK, EntryCount
<1>3. QED BY <1>1, <1>2

\* A thread that acquireSynchronizationLock lets out of a kernel holds that
\* kernel's exit counter, also when it waited on the last kernel's.
LEMMA ExitHolds ==
  ASSUME LockInvariant, NEW t \in Threads, Active(t), NEW k \in Kernels,
         MayExit(t, k), ~LetOut(t, k)
  PROVE  post[k] = segNo[t]
<1>1. CASE ~SerializeThreads
  BY <1>1 DEF MayExit, WaitingOn
<1>2. CASE SerializeThreads
  <2>1. MayEnter(t, k) /\ DataParallel = {}
    BY <1>2, AttributeAssumption DEF MayEnter, MayExit, WaitingOn, EntryCount
  <2>2. ~LetIn(t, k)
    BY <2>1 DEF LetIn, LetOut
  <2>3. QED BY <2>1, <2>2, EnterHolds DEF EntryCount
<1>3. QED BY <1>1, <1>2

-----------------------------------------------------------------------------
\* A step that moves no counter and no thread's position in the queues.
LEMMA LocalStepKeeps ==
  ASSUME LockInvariant, NEW t \in Threads, Active(t), NEW label, TypeOK',
         pc' = [pc EXCEPT ![t] = label], Active(t)',
         UNCHANGED <<nextSegNo, pre, post, segNo, kernelId>>,
         \A u \in Threads \ {t} : target'[u] = target[u],
         kernelId[t] \in DataParallel => (pc[t] \in PastEntry <=> label \in PastEntry),
         Holds(t)'
  PROVE  LockInvariant'
<1>1. \A u \in Threads : Active(u)' <=> Active(u)
  BY DEF Active, LockInvariant, TypeOK
<1>2. \A u \in Threads, k \in Kernels : /\ LetOut(u, k)' <=> LetOut(u, k)
                                        /\ LetIn(u, k)' <=> LetIn(u, k)
  BY DEF LetIn, LetOut, LockInvariant, TypeOK
<1>3. CountersMatchPositions'
  BY <1>1, <1>2 DEF CountersMatchPositions, LockInvariant
<1>4. CountersBounded' /\ CountersOrdered'
  BY DEF CountersBounded, CountersOrdered, EntryCount, LockInvariant
<1>5. SegmentsDistinct'
  BY <1>1 DEF SegmentsDistinct, LockInvariant
<1>6. \A u \in Threads \ {t} : Holds(u)'
  BY <1>1 DEF Holds, HoldsCounters, EntryCount, At, LockInvariant, TypeOK
<1>7. QED
  BY <1>3, <1>4, <1>5, <1>6 DEF LockInvariant, HoldsCounters

\* The counter of a kernel that the thread holds is below every counter of the
\* earlier kernels, which the thread has already released.
LEMMA ReleasePreKeeps ==
  ASSUME LockInvariant, NEW t \in Threads, Active(t), NEW label, TypeOK',
         pc' = [pc EXCEPT ![t] = label], Active(t)',
         kernelId[t] \in DataParallel, pre[kernelId[t]] = segNo[t],
         pc[t] \notin PastEntry, label \in PastEntry,
         pre' = Release(pre, t),
         UNCHANGED <<nextSegNo, post, segNo, kernelId>>,
         \A u \in Threads \ {t} : target'[u] = target[u],
         Holds(t)'
  PROVE  LockInvariant'
<1> DEFINE k == kernelId[t]
<1>k. k \in Kernels /\ k \in DataParallel /\ k \in Nat
  BY DEF LockInvariant, HoldsCounters, Holds
<1>p. \A j \in Kernels : pre'[j] = IF j = k THEN segNo[t] + 1 ELSE pre[j]
  BY <1>k DEF Release, LockInvariant, TypeOK
<1>t. /\ pre \in [Kernels -> Nat] /\ post \in [Kernels -> Nat]
      /\ segNo \in [Threads -> Nat] /\ nextSegNo \in Nat
      /\ kernelId \in [Threads -> 1 .. NumKernels + 1]
  BY DEF LockInvariant, TypeOK
<1>1. \A u \in Threads : Active(u)' <=> Active(u)
  BY DEF Active, LockInvariant, TypeOK
<1>2. \A u \in Threads, j \in Kernels :
        /\ LetOut(u, j)' <=> LetOut(u, j)
        /\ LetIn(u, j)' <=> (LetIn(u, j) \/ (u = t /\ j = k))
  BY <1>k DEF LetIn, LetOut, LockInvariant, TypeOK
<1>d. \A u \in Threads : Active(u) /\ u # t => segNo[u] # segNo[t]
  BY DEF LockInvariant, SegmentsDistinct
<1>3. CountersMatchPositions'
  <2> SUFFICES ASSUME NEW u \in Threads, Active(u)', NEW j \in Kernels
               PROVE  /\ (post[j] > segNo[u] <=> LetOut(u, j))'
                      /\ j \in DataParallel => (pre[j] > segNo[u] <=> LetIn(u, j))'
    BY DEF CountersMatchPositions
  <2>1. /\ post[j] > segNo[u] <=> LetOut(u, j)
        /\ j \in DataParallel => (pre[j] > segNo[u] <=> LetIn(u, j))
    BY <1>1 DEF LockInvariant, CountersMatchPositions
  <2>2. CASE j # k
    BY <2>1, <2>2, <1>2, <1>p
  <2>3. CASE j = k /\ u = t
    <3>1. pre'[j] > segNo[u]
      BY <2>3, <1>p, <1>t
    <3>2. QED BY <3>1, <2>1, <2>3, <1>2
  <2>4. CASE j = k /\ u # t
    <3>1. segNo[u] # segNo[t]
      BY <2>4, <1>1, <1>d
    <3>2. pre'[j] > segNo[u] <=> pre[j] > segNo[u]
      BY <3>1, <2>4, <1>p, <1>t
    <3>3. QED BY <3>2, <2>1, <2>4, <1>2
  <2>5. QED BY <2>2, <2>3, <2>4
<1>4. CountersBounded'
  <2>1. segNo[t] < nextSegNo /\ segNo[t] \in Nat
    BY <1>t DEF LockInvariant, SegmentsDistinct
  <2>2. segNo[t] + 1 <= nextSegNo
    BY <2>1, <1>t
  <2>3. ASSUME NEW j \in Kernels
        PROVE  post'[j] <= nextSegNo' /\ pre'[j] <= nextSegNo'
    <3>1. post[j] <= nextSegNo /\ pre[j] <= nextSegNo
      BY DEF LockInvariant, CountersBounded
    <3>2. QED BY <1>p, <2>2, <3>1
  <2>4. QED BY <2>3 DEF CountersBounded
<1>5. SegmentsDistinct'
  BY <1>1 DEF SegmentsDistinct, LockInvariant
<1>6. CountersOrdered'
  <2> SUFFICES ASSUME NEW i \in Kernels
               PROVE  /\ i \in DataParallel => post[i] <= pre'[i]
                      /\ \A j \in 1 .. i - 1 : EntryCount(i)' <= post[j]
    BY DEF CountersOrdered
  <2>1. /\ i \in DataParallel => post[i] <= pre[i]
        /\ \A j \in 1 .. i - 1 : EntryCount(i) <= post[j]
    BY DEF LockInvariant, CountersOrdered
  <2>2. CASE i # k
    BY <2>1, <2>2, <1>p DEF EntryCount
  <2>3. CASE i = k
    <3>1. \A j \in 1 .. i - 1 : post[j] > segNo[t]
      <4> TAKE j \in 1 .. i - 1
      <4>1. j \in Kernels /\ LetOut(t, j)
        BY <2>3, <1>k, CountAssumption DEF LetOut
      <4>2. QED BY <4>1 DEF LockInvariant, CountersMatchPositions
    <3>2. EntryCount(i)' = segNo[t] + 1
      BY <2>3, <1>p, <1>k DEF EntryCount
    <3>3. \A j \in 1 .. i - 1 : j \in Kernels
      BY <1>k, <2>3, CountAssumption
    <3>4. \A j \in 1 .. i - 1 : EntryCount(i)' <= post[j]
      <4> TAKE j \in 1 .. i - 1
      <4>1. post[j] \in Nat /\ segNo[t] \in Nat /\ post[j] > segNo[t]
        BY <3>1, <3>3, <1>t
      <4>2. QED BY <4>1, <3>2
    <3>5. post[i] <= pre'[i]
      BY <2>1, <2>3, <1>k, <1>p, <1>t
    <3>6. QED BY <3>4, <3>5
  <2>4. QED BY <2>2, <2>3
<1>7. \A u \in Threads \ {t} : Holds(u)'
  <2> SUFFICES ASSUME NEW u \in Threads, u # t
               PROVE  Holds(u)'
    OBVIOUS
  <2>1. Holds(u) /\ pc'[u] = pc[u] /\ target'[u] = target[u]
    BY DEF LockInvariant, HoldsCounters, TypeOK
  <2>2. Active(u) => \A j \in Kernels : EntryCount(j) = segNo[u] => EntryCount(j)' = segNo[u]
    BY <1>d, <1>p, <1>k DEF EntryCount
  <2>3. target[u] \in 1 .. NumKernels + 1
    BY DEF LockInvariant, TypeOK
  <2>4. pc[u] \in {"entered", "final", "completed", "aborted", "terminated",
                   "jump", "skipPre", "skipPost", "run", "await", "exit", "jumpEnd"}
          => Active(u)
    BY DEF Active
  <2>5. Active(u)' <=> Active(u)
    BY <1>1
  <2>6. segNo'[u] = segNo[u] /\ kernelId'[u] = kernelId[u] /\ post' = post
    OBVIOUS
  <2>7. (Active(u) => kernelId[u] \in Kernels) /\ NumKernels \in Kernels
    BY <2>1, CountAssumption DEF Holds
  <2>8. pc[u] \in {"skipPre", "skipPost"} /\ target[u] <= NumKernels =>
          target[u] \in Kernels
    BY <2>3, CountAssumption
  <2>10. pc[u] \in {"entered", "final", "completed", "aborted", "terminated",
                    "jump", "skipPre"} => EntryCount(kernelId[u])' = segNo[u]
    BY <2>1, <2>2, <2>4, <2>6, <2>7 DEF Holds
  <2>11. pc[u] \in {"skipPre", "skipPost"} =>
           IF target[u] <= NumKernels THEN EntryCount(target[u])' = segNo[u]
                                      ELSE post[NumKernels] = segNo[u]
    BY <2>1, <2>2, <2>4, <2>8 DEF Holds
  <2>12. QED
    BY <2>1, <2>5, <2>6, <2>10, <2>11 DEF Holds, At, EntryCount
<1>8. QED
  BY <1>3, <1>4, <1>5, <1>6, <1>7 DEF LockInvariant, HoldsCounters

\* A post-invocation or full counter is released last of the kernel's counters
\* and moves the thread on to the next kernel.
LEMMA ReleasePostKeeps ==
  ASSUME LockInvariant, NEW t \in Threads, Active(t), NEW label, TypeOK',
         pc' = [pc EXCEPT ![t] = label],
         pc[t] \in {"exit", "skipPost"},
         post[kernelId[t]] = segNo[t],
         post' = Release(post, t),
         kernelId' = [kernelId EXCEPT ![t] = @ + 1],
         UNCHANGED <<nextSegNo, pre, segNo, target>>,
         label \in {"acquire", "entered", "skipPre", "skipPost", "endSegment"},
         label = "skipPost" /\ Active(t)' => kernelId[t] + 1 \notin DataParallel,
         Holds(t)'
  PROVE  LockInvariant'
<1> DEFINE k == kernelId[t]
<1>k. k \in Kernels /\ k \in Nat
  BY DEF LockInvariant, HoldsCounters, Holds
<1>t. /\ pre \in [Kernels -> Nat] /\ post \in [Kernels -> Nat]
      /\ segNo \in [Threads -> Nat] /\ nextSegNo \in Nat
      /\ kernelId \in [Threads -> 1 .. NumKernels + 1]
  BY DEF LockInvariant, TypeOK
<1>p. \A j \in Kernels : post'[j] = IF j = k THEN segNo[t] + 1 ELSE post[j]
  BY <1>k, <1>t DEF Release
<1>1. \A u \in Threads : Active(u)' => Active(u)
  BY DEF Active, LockInvariant, TypeOK
<1>2. \A u \in Threads, j \in Kernels : Active(u)' =>
        /\ LetOut(u, j)' <=> (LetOut(u, j) \/ (u = t /\ j = k))
        /\ j \in DataParallel => (LetIn(u, j)' <=> LetIn(u, j))
  <2> SUFFICES ASSUME NEW u \in Threads, NEW j \in Kernels, Active(u)'
               PROVE  /\ LetOut(u, j)' <=> (LetOut(u, j) \/ (u = t /\ j = k))
                      /\ j \in DataParallel => (LetIn(u, j)' <=> LetIn(u, j))
    OBVIOUS
  <2>1. CASE u # t
    BY <2>1, <1>t DEF LetIn, LetOut, LockInvariant, TypeOK
  <2>2. CASE u = t
    <3>1. kernelId'[t] = k + 1 /\ pc'[t] = label /\ j \in Nat
      BY <1>t DEF LockInvariant, TypeOK
    <3>2. LetOut(t, j)' <=> j < k + 1
      BY <3>1 DEF LetOut
    <3>3. LetIn(t, j) /\ j \in DataParallel <=> j <= k /\ j \in DataParallel
      BY <1>k, <3>1 DEF LetIn, PastEntry
    <3>4. j \in DataParallel => (LetIn(t, j)' <=> j < k + 1)
      BY <2>2, <3>1, <1>k DEF LetIn, PastEntry
    <3>5. QED BY <2>2, <3>1, <3>2, <3>3, <3>4, <1>k DEF LetOut
  <2>3. QED BY <2>1, <2>2
<1>d. \A u \in Threads : Active(u) /\ u # t => segNo[u] # segNo[t]
  BY DEF LockInvariant, SegmentsDistinct
<1>3. CountersMatchPositions'
  <2> SUFFICES ASSUME NEW u \in Threads, Active(u)', NEW j \in Kernels
               PROVE  /\ (post[j] > segNo[u] <=> LetOut(u, j))'
                      /\ j \in DataParallel => (pre[j] > segNo[u] <=> LetIn(u, j))'
    BY DEF CountersMatchPositions
  <2>1. /\ post[j] > segNo[u] <=> LetOut(u, j)
        /\ j \in DataParallel => (pre[j] > segNo[u] <=> LetIn(u, j))
    BY <1>1 DEF LockInvariant, CountersMatchPositions
  <2>2. j \in DataParallel => (pre[j] > segNo[u] <=> LetIn(u, j))'
    BY <2>1, <1>2
  <2>3. CASE j # k
    BY <2>1, <2>2, <2>3, <1>2, <1>p
  <2>4. CASE j = k /\ u = t
    <3>1. post'[j] > segNo[u]
      BY <2>4, <1>p, <1>t
    <3>2. QED BY <3>1, <2>1, <2>2, <2>4, <1>2
  <2>5. CASE j = k /\ u # t
    <3>1. segNo[u] # segNo[t]
      BY <2>5, <1>1, <1>d
    <3>2. post'[j] > segNo[u] <=> post[j] > segNo[u]
      BY <3>1, <2>5, <1>p, <1>t
    <3>3. QED BY <3>2, <2>1, <2>2, <2>5, <1>2
  <2>6. QED BY <2>3, <2>4, <2>5
<1>4. CountersBounded'
  <2>1. segNo[t] < nextSegNo /\ segNo[t] \in Nat
    BY <1>t DEF LockInvariant, SegmentsDistinct
  <2>2. segNo[t] + 1 <= nextSegNo
    BY <2>1, <1>t
  <2>3. ASSUME NEW j \in Kernels
        PROVE  post'[j] <= nextSegNo' /\ pre'[j] <= nextSegNo'
    <3>1. post[j] <= nextSegNo /\ pre[j] <= nextSegNo
      BY DEF LockInvariant, CountersBounded
    <3>2. QED BY <1>p, <2>2, <3>1
  <2>4. QED BY <2>3 DEF CountersBounded
<1>5. SegmentsDistinct'
  BY <1>1 DEF SegmentsDistinct, LockInvariant
<1>m. /\ \A j \in Kernels : LetOut(t, j) => post[j] > segNo[t]
      /\ k \in DataParallel => pre[k] > segNo[t]
  BY <1>k DEF LockInvariant, CountersMatchPositions, LetIn, PastEntry
<1>6. CountersOrdered'
  <2> SUFFICES ASSUME NEW i \in Kernels
               PROVE  /\ i \in DataParallel => post'[i] <= pre[i]
                      /\ \A j \in 1 .. i - 1 : EntryCount(i)' <= post'[j]
    BY DEF CountersOrdered
  <2>1. /\ i \in DataParallel => post[i] <= pre[i]
        /\ \A j \in 1 .. i - 1 : EntryCount(i) <= post[j]
    BY DEF LockInvariant, CountersOrdered
  <2>2. ASSUME i \in DataParallel PROVE post'[i] <= pre[i]
    <3>1. CASE i = k
      <4>1. pre[k] > segNo[t] /\ pre[k] \in Nat /\ segNo[t] \in Nat
        BY <1>m, <1>t, <1>k, <2>2, <3>1
      <4>2. post'[k] = segNo[t] + 1
        BY <1>p, <1>k
      <4> HIDE DEF k
      <4>3. QED BY <3>1, <4>1, <4>2
    <3>2. CASE i # k
      BY <2>1, <2>2, <1>p, <3>2
    <3>3. QED BY <3>1, <3>2
  <2>3. \A j \in 1 .. i - 1 : EntryCount(i)' <= post'[j]
    <3> TAKE j \in 1 .. i - 1
    <3>1. j \in Kernels /\ EntryCount(i) <= post[j] /\ EntryCount(i) \in Nat
      BY <2>1, <1>t, CountAssumption DEF EntryCount
    <3>2. post'[j] >= post[j]
      <4>1. post[j] \in Nat
        BY <3>1, <1>t
      <4>2. CASE j = k
        <5>1. post[j] = segNo[t] /\ post'[j] = segNo[t] + 1
          BY <3>1, <1>p, <4>2
        <5>2. QED BY <4>1, <5>1
      <4>3. CASE j # k
        BY <3>1, <1>p, <4>1, <4>3
      <4>4. QED BY <4>2, <4>3
    <3>3. CASE EntryCount(i)' = EntryCount(i)
      <4>1. post[j] \in Nat /\ post'[j] \in Nat
        BY <3>1, <1>t DEF TypeOK
      <4>2. QED BY <4>1, <3>1, <3>2, <3>3
    <3>4. CASE EntryCount(i)' # EntryCount(i)
      <4>1. i = k /\ EntryCount(i)' = segNo[t] + 1
        BY <3>4, <1>p DEF EntryCount
      <4>2. post[j] > segNo[t] /\ j # k
        BY <4>1, <3>1, <1>m, <1>k DEF LetOut
      <4>3. post'[j] = post[j] /\ post[j] \in Nat /\ segNo[t] \in Nat
        BY <3>1, <4>2, <1>p, <1>t
      <4>4. QED BY <4>1, <4>2, <4>3
    <3>5. QED BY <3>3, <3>4
  <2>4. QED BY <2>2, <2>3
<1>7. \A u \in Threads \ {t} : Holds(u)'
  <2> SUFFICES ASSUME NEW u \in Threads, u # t
               PROVE  Holds(u)'
    OBVIOUS
  <2>1. Holds(u) /\ pc'[u] = pc[u] /\ target'[u] = target[u]
    BY DEF LockInvariant, HoldsCounters, TypeOK
  <2>2. Active(u) => \A j \in Kernels :
          /\ EntryCount(j) = segNo[u] => EntryCount(j)' = segNo[u]
          /\ post[j] = segNo[u] => post'[j] = segNo[u]
    BY <1>d, <1>p, <1>k DEF EntryCount
  <2>3. target[u] \in 1 .. NumKernels + 1
    BY DEF LockInvariant, TypeOK
  <2>4. pc[u] \in {"entered", "final", "completed", "aborted", "terminated",
                   "jump", "skipPre", "skipPost", "run", "await", "exit", "jumpEnd"}
          => Active(u)
    BY DEF Active
  <2>5. Active(u)' <=> Active(u)
    BY <2>1 DEF Active
  <2>6. segNo'[u] = segNo[u] /\ kernelId'[u] = kernelId[u]
    BY <1>t
  <2>7. (Active(u) => kernelId[u] \in Kernels) /\ NumKernels \in Kernels
    BY <2>1, CountAssumption DEF Holds
  <2>8. pc[u] \in {"skipPre", "skipPost"} /\ target[u] <= NumKernels =>
          target[u] \in Kernels
    BY <2>3, CountAssumption
  <2>10. pc[u] \in {"entered", "final", "completed", "aborted", "terminated",
                    "jump", "skipPre"} => EntryCount(kernelId[u])' = segNo[u]
    BY <2>1, <2>2, <2>4, <2>6, <2>7 DEF Holds
  <2>11. pc[u] \in {"skipPre", "skipPost"} =>
           IF target[u] <= NumKernels THEN EntryCount(target[u])' = segNo[u]
                                      ELSE post'[NumKernels] = segNo[u]
    BY <2>1, <2>2, <2>4, <2>7, <2>8 DEF Holds
  <2>12. /\ pc[u] \in PastEntry /\ kernelId[u] \notin DataParallel /\ pc[u] # "await"
              => post'[kernelId[u]] = segNo[u]
         /\ pc[u] \in {"exit", "terminated"} => post'[kernelId[u]] = segNo[u]
    BY <2>1, <2>2, <2>4, <2>7 DEF Holds, PastEntry
  <2>13. QED
    BY <2>1, <2>5, <2>6, <2>10, <2>11, <2>12 DEF Holds, At, EntryCount
<1>8. QED
  BY <1>3, <1>4, <1>5, <1>6, <1>7 DEF LockInvariant, HoldsCounters

-----------------------------------------------------------------------------
\* Reading a kernel's termination signal keeps what the thread has seen well
\* typed.
LEMMA ReadType ==
  ASSUME TypeOK, NEW t \in Threads, NEW k \in Kernels
  PROVE  Read(t, k) \in [Threads -> [Kernels -> Signals]]
BY DEF TypeOK, Read

\* releaseSynchronizationLock stores a natural number.
LEMMA ReleaseType ==
  ASSUME TypeOK, NEW t \in Threads, NEW lock \in [Kernels -> Nat]
  PROVE  Release(lock, t) \in [Kernels -> Nat]
<1>1. segNo[t] + 1 \in Nat
  BY DEF TypeOK
<1>2. QED BY <1>1 DEF Release

\* The start of a jump, writeJumpToNextPartition, keeps the types: its target
\* is a kernel of the phase or one past its last.
LEMMA JumpType ==
  ASSUME TypeOK, NEW t \in Threads, kernelId[t] \in Kernels,
         NEW p \in 1 .. NumPartitions + 1, p > KernelPartitionId[kernelId[t]],
         JumpTo(t, p)
  PROVE  TypeOK'
<1>1. FirstKernelInPartition[p] \in 1 .. NumKernels + 1
  BY JumpsForward
<1>2. pre' \in [Kernels -> Nat]
  BY ReleaseType DEF JumpTo, TypeOK
<1>3. QED BY <1>1, <1>2 DEF JumpTo, TypeOK, Goto, ControlPoints

\* The direct exit of writeInsufficientIOExit keeps the types.
LEMMA DirectType ==
  ASSUME TypeOK, NEW t \in Threads, ExitDirectly(t)
  PROVE  TypeOK'
<1>1. pre' \in [Kernels -> Nat]
  BY ReleaseType DEF ExitDirectly, TypeOK
<1>2. QED BY <1>1 DEF ExitDirectly, TypeOK, Goto, ControlPoints, threadVars

\* Type correctness is inductive together with the position invariant, which
\* keeps kernelId a kernel while the thread carries a segment.
LEMMA TypeStep ==
  ASSUME LockInvariant, NEW t \in Threads, ThreadStep(t)
  PROVE  TypeOK'
<1>1. TypeOK
  BY DEF LockInvariant
<1>2. Active(t) => kernelId[t] \in Kernels
  BY DEF LockInvariant, HoldsCounters, Holds
<1>3. CASE ObtainSegmentNumber(t)
  BY <1>1, <1>3, CountAssumption DEF ObtainSegmentNumber, TypeOK, Goto, ControlPoints, Signals
<1>4. CASE Acquire(t)
  <2>1. kernelId[t] \in Kernels
    BY <1>2, <1>4 DEF Acquire, At, Active
  <2>2. seen' \in [Threads -> [Kernels -> Signals]]
    BY <1>1, <1>4, <2>1, ReadType DEF Acquire
  <2>3. QED BY <1>1, <1>4, <2>2 DEF Acquire, TypeOK, Goto, ControlPoints
<1>5. CASE ExitTerminatedToNextPartition(t)
  <2>1. kernelId[t] \in Kernels
    BY <1>2, <1>5 DEF ExitTerminatedToNextPartition, InitiallyTerminated, At, Active
  <2>2. QED
    BY <1>1, <1>5, <2>1, JumpType, TargetsForward DEF ExitTerminatedToNextPartition
<1>6. CASE ExitTerminatedByJump(t)
  <2>1. kernelId[t] \in Kernels
    BY <1>2, <1>6 DEF ExitTerminatedByJump, InitiallyTerminated, At, Active
  <2>2. QED
    BY <1>1, <1>6, <2>1, JumpType, TargetsForward DEF ExitTerminatedByJump
<1>7. CASE ExitTerminatedDirectly(t)
  BY <1>1, <1>7, DirectType DEF ExitTerminatedDirectly
<1>8. CASE InsufficientIO(t)
  <2>1. kernelId[t] \in Kernels
    BY <1>2, <1>8 DEF InsufficientIO, Alive, At, Active
  <2>2. QED
    BY <1>1, <1>8, <2>1, JumpType, DirectType, TargetsForward DEF InsufficientIO
<1>9. CASE CatchPropagatedTermination(t)
  BY <1>1, <1>9 DEF CatchPropagatedTermination, TypeOK, Goto, ControlPoints, threadVars
<1>10. CASE InvokeKernel(t)
  <2>1. pre' \in [Kernels -> Nat] /\ closing' \in [Threads -> BOOLEAN]
    BY <1>1, <1>10, ReleaseType DEF InvokeKernel, TypeOK
  <2>2. QED BY <1>1, <1>10, <2>1 DEF InvokeKernel, TypeOK, Goto, ControlPoints
<1>11. CASE InvokeFinally(t)
  BY <1>1, <1>11 DEF InvokeFinally, TypeOK, Goto, ControlPoints, threadVars
<1>12. CASE ReturnNormally(t)
  BY <1>1, <1>12 DEF ReturnNormally, TypeOK, Goto, ControlPoints, threadVars
<1>13. CASE ReturnTerminated(t)
  <2>1. returned' \in [Kernels -> Signals]
    BY <1>1, <1>13 DEF ReturnTerminated, TypeOK, Signals
  <2>2. QED BY <1>1, <1>13, <2>1 DEF ReturnTerminated, TypeOK, Goto, ControlPoints, threadVars
<1>14. CASE RecordTermination(t)
  <2>1. RecordedCode(t) \in Signals
    BY DEF RecordedCode, Signals
  <2>2. signal' \in [Kernels -> Signals] /\ closing' \in [Threads -> BOOLEAN]
    BY <1>1, <1>14, <2>1 DEF RecordTermination, TypeOK
  <2>s. seen' \in [Threads -> [Kernels -> Signals]]
    <3>1. CASE seen' = seen
      BY <1>1, <3>1 DEF TypeOK
    <3>2. CASE seen' = [seen EXCEPT ![t][kernelId[t]] = RecordedCode(t)]
      BY <1>1, <2>1, <3>2 DEF TypeOK
    <3>3. QED BY <1>14, <3>1, <3>2 DEF RecordTermination
  <2>3. QED BY <1>1, <1>14, <2>2, <2>s DEF RecordTermination, TypeOK, Goto, ControlPoints
<1>15. CASE ReleaseAfterTermination(t)
  <2>1. pre' \in [Kernels -> Nat]
    BY <1>1, <1>15, ReleaseType DEF ReleaseAfterTermination, TypeOK
  <2>2. QED BY <1>1, <1>15, <2>1 DEF ReleaseAfterTermination, TypeOK, Goto, ControlPoints, threadVars
<1>16. CASE AwaitPost(t)
  BY <1>1, <1>16 DEF AwaitPost, TypeOK, Goto, ControlPoints, threadVars
<1>17. CASE ExitKernel(t)
  <2>1. kernelId[t] \in Kernels
    BY <1>2, <1>17 DEF ExitKernel, At, Active
  <2>2. kernelId[t] + 1 \in 1 .. NumKernels + 1
    BY <2>1, CountAssumption
  <2>3. post' \in [Kernels -> Nat]
    BY <1>1, <1>17, ReleaseType DEF ExitKernel, TypeOK
  <2>4. QED
    BY <1>1, <1>17, <2>2, <2>3 DEF ExitKernel, TypeOK, Goto, ControlPoints, threadVars
<1>18. CASE AcquireJumpTarget(t)
  BY <1>1, <1>18
     DEF AcquireJumpTarget, FirstRelease, TypeOK, Goto, ControlPoints, threadVars
<1>19. CASE ReleaseSkippedPre(t)
  <2>1. pre' \in [Kernels -> Nat]
    BY <1>1, <1>19, ReleaseType DEF ReleaseSkippedPre, TypeOK
  <2>2. QED BY <1>1, <1>19, <2>1 DEF ReleaseSkippedPre, TypeOK, Goto, ControlPoints, threadVars
<1>20. CASE ReleaseSkippedPost(t)
  <2>1. kernelId[t] \in Kernels /\ kernelId[t] < target[t]
    BY <1>2, <1>20
       DEF ReleaseSkippedPost, At, Active, LockInvariant, HoldsCounters, Holds
  <2>2. /\ kernelId[t] + 1 \in 1 .. NumKernels + 1
        /\ target[t] <= NumKernels => kernelId[t] + 1 \in Kernels
    BY <2>1, <1>1, CountAssumption DEF TypeOK
  <2>3. seen' \in [Threads -> [Kernels -> Signals]]
    BY <1>1, <1>20, <2>2, ReadType DEF ReleaseSkippedPost, TypeOK
  <2>4. post' \in [Kernels -> Nat]
    BY <1>1, <1>20, ReleaseType DEF ReleaseSkippedPost, TypeOK
  <2>5. QED
    BY <1>1, <1>20, <2>2, <2>3, <2>4
       DEF ReleaseSkippedPost, FirstRelease, TypeOK, Goto, ControlPoints
<1>21. CASE EndSegment(t)
  BY <1>1, <1>21 DEF EndSegment, TypeOK, Goto, ControlPoints, threadVars
<1>22. QED
  BY <1>3, <1>4, <1>5, <1>6, <1>7, <1>8, <1>9, <1>10, <1>11, <1>12, <1>13,
     <1>14, <1>15, <1>16, <1>17, <1>18, <1>19, <1>20, <1>21 DEF ThreadStep

-----------------------------------------------------------------------------
\* A jump starts: within the phase nothing is released yet; past its end a
\* data-parallel root releases its pre counter.
LEMMA JumpKeeps ==
  ASSUME LockInvariant, NEW t \in Threads, At(t, "entered"), TypeOK',
         NEW p \in 1 .. NumPartitions + 1, p > KernelPartitionId[kernelId[t]],
         JumpTo(t, p)
  PROVE  LockInvariant'
<1>1. /\ Active(t) /\ kernelId[t] \in Kernels
      /\ EntryCount(kernelId[t]) = segNo[t] /\ pc[t] \notin PastEntry
  BY DEF At, Active, LockInvariant, HoldsCounters, Holds, PastEntry
<1>2. /\ kernelId[t] < FirstKernelInPartition[p]
      /\ FirstKernelInPartition[p] \in 1 .. NumKernels + 1
  BY <1>1, JumpsForward
<1>3. /\ target'[t] = FirstKernelInPartition[p]
      /\ \A u \in Threads \ {t} : target'[u] = target[u]
  BY DEF JumpTo, LockInvariant, TypeOK
<1>4. UNCHANGED <<nextSegNo, post, segNo, kernelId>>
  BY DEF JumpTo
<1>5. CASE FirstKernelInPartition[p] # NumKernels + 1
  <2>1. pc' = [pc EXCEPT ![t] = "jump"] /\ pre' = pre /\ pc'[t] = "jump"
    BY <1>5 DEF JumpTo, Goto, LockInvariant, TypeOK
  <2>2. Holds(t)' /\ Active(t)'
    BY <1>1, <1>2, <1>3, <1>4, <1>5, <2>1, CountAssumption
       DEF Holds, At, Active, PastEntry, EntryCount
  <2>3. QED BY <1>1, <1>3, <1>4, <2>1, <2>2, LocalStepKeeps DEF PastEntry
<1>6. CASE FirstKernelInPartition[p] = NumKernels + 1
  <2>1. /\ pc' = [pc EXCEPT ![t] = "jumpEnd"] /\ pc'[t] = "jumpEnd"
        /\ pre' = IF kernelId[t] \in DataParallel THEN Release(pre, t) ELSE pre
    BY <1>6 DEF JumpTo, Goto, LockInvariant, TypeOK
  <2>2. Holds(t)' /\ Active(t)'
    BY <1>1, <1>2, <1>3, <1>4, <1>6, <2>1, CountAssumption
       DEF Holds, At, Active, PastEntry, EntryCount
  <2>3. CASE kernelId[t] \in DataParallel
    BY <1>1, <1>3, <1>4, <2>1, <2>2, <2>3, ReleasePreKeeps DEF EntryCount, PastEntry
  <2>4. CASE kernelId[t] \notin DataParallel
    BY <1>1, <1>3, <1>4, <2>1, <2>2, <2>4, LocalStepKeeps
  <2>5. QED BY <2>3, <2>4
<1>7. QED BY <1>5, <1>6

\* The direct exit of writeInsufficientIOExit releases at most the entry
\* counter of a data-parallel kernel and keeps its place in the queue.
LEMMA DirectKeeps ==
  ASSUME LockInvariant, NEW t \in Threads, At(t, "entered"), TypeOK',
         ExitDirectly(t)
  PROVE  LockInvariant'
<1>1. /\ Active(t) /\ kernelId[t] \in Kernels
      /\ EntryCount(kernelId[t]) = segNo[t] /\ pc[t] \notin PastEntry
  BY DEF At, Active, LockInvariant, HoldsCounters, Holds, PastEntry
<1>2. UNCHANGED <<nextSegNo, post, segNo, kernelId, target>>
  BY DEF ExitDirectly, threadVars
<1>3. CASE kernelId[t] \in DataParallel
  <2>1. pc' = [pc EXCEPT ![t] = "await"] /\ pc'[t] = "await" /\ pre' = Release(pre, t)
    BY <1>3 DEF ExitDirectly, Goto, LockInvariant, TypeOK
  <2>2. Holds(t)' /\ Active(t)'
    BY <1>1, <1>2, <1>3, <2>1 DEF Holds, At, Active, PastEntry
  <2>3. QED BY <1>1, <1>2, <1>3, <2>1, <2>2, ReleasePreKeeps DEF EntryCount, PastEntry
<1>4. CASE kernelId[t] \notin DataParallel
  <2>1. pc' = [pc EXCEPT ![t] = "exit"] /\ pc'[t] = "exit" /\ pre' = pre
    BY <1>4 DEF ExitDirectly, Goto, LockInvariant, TypeOK
  <2>2. Holds(t)' /\ Active(t)'
    BY <1>1, <1>2, <1>4, <2>1 DEF Holds, At, Active, PastEntry, EntryCount
  <2>3. QED BY <1>1, <1>2, <1>4, <2>1, <2>2, LocalStepKeeps
<1>5. QED BY <1>3, <1>4

\* A fetched segment number is fresh and no counter has reached it yet.
LEMMA FetchKeeps ==
  ASSUME LockInvariant, NEW t \in Threads, ObtainSegmentNumber(t), TypeOK'
  PROVE  LockInvariant'
<1>1. /\ segNo' = [segNo EXCEPT ![t] = nextSegNo] /\ segNo'[t] = nextSegNo
      /\ nextSegNo' = nextSegNo + 1 /\ nextSegNo \in Nat
      /\ kernelId' = [kernelId EXCEPT ![t] = 1] /\ kernelId'[t] = 1
      /\ pc' = [pc EXCEPT ![t] = "acquire"] /\ pc'[t] = "acquire"
      /\ UNCHANGED <<pre, post, target>>
      /\ pre \in [Kernels -> Nat] /\ post \in [Kernels -> Nat]
  BY DEF ObtainSegmentNumber, Goto, LockInvariant, TypeOK
<1>2. \A u \in Threads \ {t} :
        /\ segNo'[u] = segNo[u] /\ kernelId'[u] = kernelId[u] /\ pc'[u] = pc[u]
        /\ segNo[u] \in Nat
        /\ Active(u)' <=> Active(u)
  BY <1>1 DEF Active, LockInvariant, TypeOK
<1>3. CountersMatchPositions'
  <2> SUFFICES ASSUME NEW u \in Threads, Active(u)', NEW j \in Kernels
               PROVE  /\ (post[j] > segNo[u] <=> LetOut(u, j))'
                      /\ j \in DataParallel => (pre[j] > segNo[u] <=> LetIn(u, j))'
    BY DEF CountersMatchPositions
  <2>1. CASE u = t
    <3>1. /\ ~(post[j] > nextSegNo) /\ ~(pre[j] > nextSegNo)
      BY <1>1 DEF LockInvariant, CountersBounded
    <3>2. ~LetOut(u, j)' /\ ~LetIn(u, j)'
      BY <2>1, <1>1, CountAssumption DEF LetIn, LetOut, PastEntry
    <3>3. QED BY <1>1, <2>1, <3>1, <3>2
  <2>2. CASE u # t
    BY <1>1, <1>2, <2>2
       DEF LockInvariant, CountersMatchPositions, LetIn, LetOut
  <2>3. QED BY <2>1, <2>2
<1>4. CountersBounded'
  BY <1>1 DEF LockInvariant, CountersBounded
<1>5. SegmentsDistinct'
  BY <1>1, <1>2 DEF LockInvariant, SegmentsDistinct
<1>6. CountersOrdered'
  BY <1>1 DEF LockInvariant, CountersOrdered, EntryCount
<1>7. Holds(t)'
  BY <1>1, CountAssumption DEF Holds, At, PastEntry
<1>8. \A u \in Threads \ {t} : Holds(u)'
  BY <1>1, <1>2 DEF LockInvariant, HoldsCounters, Holds, EntryCount, At
<1>9. QED
  BY <1>3, <1>4, <1>5, <1>6, <1>7, <1>8 DEF LockInvariant, HoldsCounters

\* At the end of a segment the thread holds nothing.
LEMMA EndSegmentKeeps ==
  ASSUME LockInvariant, NEW t \in Threads, EndSegment(t), TypeOK'
  PROVE  LockInvariant'
<1>1. /\ pc' = [pc EXCEPT ![t] = pc'[t]] /\ pc'[t] \in {"done", "fetch"}
      /\ UNCHANGED <<nextSegNo, pre, post, segNo, kernelId, target>>
  BY DEF EndSegment, Goto, threadVars, LockInvariant, TypeOK
<1>2. \A u \in Threads \ {t} : pc'[u] = pc[u] /\ (Active(u)' <=> Active(u))
  BY <1>1 DEF Active, LockInvariant, TypeOK
<1>3. ~Active(t)'
  BY <1>1 DEF Active
<1>4. CountersMatchPositions'
  BY <1>1, <1>2, <1>3 DEF LockInvariant, CountersMatchPositions, LetIn, LetOut
<1>5. CountersBounded' /\ CountersOrdered'
  BY <1>1 DEF LockInvariant, CountersBounded, CountersOrdered, EntryCount
<1>6. SegmentsDistinct'
  BY <1>1, <1>2, <1>3 DEF LockInvariant, SegmentsDistinct
<1>7. Holds(t)'
  BY <1>1, <1>3 DEF Holds, At, PastEntry
<1>8. \A u \in Threads \ {t} : Holds(u)'
  BY <1>1, <1>2 DEF LockInvariant, HoldsCounters, Holds, EntryCount, At
<1>9. QED
  BY <1>4, <1>5, <1>6, <1>7, <1>8 DEF LockInvariant, HoldsCounters

-----------------------------------------------------------------------------
\* A thread that has acquired the target of its jump is next in turn at every
\* kernel that the jump still has to pass over: the target's counter can only
\* hold its segment number if all earlier counters have reached it.
LEMMA PassedOver ==
  ASSUME LockInvariant, NEW t \in Threads, pc[t] \in {"skipPre", "skipPost"},
         NEW k \in Kernels, kernelId[t] <= k, k < target[t]
  PROVE  /\ post[k] = segNo[t]
         /\ k # kernelId[t] => EntryCount(k) = segNo[t]
<1>1. /\ Active(t) /\ kernelId[t] \in Kernels /\ segNo[t] \in Nat
      /\ pre \in [Kernels -> Nat] /\ post \in [Kernels -> Nat]
      /\ target[t] \in 1 .. NumKernels + 1 /\ NumKernels \in Kernels
  <2>1. Active(t)
    BY DEF Active
  <2>2. kernelId[t] \in Kernels
    BY <2>1 DEF LockInvariant, HoldsCounters, Holds
  <2>3. NumKernels \in Kernels
    BY CountAssumption
  <2>4. QED BY <2>1, <2>2, <2>3 DEF LockInvariant, TypeOK
<1>2. IF target[t] <= NumKernels THEN EntryCount(target[t]) = segNo[t]
                                 ELSE post[NumKernels] = segNo[t]
  BY DEF LockInvariant, HoldsCounters, Holds
<1>3. /\ ~LetOut(t, k)
      /\ k # kernelId[t] => ~LetIn(t, k)
  <2>1. ~(k < kernelId[t])
    BY <1>1
  <2>2. QED BY <2>1 DEF LetOut, LetIn
<1>n. PICK p \in Nat : p = post[k]
  BY <1>1
<1>4. /\ ~(post[k] > segNo[t])
      /\ k # kernelId[t] /\ k \in DataParallel => ~(pre[k] > segNo[t])
  BY <1>1, <1>3 DEF LockInvariant, CountersMatchPositions
<1>5. post[k] >= segNo[t]
  <2>1. CASE target[t] <= NumKernels
    <3>1. target[t] \in Kernels /\ k \in 1 .. target[t] - 1
      BY <1>1, <2>1, CountAssumption
    <3>2. EntryCount(target[t]) <= post[k]
      BY <3>1 DEF LockInvariant, CountersOrdered
    <3>3. QED BY <1>1, <1>2, <2>1, <3>2
  <2>2. CASE target[t] > NumKernels
    <3>1. post[NumKernels] = segNo[t]
      BY <1>1, <1>2, <2>2, CountAssumption
    <3>2. CASE k = NumKernels
      BY <1>1, <3>1, <3>2
    <3>3. CASE k # NumKernels
      <4>1. k \in 1 .. NumKernels - 1
        BY <3>3, CountAssumption
      <4>2. EntryCount(NumKernels) <= post[k]
        BY <1>1, <4>1 DEF LockInvariant, CountersOrdered
      <4>3. post[NumKernels] <= EntryCount(NumKernels)
        BY <1>1 DEF LockInvariant, CountersOrdered, EntryCount
      <4>4. EntryCount(NumKernels) \in Nat
        BY <1>1 DEF EntryCount
      <4>e. PICK c \in Nat : c = EntryCount(NumKernels)
        BY <4>4
      <4>5. segNo[t] <= c /\ c <= p
        BY <1>n, <3>1, <4>2, <4>3, <4>e
      <4>6. QED BY <1>1, <1>n, <4>5
    <3>4. QED BY <3>2, <3>3
  <2>3. QED BY <1>1, <2>1, <2>2, CountAssumption
<1>6. post[k] = segNo[t]
  <2>1. ~(p > segNo[t]) /\ p >= segNo[t] /\ segNo[t] \in Nat
    BY <1>1, <1>4, <1>5, <1>n
  <2>2. QED BY <1>n, <2>1
<1>7. ASSUME k # kernelId[t], k \in DataParallel
      PROVE  pre[k] = segNo[t]
  <2>1. post[k] <= pre[k]
    BY <1>7 DEF LockInvariant, CountersOrdered
  <2>q. PICK q \in Nat : q = pre[k]
    BY <1>1
  <2>2. ~(q > segNo[t]) /\ segNo[t] <= q /\ segNo[t] \in Nat
    BY <1>1, <1>4, <1>6, <1>7, <2>1, <2>q
  <2>3. QED BY <2>2, <2>q
<1>8. QED BY <1>6, <1>7 DEF EntryCount

\* A jump that has passed one more kernel holds the next one, or its target.
LEMMA SkipKeeps ==
  ASSUME LockInvariant, NEW t \in Threads, ReleaseSkippedPost(t), TypeOK'
  PROVE  LockInvariant'
<1> DEFINE k == kernelId[t]
           label == IF k + 1 < target[t] THEN FirstRelease(k + 1)
                    ELSE IF k + 1 <= NumKernels THEN "entered" ELSE "endSegment"
<1>1. /\ pc[t] = "skipPost" /\ Active(t) /\ k \in Kernels /\ k < target[t]
      /\ target[t] \in 1 .. NumKernels + 1
      /\ pre \in [Kernels -> Nat] /\ post \in [Kernels -> Nat] /\ segNo[t] \in Nat
  BY DEF ReleaseSkippedPost, At, Active, LockInvariant, HoldsCounters, Holds, TypeOK
<1>2. /\ post' = Release(post, t) /\ kernelId' = [kernelId EXCEPT ![t] = @ + 1]
      /\ kernelId'[t] = k + 1
      /\ pc' = [pc EXCEPT ![t] = label] /\ pc'[t] = label
      /\ UNCHANGED <<nextSegNo, pre, segNo, target>>
  BY DEF ReleaseSkippedPost, Goto, LockInvariant, TypeOK
<1>3. post[k] = segNo[t]
  BY <1>1, CountAssumption, PassedOver
<1>4. \A j \in Kernels : post'[j] = IF j = k THEN segNo[t] + 1 ELSE post[j]
  BY <1>1, <1>2 DEF Release
<1>5. label \in {"acquire", "entered", "skipPre", "skipPost", "endSegment"}
  BY DEF FirstRelease
<1>6. IF target[t] <= NumKernels THEN EntryCount(target[t]) = segNo[t]
                                 ELSE post[NumKernels] = segNo[t]
  BY <1>1 DEF LockInvariant, HoldsCounters, Holds
<1>7. Holds(t)' /\ (label = "skipPost" => k + 1 \notin DataParallel)
  <2>1. CASE k + 1 < target[t]
    <3>1. /\ k + 1 \in Kernels /\ NumKernels \in Kernels
          /\ NumKernels # k /\ k + 1 # k /\ k <= k + 1
      <4>k. PICK j \in Nat : j = k /\ 1 <= j
        BY <1>1
      <4>t. PICK d \in Nat : d = target[t] /\ d <= NumKernels + 1
        BY <1>1, CountAssumption
      <4>1. j + 1 < d
        BY <2>1, <4>k, <4>t
      <4>2. j + 1 \in Kernels /\ NumKernels \in Kernels /\ NumKernels # j
        BY <4>1, <4>k, <4>t, CountAssumption
      <4>3. QED BY <4>2, <4>k
    <3>2. EntryCount(k + 1) = segNo[t] /\ EntryCount(kernelId[t])' = segNo[t]
      <4>1. pc[t] \in {"skipPre", "skipPost"}
        BY <1>1
      <4>2. \A j \in Kernels : k <= j /\ j < target[t] /\ j # k => EntryCount(j) = segNo[t]
        BY <4>1, PassedOver
      <4>3. EntryCount(k + 1) = segNo[t]
        BY <2>1, <3>1, <4>2
      <4>4. EntryCount(kernelId[t])' = EntryCount(k + 1)
        BY <1>2, <1>4, <3>1 DEF EntryCount
      <4>5. QED BY <4>3, <4>4
    <3>3. IF target[t] <= NumKernels THEN EntryCount(target[t])' = segNo[t]
                                     ELSE post'[NumKernels] = segNo[t]
      <4>1. target[t] <= NumKernels => target[t] \in Kernels /\ target[t] # k
        BY <1>1
      <4>2. QED BY <1>1, <1>2, <1>4, <1>6, <3>1, <4>1 DEF EntryCount
    <3>4. CASE k + 1 \in DataParallel
      <4>1. pc'[t] = "skipPre" /\ label = "skipPre"
        BY <1>2, <2>1, <3>4 DEF FirstRelease
      <4>2. QED
        BY <1>2, <2>1, <3>1, <3>2, <3>3, <3>4, <4>1 DEF Holds, At, PastEntry, EntryCount
    <3>5. CASE k + 1 \notin DataParallel
      <4>1. pc'[t] = "skipPost" /\ label = "skipPost"
        BY <1>2, <2>1, <3>5 DEF FirstRelease
      <4>2. post'[k + 1] = segNo[t]
        BY <1>2, <3>2, <3>5 DEF EntryCount
      <4>3. Holds(t)'
        BY <1>2, <2>1, <3>1, <3>3, <3>5, <4>1, <4>2 DEF Holds, At, EntryCount
      <4>4. QED BY <3>5, <4>3
    <3>6. QED BY <3>4, <3>5
  <2>2. CASE k + 1 >= target[t] /\ k + 1 <= NumKernels
    <3>1. pc'[t] = "entered" /\ label = "entered" /\ k + 1 = target[t] /\ k + 1 \in Kernels
      BY <1>1, <1>2, <2>2
    <3>2. EntryCount(k + 1) = segNo[t] /\ k + 1 # k
      BY <1>1, <1>6, <2>2, <3>1
    <3>3. EntryCount(kernelId[t])' = EntryCount(k + 1)
      BY <1>2, <1>4, <3>1, <3>2 DEF EntryCount
    <3>4. Holds(t)'
      BY <1>2, <3>1, <3>2, <3>3 DEF Holds, At, PastEntry, EntryCount
    <3>5. QED BY <3>1, <3>4
  <2>3. CASE k + 1 >= target[t] /\ k + 1 > NumKernels
    <3>1. pc'[t] = "endSegment" /\ label = "endSegment"
      BY <1>1, <1>2, <2>3, CountAssumption
    <3>2. QED BY <3>1 DEF Holds, At, Active, PastEntry
  <2>4. QED BY <1>1, <2>1, <2>2, <2>3, CountAssumption
<1> HIDE DEF label
<1>8. QED BY <1>1, <1>2, <1>3, <1>5, <1>7, ReleasePostKeeps

-----------------------------------------------------------------------------
\* Every step of a thread keeps the queue of segments at each kernel, provided
\* that no data-parallel kernel terminates by itself.
LEMMA ThreadStepKeeps ==
  ASSUME NoDataParallelTermination, LockInvariant, NEW t \in Threads, ThreadStep(t)
  PROVE  LockInvariant'
<1>1. TypeOK'
  BY TypeStep
<1>2. /\ Active(t) => kernelId[t] \in Kernels
      /\ Holds(t)
      /\ pc \in [Threads -> ControlPoints] /\ pre \in [Kernels -> Nat]
      /\ post \in [Kernels -> Nat]
      /\ target[t] \in 1 .. NumKernels + 1 /\ NumKernels \in Kernels
  <2>1. Holds(t) /\ (Active(t) => kernelId[t] \in Kernels)
    BY DEF LockInvariant, HoldsCounters, Holds
  <2>2. NumKernels \in Kernels
    BY CountAssumption
  <2>3. QED BY <2>1, <2>2 DEF LockInvariant, TypeOK
<1>3. CASE ObtainSegmentNumber(t)
  BY <1>1, <1>3, FetchKeeps
<1>4. CASE Acquire(t)
  <2>1. Active(t) /\ kernelId[t] \in Kernels /\ ~LetIn(t, kernelId[t])
    BY <1>2, <1>4, CountAssumption DEF Acquire, At, Active, LetIn, PastEntry
  <2>2. EntryCount(kernelId[t]) = segNo[t]
    BY <1>4, <2>1, EnterHolds DEF Acquire
  <2>3. /\ pc' = [pc EXCEPT ![t] = "entered"] /\ pc'[t] = "entered" /\ pc[t] = "acquire"
        /\ UNCHANGED <<nextSegNo, pre, post, segNo, kernelId, target>>
    BY <1>2, <1>4 DEF Acquire, Goto, At
  <2>4. Holds(t)' /\ Active(t)'
    BY <2>1, <2>2, <2>3 DEF Holds, At, Active, PastEntry, EntryCount
  <2>5. QED BY <1>1, <2>1, <2>3, <2>4, LocalStepKeeps DEF PastEntry
<1>5. CASE ExitTerminatedToNextPartition(t)
  <2>1. At(t, "entered") /\ kernelId[t] \in Kernels
    BY <1>2, <1>5 DEF ExitTerminatedToNextPartition, InitiallyTerminated, At, Active
  <2>2. QED
    BY <1>1, <1>5, <2>1, TargetsForward, JumpKeeps DEF ExitTerminatedToNextPartition
<1>6. CASE ExitTerminatedByJump(t)
  <2>1. At(t, "entered") /\ kernelId[t] \in Kernels
    BY <1>2, <1>6 DEF ExitTerminatedByJump, InitiallyTerminated, At, Active
  <2>2. QED
    BY <1>1, <1>6, <2>1, TargetsForward, JumpKeeps DEF ExitTerminatedByJump
<1>7. CASE ExitTerminatedDirectly(t)
  BY <1>1, <1>7, DirectKeeps DEF ExitTerminatedDirectly, InitiallyTerminated
<1>8. CASE InsufficientIO(t)
  <2>1. At(t, "entered") /\ kernelId[t] \in Kernels
    BY <1>2, <1>8 DEF InsufficientIO, Alive, At, Active
  <2>2. QED
    BY <1>1, <1>8, <2>1, TargetsForward, JumpKeeps, DirectKeeps DEF InsufficientIO
<1>9. CASE CatchPropagatedTermination(t)
  <2>1. /\ pc[t] = "entered" /\ pc' = [pc EXCEPT ![t] = "aborted"] /\ pc'[t] = "aborted"
        /\ UNCHANGED <<nextSegNo, pre, post, segNo, kernelId, target>>
    BY <1>2, <1>9 DEF CatchPropagatedTermination, Alive, Goto, At, threadVars
  <2>2. Active(t) /\ Active(t)' /\ Holds(t)'
    BY <1>2, <2>1 DEF Holds, At, Active, PastEntry, EntryCount
  <2>3. QED BY <1>1, <2>1, <2>2, LocalStepKeeps DEF PastEntry
<1>10. CASE InvokeKernel(t)
  <2>1. /\ pc[t] = "entered" /\ pc' = [pc EXCEPT ![t] = "run"] /\ pc'[t] = "run"
        /\ UNCHANGED <<nextSegNo, post, segNo, kernelId, target>>
        /\ pre' = IF kernelId[t] \in DataParallel THEN Release(pre, t) ELSE pre
    BY <1>2, <1>10 DEF InvokeKernel, Alive, Goto, At
  <2>2. /\ Active(t) /\ Active(t)' /\ EntryCount(kernelId[t]) = segNo[t]
        /\ kernelId[t] \in Kernels
    BY <1>2, <2>1 DEF Holds, Active
  <2>3. Holds(t)'
    BY <2>1, <2>2 DEF Holds, At, PastEntry, EntryCount
  <2>4. CASE kernelId[t] \in DataParallel
    BY <1>1, <2>1, <2>2, <2>3, <2>4, ReleasePreKeeps DEF EntryCount, PastEntry
  <2>5. CASE kernelId[t] \notin DataParallel
    BY <1>1, <2>1, <2>2, <2>3, <2>5, LocalStepKeeps
  <2>6. QED BY <2>4, <2>5
<1>11. CASE InvokeFinally(t)
  <2>1. /\ pc[t] = "entered" /\ pc' = [pc EXCEPT ![t] = "final"] /\ pc'[t] = "final"
        /\ UNCHANGED <<nextSegNo, pre, post, segNo, kernelId, target>>
    BY <1>2, <1>11 DEF InvokeFinally, Alive, Goto, At, threadVars
  <2>2. Active(t) /\ Active(t)' /\ Holds(t)'
    BY <1>2, <2>1 DEF Holds, At, Active, PastEntry, EntryCount
  <2>3. QED BY <1>1, <2>1, <2>2, LocalStepKeeps DEF PastEntry
<1>12. CASE ReturnNormally(t)
  <2> DEFINE label == IF pc[t] = "final" THEN "completed"
                      ELSE IF kernelId[t] \in DataParallel THEN "await" ELSE "exit"
  <2>1. /\ pc[t] \in {"run", "final"} /\ pc' = [pc EXCEPT ![t] = label] /\ pc'[t] = label
        /\ UNCHANGED <<nextSegNo, pre, post, segNo, kernelId, target>>
    BY <1>2, <1>12 DEF ReturnNormally, Goto, At, threadVars
  <2>2. Active(t) /\ Active(t)'
    BY <2>1 DEF Active
  <2>3. Holds(t)'
    BY <1>2, <2>1, <2>2 DEF Holds, At, PastEntry, EntryCount
  <2>4. kernelId[t] \in DataParallel => (pc[t] \in PastEntry <=> label \in PastEntry)
    BY <2>1 DEF PastEntry
  <2> HIDE DEF label
  <2>5. QED BY <1>1, <2>1, <2>2, <2>3, <2>4, LocalStepKeeps
<1>13. CASE ReturnTerminated(t)
  <2>1. /\ pc[t] \in {"run", "final"} /\ pc' = [pc EXCEPT ![t] = "aborted"]
        /\ pc'[t] = "aborted" /\ kernelId[t] \notin DataParallel
        /\ UNCHANGED <<nextSegNo, pre, post, segNo, kernelId, target>>
    BY <1>2, <1>13 DEF ReturnTerminated, Goto, At, threadVars, NoDataParallelTermination
  <2>2. Active(t) /\ Active(t)' /\ Holds(t)'
    BY <1>2, <2>1 DEF Holds, At, Active, PastEntry, EntryCount
  <2>3. QED BY <1>1, <2>1, <2>2, LocalStepKeeps
<1>14. CASE RecordTermination(t)
  <2> DEFINE label == IF kernelId[t] \in DataParallel THEN "terminated" ELSE "exit"
  <2>1. /\ pc[t] \in {"completed", "aborted"} /\ pc' = [pc EXCEPT ![t] = label]
        /\ pc'[t] = label /\ (kernelId[t] \in DataParallel => MayExit(t, kernelId[t]))
        /\ UNCHANGED <<nextSegNo, pre, post, segNo, kernelId, target>>
    BY <1>2, <1>14 DEF RecordTermination, Goto, At
  <2>2. Active(t) /\ Active(t)' /\ kernelId[t] \in Kernels
    BY <1>2, <2>1 DEF Active
  <2>3. ~LetOut(t, kernelId[t])
    BY <2>2, CountAssumption DEF LetOut
  <2>4. kernelId[t] \in DataParallel => post[kernelId[t]] = segNo[t]
    BY <2>1, <2>2, <2>3, ExitHolds
  <2>5. Holds(t)'
    BY <1>2, <2>1, <2>2, <2>4 DEF Holds, At, PastEntry, EntryCount
  <2>6. kernelId[t] \in DataParallel => (pc[t] \in PastEntry <=> label \in PastEntry)
    BY <2>1 DEF PastEntry
  <2> HIDE DEF label
  <2>7. QED BY <1>1, <2>1, <2>2, <2>5, <2>6, LocalStepKeeps
<1>15. CASE ReleaseAfterTermination(t)
  <2>1. /\ pc[t] = "terminated" /\ pc' = [pc EXCEPT ![t] = "exit"] /\ pc'[t] = "exit"
        /\ pre' = Release(pre, t)
        /\ UNCHANGED <<nextSegNo, post, segNo, kernelId, target>>
    BY <1>2, <1>15 DEF ReleaseAfterTermination, Goto, At, threadVars
  <2>2. /\ Active(t) /\ Active(t)' /\ kernelId[t] \in DataParallel
        /\ pre[kernelId[t]] = segNo[t] /\ Holds(t)'
    BY <1>2, <2>1 DEF Holds, At, Active, PastEntry, EntryCount
  <2>3. QED BY <1>1, <2>1, <2>2, ReleasePreKeeps DEF PastEntry
<1>16. CASE AwaitPost(t)
  <2>1. /\ pc[t] = "await" /\ pc' = [pc EXCEPT ![t] = "exit"] /\ pc'[t] = "exit"
        /\ MayExit(t, kernelId[t])
        /\ UNCHANGED <<nextSegNo, pre, post, segNo, kernelId, target>>
    BY <1>2, <1>16 DEF AwaitPost, Goto, At, threadVars
  <2>2. /\ Active(t) /\ Active(t)' /\ kernelId[t] \in Kernels
        /\ ~LetOut(t, kernelId[t])
    BY <1>2, <2>1, CountAssumption DEF Active, LetOut
  <2>3. post[kernelId[t]] = segNo[t]
    BY <2>1, <2>2, ExitHolds
  <2>4. Holds(t)'
    BY <1>2, <2>1, <2>2, <2>3 DEF Holds, At, PastEntry, EntryCount
  <2>5. QED BY <1>1, <2>1, <2>2, <2>4, LocalStepKeeps DEF PastEntry
<1>17. CASE ExitKernel(t)
  <2> DEFINE label == IF kernelId[t] = NumKernels THEN "endSegment" ELSE "acquire"
  <2>1. /\ pc[t] = "exit" /\ pc' = [pc EXCEPT ![t] = label] /\ pc'[t] = label
        /\ post' = Release(post, t) /\ kernelId' = [kernelId EXCEPT ![t] = @ + 1]
        /\ UNCHANGED <<nextSegNo, pre, segNo, target>>
        /\ label \in {"acquire", "endSegment"}
    BY <1>2, <1>17 DEF ExitKernel, Goto, At, threadVars
  <2>2. Active(t) /\ kernelId[t] \in Kernels /\ post[kernelId[t]] = segNo[t]
    BY <1>2, <2>1 DEF Active, Holds
  <2>3. Holds(t)'
    <3>1. kernelId'[t] = kernelId[t] + 1
      BY <2>1 DEF LockInvariant, TypeOK
    <3>2. Active(t)' => kernelId'[t] \in Kernels
      BY <2>1, <2>2, <3>1, CountAssumption DEF Active
    <3>3. QED BY <2>1, <3>2 DEF Holds, At, PastEntry
  <2> HIDE DEF label
  <2>4. QED BY <1>1, <2>1, <2>2, <2>3, ReleasePostKeeps
<1>18. CASE AcquireJumpTarget(t)
  <2> DEFINE label == IF pc[t] = "jump" THEN FirstRelease(kernelId[t]) ELSE "skipPost"
  <2>1. /\ pc[t] \in {"jump", "jumpEnd"} /\ pc' = [pc EXCEPT ![t] = label]
        /\ pc'[t] = label
        /\ UNCHANGED <<nextSegNo, pre, post, segNo, kernelId, target>>
    BY <1>2, <1>18 DEF AcquireJumpTarget, Goto, At, threadVars
  <2>2. Active(t) /\ kernelId[t] \in Kernels /\ kernelId[t] < target[t]
    BY <1>2, <2>1 DEF Active, Holds
  <2>3. IF target[t] <= NumKernels THEN EntryCount(target[t]) = segNo[t]
                                   ELSE post[NumKernels] = segNo[t]
    <3>1. CASE pc[t] = "jump"
      <4>1. target[t] \in Kernels /\ MayEnter(t, target[t])
        BY <1>2, <1>18, <3>1, CountAssumption DEF AcquireJumpTarget, Holds, At
      <4>2. ~LetIn(t, target[t])
        BY <2>2, <4>1, CountAssumption DEF LetIn
      <4>3. EntryCount(target[t]) = segNo[t]
        BY <2>2, <4>1, <4>2, EnterHolds
      <4>4. QED BY <4>1, <4>3, CountAssumption
    <3>2. CASE pc[t] = "jumpEnd"
      <4>1. target[t] = NumKernels + 1 /\ MayExit(t, NumKernels)
        BY <1>2, <1>18, <3>2 DEF AcquireJumpTarget, Holds, At
      <4>2. QED BY <4>1, CountAssumption DEF MayExit, WaitingOn
    <3>3. QED BY <2>1, <3>1, <3>2
  <2>4. label \in {"skipPre", "skipPost"} /\ Active(t)'
    BY <2>1 DEF FirstRelease, Active
  <2>5. /\ label = "skipPre" => kernelId[t] \in DataParallel /\ pc[t] = "jump"
        /\ label = "skipPost" /\ kernelId[t] \in DataParallel => pc[t] = "jumpEnd"
    BY <2>1 DEF FirstRelease
  <2>6. Holds(t)'
    <3>1. /\ label = "skipPre" => EntryCount(kernelId[t]) = segNo[t]
          /\ label = "skipPost" /\ kernelId[t] \notin DataParallel =>
               post[kernelId[t]] = segNo[t]
      BY <1>2, <2>1, <2>5 DEF Holds, PastEntry, EntryCount
    <3> HIDE DEF label
    <3>2. QED
      BY <2>1, <2>2, <2>3, <2>4, <2>5, <3>1 DEF Holds, At, PastEntry, EntryCount
  <2>7. kernelId[t] \in DataParallel => (pc[t] \in PastEntry <=> label \in PastEntry)
    BY <2>1, <2>4, <2>5 DEF PastEntry
  <2> HIDE DEF label
  <2>8. QED BY <1>1, <2>1, <2>2, <2>4, <2>6, <2>7, LocalStepKeeps
<1>19. CASE ReleaseSkippedPre(t)
  <2>1. /\ pc[t] = "skipPre" /\ pc' = [pc EXCEPT ![t] = "skipPost"]
        /\ pc'[t] = "skipPost" /\ pre' = Release(pre, t)
        /\ UNCHANGED <<nextSegNo, post, segNo, kernelId, target>>
    BY <1>2, <1>19 DEF ReleaseSkippedPre, Goto, At, threadVars
  <2>2. /\ Active(t) /\ Active(t)' /\ kernelId[t] \in DataParallel
        /\ kernelId[t] \in Kernels /\ kernelId[t] < target[t]
        /\ pre[kernelId[t]] = segNo[t]
    BY <1>2, <2>1 DEF Holds, Active, EntryCount
  <2>3. Holds(t)'
    <3>1. target[t] <= NumKernels => EntryCount(target[t])' = EntryCount(target[t])
      <4> HAVE target[t] <= NumKernels
      <4>1. target[t] # kernelId[t] /\ target'[t] = target[t]
        BY <1>2, <2>1, <2>2
      <4>2. QED BY <1>2, <2>1, <4>1 DEF EntryCount, Release
    <3>2. QED BY <1>2, <2>1, <2>2, <3>1 DEF Holds, At, PastEntry
  <2>4. QED BY <1>1, <2>1, <2>2, <2>3, ReleasePreKeeps DEF PastEntry
<1>20. CASE ReleaseSkippedPost(t)
  BY <1>1, <1>20, SkipKeeps
<1>21. CASE EndSegment(t)
  BY <1>1, <1>21, EndSegmentKeeps
<1>22. QED
  BY <1>3, <1>4, <1>5, <1>6, <1>7, <1>8, <1>9, <1>10, <1>11, <1>12, <1>13,
     <1>14, <1>15, <1>16, <1>17, <1>18, <1>19, <1>20, <1>21 DEF ThreadStep

\* Every step of the generated code, the end of the program included, keeps
\* the queue of segments at each kernel.
LEMMA StepKeepsInvariant ==
  ASSUME NoDataParallelTermination, LockInvariant, [Next]_vars
  PROVE  LockInvariant'
<1>1. CASE \E t \in Threads : ThreadStep(t)
  BY <1>1, ThreadStepKeeps
<1>2. CASE UNCHANGED vars
  BY <1>2 DEF vars, LockInvariant, TypeOK, CountersMatchPositions, CountersBounded,
     SegmentsDistinct, CountersOrdered, HoldsCounters, Holds, Active, LetIn, LetOut,
     EntryCount, At
<1>3. QED BY <1>1, <1>2 DEF Next, Finished

\* The invariant of the lock counters: at every kernel they form a queue in
\* which the segments pass in the order of their numbers, and each thread knows
\* from its own position which counters have passed its segment.
THEOREM LockInvariantHolds ==
  ASSUME NoDataParallelTermination
  PROVE  Spec => []LockInvariant
<1>1. Init => LockInvariant
  BY InitInvariant
<1>2. LockInvariant /\ [Next]_vars => LockInvariant'
  BY StepKeepsInvariant
<1>3. QED BY <1>1, <1>2, PTL DEF Spec

\* Every variable keeps to its values: no jump leads outside the phase and no
\* thread names a kernel that does not exist.
THEOREM TypeCorrect ==
  ASSUME NoDataParallelTermination
  PROVE  Spec => []TypeOK
<1>1. LockInvariant => TypeOK
  BY DEF LockInvariant
<1>2. QED BY <1>1, LockInvariantHolds, PTL

-----------------------------------------------------------------------------
\* What the header of synchronization_logic.cpp promises of the generated code:
\* a thread that executes a kernel finds every earlier segment complete at the
\* earlier kernels, and complete or begun at this one.
THEOREM EarlierSegmentsComplete ==
  ASSUME NoDataParallelTermination
  PROVE  Spec => []EarlierSegmentsFirst
<1>1. LockInvariant => EarlierSegmentsFirst
  <2> SUFFICES ASSUME LockInvariant, NEW t \in Threads, NEW u \in Threads,
                      Active(t), Active(u), segNo[u] < segNo[t], Invoking(t)
               PROVE  /\ \A j \in 1 .. kernelId[t] - 1 : LetOut(u, j)
                      /\ IF kernelId[t] \in DataParallel THEN LetIn(u, kernelId[t])
                                                         ELSE LetOut(u, kernelId[t])
    BY DEF EarlierSegmentsFirst
  <2>1. /\ kernelId[t] \in Kernels /\ segNo[t] \in Nat /\ segNo[u] \in Nat
        /\ pre \in [Kernels -> Nat] /\ post \in [Kernels -> Nat]
        /\ pc[t] \in {"run", "final"}
    BY DEF LockInvariant, HoldsCounters, Holds, TypeOK, Invoking, At
  <2>2. \A v \in Threads, k \in Kernels : Active(v) =>
          /\ post[k] > segNo[v] <=> LetOut(v, k)
          /\ k \in DataParallel => (pre[k] > segNo[v] <=> LetIn(v, k))
    BY DEF LockInvariant, CountersMatchPositions
  <2>3. ASSUME NEW j \in 1 .. kernelId[t] - 1
        PROVE  LetOut(u, j)
    <3>1. j \in Kernels /\ LetOut(t, j)
      BY <2>1, CountAssumption DEF LetOut
    <3>2. post[j] > segNo[t] /\ post[j] \in Nat
      BY <2>1, <2>2, <3>1
    <3>3. QED BY <2>1, <2>2, <3>1, <3>2
  <2>4. CASE kernelId[t] \in DataParallel
    <3>1. pre[kernelId[t]] >= segNo[t]
      <4>1. CASE pc[t] = "run"
        <5>1. LetIn(t, kernelId[t])
          BY <2>4, <4>1 DEF LetIn, PastEntry
        <5>2. QED BY <2>1, <2>2, <2>4, <5>1
      <4>2. CASE pc[t] = "final"
        BY <2>1, <2>4, <4>2 DEF LockInvariant, HoldsCounters, Holds, EntryCount
      <4>3. QED BY <2>1, <4>1, <4>2
    <3>2. LetIn(u, kernelId[t])
      BY <2>1, <2>2, <2>4, <3>1
    <3>3. QED BY <2>3, <2>4, <3>2
  <2>5. CASE kernelId[t] \notin DataParallel
    <3>1. post[kernelId[t]] = segNo[t]
      BY <2>1, <2>5 DEF LockInvariant, HoldsCounters, Holds, EntryCount, PastEntry
    <3>2. LetOut(u, kernelId[t])
      BY <2>1, <2>2, <3>1
    <3>3. QED BY <2>3, <2>5, <3>2
  <2>6. QED BY <2>4, <2>5
<1>2. QED BY <1>1, LockInvariantHolds, PTL

\* The assertion of releaseSynchronizationLock never fails.
THEOREM ReleaseAssertionHolds ==
  ASSUME NoDataParallelTermination
  PROVE  Spec => []ReleasesOwnSegment
<1>1. LockInvariant => ReleasesOwnSegment
  <2> SUFFICES ASSUME LockInvariant, NEW t \in Threads
               PROVE  /\ pc[t] \in {"exit", "skipPost"} => post[kernelId[t]] = segNo[t]
                      /\ pc[t] \in {"terminated", "skipPre"} => pre[kernelId[t]] = segNo[t]
                      /\ pc[t] \in {"entered", "final"} => EntryCount(kernelId[t]) = segNo[t]
    BY DEF ReleasesOwnSegment
  <2>1. pc[t] = "skipPost" => post[kernelId[t]] = segNo[t]
    <3> SUFFICES ASSUME pc[t] = "skipPost"
                 PROVE  post[kernelId[t]] = segNo[t]
      OBVIOUS
    <3>1. kernelId[t] \in Kernels /\ kernelId[t] < target[t]
      BY DEF Active, LockInvariant, HoldsCounters, Holds
    <3>2. kernelId[t] <= kernelId[t]
      BY <3>1, CountAssumption
    <3>3. pc[t] \in {"skipPre", "skipPost"}
      OBVIOUS
    <3>4. QED BY <3>1, <3>2, <3>3, PassedOver
  <2>2. QED BY <2>1 DEF LockInvariant, HoldsCounters, Holds, EntryCount
<1>2. QED BY <1>1, LockInvariantHolds, PTL

\* The assertion of acquireSynchronizationLock never fails, with and without
\* the option SerializeThreads.
THEOREM AcquireAssertionHolds ==
  ASSUME NoDataParallelTermination
  PROVE  Spec => []NeverOvertaken
<1>1. LockInvariant => NeverOvertaken
  <2> SUFFICES ASSUME LockInvariant, NEW t \in Threads
               PROVE  /\ At(t, "acquire") => EntryCount(WaitingOn(kernelId[t])) <= segNo[t]
                      /\ At(t, "jump") => EntryCount(WaitingOn(target[t])) <= segNo[t]
                      /\ At(t, "await") => post[WaitingOn(kernelId[t])] <= segNo[t]
                      /\ At(t, "jumpEnd") => post[NumKernels] <= segNo[t]
    BY DEF NeverOvertaken
  <2>1. /\ segNo[t] \in Nat /\ pre \in [Kernels -> Nat] /\ post \in [Kernels -> Nat]
        /\ NumKernels \in Kernels /\ target[t] \in 1 .. NumKernels + 1
        /\ kernelId[t] \in 1 .. NumKernels + 1
    BY CountAssumption DEF LockInvariant, TypeOK
  <2>2. \A k \in Kernels : Active(t) =>
          /\ ~LetOut(t, k) => post[k] <= segNo[t]
          /\ ~LetIn(t, k) => EntryCount(k) <= segNo[t]
    <3> SUFFICES ASSUME NEW k \in Kernels, Active(t)
                 PROVE  /\ ~LetOut(t, k) => post[k] <= segNo[t]
                        /\ ~LetIn(t, k) => EntryCount(k) <= segNo[t]
      OBVIOUS
    <3>1. /\ post[k] > segNo[t] <=> LetOut(t, k)
          /\ k \in DataParallel => (pre[k] > segNo[t] <=> LetIn(t, k))
      BY DEF LockInvariant, CountersMatchPositions
    <3>2. post[k] \in Nat /\ pre[k] \in Nat
      BY <2>1
    <3>3. LetOut(t, k) => LetIn(t, k)
      BY DEF LetIn, LetOut
    <3>4. k \notin DataParallel => (LetIn(t, k) => LetOut(t, k))
      BY DEF LetIn, LetOut
    <3>5. QED BY <2>1, <3>1, <3>2, <3>3, <3>4 DEF EntryCount
  <2>3. Active(t) => kernelId[t] \in Kernels /\ ~LetOut(t, NumKernels)
    BY <2>1, CountAssumption DEF LockInvariant, HoldsCounters, Holds, LetOut
  <2>4. SerializeThreads /\ Active(t) =>
          \A k \in Kernels : EntryCount(WaitingOn(k)) <= segNo[t] /\ post[WaitingOn(k)] <= segNo[t]
    BY <2>1, <2>2, <2>3, AttributeAssumption DEF WaitingOn, EntryCount
  <2>5. At(t, "acquire") => EntryCount(WaitingOn(kernelId[t])) <= segNo[t]
    <3>1. At(t, "acquire") => Active(t) /\ ~LetIn(t, kernelId[t])
      BY <2>1, <2>3 DEF At, Active, LetIn, PastEntry
    <3>2. QED BY <2>2, <2>3, <2>4, <3>1 DEF WaitingOn
  <2>6. At(t, "jump") => EntryCount(WaitingOn(target[t])) <= segNo[t]
    <3>1. At(t, "jump") => Active(t) /\ target[t] \in Kernels /\ kernelId[t] < target[t]
      BY <2>1, CountAssumption DEF At, Active, LockInvariant, HoldsCounters, Holds
    <3>2. At(t, "jump") => ~LetIn(t, target[t])
      BY <2>1, <3>1, CountAssumption DEF LetIn
    <3>3. QED BY <2>2, <2>4, <3>1, <3>2 DEF WaitingOn
  <2>7. At(t, "await") => post[WaitingOn(kernelId[t])] <= segNo[t]
    <3>1. At(t, "await") => Active(t) /\ ~LetOut(t, kernelId[t])
      BY <2>1, CountAssumption DEF At, Active, LetOut
    <3>2. QED BY <2>2, <2>3, <2>4, <3>1 DEF WaitingOn
  <2>8. At(t, "jumpEnd") => post[NumKernels] <= segNo[t]
    BY <2>1, <2>2, <2>3 DEF At, Active
  <2>9. QED BY <2>5, <2>6, <2>7, <2>8
<1>2. QED BY <1>1, LockInvariantHolds, PTL

-----------------------------------------------------------------------------
(* The counters implement SegmentOrder.                                    *)

\* The thread lets its successor into the data-parallel kernel it is at.
LetsIn(t) == /\ Active(t) /\ kernelId[t] \in Kernels
             /\ kernelId[t] \in DataParallel
             /\ pre[kernelId[t]] = segNo[t]
             /\ pre' = Release(pre, t)
             /\ UNCHANGED post

\* The thread lets its successor out of the kernel it is at.
LetsOut(t) == /\ Active(t) /\ kernelId[t] \in Kernels
              /\ post[kernelId[t]] = segNo[t]
              /\ kernelId[t] \in DataParallel => LetIn(t, kernelId[t])
              /\ post' = Release(post, t)
              /\ UNCHANGED pre

\* A step of a thread moves at most one counter, its own kernel's, and only
\* from the thread's segment number to the next.
LEMMA CounterStep ==
  ASSUME LockInvariant, NEW t \in Threads, ThreadStep(t)
  PROVE  UNCHANGED <<pre, post>> \/ LetsIn(t) \/ LetsOut(t)
<1>1. At(t, "entered") => /\ Active(t) /\ kernelId[t] \in Kernels
                          /\ EntryCount(kernelId[t]) = segNo[t]
  BY DEF At, Active, LockInvariant, HoldsCounters, Holds
<1>2. ASSUME NEW p, At(t, "entered"), JumpTo(t, p)
      PROVE  UNCHANGED <<pre, post>> \/ LetsIn(t)
  BY <1>1, <1>2 DEF JumpTo, LetsIn, EntryCount
<1>3. ASSUME At(t, "entered"), ExitDirectly(t)
      PROVE  UNCHANGED <<pre, post>> \/ LetsIn(t)
  BY <1>1, <1>3 DEF ExitDirectly, LetsIn, EntryCount
<1>4. CASE ExitTerminatedToNextPartition(t) \/ ExitTerminatedByJump(t)
  BY <1>2, <1>4
     DEF ExitTerminatedToNextPartition, ExitTerminatedByJump, InitiallyTerminated
<1>5. CASE ExitTerminatedDirectly(t)
  BY <1>3, <1>5 DEF ExitTerminatedDirectly, InitiallyTerminated
<1>6. CASE InsufficientIO(t)
  BY <1>2, <1>3, <1>6 DEF InsufficientIO, Alive
<1>7. CASE InvokeKernel(t)
  BY <1>1, <1>7 DEF InvokeKernel, Alive, LetsIn, EntryCount
<1>8. CASE ReleaseAfterTermination(t)
  BY <1>8 DEF ReleaseAfterTermination, LetsIn, At, Active, LockInvariant,
              HoldsCounters, Holds, EntryCount
<1>9. CASE ReleaseSkippedPre(t)
  BY <1>9 DEF ReleaseSkippedPre, LetsIn, At, Active, LockInvariant,
              HoldsCounters, Holds, EntryCount
<1>10. CASE ExitKernel(t)
  BY <1>10 DEF ExitKernel, LetsOut, At, Active, LockInvariant,
               HoldsCounters, Holds, LetIn, PastEntry
<1>11. CASE ReleaseSkippedPost(t)
  <2>1. /\ pc[t] = "skipPost" /\ Active(t) /\ kernelId[t] \in Kernels
        /\ kernelId[t] < target[t] /\ kernelId[t] <= kernelId[t]
    BY <1>11, CountAssumption
       DEF ReleaseSkippedPost, At, Active, LockInvariant, HoldsCounters, Holds
  <2>2. post[kernelId[t]] = segNo[t]
    <3>1. pc[t] \in {"skipPre", "skipPost"}
      BY <2>1
    <3>2. QED BY <2>1, <3>1, PassedOver
  <2>3. QED BY <1>11, <2>1, <2>2 DEF ReleaseSkippedPost, LetsOut, LetIn, PastEntry
<1>12. CASE \/ ObtainSegmentNumber(t) \/ Acquire(t) \/ CatchPropagatedTermination(t)
            \/ InvokeFinally(t) \/ ReturnNormally(t) \/ ReturnTerminated(t)
            \/ RecordTermination(t) \/ AwaitPost(t) \/ AcquireJumpTarget(t)
            \/ EndSegment(t)
  BY <1>12 DEF ObtainSegmentNumber, Acquire, CatchPropagatedTermination,
     InvokeFinally, ReturnNormally, ReturnTerminated, RecordTermination,
     AwaitPost, AcquireJumpTarget, EndSegment
<1>13. QED
  BY <1>4, <1>5, <1>6, <1>7, <1>8, <1>9, <1>10, <1>11, <1>12 DEF ThreadStep

\* Seen through its counters alone, the generated code runs every segment
\* through the kernels in order: it implements SegmentOrder.
THEOREM CountersImplementOrder ==
  ASSUME NoDataParallelTermination
  PROVE  Spec => ImplementsOrder
<1>1. Init => Order!OrderInit
  BY DEF Init, Order!OrderInit, Order!Kernels
<1>2. ASSUME LockInvariant, [Next]_vars
      PROVE  [Order!OrderNext]_(Order!orderVars)
  <2>1. CASE UNCHANGED <<pre, post>>
    BY <2>1 DEF Order!orderVars
  <2>2. ASSUME NEW t \in Threads, LetsIn(t) \/ LetsOut(t)
        PROVE  Order!OrderNext
    <3> DEFINE k == kernelId[t]
    <3>1. /\ k \in Kernels /\ k \in Order!Kernels /\ segNo[t] \in Nat
          /\ pre \in [Kernels -> Nat] /\ post \in [Kernels -> Nat]
      BY <1>2, <2>2 DEF LetsIn, LetsOut, Order!Kernels, LockInvariant, TypeOK
    <3>2. \A j \in 1 .. k - 1 : post[j] > segNo[t]
      <4>1. \A j \in 1 .. k - 1 : j \in Kernels /\ LetOut(t, j)
        BY <3>1, CountAssumption DEF LetOut
      <4>2. QED
        BY <1>2, <2>2, <4>1 DEF LetsIn, LetsOut, LockInvariant, CountersMatchPositions
    <3>3. CASE LetsIn(t)
      <4>1. Order!Begin(k)
        BY <3>1, <3>2, <3>3 DEF LetsIn, Release, Order!Begin
      <4>2. QED BY <3>1, <4>1 DEF Order!OrderNext
    <3>4. CASE LetsOut(t) /\ k \in DataParallel
      <4>1. pre[k] > segNo[t]
        BY <1>2, <2>2, <3>1, <3>4 DEF LetsOut, LockInvariant, CountersMatchPositions
      <4>2. Order!Finish(k)
        BY <3>1, <3>4, <4>1 DEF LetsOut, Release, Order!Finish
      <4>3. QED BY <3>1, <4>2 DEF Order!OrderNext
    <3>5. CASE LetsOut(t) /\ k \notin DataParallel
      <4>1. Order!Whole(k)
        BY <3>1, <3>2, <3>5 DEF LetsOut, Release, Order!Whole
      <4>2. QED BY <3>1, <4>1 DEF Order!OrderNext
    <3>6. QED BY <2>2, <3>3, <3>4, <3>5
  <2>3. CASE \E t \in Threads : ThreadStep(t)
    BY <1>2, <2>1, <2>2, <2>3, CounterStep
  <2>4. CASE UNCHANGED vars
    BY <2>1, <2>4 DEF vars
  <2>5. QED BY <1>2, <2>3, <2>4 DEF Next, Finished
<1>3. Spec => []LockInvariant
  BY LockInvariantHolds
<1>4. QED BY <1>1, <1>2, <1>3, PTL DEF Spec, ImplementsOrder, Order!OrderSpec
=============================================================================
