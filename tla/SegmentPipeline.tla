--------------------------- MODULE SegmentPipeline ---------------------------
(***************************************************************************)
(* The code that the pipeline compiler emits for one phase of a            *)
(* multithreaded pipeline: each thread fetches a segment number and takes  *)
(* the segment through the kernels in order, synchronizing with the other  *)
(* threads on the kernels' logical segment counters.                       *)
(*                                                                         *)
(* A counter of kernel k holds the number of the segment that may pass it. *)
(* A kernel with state has one counter (SYNC_LOCK_FULL); a data-parallel   *)
(* kernel has two (PRE_INVOCATION and POST_INVOCATION).  Item counts,      *)
(* buffers and cycle counters are abstracted; whether a kernel has         *)
(* sufficient I/O or is entering its final segment is a choice within what *)
(* the termination signals it has read allow.                              *)
(***************************************************************************)
EXTENDS Naturals

CONSTANTS
  Threads,                 \* the threads of the pipeline
  NumKernels,              \* kernels FirstKernel .. LastKernel of the phase
  NumPartitions,
  KernelPartitionId,       \* kernel -> partition
  FirstKernelInPartition,  \* partition (and one after the last) -> kernel
  PartitionJumpTargetId,   \* partition -> partition tried next when I/O is short
  Producers,               \* kernel -> kernels whose streams it reads
  DataParallel,            \* kernels for which isDataParallel holds
  CanSetTerminateSignal,   \* kernels whose code may return a termination code
  MustExplicitlyTerminate, \* those among them that end by such a code only
  MayFatallyTerminate,     \* those among them that return the fatal code
  PropagationTargets,      \* kernels that all-consumers-terminated may stop
  TerminationCheck,        \* partitions with a soft check in hasPipelineTerminated
  SerializeThreads,        \* the debug option of that name
  LastInput                \* from this segment on, input is exhausted and I/O suffices

Kernels    == 1 .. NumKernels
Partitions == 1 .. NumPartitions
Signals    == {"None", "Aborted", "Fatal", "Completed"}

ASSUME CountAssumption ==
  /\ NumKernels \in Nat \ {0}
  /\ NumPartitions \in Nat \ {0}
  /\ LastInput \in Nat

\* Partitions are non-empty, contiguous ranges of kernels in execution order.
ASSUME PartitionAssumption ==
  /\ KernelPartitionId \in [Kernels -> Partitions]
  /\ FirstKernelInPartition \in [1 .. NumPartitions + 1 -> 1 .. NumKernels + 1]
  /\ FirstKernelInPartition[NumPartitions + 1] = NumKernels + 1
  /\ \A p, q \in 1 .. NumPartitions + 1 :
       p < q => FirstKernelInPartition[p] < FirstKernelInPartition[q]
  /\ \A k \in Kernels : /\ FirstKernelInPartition[KernelPartitionId[k]] <= k
                        /\ k < FirstKernelInPartition[KernelPartitionId[k] + 1]
  /\ \A p \in Partitions : PartitionJumpTargetId[p] \in p + 1 .. NumPartitions + 1

ASSUME AttributeAssumption ==
  /\ DataParallel \subseteq Kernels
  /\ CanSetTerminateSignal \subseteq Kernels
  /\ MustExplicitlyTerminate \subseteq CanSetTerminateSignal
  /\ MayFatallyTerminate \subseteq CanSetTerminateSignal
  /\ PropagationTargets \subseteq Kernels
  /\ TerminationCheck \subseteq Partitions
  /\ Producers \in [Kernels -> SUBSET Kernels]
  /\ SerializeThreads \in BOOLEAN
  /\ SerializeThreads => DataParallel = {}

VARIABLES
  nextSegNo,  \* PHASE_NEXT_LOGICAL_SEGMENT_NUMBER
  pre,        \* kernel -> its pre-invocation counter (data-parallel kernels)
  post,       \* kernel -> its post-invocation or, with state, its full counter
  signal,     \* kernel -> termination signal in the shared state
  returned,   \* kernel -> termination code its own code returned
  pc,         \* thread -> control point
  segNo,      \* thread -> segment it carries
  kernelId,   \* thread -> kernel it is at
  target,     \* thread -> kernel a jump leads to
  seen,       \* thread -> kernel -> termination signal it read in this segment
  closing     \* thread -> the current partition is in its final segment

vars == <<nextSegNo, pre, post, signal, returned, pc, segNo, kernelId, target,
          seen, closing>>
threadVars == <<segNo, target, seen, closing>>

ControlPoints ==
  { "fetch",       \* about to obtain a segment number
    "acquire",     \* waiting for the entry counter of kernelId
    "entered",     \* holds the entry counter, has read the kernel's signal
    "run",         \* in a non-final invocation
    "final",       \* in the final invocation, entry counter held
    "await",       \* data-parallel, waiting for the post-invocation counter
    "completed",   \* about to record signal Completed
    "aborted",     \* about to record signal Aborted
    "terminated",  \* data-parallel, signal recorded, pre counter still held
    "exit",        \* about to release the exit counter of kernelId
    "jump",        \* waiting for the entry counter of the jump's target
    "jumpEnd",     \* waiting for the exit counter of the last kernel
    "skipPre",     \* passing over kernelId: about to release its pre counter
    "skipPost",    \* passing over kernelId: about to release its exit counter
    "endSegment",  \* every kernel passed
    "done" }       \* left the pipeline loop

\* The types of the shared state and of each thread's control state: no jump
\* leads outside the phase and no thread names a kernel that does not exist.
TypeOK ==
  /\ nextSegNo \in Nat
  /\ pre \in [Kernels -> Nat]
  /\ post \in [Kernels -> Nat]
  /\ signal \in [Kernels -> Signals]
  /\ returned \in [Kernels -> Signals]
  /\ pc \in [Threads -> ControlPoints]
  /\ segNo \in [Threads -> Nat]
  /\ kernelId \in [Threads -> 1 .. NumKernels + 1]
  /\ target \in [Threads -> 1 .. NumKernels + 1]
  /\ seen \in [Threads -> [Kernels -> Signals]]
  /\ closing \in [Threads -> BOOLEAN]

-----------------------------------------------------------------------------
IsPartitionRoot(k) == FirstKernelInPartition[KernelPartitionId[k]] = k
JumpTarget(k) == PartitionJumpTargetId[KernelPartitionId[k]]

\* A kernel keeps a termination signal of its own if it leads its partition or
\* may terminate by itself; otherwise the signal of its root stands for it.
HasTerminationSignal(k) == IsPartitionRoot(k) \/ k \in CanSetTerminateSignal
TerminationSignalIndex(k) ==
  IF HasTerminationSignal(k) THEN k ELSE FirstKernelInPartition[KernelPartitionId[k]]

\* The jump block is built only if it passes over some kernel.
HasJump(k) == /\ IsPartitionRoot(k)
              /\ \/ JumpTarget(k) # KernelPartitionId[k] + 1
                 \/ /\ k < NumKernels
                    /\ KernelPartitionId[k + 1] = KernelPartitionId[k]

EntryCount(k) == IF k \in DataParallel THEN pre[k] ELSE post[k]

\* Seeded fault: SerializeThreads ignored.
WaitingOnOwn(k) == k

\* With SerializeThreads every wait is for the last kernel's counter.
WaitingOn(k) == IF SerializeThreads THEN NumKernels ELSE k

\* Seeded faults: admitted one segment early; the counters confused.
MayEnterEarly(t, k) == EntryCount(WaitingOn(k)) + 1 >= segNo[t]
MayExitUnordered(t, k) == EntryCount(WaitingOn(k)) > segNo[t]

MayEnter(t, k) == EntryCount(WaitingOn(k)) = segNo[t]
MayExit(t, k)  == post[WaitingOn(k)] = segNo[t]

\* Seeded fault: the number stored is the last one fetched.
ReleaseToLatest(lock, t) == [lock EXCEPT ![kernelId[t]] = nextSegNo]

\* Releasing is a plain store of the thread's segment number plus one.
Release(lock, t) == [lock EXCEPT ![kernelId[t]] = segNo[t] + 1]

Goto(t, label) == pc' = [pc EXCEPT ![t] = label]
At(t, label) == pc[t] = label

\* Seeded fault: the signal is not read again in this segment.
ReadNothing(t, k) == seen

\* What thread t has seen once it reads the signal of kernel k.
Read(t, k) == IF HasTerminationSignal(k)
              THEN [seen EXCEPT ![t][k] = signal[k]]
              ELSE seen

-----------------------------------------------------------------------------
Init ==
  /\ nextSegNo = 0
  /\ pre = [k \in Kernels |-> 0]
  /\ post = [k \in Kernels |-> 0]
  /\ signal = [k \in Kernels |-> "None"]
  /\ returned = [k \in Kernels |-> "None"]
  /\ pc = [t \in Threads |-> "fetch"]
  /\ segNo = [t \in Threads |-> 0]
  /\ kernelId = [t \in Threads |-> 1]
  /\ target = [t \in Threads |-> 1]
  /\ seen = [t \in Threads |-> [k \in Kernels |-> "None"]]
  /\ closing = [t \in Threads |-> FALSE]

\* The atomic fetch-and-add of the phase's segment number.
ObtainSegmentNumber(t) ==
  /\ At(t, "fetch")
  /\ segNo' = [segNo EXCEPT ![t] = nextSegNo]
  /\ nextSegNo' = nextSegNo + 1
  /\ kernelId' = [kernelId EXCEPT ![t] = 1]
  /\ seen' = [seen EXCEPT ![t] = [k \in Kernels |-> "None"]]
  /\ Goto(t, "acquire")
  /\ UNCHANGED <<pre, post, signal, returned, target, closing>>

\* The spin loop on the entry counter ends; the kernel's signal is read.
Acquire(t) ==
  /\ At(t, "acquire")
  /\ MayEnter(t, kernelId[t])
  /\ seen' = Read(t, kernelId[t])
  /\ Goto(t, "entered")
  /\ UNCHANGED <<nextSegNo, pre, post, signal, returned, segNo, kernelId, target,
                 closing>>

-----------------------------------------------------------------------------
\* What executeKernel decides once it holds the entry counter.
InitiallyTerminated(t) ==
  /\ At(t, "entered")
  /\ HasTerminationSignal(kernelId[t])
  /\ seen[t][kernelId[t]] # "None"

Alive(t) == At(t, "entered") /\ ~InitiallyTerminated(t)

\* Seeded faults: off by one kernel; a data-parallel root left locked.
JumpBeyond(t, p) ==
  /\ target' = [target EXCEPT ![t] = FirstKernelInPartition[p] + 1]
  /\ Goto(t, IF FirstKernelInPartition[p] = NumKernels + 1 THEN "jumpEnd" ELSE "jump")
  /\ UNCHANGED <<nextSegNo, pre, post, signal, returned, segNo, kernelId, seen, closing>>

JumpHoldingRoot(t, p) ==
  /\ target' = [target EXCEPT ![t] = FirstKernelInPartition[p]]
  /\ Goto(t, IF FirstKernelInPartition[p] = NumKernels + 1 THEN "jumpEnd" ELSE "jump")
  /\ UNCHANGED <<nextSegNo, pre, post, signal, returned, segNo, kernelId, seen, closing>>

\* Start a jump to the first kernel of partition p.  A jump past the last
\* kernel releases the pre counter of a data-parallel root at once.
JumpTo(t, p) ==
  /\ target' = [target EXCEPT ![t] = FirstKernelInPartition[p]]
  /\ IF FirstKernelInPartition[p] = NumKernels + 1
       THEN /\ Goto(t, "jumpEnd")
            /\ pre' = IF kernelId[t] \in DataParallel THEN Release(pre, t) ELSE pre
       ELSE Goto(t, "jump") /\ UNCHANGED pre
  /\ UNCHANGED <<nextSegNo, post, signal, returned, segNo, kernelId, seen, closing>>

\* Leave the kernel without invoking it; the next kernel still runs.
ExitDirectly(t) ==
  /\ IF kernelId[t] \in DataParallel
       THEN Goto(t, "await") /\ pre' = Release(pre, t)
       ELSE Goto(t, "exit") /\ UNCHANGED pre
  /\ UNCHANGED <<nextSegNo, post, signal, returned, kernelId, threadVars>>

\* A terminated root goes to the next partition, whatever its jump target is;
\* the three exits are those of writeInitiallyTerminatedPartitionExit.
ExitTerminatedToNextPartition(t) ==
  LET k == kernelId[t] IN
  /\ InitiallyTerminated(t)
  /\ IsPartitionRoot(k)
  /\ JumpTarget(k) # KernelPartitionId[k] + 1
  /\ JumpTo(t, KernelPartitionId[k] + 1)

ExitTerminatedByJump(t) ==
  LET k == kernelId[t] IN
  /\ InitiallyTerminated(t)
  /\ HasJump(k)
  /\ JumpTarget(k) = KernelPartitionId[k] + 1
  /\ JumpTo(t, JumpTarget(k))

ExitTerminatedDirectly(t) ==
  LET k == kernelId[t] IN
  /\ InitiallyTerminated(t)
  /\ ~HasJump(k)
  /\ ExitDirectly(t)

\* Input or output space is short.  A root with a jump block passes over every
\* kernel up to the jump target; any other kernel leaves without executing.
InsufficientIO(t) ==
  LET k == kernelId[t] IN
  /\ Alive(t)
  /\ segNo[t] < LastInput
  /\ ~(closing[t] /\ ~IsPartitionRoot(k))
  /\ IF HasJump(k) THEN JumpTo(t, JumpTarget(k)) ELSE ExitDirectly(t)

\* The count of terminated consumers stops the kernel before it is invoked.
CatchPropagatedTermination(t) ==
  /\ Alive(t)
  /\ kernelId[t] \in PropagationTargets
  /\ Goto(t, "aborted")
  /\ UNCHANGED <<nextSegNo, pre, post, signal, returned, kernelId, threadVars>>

AnyClosed(t, k) ==
  \E j \in Producers[k] : seen[t][TerminationSignalIndex(j)] # "None"

\* Seeded fault: a root ends although its inputs are open.
MayBeFinalUnclosed(t, k) == IsPartitionRoot(k) \/ closing[t]

\* A root may enter its final segment once an input is closed, and must do so
\* once that input is exhausted; the other kernels follow their root.
MayBeFinal(t, k) == IF IsPartitionRoot(k) THEN AnyClosed(t, k) ELSE closing[t]
MustBeFinal(t, k) == MayBeFinal(t, k) /\ (IsPartitionRoot(k) => segNo[t] >= LastInput)

\* A non-final invocation.  A data-parallel kernel writes its item counts and
\* lets the next segment in before it runs.
InvokeKernel(t) ==
  LET k == kernelId[t] IN
  /\ Alive(t)
  /\ ~MustBeFinal(t, k)
  /\ pre' = IF k \in DataParallel THEN Release(pre, t) ELSE pre
  /\ closing' = IF IsPartitionRoot(k) THEN [closing EXCEPT ![t] = FALSE] ELSE closing
  /\ Goto(t, "run")
  /\ UNCHANGED <<nextSegNo, post, signal, returned, segNo, kernelId, target, seen>>

\* Seeded fault: a final invocation lets the next segment in like any other.
InvokeFinallyReleasing(t) ==
  /\ Alive(t)
  /\ MayBeFinal(t, kernelId[t])
  /\ pre' = IF kernelId[t] \in DataParallel THEN Release(pre, t) ELSE pre
  /\ Goto(t, "final")
  /\ UNCHANGED <<nextSegNo, post, signal, returned, kernelId, threadVars>>

\* The final invocation delays the release of the pre counter.
InvokeFinally(t) ==
  /\ Alive(t)
  /\ MayBeFinal(t, kernelId[t])
  /\ Goto(t, "final")
  /\ UNCHANGED <<nextSegNo, pre, post, signal, returned, kernelId, threadVars>>

\* A source has no input that closes: it ends by a termination code of its own.
MustTerminate(t, k) == /\ k \in CanSetTerminateSignal
                       /\ Producers[k] = {}
                       /\ segNo[t] >= LastInput

\* The code loops on a kernel that must terminate explicitly but returns from
\* its final invocation without a code: only ReturnTerminated leaves it.
ReturnNormally(t) ==
  LET k == kernelId[t] IN
  /\ \/ At(t, "run") /\ ~MustTerminate(t, k)
     \/ At(t, "final") /\ k \notin MustExplicitlyTerminate
  /\ Goto(t, IF At(t, "final") THEN "completed"
             ELSE IF k \in DataParallel THEN "await" ELSE "exit")
  /\ UNCHANGED <<nextSegNo, pre, post, signal, returned, kernelId, threadVars>>

\* The kernel calls setTerminationSignal or setFatalTerminationSignal.
ReturnTerminated(t) ==
  LET k == kernelId[t] IN
  /\ At(t, "run") \/ At(t, "final")
  /\ k \in CanSetTerminateSignal
  /\ returned' = [returned EXCEPT ![k] =
                    IF k \in MayFatallyTerminate THEN "Fatal" ELSE "Aborted"]
  /\ Goto(t, "aborted")
  /\ UNCHANGED <<nextSegNo, pre, post, signal, kernelId, threadVars>>

\* Seeded fault: the two signals are confused.
RecordedCodeSwapped(t) == IF At(t, "completed") THEN "Aborted" ELSE "Completed"

\* The signal signalAbnormalTermination records for a termination code.
RecordedCode(t) == IF At(t, "completed") THEN "Completed" ELSE "Aborted"

\* KernelTerminated: a data-parallel kernel first waits for its turn to write.
RecordTermination(t) ==
  LET k == kernelId[t] IN
  /\ At(t, "completed") \/ At(t, "aborted")
  /\ k \in DataParallel => MayExit(t, k)
  /\ IF HasTerminationSignal(k)
       THEN /\ signal' = [signal EXCEPT ![k] = RecordedCode(t)]
            /\ seen' = [seen EXCEPT ![t][k] = RecordedCode(t)]
       ELSE UNCHANGED <<signal, seen>>
  /\ closing' = IF IsPartitionRoot(k) THEN [closing EXCEPT ![t] = TRUE] ELSE closing
  /\ Goto(t, IF k \in DataParallel THEN "terminated" ELSE "exit")
  /\ UNCHANGED <<nextSegNo, pre, post, returned, segNo, kernelId, target>>

\* "We do not release the pre-invocation synchronization lock in the execution
\* phase when a kernel is terminating": it is released here.
ReleaseAfterTermination(t) ==
  /\ At(t, "terminated")
  /\ pre' = Release(pre, t)
  /\ Goto(t, "exit")
  /\ UNCHANGED <<nextSegNo, post, signal, returned, kernelId, threadVars>>

AwaitPost(t) ==
  /\ At(t, "await")
  /\ MayExit(t, kernelId[t])
  /\ Goto(t, "exit")
  /\ UNCHANGED <<nextSegNo, pre, post, signal, returned, kernelId, threadVars>>

\* checkForPartitionExit: release, then wait for the next kernel.
ExitKernel(t) ==
  /\ At(t, "exit")
  /\ post' = Release(post, t)
  /\ kernelId' = [kernelId EXCEPT ![t] = @ + 1]
  /\ Goto(t, IF kernelId[t] = NumKernels THEN "endSegment" ELSE "acquire")
  /\ UNCHANGED <<nextSegNo, pre, signal, returned, threadVars>>

-----------------------------------------------------------------------------
\* Seeded fault: only one of the two counters of a skipped kernel is released.
FirstReleaseOfPost(k) == "skipPost"

\* A jump acquires first, then releases every kernel it passes over, its own
\* first.  kernelId moves over the skipped kernels.
FirstRelease(k) == IF k \in DataParallel THEN "skipPre" ELSE "skipPost"

AcquireJumpTarget(t) ==
  /\ \/ At(t, "jump") /\ MayEnter(t, target[t])
     \/ At(t, "jumpEnd") /\ MayExit(t, NumKernels)
  /\ Goto(t, IF At(t, "jump") THEN FirstRelease(kernelId[t]) ELSE "skipPost")
  /\ UNCHANGED <<nextSegNo, pre, post, signal, returned, kernelId, threadVars>>

ReleaseSkippedPre(t) ==
  /\ At(t, "skipPre")
  /\ pre' = Release(pre, t)
  /\ Goto(t, "skipPost")
  /\ UNCHANGED <<nextSegNo, post, signal, returned, kernelId, threadVars>>

\* A jump within the phase reads the signal of each kernel it passes over; a
\* jump past the last kernel leaves them as unterminated.
ReleaseSkippedPost(t) ==
  LET next == kernelId[t] + 1 IN
  /\ At(t, "skipPost")
  /\ post' = Release(post, t)
  /\ kernelId' = [kernelId EXCEPT ![t] = next]
  /\ seen' = IF target[t] <= NumKernels THEN Read(t, next) ELSE seen
  /\ Goto(t, IF next < target[t] THEN FirstRelease(next)
             ELSE IF next <= NumKernels THEN "entered" ELSE "endSegment")
  /\ UNCHANGED <<nextSegNo, pre, signal, returned, segNo, target, closing>>

-----------------------------------------------------------------------------
\* Seeded fault: one terminated partition is taken for all.
HasSomePartitionTerminated(t) ==
  \E p \in TerminationCheck : seen[t][FirstKernelInPartition[p]] # "None"

HasPipelineTerminated(t) ==
  \/ \E k \in MayFatallyTerminate :
       seen[t][FirstKernelInPartition[KernelPartitionId[k]]] = "Fatal"
  \/ \A p \in TerminationCheck : seen[t][FirstKernelInPartition[p]] # "None"

EndSegment(t) ==
  /\ At(t, "endSegment")
  /\ Goto(t, IF HasPipelineTerminated(t) THEN "done" ELSE "fetch")
  /\ UNCHANGED <<nextSegNo, pre, post, signal, returned, kernelId, threadVars>>

ThreadStep(t) ==
  \/ ObtainSegmentNumber(t) \/ Acquire(t)
  \/ ExitTerminatedToNextPartition(t) \/ ExitTerminatedByJump(t)
  \/ ExitTerminatedDirectly(t) \/ InsufficientIO(t)
  \/ CatchPropagatedTermination(t) \/ InvokeKernel(t) \/ InvokeFinally(t)
  \/ ReturnNormally(t) \/ ReturnTerminated(t) \/ RecordTermination(t)
  \/ ReleaseAfterTermination(t) \/ AwaitPost(t) \/ ExitKernel(t)
  \/ AcquireJumpTarget(t) \/ ReleaseSkippedPre(t) \/ ReleaseSkippedPost(t)
  \/ EndSegment(t)

\* The main thread joins the others once all have left their loops.
Finished == /\ \A t \in Threads : At(t, "done")
            /\ UNCHANGED vars

Next == (\E t \in Threads : ThreadStep(t)) \/ Finished

Spec == Init /\ [][Next]_vars

\* Every thread is a system thread that the scheduler keeps running.
FairSpec == Spec /\ \A t \in Threads : WF_vars(ThreadStep(t))
-----------------------------------------------------------------------------
(* Safety.                                                                 *)

Active(t) == pc[t] \notin {"fetch", "endSegment", "done"}
Invoking(t) == At(t, "run") \/ At(t, "final")

\* Control points at which a data-parallel kernel's pre counter was released.
PastEntry == {"run", "await", "exit", "jumpEnd", "skipPost"}

\* In its current segment thread t has let the next segment into kernel k, or
\* out of it.
LetIn(t, k) == \/ k < kernelId[t]
               \/ k = kernelId[t] /\ k \in DataParallel /\ pc[t] \in PastEntry
LetOut(t, k) == k < kernelId[t]

\* The header of synchronization_logic.cpp: while a thread executes a kernel,
\* every thread with an earlier segment has finished all earlier kernels, has
\* finished this one too if it has state, and has fixed its item counts if it
\* is data-parallel.
EarlierSegmentsFirst ==
  \A t, u \in Threads :
    Active(t) /\ Active(u) /\ segNo[u] < segNo[t] /\ Invoking(t) =>
      /\ \A j \in 1 .. kernelId[t] - 1 : LetOut(u, j)
      /\ IF kernelId[t] \in DataParallel THEN LetIn(u, kernelId[t])
                                         ELSE LetOut(u, kernelId[t])

\* The assertion of releaseSynchronizationLock, "released segment number is
\* ... but was expected to be ...": a counter that a thread is about to
\* release still holds the thread's own segment number.
ReleasesOwnSegment ==
  \A t \in Threads :
    /\ pc[t] \in {"exit", "skipPost"} => post[kernelId[t]] = segNo[t]
    /\ pc[t] \in {"terminated", "skipPre"} => pre[kernelId[t]] = segNo[t]
    /\ pc[t] \in {"entered", "final"} => EntryCount(kernelId[t]) = segNo[t]

\* The assertion of acquireSynchronizationLock, "acquired segment number is
\* ... but was expected to be no more than ...": no counter has passed the
\* segment of a thread that waits for it.
NeverOvertaken ==
  \A t \in Threads :
    /\ At(t, "acquire") => EntryCount(WaitingOn(kernelId[t])) <= segNo[t]
    /\ At(t, "jump") => EntryCount(WaitingOn(target[t])) <= segNo[t]
    /\ At(t, "await") => post[WaitingOn(kernelId[t])] <= segNo[t]
    /\ At(t, "jumpEnd") => post[NumKernels] <= segNo[t]

\* A kernel that has terminated is never invoked again, by any thread, and
\* neither is any other kernel of its partition once the segment in which its
\* root terminated is complete there.
NeverInvokedAfterTermination ==
  \A t \in Threads :
    Invoking(t) =>
      /\ signal[kernelId[t]] = "None"
      /\ \/ closing[t] /\ ~IsPartitionRoot(kernelId[t])
         \/ seen[t][TerminationSignalIndex(kernelId[t])] = "None"

\* A root that ran out of input has a producer that terminated before it.
CompletedAfterProducer ==
  \A k \in Kernels :
    signal[k] = "Completed" /\ IsPartitionRoot(k) =>
      \E j \in Producers[k] : signal[TerminationSignalIndex(j)] # "None"

\* A thread leaves the loop only when the partitions that decide the end of
\* the pipeline have terminated, and no thread is still inside an invocation
\* of their roots then.
LeavesWhenTerminated ==
  \A t \in Threads :
    At(t, "done") =>
      \A p \in TerminationCheck :
        LET k == FirstKernelInPartition[p] IN
        /\ signal[k] # "None"
        /\ \A u \in Threads : ~(Invoking(u) /\ kernelId[u] = k)

\* The option SerializeThreads, "Force segment threads to run sequentially":
\* at most one thread is past the entry of the first kernel.
Working(t) == Active(t) /\ ~(At(t, "acquire") /\ kernelId[t] = 1)
RunsSequentially ==
  SerializeThreads =>
    \A t, u \in Threads : Working(t) /\ Working(u) => t = u

\* The termination signal of a kernel is written once, whatever the threads
\* that execute it concurrently do.
TerminatesOnce ==
  [][\A k \in Kernels : signal[k] # "None" => signal'[k] = signal[k]]_vars

-----------------------------------------------------------------------------
(* The invariant that makes the counters a queue of segments per kernel.   *)

\* A thread knows from its own position which counters have passed it.
CountersMatchPositions ==
  \A t \in Threads : Active(t) =>
    \A k \in Kernels :
      /\ post[k] > segNo[t] <=> LetOut(t, k)
      /\ k \in DataParallel => (pre[k] > segNo[t] <=> LetIn(t, k))

CountersBounded ==
  \A k \in Kernels : post[k] <= nextSegNo /\ pre[k] <= nextSegNo

SegmentsDistinct ==
  \A t \in Threads : Active(t) =>
    /\ segNo[t] < nextSegNo
    /\ \A u \in Threads : Active(u) /\ segNo[u] = segNo[t] => u = t

\* Later kernels never get ahead of earlier ones.
CountersOrdered ==
  \A k \in Kernels :
    /\ k \in DataParallel => post[k] <= pre[k]
    /\ \A j \in 1 .. k - 1 : EntryCount(k) <= post[j]

\* What a thread holds at each control point.
Holds(t) ==
  /\ Active(t) => kernelId[t] \in Kernels
  /\ pc[t] \in {"entered", "final", "completed", "aborted", "terminated",
                "jump", "skipPre"}
       => EntryCount(kernelId[t]) = segNo[t]
  /\ pc[t] \in PastEntry /\ kernelId[t] \notin DataParallel /\ pc[t] # "await"
       => post[kernelId[t]] = segNo[t]
  /\ pc[t] \in {"exit", "terminated"} => post[kernelId[t]] = segNo[t]
  /\ pc[t] \in {"await", "terminated", "skipPre"} => kernelId[t] \in DataParallel
  /\ pc[t] \in {"jump", "jumpEnd", "skipPre", "skipPost"} => kernelId[t] < target[t]
  /\ At(t, "jump") => target[t] <= NumKernels
  /\ At(t, "jumpEnd") => target[t] = NumKernels + 1
  /\ pc[t] \in {"skipPre", "skipPost"} =>
       IF target[t] <= NumKernels THEN EntryCount(target[t]) = segNo[t]
                                  ELSE post[NumKernels] = segNo[t]

HoldsCounters == \A t \in Threads : Holds(t)

\* What makes the counters of acquireSynchronizationLock and
\* releaseSynchronizationLock locks: at each kernel they form a queue that
\* segments pass in order, and a thread's position tells which have passed it.
LockInvariant ==
  /\ TypeOK
  /\ CountersMatchPositions
  /\ CountersBounded
  /\ SegmentsDistinct
  /\ CountersOrdered
  /\ HoldsCounters

-----------------------------------------------------------------------------
(* The invariant that keeps a terminated kernel from running again.        *)

RootOf(k) == FirstKernelInPartition[KernelPartitionId[k]]
FollowedInPartition(k) ==
  k < NumKernels /\ KernelPartitionId[k + 1] = KernelPartitionId[k]

\* What a thread has read of a kernel's signal was recorded before.
SeenWasRecorded ==
  \A k \in Kernels :
    /\ signal[k] # "Fatal"
    /\ ~HasTerminationSignal(k) => signal[k] = "None"
    /\ \A t \in Threads : /\ seen[t][k] # "Fatal"
                          /\ seen[t][k] # "None" => signal[k] # "None"

\* From a thread's decision to invoke a kernel until it records how that
\* ended, no thread records a termination of the kernel.
InvokedUnterminated ==
  \A t \in Threads :
    Alive(t) \/ pc[t] \in {"run", "final", "completed", "aborted"} =>
      signal[kernelId[t]] = "None"

\* The reason for which a root runs its final invocation.
FinalAfterProducer ==
  \A t \in Threads :
    pc[t] \in {"final", "completed"} /\ IsPartitionRoot(kernelId[t]) =>
      AnyClosed(t, kernelId[t])

\* A thread comes past the root of a partition to the kernels that follow it
\* only if it found the root open, or closes the partition itself.
OpenOrClosing(t) == closing[t] \/ seen[t][RootOf(kernelId[t])] = "None"
FollowerOpen(t) ==
  /\ /\ pc[t] \in {"acquire", "entered", "run", "final", "await",
                   "completed", "aborted", "terminated", "exit"}
     /\ ~IsPartitionRoot(kernelId[t])
     => OpenOrClosing(t)
  /\ /\ pc[t] \in {"run", "await", "terminated", "exit"}
     /\ FollowedInPartition(kernelId[t])
     => OpenOrClosing(t)
  /\ pc[t] \in {"jump", "skipPre", "skipPost"} /\ target[t] <= NumKernels =>
       IsPartitionRoot(target[t])
FollowersOpen == \A t \in Threads : FollowerOpen(t)

\* A thread that has left recorded or read every deciding signal.
LeftTerminated ==
  \A t \in Threads : At(t, "done") =>
    \A p \in TerminationCheck : signal[FirstKernelInPartition[p]] # "None"

\* What makes the termination signals safe to read without a lock of their
\* own: they are written by the one thread that holds the kernel's counters,
\* and whoever reads them acts on them only under the same counters.
TerminationInvariant ==
  /\ SeenWasRecorded
  /\ InvokedUnterminated
  /\ FinalAfterProducer
  /\ CompletedAfterProducer
  /\ FollowersOpen
  /\ LeftTerminated

-----------------------------------------------------------------------------
(* Liveness and refinement.                                                *)

\* Every segment number that was fetched passes every kernel: no thread can
\* leave a hole in the sequence that the others would wait on for ever.
EverySegmentPasses ==
  \A s \in 0 .. LastInput + 1 :
    nextSegNo > s ~> \A k \in Kernels : post[k] > s

\* Once the input is exhausted every thread leaves its loop and can be joined.
AllThreadsLeave == <>(\A t \in Threads : At(t, "done"))

\* The counters alone behave as SegmentOrder promises.
Order == INSTANCE SegmentOrder WITH begun <- pre, finished <- post
ImplementsOrder == Order!OrderSpec
=============================================================================
