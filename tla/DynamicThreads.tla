--------------------------- MODULE DynamicThreads ---------------------------
(***************************************************************************)
(* The thread pool of the generated pipeline driver with the option        *)
(* dynamic-multithreading (generateMultiThreadKernelMethod): the process   *)
(* thread executes segments like its workers and, once per period, adds a  *)
(* worker or cancels one.                                                  *)
(*                                                                         *)
(* The kernels of a segment are one step, taken in the order of the        *)
(* segments: SegmentPipeline shows that the lock counters of the last      *)
(* kernel order them so.  A thread struct is a slot of the state array;    *)
(* the process thread uses slot 0 and only it writes flags and thread ids. *)
(* The measured synchronization overhead may be anything.  One phase.      *)
(***************************************************************************)
EXTENDS Naturals, FiniteSets

CONSTANTS
  Workers,        \* pthread_t values; one is free again once it is joined
  MinimumThreads, \* MINIMUM_NUM_OF_THREADS
  MaximumThreads, \* MAXIMUM_NUM_OF_THREADS
  Period,         \* DYNAMIC_MULTITHREADING_SEGMENT_PERIOD
  LastSegment     \* the segment that terminates the pipeline

ASSUME PoolAssumption ==
  /\ MinimumThreads \in Nat \ {0}
  /\ MaximumThreads \in Nat
  /\ MinimumThreads <= MaximumThreads
  /\ Period \in Nat
  /\ LastSegment \in Nat
  /\ "process" \notin Workers /\ "none" \notin Workers

\* The slots of the workers, and what CURRENT_THREAD_STATUS_FLAG tells.
Slots == 1 .. MaximumThreads - 1
Flags == {"unused", "running", "cancelled"}

VARIABLES
  statusFlag,     \* slot -> CURRENT_THREAD_STATUS_FLAG
  threadId,       \* slot -> CURRENT_THREAD_ID
  activeThreads,  \* activeThreadsPhi
  nextCheck,      \* nextCheckSegmentPhi
  index,          \* threadIndex, selectToAddPhi, selectedThreadPhi, joinThreadIndex
  terminated,     \* the value that the process thread's last segment returned
  process,        \* where the process thread is
  worker, slot,   \* where each worker is, and its slot
  segNo,          \* Workers and "process" -> the segment number it works on
  nextSegment,    \* the shared segment counter
  finished        \* the number of segments that passed all kernels

pool == <<statusFlag, threadId, activeThreads>>
workers == <<worker, slot>>
segments == <<segNo, nextSegment, finished>>
vars == <<statusFlag, threadId, activeThreads, nextCheck, index, terminated,
          process, worker, slot, segNo, nextSegment, finished>>

\* Types of the thread structs and of the threads' local values.
TypeOK ==
  /\ statusFlag \in [Slots -> Flags]
  /\ threadId \in [Slots -> Workers \cup {"none"}]
  /\ activeThreads \in MinimumThreads .. MaximumThreads
  /\ nextCheck \in Nat
  /\ index \in 1 .. MaximumThreads
  /\ terminated \in BOOLEAN
  /\ process \in {"construct", "fetch", "execute", "report", "check", "select",
                  "joinCancelled", "add", "remove", "next", "join", "freed"}
  /\ worker \in [Workers -> {"free", "fetch", "execute", "next", "exited"}]
  /\ slot \in [Workers -> Nat]
  /\ segNo \in [Workers \cup {"process"} -> Nat]
  /\ nextSegment \in Nat
  /\ finished \in Nat

-----------------------------------------------------------------------------
Init ==
  /\ statusFlag = [s \in Slots |-> "unused"]
  /\ threadId = [s \in Slots |-> "none"]
  /\ activeThreads = MinimumThreads
  /\ nextCheck = Period
  /\ index = 1
  /\ terminated = FALSE
  /\ process = "construct"
  /\ worker = [w \in Workers |-> "free"]
  /\ slot = [w \in Workers |-> 0]
  /\ segNo = [t \in Workers \cup {"process"} |-> 0]
  /\ nextSegment = 0
  /\ finished = 0

\* pthread_create for slot s.
CreateThread(s) ==
  \E w \in Workers :
    /\ worker[w] = "free"
    /\ worker' = [worker EXCEPT ![w] = "fetch"]
    /\ slot' = [slot EXCEPT ![w] = s]
    /\ threadId' = [threadId EXCEPT ![s] = w]
    /\ statusFlag' = [statusFlag EXCEPT ![s] = "running"]

\* pthread_join returns for the thread whose id slot s holds.
JoinThread(s) ==
  /\ worker[threadId[s]] = "exited"
  /\ worker' = [worker EXCEPT ![threadId[s]] = "free"]

\* Slots below the minimum start at once, the others are only constructed.
Starts(s) == s + 1 <= MinimumThreads

Construct ==
  /\ process = "construct"
  /\ index < MaximumThreads
  /\ index' = index + 1
  /\ IF Starts(index) THEN CreateThread(index)
     ELSE UNCHANGED <<statusFlag, threadId, workers>>
  /\ UNCHANGED <<activeThreads, nextCheck, terminated, process, segments>>

BeginProcess ==
  /\ process = "construct"
  /\ index >= MaximumThreads
  /\ process' = "fetch"
  /\ UNCHANGED <<pool, nextCheck, index, terminated, workers, segments>>

-----------------------------------------------------------------------------
(* Segments.                                                               *)

Fetch(t) ==
  /\ segNo' = [segNo EXCEPT ![t] = nextSegment]
  /\ nextSegment' = nextSegment + 1
  /\ UNCHANGED finished

Execute(t) ==
  /\ segNo[t] = finished
  /\ finished' = finished + 1
  /\ UNCHANGED <<segNo, nextSegment>>

PipelineTerminated == finished > LastSegment

\* Seeded fault: a cancelled worker leaves with the number it has fetched.
AfterFetchIfRunning(w) == IF statusFlag[slot[w]] = "cancelled" THEN "exited" ELSE "execute"

AfterFetch(w) == "execute"

WorkerFetch(w) ==
  /\ worker[w] = "fetch"
  /\ Fetch(w)
  /\ worker' = [worker EXCEPT ![w] = AfterFetch(w)]
  /\ UNCHANGED <<pool, nextCheck, index, terminated, process, slot>>

WorkerExecute(w) ==
  /\ worker[w] = "execute"
  /\ Execute(w)
  /\ worker' = [worker EXCEPT ![w] = "next"]
  /\ UNCHANGED <<pool, nextCheck, index, terminated, process, slot>>

Leaves(w) == PipelineTerminated \/ statusFlag[slot[w]] = "cancelled"

\* A worker reads its flag at the end of a segment.
WorkerNext(w) ==
  /\ worker[w] = "next"
  /\ worker' = [worker EXCEPT ![w] = IF Leaves(w) THEN "exited" ELSE "fetch"]
  /\ UNCHANGED <<pool, nextCheck, index, terminated, process, slot, segments>>

ProcessFetch ==
  /\ process = "fetch"
  /\ Fetch("process")
  /\ process' = "execute"
  /\ UNCHANGED <<pool, nextCheck, index, terminated, workers>>

ProcessExecute ==
  /\ process = "execute"
  /\ Execute("process")
  /\ process' = "report"
  /\ UNCHANGED <<pool, nextCheck, index, terminated, workers>>

\* The segment returns hasPipelineTerminated, which later segments may have set;
\* the pool is adjusted whatever it returned.
ProcessReport ==
  /\ process = "report"
  /\ terminated' = PipelineTerminated
  /\ process' = IF segNo["process"] >= nextCheck THEN "check" ELSE "next"
  /\ UNCHANGED <<pool, nextCheck, index, workers, segments>>

ProcessNext ==
  /\ process = "next"
  /\ process' = IF terminated THEN "join" ELSE "fetch"
  /\ index' = 1
  /\ UNCHANGED <<pool, nextCheck, terminated, workers, segments>>

-----------------------------------------------------------------------------
(* Adjusting the number of threads.                                        *)

\* checkToAddThread and checkToRemoveThread.
DecideToAdd ==
  /\ process = "check"
  /\ activeThreads < MaximumThreads
  /\ process' = "select"
  /\ index' = 1
  /\ nextCheck' = segNo["process"] + Period
  /\ UNCHANGED <<pool, terminated, workers, segments>>

\* Seeded fault: the count includes the process thread twice.
MayRemoveTooFew == activeThreads >= MinimumThreads

MayRemove == activeThreads > MinimumThreads

DecideToRemove ==
  /\ process = "check"
  /\ MayRemove
  /\ process' = "remove"
  /\ index' = 1
  /\ nextCheck' = segNo["process"] + Period
  /\ UNCHANGED <<pool, terminated, workers, segments>>

DecideToKeep ==
  /\ process = "check"
  /\ process' = "next"
  /\ nextCheck' = segNo["process"] + Period
  /\ UNCHANGED <<pool, index, terminated, workers, segments>>

\* Seeded fault: the thread of a cancelled slot is not joined.
UseAtOnce(s) == "add"

\* checkIfThreadIsCancelled.
UseSlot(s) == IF statusFlag[s] = "cancelled" THEN "joinCancelled" ELSE "add"

\* selectThreadStructToUseForAddThread: the first slot without a running flag.
SelectSlot ==
  /\ process = "select"
  /\ index < MaximumThreads
  /\ IF statusFlag[index] # "running"
       THEN process' = UseSlot(index) /\ index' = index
       ELSE process' = "select" /\ index' = index + 1
  /\ UNCHANGED <<pool, nextCheck, terminated, workers, segments>>

JoinCancelledThread ==
  /\ process = "joinCancelled"
  /\ JoinThread(index)
  /\ process' = "add"
  /\ UNCHANGED <<pool, nextCheck, index, terminated, slot, segments>>

AddThread ==
  /\ process = "add"
  /\ CreateThread(index)
  /\ activeThreads' = activeThreads + 1
  /\ process' = "next"
  /\ UNCHANGED <<nextCheck, index, terminated, segments>>

\* Seeded fault: the count is not reduced.
CountAfterRemoval == activeThreads

AfterRemoval == activeThreads - 1

\* selectThreadToRemove and removeThread.
RemoveThread ==
  /\ process = "remove"
  /\ index < MaximumThreads
  /\ IF statusFlag[index] = "running"
       THEN /\ statusFlag' = [statusFlag EXCEPT ![index] = "cancelled"]
            /\ activeThreads' = AfterRemoval
            /\ process' = "next"
            /\ index' = index
       ELSE /\ index' = index + 1
            /\ UNCHANGED <<statusFlag, activeThreads, process>>
  /\ UNCHANGED <<threadId, nextCheck, terminated, workers, segments>>

-----------------------------------------------------------------------------
(* The end of the pipeline.                                                *)

\* Seeded fault: only threads that were not cancelled are joined.
JoinsRunning(s) == statusFlag[s] = "running"

MustJoin(s) == statusFlag[s] # "unused"

JoinNext ==
  /\ process = "join"
  /\ index < MaximumThreads
  /\ IF MustJoin(index) THEN JoinThread(index) ELSE UNCHANGED worker
  /\ index' = index + 1
  /\ UNCHANGED <<pool, nextCheck, terminated, process, slot, segments>>

FreeThreadStates ==
  /\ process = "join"
  /\ index >= MaximumThreads
  /\ process' = "freed"
  /\ UNCHANGED <<pool, nextCheck, index, terminated, workers, segments>>

WorkerStep(w) == WorkerFetch(w) \/ WorkerExecute(w) \/ WorkerNext(w)

ProcessStep ==
  \/ Construct \/ BeginProcess \/ ProcessFetch \/ ProcessExecute \/ ProcessReport
  \/ ProcessNext \/ DecideToAdd \/ DecideToRemove \/ DecideToKeep \/ SelectSlot
  \/ JoinCancelledThread \/ AddThread \/ RemoveThread \/ JoinNext
  \/ FreeThreadStates

Next == \/ ProcessStep
        \/ \E w \in Workers : WorkerStep(w)
        \/ process = "freed" /\ UNCHANGED vars

Spec == Init /\ [][Next]_vars

\* Threads that the scheduler keeps running.
FairSpec == Spec /\ WF_vars(ProcessStep) /\ \A w \in Workers : WF_vars(WorkerStep(w))

-----------------------------------------------------------------------------
(* Properties.                                                             *)

Running == {s \in Slots : statusFlag[s] = "running"}

\* The scans for a slot to add or to remove (selectThreadStructToUseForAddThread
\* and selectThreadToRemove have no bound of their own) end inside the array:
\* activeThreads always tells how many slots are marked.
ScanInArray ==
  /\ process \in {"select", "joinCancelled", "add", "remove"} => index \in Slots
  /\ process # "construct" => activeThreads = Cardinality(Running) + 1

\* "If a thread got stalled or the period was set so low, we could reenter this
\* check prior to the thread itself stopping": no thread struct and so no
\* thread-local state is ever used by two threads.
OneThreadPerSlot ==
  \A u, w \in Workers :
    worker[u] # "free" /\ worker[w] # "free" /\ slot[u] = slot[w] => u = w

\* When the driver frees the state array every thread that it created has been
\* joined, the cancelled ones too, and no segment number was left behind.
FreedWhenIdle ==
  process = "freed" => /\ \A w \in Workers : worker[w] = "free"
                       /\ finished = nextSegment

\* The driver returns: neither the join of a cancelled thread that still has a
\* segment to finish nor the final joins wait for ever.
DriverReturns == <>(process = "freed")
=============================================================================
