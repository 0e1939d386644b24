------------------------ MODULE DynamicThreadsProofs ------------------------
(***************************************************************************)
(* Proofs about DynamicThreads: for any number of threads, any period and  *)
(* any point of termination the thread structs are never shared, the scans *)
(* of the state array end inside it, it is freed when nobody runs, and no  *)
(* join or segment number blocks all threads.                              *)
(***************************************************************************)
EXTENDS DynamicThreads, FiniteSetTheorems, TLAPS

Everyone == Workers \cup {"process"}
Live(w) == worker[w] # "free"
Executing(t) == IF t = "process" THEN process = "execute" ELSE worker[t] = "execute"

\* A thread that was created and not yet joined is the one its slot names, and
\* the slot in hand is without such a thread when a new one is created for it.
Slotted ==
  /\ \A w \in Workers : Live(w) =>
       slot[w] \in Slots /\ statusFlag[slot[w]] # "unused" /\ threadId[slot[w]] = w
  /\ \A s \in Slots : statusFlag[s] # "unused" => threadId[s] \in Workers
  /\ process = "construct" => \A s \in Slots : s >= index => statusFlag[s] = "unused"
  /\ process = "joinCancelled" => index \in Slots /\ statusFlag[index] = "cancelled"
  /\ process = "add" =>
       /\ index \in Slots /\ statusFlag[index] # "running"
       /\ \A w \in Workers : Live(w) => slot[w] # index
  /\ process = "join" => \A w \in Workers : Live(w) => slot[w] >= index
  /\ process = "freed" => \A w \in Workers : ~ Live(w)

\* The count of active threads is the number of marked slots, so that a scan
\* for a slot to add, or to remove, has one before it.
Counted ==
  /\ process = "construct" =>
       /\ activeThreads = MinimumThreads
       /\ Running = {s \in Slots : s < index /\ s + 1 <= MinimumThreads}
  /\ process # "construct" => activeThreads = Cardinality(Running) + 1
  /\ process \in {"select", "joinCancelled", "add"} => activeThreads < MaximumThreads
  /\ process = "select" => \A s \in Slots : s < index => s \in Running
  /\ process = "remove" =>
       activeThreads > MinimumThreads /\ \A s \in Slots : s < index => s \notin Running

\* Every segment number that was handed out and has not passed the kernels is
\* in the hands of a thread that is about to take it there.
NumbersHeld ==
  /\ finished <= nextSegment
  /\ \A t \in Everyone : Executing(t) => segNo[t] < nextSegment
  /\ \A n \in finished .. nextSegment - 1 :
       \E t \in Everyone : Executing(t) /\ segNo[t] = n

Inv == TypeOK /\ Slotted /\ Counted /\ NumbersHeld

-----------------------------------------------------------------------------
(* Types.                                                                  *)

LEMMA PoolFacts ==
  /\ MinimumThreads \in Nat \ {0} /\ MaximumThreads \in Nat \ {0}
  /\ MinimumThreads <= MaximumThreads
  /\ Period \in Nat
  /\ "process" \notin Workers /\ "none" \notin Workers
BY PoolAssumption

LEMMA TypeStep ==
  ASSUME Inv, [Next]_vars
  PROVE  TypeOK'
<1> USE PoolFacts DEF Inv, TypeOK, Flags, pool, workers, segments
<1>1. CASE Construct
  <2>1. index \in Slots /\ index' \in 1 .. MaximumThreads
    BY <1>1 DEF Construct, Slots
  <2>2. CASE Starts(index)
    BY <1>1, <2>1, <2>2 DEF Construct, CreateThread
  <2>3. CASE ~ Starts(index)
    BY <1>1, <2>1, <2>3 DEF Construct
  <2>4. QED BY <2>2, <2>3
<1>2. CASE BeginProcess
  BY <1>2 DEF BeginProcess
<1>3. CASE ProcessFetch \/ ProcessExecute \/ ProcessReport \/ ProcessNext
  <2>1. CASE ProcessFetch \/ ProcessExecute
    BY <1>3, <2>1 DEF ProcessFetch, ProcessExecute, Fetch, Execute
  <2>2. CASE ProcessReport
    BY <1>3, <2>2 DEF ProcessReport, PipelineTerminated
  <2>3. CASE ProcessNext
    BY <1>3, <2>3 DEF ProcessNext
  <2>4. QED BY <1>3, <2>1, <2>2, <2>3
<1>4. CASE DecideToAdd \/ DecideToRemove \/ DecideToKeep
  BY <1>4 DEF DecideToAdd, DecideToRemove, DecideToKeep
<1>5. CASE SelectSlot
  BY <1>5 DEF SelectSlot, UseSlot
<1>6. CASE JoinCancelledThread
  BY <1>6 DEF JoinCancelledThread, JoinThread
<1>7. CASE AddThread
  <2>1. activeThreads' \in MinimumThreads .. MaximumThreads
    BY <1>7 DEF AddThread, Counted
  <2>2. index \in Slots
    BY <1>7 DEF AddThread, Slotted
  <2>3. QED BY <1>7, <2>1, <2>2 DEF AddThread, CreateThread
<1>8. CASE RemoveThread
  <2>1. process = "remove" /\ activeThreads > MinimumThreads
    BY <1>8 DEF RemoveThread, Counted
  <2>2. QED BY <1>8, <2>1 DEF RemoveThread, AfterRemoval
<1>9. CASE JoinNext
  BY <1>9 DEF JoinNext, JoinThread
<1>10. CASE FreeThreadStates
  BY <1>10 DEF FreeThreadStates
<1>11. ASSUME NEW w \in Workers, WorkerStep(w)
       PROVE  TypeOK'
  BY <1>11 DEF WorkerStep, WorkerFetch, WorkerExecute, WorkerNext, AfterFetch, Fetch, Execute
<1>12. CASE UNCHANGED vars
  BY <1>12 DEF vars
<1>13. QED
  BY <1>1, <1>2, <1>3, <1>4, <1>5, <1>6, <1>7, <1>8, <1>9, <1>10, <1>11, <1>12
  DEF Next, ProcessStep

-----------------------------------------------------------------------------
(* Threads and their slots.                                                *)

\* pthread_create for a slot without a thread.
LEMMA CreatingKeepsSlots ==
  ASSUME TypeOK, NEW s \in Slots, CreateThread(s),
         \A w \in Workers : Live(w) =>
           slot[w] \in Slots /\ statusFlag[slot[w]] # "unused" /\ threadId[slot[w]] = w,
         \A r \in Slots : statusFlag[r] # "unused" => threadId[r] \in Workers,
         \A w \in Workers : Live(w) => slot[w] # s
  PROVE  /\ \A w \in Workers : Live(w)' =>
              slot'[w] \in Slots /\ statusFlag'[slot'[w]] # "unused"
                /\ threadId'[slot'[w]] = w
         /\ \A r \in Slots : statusFlag'[r] # "unused" => threadId'[r] \in Workers
         /\ \A r \in Slots : r # s => statusFlag'[r] = statusFlag[r]
         /\ statusFlag' = [statusFlag EXCEPT ![s] = "running"]
<1>1. PICK w \in Workers :
        /\ worker[w] = "free"
        /\ worker' = [worker EXCEPT ![w] = "fetch"]
        /\ slot' = [slot EXCEPT ![w] = s]
        /\ threadId' = [threadId EXCEPT ![s] = w]
        /\ statusFlag' = [statusFlag EXCEPT ![s] = "running"]
  BY DEF CreateThread
<1>2. ASSUME NEW u \in Workers, Live(u)'
      PROVE  slot'[u] \in Slots /\ statusFlag'[slot'[u]] # "unused"
               /\ threadId'[slot'[u]] = u
  <2>1. CASE u = w
    BY <1>1, <2>1 DEF TypeOK
  <2>2. CASE u # w
    BY <1>1, <1>2, <2>2 DEF TypeOK, Live
  <2>3. QED BY <2>1, <2>2
<1>3. QED BY <1>1, <1>2 DEF TypeOK

\* pthread_join for a slot that was used leaves it without a thread.
LEMMA JoiningFreesSlot ==
  ASSUME TypeOK, Slotted, NEW s \in Slots, statusFlag[s] # "unused", JoinThread(s),
         UNCHANGED slot
  PROVE  /\ \A w \in Workers : Live(w)' => Live(w)
         /\ \A w \in Workers : Live(w)' => slot'[w] # s
<1>1. threadId[s] \in Workers
  BY DEF Slotted
<1>2. worker' = [worker EXCEPT ![threadId[s]] = "free"]
  BY DEF JoinThread
<1>3. QED BY <1>1, <1>2 DEF TypeOK, Slotted, Live

LEMMA SlottedStep ==
  ASSUME Inv, [Next]_vars
  PROVE  Slotted'
<1> USE PoolFacts DEF pool, workers, segments
<1>0. TypeOK /\ Slotted
  BY DEF Inv
<1>1. CASE Construct
  <2>1. index \in Slots /\ process = "construct" /\ process' = process /\ index' = index + 1
    BY <1>0, <1>1 DEF Construct, Slots, TypeOK
  <2>2. \A s \in Slots : s >= index => statusFlag[s] = "unused"
    BY <1>0, <2>1 DEF Slotted
  <2>3. CASE ~ Starts(index)
    <3>1. UNCHANGED <<statusFlag, threadId, worker, slot>>
      BY <1>1, <2>3 DEF Construct
    <3>2. QED BY <1>0, <2>1, <3>1 DEF Slotted, Live, Slots
  <2>4. CASE Starts(index)
    <3>1. CreateThread(index)
      BY <1>1, <2>4 DEF Construct
    <3>2. \A w \in Workers : Live(w) => slot[w] # index
      BY <1>0, <2>1, <2>2 DEF Slotted, Slots
    <3>3. /\ \A w \in Workers : Live(w)' =>
               slot'[w] \in Slots /\ statusFlag'[slot'[w]] # "unused"
                 /\ threadId'[slot'[w]] = w
          /\ \A r \in Slots : statusFlag'[r] # "unused" => threadId'[r] \in Workers
          /\ \A r \in Slots : r # index => statusFlag'[r] = statusFlag[r]
      BY <1>0, <2>1, <3>1, <3>2, CreatingKeepsSlots DEF Slotted
    <3>4. \A s \in Slots : s >= index' => statusFlag'[s] = "unused"
      BY <2>1, <2>2, <3>3 DEF Slots
    <3>5. QED BY <2>1, <3>3, <3>4 DEF Slotted
  <2>5. QED BY <2>3, <2>4
<1>2. CASE \/ BeginProcess \/ ProcessFetch \/ ProcessExecute \/ ProcessReport
           \/ DecideToAdd \/ DecideToRemove \/ DecideToKeep
  BY <1>0, <1>2 DEF Slotted, Live, BeginProcess, ProcessFetch, ProcessExecute, ProcessReport,
       DecideToAdd, DecideToRemove, DecideToKeep
<1>3. CASE ProcessNext
  <2>1. \A w \in Workers : Live(w) => slot[w] >= 1
    BY <1>0 DEF Slotted, Slots
  <2>2. QED BY <1>0, <1>3, <2>1 DEF Slotted, Live, ProcessNext
<1>4. CASE SelectSlot
  <2>1. index \in Slots
    BY <1>0, <1>4 DEF SelectSlot, Slots, TypeOK
  <2>2. statusFlag[index] \in Flags
    BY <1>0, <2>1 DEF TypeOK
  <2>3. QED BY <1>0, <1>4, <2>1, <2>2 DEF Slotted, Live, SelectSlot, UseSlot, Flags
<1>5. CASE JoinCancelledThread
  <2>1. index \in Slots /\ statusFlag[index] = "cancelled" /\ JoinThread(index)
    BY <1>0, <1>5 DEF JoinCancelledThread, Slotted
  <2>2. UNCHANGED <<statusFlag, threadId, index, slot>> /\ process' = "add"
    BY <1>5 DEF JoinCancelledThread
  <2>3. /\ \A w \in Workers : Live(w)' => Live(w)
        /\ \A w \in Workers : Live(w)' => slot'[w] # index
    BY <1>0, <2>1, <2>2, JoiningFreesSlot
  <2>4. QED BY <1>0, <2>1, <2>2, <2>3 DEF Slotted
<1>6. CASE AddThread
  <2>1. /\ index \in Slots /\ CreateThread(index) /\ process' = "next"
        /\ \A w \in Workers : Live(w) => slot[w] # index
    BY <1>0, <1>6 DEF AddThread, Slotted
  <2>2. /\ \A w \in Workers : Live(w)' =>
             slot'[w] \in Slots /\ statusFlag'[slot'[w]] # "unused"
               /\ threadId'[slot'[w]] = w
        /\ \A r \in Slots : statusFlag'[r] # "unused" => threadId'[r] \in Workers
    BY <1>0, <2>1, CreatingKeepsSlots DEF Slotted
  <2>3. QED BY <2>1, <2>2 DEF Slotted
<1>7. CASE RemoveThread
  BY <1>0, <1>7 DEF Slotted, Live, RemoveThread, TypeOK
<1>8. CASE JoinNext
  <2>1. index \in Slots /\ process = "join" /\ process' = process /\ index' = index + 1
        /\ UNCHANGED <<statusFlag, threadId, slot>>
    BY <1>0, <1>8 DEF JoinNext, Slots, TypeOK
  <2>2. /\ \A w \in Workers : Live(w)' => Live(w)
        /\ \A w \in Workers : Live(w)' => slot'[w] # index
    <3>1. CASE MustJoin(index)
      <4>1. statusFlag[index] # "unused" /\ JoinThread(index)
        BY <1>8, <3>1 DEF JoinNext, MustJoin
      <4>2. QED BY <1>0, <2>1, <4>1, JoiningFreesSlot
    <3>2. CASE ~ MustJoin(index)
      BY <1>0, <1>8, <2>1, <3>2 DEF JoinNext, MustJoin, Slotted, Live
    <3>3. QED BY <3>1, <3>2
  <2>3. \A w \in Workers : Live(w)' => slot'[w] >= index'
    BY <1>0, <2>1, <2>2 DEF Slotted, Slots, TypeOK
  <2>4. QED BY <1>0, <2>1, <2>2, <2>3 DEF Slotted
<1>9. CASE FreeThreadStates
  <2>1. \A w \in Workers : ~ Live(w)
    BY <1>0, <1>9 DEF FreeThreadStates, Slotted, Slots, TypeOK
  <2>2. QED BY <1>0, <1>9, <2>1 DEF Slotted, Live, FreeThreadStates
<1>10. ASSUME NEW w \in Workers, WorkerStep(w)
       PROVE  Slotted'
  <2>1. \A u \in Workers : Live(u)' <=> Live(u)
    BY <1>0, <1>10 DEF WorkerStep, WorkerFetch, WorkerExecute, WorkerNext, AfterFetch, Live,
         TypeOK
  <2>2. UNCHANGED <<statusFlag, threadId, index, process, slot>>
    BY <1>10 DEF WorkerStep, WorkerFetch, WorkerExecute, WorkerNext
  <2>3. QED BY <1>0, <2>1, <2>2 DEF Slotted
<1>11. CASE UNCHANGED vars
  BY <1>0, <1>11 DEF vars, Slotted, Live
<1>12. QED
  BY <1>1, <1>2, <1>3, <1>4, <1>5, <1>6, <1>7, <1>8, <1>9, <1>10, <1>11
  DEF Next, ProcessStep

-----------------------------------------------------------------------------
(* The number of marked slots.                                             *)

LEMMA RunningFinite ==
  IsFiniteSet(Slots) /\ IsFiniteSet(Running) /\ Cardinality(Running) \in Nat
<1>1. IsFiniteSet(Slots)
  BY PoolFacts, FS_Interval DEF Slots
<1>2. IsFiniteSet(Running)
  BY <1>1, FS_Subset DEF Running
<1>3. QED BY <1>1, <1>2, FS_CardinalityType

\* All slots are marked only when the count is at its maximum.
LEMMA SlotToAdd ==
  ASSUME TypeOK, activeThreads = Cardinality(Running) + 1, activeThreads < MaximumThreads,
         \A s \in Slots : s < index => s \in Running
  PROVE  index \in Slots
<1>1. CASE index = MaximumThreads
  <2>1. Running = Slots
    BY <1>1, PoolFacts DEF Running, Slots
  <2>2. Cardinality(Slots) = MaximumThreads - 1
    BY PoolFacts, FS_Interval DEF Slots
  <2>3. QED BY <2>1, <2>2, PoolFacts
<1>2. CASE index # MaximumThreads
  BY <1>2, PoolFacts DEF TypeOK, Slots
<1>3. QED BY <1>1, <1>2

LEMMA SlotToRemove ==
  ASSUME TypeOK, activeThreads = Cardinality(Running) + 1, activeThreads > MinimumThreads,
         \A s \in Slots : s < index => s \notin Running
  PROVE  index \in Slots
<1>1. CASE index = MaximumThreads
  <2>1. Running = {}
    BY <1>1, PoolFacts DEF Running, Slots
  <2>2. Cardinality(Running) = 0
    BY <2>1, FS_EmptySet
  <2>3. QED BY <2>2, PoolFacts DEF TypeOK
<1>2. CASE index # MaximumThreads
  BY <1>2, PoolFacts DEF TypeOK, Slots
<1>3. QED BY <1>1, <1>2

LEMMA CountedStep ==
  ASSUME Inv, [Next]_vars
  PROVE  Counted'
<1> USE PoolFacts DEF pool, workers, segments
<1>0. TypeOK /\ Slotted /\ Counted
  BY DEF Inv
<1>1. CASE Construct
  <2>1. /\ index \in Slots /\ process = "construct" /\ process' = process
        /\ index' = index + 1 /\ activeThreads' = activeThreads
    BY <1>0, <1>1 DEF Construct, Slots, TypeOK
  <2>2. Running = {s \in Slots : s < index /\ s + 1 <= MinimumThreads}
    BY <1>0, <2>1 DEF Counted
  <2>3. CASE ~ Starts(index)
    <3>1. Running' = Running
      BY <1>1, <2>3 DEF Construct, Running
    <3>2. Running = {s \in Slots : s < index' /\ s + 1 <= MinimumThreads}
      BY <2>1, <2>2, <2>3 DEF Starts, Slots
    <3>3. QED BY <1>0, <2>1, <3>1, <3>2 DEF Counted
  <2>4. CASE Starts(index)
    <3>1. statusFlag' = [statusFlag EXCEPT ![index] = "running"]
      BY <1>1, <2>4 DEF Construct, CreateThread
    <3>2. Running' = Running \union {index}
      BY <1>0, <2>1, <3>1 DEF Running, TypeOK
    <3>3. Running \union {index} = {s \in Slots : s < index' /\ s + 1 <= MinimumThreads}
      BY <2>1, <2>2, <2>4 DEF Starts, Slots
    <3>4. QED BY <1>0, <2>1, <3>2, <3>3 DEF Counted
  <2>5. QED BY <2>3, <2>4
<1>2. CASE BeginProcess
  <2>1. index = MaximumThreads /\ process = "construct" /\ process' = "fetch"
        /\ activeThreads' = activeThreads /\ Running' = Running
    BY <1>0, <1>2 DEF BeginProcess, TypeOK, Running
  <2>2. Running = {s \in Slots : s < index /\ s + 1 <= MinimumThreads}
        /\ activeThreads = MinimumThreads
    BY <1>0, <2>1 DEF Counted
  <2>3. Running = 1 .. MinimumThreads - 1
    BY <2>1, <2>2 DEF Slots
  <2>4. Cardinality(Running) = MinimumThreads - 1
    BY <2>3, FS_Interval
  <2>5. QED BY <2>1, <2>2, <2>4 DEF Counted
<1>3. CASE \/ ProcessFetch \/ ProcessExecute \/ ProcessReport \/ ProcessNext
           \/ DecideToKeep \/ FreeThreadStates
  <2>1. Running' = Running /\ activeThreads' = activeThreads
    BY <1>3 DEF Running, ProcessFetch, ProcessExecute, ProcessReport, ProcessNext,
                DecideToKeep, FreeThreadStates
  <2>2. process' \in {"fetch", "execute", "report", "check", "next", "join", "freed"}
        /\ process # "construct"
    BY <1>3 DEF ProcessFetch, ProcessExecute, ProcessReport, ProcessNext, DecideToKeep,
                FreeThreadStates
  <2>3. QED BY <1>0, <2>1, <2>2 DEF Counted
<1>4. CASE DecideToAdd \/ DecideToRemove
  <2>1. /\ Running' = Running /\ activeThreads' = activeThreads
        /\ index' = 1 /\ process = "check"
        /\ \/ process' = "select" /\ activeThreads < MaximumThreads
           \/ process' = "remove" /\ activeThreads > MinimumThreads
    BY <1>4 DEF Running, DecideToAdd, DecideToRemove, MayRemove
  <2>2. \A s \in Slots : ~ (s < index')
    BY <2>1 DEF Slots
  <2>3. QED BY <1>0, <2>1, <2>2 DEF Counted
<1>5. CASE SelectSlot
  <2>1. /\ Running' = Running /\ activeThreads' = activeThreads
        /\ process = "select"
        /\ \/ process' \in {"joinCancelled", "add"}
           \/ process' = "select" /\ index' = index + 1 /\ statusFlag[index] = "running"
    BY <1>5 DEF Running, SelectSlot, UseSlot
  <2>2. index \in Nat
    BY <1>0 DEF TypeOK
  <2>3. CASE process' = "select" /\ index' = index + 1 /\ statusFlag[index] = "running"
    <3>1. \A s \in Slots : s < index' => s \in Running
      BY <1>0, <2>1, <2>2, <2>3 DEF Counted, Slots, Running
    <3>2. QED BY <1>0, <2>1, <2>3, <3>1 DEF Counted
  <2>4. CASE process' \in {"joinCancelled", "add"}
    BY <1>0, <2>1, <2>4 DEF Counted
  <2>5. QED BY <2>1, <2>3, <2>4
<1>6. CASE JoinCancelledThread
  BY <1>0, <1>6 DEF JoinCancelledThread, Counted, Running
<1>7. CASE AddThread
  <2>1. /\ index \in Slots /\ statusFlag[index] # "running"
        /\ statusFlag' = [statusFlag EXCEPT ![index] = "running"]
        /\ activeThreads' = activeThreads + 1 /\ process = "add" /\ process' = "next"
    BY <1>0, <1>7 DEF AddThread, CreateThread, Slotted
  <2>2. Running' = Running \union {index} /\ index \notin Running
    BY <1>0, <2>1 DEF Running, TypeOK
  <2>3. Cardinality(Running') = Cardinality(Running) + 1
    BY <2>2, RunningFinite, FS_AddElement
  <2>4. activeThreads = Cardinality(Running) + 1
    BY <1>0, <2>1 DEF Counted
  <2>5. QED BY <2>1, <2>3, <2>4 DEF Counted
<1>8. CASE RemoveThread
  <2>1. index \in Slots /\ process = "remove" /\ activeThreads = Cardinality(Running) + 1
        /\ activeThreads > MinimumThreads
    BY <1>0, <1>8 DEF RemoveThread, Slots, TypeOK, Counted
  <2>2. CASE statusFlag[index] = "running"
    <3>1. /\ statusFlag' = [statusFlag EXCEPT ![index] = "cancelled"]
          /\ activeThreads' = activeThreads - 1 /\ process' = "next"
      BY <1>8, <2>2 DEF RemoveThread, AfterRemoval
    <3>2. Running' = Running \ {index} /\ index \in Running
      BY <1>0, <2>1, <2>2, <3>1 DEF Running, TypeOK
    <3>3. Cardinality(Running') = Cardinality(Running) - 1
      BY <3>2, RunningFinite, FS_RemoveElement
    <3>4. Cardinality(Running) \in Nat
      BY RunningFinite
    <3>5. activeThreads' = Cardinality(Running') + 1
      BY <2>1, <3>1, <3>3, <3>4
    <3>6. QED BY <3>1, <3>5 DEF Counted
  <2>3. CASE statusFlag[index] # "running"
    <3>1. /\ UNCHANGED <<statusFlag, activeThreads, process>> /\ index' = index + 1
      BY <1>8, <2>3 DEF RemoveThread
    <3>2. \A s \in Slots : s < index' => s \notin Running
      BY <1>0, <2>1, <2>3, <3>1 DEF Counted, Running, Slots
    <3>3. Running' = Running
      BY <3>1 DEF Running
    <3>4. QED BY <2>1, <3>1, <3>2, <3>3 DEF Counted
  <2>4. QED BY <2>2, <2>3
<1>9. CASE JoinNext
  BY <1>0, <1>9 DEF JoinNext, Counted, Running
<1>10. ASSUME NEW w \in Workers, WorkerStep(w)
       PROVE  Counted'
  <2>1. Running' = Running /\ UNCHANGED <<activeThreads, index, process>>
    BY <1>10 DEF WorkerStep, WorkerFetch, WorkerExecute, WorkerNext, Running
  <2>2. QED BY <1>0, <2>1 DEF Counted
<1>11. CASE UNCHANGED vars
  <2>1. Running' = Running /\ UNCHANGED <<activeThreads, index, process>>
    BY <1>11 DEF vars, Running
  <2>2. QED BY <1>0, <2>1 DEF Counted
<1>12. QED
  BY <1>1, <1>2, <1>3, <1>4, <1>5, <1>6, <1>7, <1>8, <1>9, <1>10, <1>11
  DEF Next, ProcessStep

-----------------------------------------------------------------------------
(* Segment numbers.                                                        *)

\* Fetching hands out the next number, executing takes in the first one.
LEMMA FetchHolds ==
  ASSUME TypeOK, NumbersHeld, NEW t \in Everyone, Fetch(t), Executing(t)',
         \A u \in Everyone \ {t} : Executing(u)' <=> Executing(u),
         ~ Executing(t)
  PROVE  NumbersHeld'
<1>1. /\ segNo' = [segNo EXCEPT ![t] = nextSegment] /\ nextSegment' = nextSegment + 1
      /\ finished' = finished /\ nextSegment \in Nat /\ finished \in Nat
      /\ segNo \in [Everyone -> Nat]
  BY DEF Fetch, TypeOK, Everyone
<1>2. ASSUME NEW n \in finished' .. nextSegment' - 1
      PROVE  \E u \in Everyone : Executing(u)' /\ segNo'[u] = n
  <2>1. CASE n = nextSegment
    BY <1>1, <2>1
  <2>2. CASE n # nextSegment
    <3>1. PICK u \in Everyone : Executing(u) /\ segNo[u] = n
      BY <1>1, <1>2, <2>2 DEF NumbersHeld
    <3>2. QED BY <1>1, <3>1
  <2>3. QED BY <2>1, <2>2
<1>3. ASSUME NEW u \in Everyone, Executing(u)'
      PROVE  segNo'[u] < nextSegment'
  <2>1. CASE u = t
    BY <1>1, <2>1
  <2>2. CASE u # t
    BY <1>1, <1>3, <2>2 DEF NumbersHeld
  <2>3. QED BY <2>1, <2>2
<1>4. finished' <= nextSegment'
  BY <1>1 DEF NumbersHeld
<1>5. QED BY <1>2, <1>3, <1>4 DEF NumbersHeld

LEMMA ExecuteHolds ==
  ASSUME TypeOK, NumbersHeld, NEW t \in Everyone, Execute(t), Executing(t),
         \A u \in Everyone \ {t} : Executing(u)' <=> Executing(u)
  PROVE  NumbersHeld'
<1>1. /\ segNo' = segNo /\ nextSegment' = nextSegment /\ finished' = finished + 1
      /\ segNo[t] = finished /\ nextSegment \in Nat /\ finished \in Nat
  BY DEF Execute, TypeOK
<1>2. finished < nextSegment
  BY <1>1 DEF NumbersHeld
<1>3. ASSUME NEW n \in finished' .. nextSegment' - 1
      PROVE  \E u \in Everyone : Executing(u)' /\ segNo'[u] = n
  <2>1. n \in finished .. nextSegment - 1 /\ n # finished
    BY <1>1, <1>3
  <2>2. PICK u \in Everyone : Executing(u) /\ segNo[u] = n
    BY <2>1 DEF NumbersHeld
  <2>3. u # t
    BY <1>1, <2>1, <2>2
  <2>4. QED BY <1>1, <2>2, <2>3
<1>4. ASSUME NEW u \in Everyone, Executing(u)'
      PROVE  segNo'[u] < nextSegment'
  <2>1. CASE Executing(u)
    BY <1>1, <2>1 DEF NumbersHeld
  <2>2. CASE ~ Executing(u)
    BY <1>4, <1>1, <1>2, <2>2
  <2>3. QED BY <2>1, <2>2
<1>5. finished' <= nextSegment'
  BY <1>1, <1>2
<1>6. QED BY <1>3, <1>4, <1>5 DEF NumbersHeld

\* Steps that leave the segment numbers alone and take no thread out of, or
\* into, the kernels.
LEMMA NumbersUnchanged ==
  ASSUME NumbersHeld, UNCHANGED segments,
         \A u \in Everyone : Executing(u)' <=> Executing(u)
  PROVE  NumbersHeld'
<1>1. segNo' = segNo /\ nextSegment' = nextSegment /\ finished' = finished
  BY DEF segments
<1>2. QED BY <1>1 DEF NumbersHeld

\* What a step does to the numbers and to who is in the kernels.
OthersExecute(t) == \A u \in Everyone \ {t} : Executing(u)' <=> Executing(u)
NumberMoves ==
  \/ \E t \in Everyone : Fetch(t) /\ ~Executing(t) /\ Executing(t)' /\ OthersExecute(t)
  \/ \E t \in Everyone : Execute(t) /\ Executing(t) /\ ~Executing(t)' /\ OthersExecute(t)
  \/ UNCHANGED segments /\ \A u \in Everyone : Executing(u)' <=> Executing(u)

\* One thread takes a number, or brings the first one in, or nothing changes.
LEMMA NumberSteps ==
  ASSUME Inv, [Next]_vars
  PROVE  NumberMoves
<1> USE PoolFacts
<1>0. TypeOK /\ Slotted
  BY DEF Inv
<1>1. CASE ProcessFetch
  <2>1. /\ Fetch("process") /\ process = "fetch" /\ process' = "execute" /\ worker' = worker
    BY <1>1 DEF ProcessFetch, workers
  <2>2. /\ Executing("process")' /\ ~ Executing("process") /\ "process" \in Everyone
        /\ \A u \in Everyone \ {"process"} : Executing(u)' <=> Executing(u)
    BY <2>1 DEF Executing, Everyone
  <2>3. QED BY <2>1, <2>2 DEF NumberMoves, OthersExecute
<1>2. CASE ProcessExecute
  <2>1. /\ Execute("process") /\ process = "execute" /\ process' = "report"
        /\ worker' = worker
    BY <1>2 DEF ProcessExecute, workers
  <2>2. /\ Executing("process") /\ ~Executing("process")' /\ "process" \in Everyone
        /\ \A u \in Everyone \ {"process"} : Executing(u)' <=> Executing(u)
    BY <2>1 DEF Executing, Everyone
  <2>3. QED BY <2>1, <2>2 DEF NumberMoves, OthersExecute
<1>3. ASSUME NEW w \in Workers, WorkerFetch(w)
      PROVE  NumberMoves
  <2>1. /\ Fetch(w) /\ worker[w] = "fetch" /\ process' = process
        /\ worker' = [worker EXCEPT ![w] = "execute"]
    BY <1>3 DEF WorkerFetch, AfterFetch
  <2>2. /\ Executing(w)' /\ ~ Executing(w) /\ w \in Everyone
        /\ \A u \in Everyone \ {w} : Executing(u)' <=> Executing(u)
    BY <1>0, <2>1 DEF Executing, Everyone, TypeOK
  <2>3. QED BY <2>1, <2>2 DEF NumberMoves, OthersExecute
<1>4. ASSUME NEW w \in Workers, WorkerExecute(w)
      PROVE  NumberMoves
  <2>1. /\ Execute(w) /\ worker[w] = "execute" /\ process' = process
        /\ worker' = [worker EXCEPT ![w] = "next"]
    BY <1>4 DEF WorkerExecute
  <2>2. /\ Executing(w) /\ ~Executing(w)' /\ w \in Everyone
        /\ \A u \in Everyone \ {w} : Executing(u)' <=> Executing(u)
    BY <1>0, <2>1 DEF Executing, Everyone, TypeOK
  <2>3. QED BY <2>1, <2>2 DEF NumberMoves, OthersExecute
<1>5. ASSUME NEW w \in Workers, WorkerNext(w)
      PROVE  NumberMoves
  <2>1. /\ UNCHANGED segments /\ worker[w] = "next" /\ process' = process
        /\ \E label \in {"exited", "fetch"} : worker' = [worker EXCEPT ![w] = label]
    BY <1>5, Zenon DEF WorkerNext
  <2>2. \A u \in Everyone : Executing(u)' <=> Executing(u)
    BY <1>0, <2>1 DEF Executing, Everyone, TypeOK
  <2>3. QED BY <2>1, <2>2 DEF NumberMoves
<1>6. ASSUME NEW s \in Slots, CreateThread(s), process # "execute", process' # "execute",
             UNCHANGED segments
      PROVE  NumberMoves
  <2>1. PICK w \in Workers :
          worker[w] = "free" /\ worker' = [worker EXCEPT ![w] = "fetch"]
    BY <1>6 DEF CreateThread
  <2>2. \A u \in Everyone : Executing(u)' <=> Executing(u)
    BY <1>0, <1>6, <2>1 DEF Executing, Everyone, TypeOK
  <2>3. QED BY <1>6, <2>2 DEF NumberMoves
<1>7. ASSUME NEW s \in Slots, JoinThread(s), process # "execute", process' # "execute",
             UNCHANGED segments
      PROVE  NumberMoves
  <2>1. /\ worker[threadId[s]] = "exited"
        /\ worker' = [worker EXCEPT ![threadId[s]] = "free"]
    BY <1>7 DEF JoinThread
  <2>2. \A u \in Everyone : Executing(u)' <=> Executing(u)
    BY <1>0, <1>7, <2>1 DEF Executing, Everyone, TypeOK
  <2>3. QED BY <1>7, <2>2 DEF NumberMoves
<1>8. ASSUME UNCHANGED segments, UNCHANGED worker,
             (process # "execute" /\ process' # "execute") \/ process' = process
      PROVE  NumberMoves
  <2>1. \A u \in Everyone : Executing(u)' <=> Executing(u)
    BY <1>8 DEF Executing
  <2>2. QED BY <1>8, <2>1 DEF NumberMoves
<1>9. CASE Construct
  <2>1. index \in Slots /\ process = "construct" /\ process' = process /\ UNCHANGED segments
    BY <1>0, <1>9 DEF Construct, Slots, TypeOK
  <2>2. CASE Starts(index)
    BY <1>6, <1>9, <2>1, <2>2 DEF Construct
  <2>3. CASE ~ Starts(index)
    BY <1>8, <1>9, <2>1, <2>3 DEF Construct, workers
  <2>4. QED BY <2>2, <2>3
<1>10. CASE JoinNext
  <2>1. index \in Slots /\ process = "join" /\ process' = process /\ UNCHANGED segments
    BY <1>0, <1>10 DEF JoinNext, Slots, TypeOK
  <2>2. CASE MustJoin(index)
    BY <1>7, <1>10, <2>1, <2>2 DEF JoinNext
  <2>3. CASE ~ MustJoin(index)
    BY <1>8, <1>10, <2>1, <2>3 DEF JoinNext
  <2>4. QED BY <2>2, <2>3
<1>11. CASE AddThread \/ JoinCancelledThread
  <2>1. index \in Slots
    BY <1>0, <1>11 DEF AddThread, JoinCancelledThread, Slotted
  <2>2. QED BY <1>6, <1>7, <1>11, <2>1 DEF AddThread, JoinCancelledThread
<1>12. CASE \/ BeginProcess \/ ProcessReport \/ ProcessNext \/ DecideToAdd \/ DecideToRemove
            \/ DecideToKeep \/ SelectSlot \/ RemoveThread \/ FreeThreadStates
            \/ UNCHANGED vars
  <2>1. UNCHANGED segments /\ UNCHANGED worker
    BY <1>12 DEF BeginProcess, ProcessReport, ProcessNext, DecideToAdd, DecideToRemove,
         DecideToKeep, SelectSlot, RemoveThread, FreeThreadStates, vars, segments, workers
  <2>2. (process # "execute" /\ process' # "execute") \/ process' = process
    BY <1>12 DEF BeginProcess, ProcessReport, ProcessNext, DecideToAdd, DecideToRemove,
         DecideToKeep, SelectSlot, UseSlot, RemoveThread, FreeThreadStates, vars
  <2>3. QED BY <1>8, <2>1, <2>2
<1>13. QED
  BY <1>1, <1>2, <1>3, <1>4, <1>5, <1>9, <1>10, <1>11, <1>12
  DEF Next, ProcessStep, WorkerStep

LEMMA NumbersStep ==
  ASSUME Inv, [Next]_vars
  PROVE  NumbersHeld'
<1>1. TypeOK /\ NumbersHeld /\ NumberMoves
  BY NumberSteps DEF Inv
<1>2. QED
  BY <1>1, FetchHolds, ExecuteHolds, NumbersUnchanged DEF NumberMoves, OthersExecute

-----------------------------------------------------------------------------
(* The theorems.                                                           *)

LEMMA InitInv == Init => Inv
<1> SUFFICES ASSUME Init PROVE Inv
  OBVIOUS
<1> USE PoolFacts DEF Init
<1>1. TypeOK
  <2>1. activeThreads \in MinimumThreads .. MaximumThreads /\ index \in 1 .. MaximumThreads
        /\ nextCheck \in Nat
    OBVIOUS
  <2>2. statusFlag \in [Slots -> Flags] /\ threadId \in [Slots -> Workers \cup {"none"}]
    BY DEF Flags
  <2>3. /\ worker \in [Workers -> {"free", "fetch", "execute", "next", "exited"}]
        /\ slot \in [Workers -> Nat] /\ segNo \in [Workers \cup {"process"} -> Nat]
    OBVIOUS
  <2>4. /\ process = "construct" /\ terminated \in BOOLEAN
        /\ nextSegment \in Nat /\ finished \in Nat
    OBVIOUS
  <2>5. QED BY <2>1, <2>2, <2>3, <2>4, Zenon DEF TypeOK
<1>2. Slotted
  BY DEF Slotted, Live
<1>3. Counted
  <2>1. Running = {s \in Slots : s < index /\ s + 1 <= MinimumThreads}
    BY DEF Running, Slots
  <2>2. QED BY <2>1 DEF Counted
<1>4. NumbersHeld
  <2>1. \A t \in Everyone : ~ Executing(t)
    BY DEF Executing, Everyone
  <2>2. QED BY <2>1 DEF NumbersHeld
<1>5. QED BY <1>1, <1>2, <1>3, <1>4 DEF Inv

LEMMA InvHolds == Spec => []Inv
<1>1. Inv /\ [Next]_vars => Inv'
  BY TypeStep, SlottedStep, CountedStep, NumbersStep DEF Inv
<1>2. QED BY InitInv, <1>1, PTL DEF Spec

\* The thread structs and the local values of the driver keep their types; in
\* particular the count of active threads stays between its two limits.
THEOREM TypeCorrect == Spec => []TypeOK
<1>1. Inv => TypeOK
  BY DEF Inv
<1>2. QED BY <1>1, InvHolds, PTL

\* No thread struct is used by two threads, also when the process thread comes
\* to a cancelled slot before its thread has stopped (checkIfThreadIsCancelled).
THEOREM SlotsNotShared == Spec => []OneThreadPerSlot
<1>1. Inv => OneThreadPerSlot
  BY DEF Inv, Slotted, Live, OneThreadPerSlot
<1>2. QED BY <1>1, InvHolds, PTL

\* The scans of selectThreadStructToUseForAddThread and selectThreadToRemove,
\* which have no bound of their own, end inside the state array.
THEOREM ScansEnd == Spec => []ScanInArray
<1>1. Inv => ScanInArray
  <2> SUFFICES ASSUME Inv PROVE ScanInArray
    OBVIOUS
  <2>1. process # "construct" => activeThreads = Cardinality(Running) + 1
    BY DEF Inv, Counted
  <2>2. process = "select" => index \in Slots
    BY SlotToAdd DEF Inv, Counted
  <2>3. process = "remove" => index \in Slots
    BY SlotToRemove DEF Inv, Counted
  <2>4. process \in {"joinCancelled", "add"} => index \in Slots
    BY DEF Inv, Slotted
  <2>5. QED BY <2>1, <2>2, <2>3, <2>4 DEF ScanInArray
<1>2. QED BY <1>1, InvHolds, PTL

\* The state array is freed when all threads are joined and every segment
\* number that was handed out has passed the kernels.
THEOREM FreedIdle == Spec => []FreedWhenIdle
<1>1. Inv => FreedWhenIdle
  <2> SUFFICES ASSUME Inv, process = "freed" PROVE FreedWhenIdle
    BY DEF FreedWhenIdle
  <2>1. \A w \in Workers : worker[w] = "free"
    BY DEF Inv, Slotted, Live
  <2>2. \A t \in Everyone : ~ Executing(t)
    BY <2>1, PoolFacts DEF Everyone, Executing
  <2>3. finished <= nextSegment /\ finished \in Nat /\ nextSegment \in Nat
        /\ finished .. nextSegment - 1 = {}
    BY <2>2 DEF Inv, NumbersHeld, TypeOK
  <2>4. finished = nextSegment
    BY <2>3
  <2>5. QED BY <2>1, <2>4 DEF FreedWhenIdle
<1>2. QED BY <1>1, InvHolds, PTL

-----------------------------------------------------------------------------
(* No deadlock.                                                            *)

\* A slot whose flag is set names a thread that runs for it, until that thread
\* has been joined.
Joined(s) ==
  \/ process = "add" /\ s = index
  \/ process = "join" /\ s < index
  \/ process = "freed"
NamesLive ==
  \A s \in Slots : statusFlag[s] # "unused" /\ ~Joined(s) =>
    Live(threadId[s]) /\ slot[threadId[s]] = s

\* The numbers in hand differ and have not passed the kernels.
NumbersApart ==
  \A t \in Everyone : Executing(t) =>
    /\ finished <= segNo[t]
    /\ \A u \in Everyone : Executing(u) /\ segNo[u] = segNo[t] => u = t

GoInv == NamesLive /\ NumbersApart

\* The process thread is about to join the thread that its slot names.
Joining ==
  \/ process = "joinCancelled"
  \/ process = "join" /\ index < MaximumThreads /\ MustJoin(index)

\* pthread_join is called for a thread that has been created and not joined.
JoinsLiveThread == Joining => Live(threadId[index])

\* A thread waits for the earlier segments, or in pthread_join.
Waits(t) ==
  \/ Executing(t) /\ segNo[t] # finished
  \/ t = "process" /\ Joining /\ worker[threadId[index]] # "exited"

\* Until the state array is freed, some thread does not wait.
SomeThreadGoesOn ==
  process = "freed" \/ \E t \in Everyone :
                         /\ t # "process" => worker[t] \notin {"free", "exited"}
                         /\ ~Waits(t)

\* The thread that leaves a slot, or comes to it, is of no other slot.
LEMMA NamesStep ==
  ASSUME Inv, NamesLive, [Next]_vars
  PROVE  NamesLive'
<1> USE PoolFacts DEF pool, workers
<1>0. TypeOK /\ Slotted
  BY DEF Inv
<1>1. ASSUME NEW s \in Slots, CreateThread(s),
             process \in {"construct", "add"}, process' \in {"construct", "next"},
             process = "add" => index = s
      PROVE  NamesLive'
  <2>1. PICK w \in Workers :
          /\ worker[w] = "free"
          /\ worker' = [worker EXCEPT ![w] = "fetch"]
          /\ slot' = [slot EXCEPT ![w] = s]
          /\ threadId' = [threadId EXCEPT ![s] = w]
          /\ statusFlag' = [statusFlag EXCEPT ![s] = "running"]
    BY <1>1 DEF CreateThread
  <2>2. ASSUME NEW r \in Slots, statusFlag'[r] # "unused"
        PROVE  worker'[threadId'[r]] # "free" /\ slot'[threadId'[r]] = r
    <3>1. CASE r = s
      <4>1. threadId'[r] = w /\ worker'[w] = "fetch" /\ slot'[w] = s
        BY <1>0, <2>1, <3>1 DEF TypeOK
      <4>2. QED BY <3>1, <4>1 DEF Live
    <3>2. CASE r # s
      <4>1. statusFlag[r] # "unused" /\ threadId'[r] = threadId[r]
        BY <1>0, <2>1, <2>2, <3>2 DEF TypeOK
      <4>2. ~Joined(r)
        BY <1>1, <3>2 DEF Joined
      <4>3. /\ threadId[r] \in Workers /\ Live(threadId[r]) /\ slot[threadId[r]] = r
            /\ threadId[r] # w
        BY <1>0, <2>1, <4>1, <4>2 DEF NamesLive, Slotted, Live
      <4>4. worker'[threadId[r]] = worker[threadId[r]] /\ slot'[threadId[r]] = slot[threadId[r]]
        BY <1>0, <2>1, <4>3 DEF TypeOK
      <4>5. QED BY <4>1, <4>3, <4>4 DEF Live
    <3>3. QED BY <3>1, <3>2
  <2>3. QED BY <2>2 DEF NamesLive, Live
<1>2. ASSUME NEW s \in Slots, statusFlag[s] # "unused", JoinThread(s), ~Joined(s),
             UNCHANGED <<statusFlag, threadId, slot>>,
             \A r \in Slots : Joined(r)' <=> Joined(r) \/ r = s
      PROVE  NamesLive'
  <2>1. threadId[s] \in Workers /\ worker' = [worker EXCEPT ![threadId[s]] = "free"]
        /\ slot[threadId[s]] = s
    BY <1>0, <1>2 DEF JoinThread, Slotted, NamesLive
  <2>2. ASSUME NEW r \in Slots, statusFlag[r] # "unused", ~Joined(r), r # s
        PROVE  worker'[threadId[r]] # "free" /\ slot[threadId[r]] = r
    <3>1. /\ Live(threadId[r]) /\ slot[threadId[r]] = r /\ threadId[r] \in Workers
          /\ threadId[r] # threadId[s]
      BY <1>0, <2>1, <2>2 DEF NamesLive, Slotted
    <3>2. QED BY <1>0, <2>1, <3>1 DEF Live, TypeOK
  <2>3. QED BY <1>2, <2>2 DEF NamesLive, Live
<1>3. ASSUME UNCHANGED <<threadId, slot>>,
             \A w \in Workers : Live(w) => Live(w)',
             \A s \in Slots : statusFlag'[s] # "unused" => statusFlag[s] # "unused",
             \A s \in Slots : Joined(s) => Joined(s)' \/ statusFlag[s] = "unused"
      PROVE  NamesLive'
  BY <1>0, <1>3 DEF NamesLive, Slotted, Live
<1>4. CASE Construct
  <2>1. index \in Slots /\ process = "construct" /\ process' = process
    BY <1>0, <1>4 DEF Construct, Slots, TypeOK
  <2>2. CASE Starts(index)
    BY <1>1, <1>4, <2>1, <2>2 DEF Construct
  <2>3. CASE ~Starts(index)
    BY <1>3, <1>4, <2>1, <2>3 DEF Construct, Live, Joined
  <2>4. QED BY <2>2, <2>3
<1>5. CASE AddThread
  BY <1>0, <1>1, <1>5 DEF AddThread, Slotted
<1>6. CASE JoinCancelledThread
  <2>1. /\ index \in Slots /\ statusFlag[index] = "cancelled" /\ JoinThread(index)
        /\ UNCHANGED <<statusFlag, threadId, index, slot>>
        /\ process = "joinCancelled" /\ process' = "add"
    BY <1>0, <1>6 DEF JoinCancelledThread, Slotted
  <2>2. ~Joined(index) /\ \A r \in Slots : Joined(r)' <=> Joined(r) \/ r = index
    BY <2>1 DEF Joined
  <2>3. QED BY <1>2, <2>1, <2>2
<1>7. CASE JoinNext
  <2>1. /\ index \in Slots /\ process = "join" /\ process' = process /\ index' = index + 1
        /\ UNCHANGED <<statusFlag, threadId, slot>>
    BY <1>0, <1>7 DEF JoinNext, Slots, TypeOK
  <2>2. ~Joined(index) /\ \A r \in Slots : Joined(r)' <=> Joined(r) \/ r = index
    <3>1. \A r \in Slots : r < index + 1 <=> r < index \/ r = index
      BY <2>1 DEF Slots
    <3>2. ~(index < index)
      BY <2>1 DEF Slots
    <3>3. QED BY <2>1, <3>1, <3>2 DEF Joined
  <2>3. CASE MustJoin(index)
    BY <1>2, <1>7, <2>1, <2>2, <2>3 DEF JoinNext, MustJoin
  <2>4. CASE ~MustJoin(index)
    <3>1. worker' = worker /\ statusFlag[index] = "unused"
      BY <1>7, <2>4 DEF JoinNext, MustJoin
    <3>2. QED BY <1>3, <2>1, <2>2, <3>1 DEF Live
  <2>5. QED BY <2>3, <2>4
<1>8. CASE SelectSlot
  <2>1. /\ index \in Slots /\ UNCHANGED <<statusFlag, threadId, worker, slot>>
        /\ process = "select"
    BY <1>0, <1>8 DEF SelectSlot, Slots, TypeOK
  <2>2. QED BY <1>3, <2>1 DEF Joined, Live
<1>9. CASE RemoveThread
  <2>1. /\ UNCHANGED <<threadId, worker, slot>> /\ process = "remove"
        /\ \/ statusFlag' = statusFlag
           \/ statusFlag[index] = "running"
              /\ statusFlag' = [statusFlag EXCEPT ![index] = "cancelled"]
    BY <1>9 DEF RemoveThread
  <2>2. \A s \in Slots : statusFlag'[s] # "unused" => statusFlag[s] # "unused"
    BY <1>0, <2>1 DEF TypeOK
  <2>3. QED BY <1>3, <2>1, <2>2 DEF Joined, Live
<1>10. CASE \/ BeginProcess \/ ProcessFetch \/ ProcessExecute \/ ProcessReport \/ ProcessNext
            \/ DecideToAdd \/ DecideToRemove \/ DecideToKeep
  <2>1. /\ UNCHANGED <<statusFlag, threadId, worker, slot>>
        /\ process \in {"construct", "fetch", "execute", "report", "next", "check"}
    BY <1>10 DEF BeginProcess, ProcessFetch, ProcessExecute, ProcessReport, ProcessNext,
         DecideToAdd, DecideToRemove, DecideToKeep
  <2>2. QED BY <1>3, <2>1 DEF Joined, Live
<1>11. CASE FreeThreadStates
  BY <1>11 DEF FreeThreadStates, NamesLive, Joined
<1>12. ASSUME NEW w \in Workers, WorkerStep(w)
       PROVE  NamesLive'
  <2>1. \A u \in Workers : Live(u)' <=> Live(u)
    BY <1>0, <1>12 DEF WorkerStep, WorkerFetch, WorkerExecute, WorkerNext, AfterFetch, Live,
         TypeOK
  <2>2. UNCHANGED <<statusFlag, threadId, index, process, slot>>
    BY <1>12 DEF WorkerStep, WorkerFetch, WorkerExecute, WorkerNext
  <2>3. QED BY <1>3, <2>1, <2>2 DEF Joined
<1>13. CASE UNCHANGED vars
  BY <1>3, <1>13 DEF vars, Joined, Live
<1>14. QED
  BY <1>4, <1>5, <1>6, <1>7, <1>8, <1>9, <1>10, <1>11, <1>12, <1>13 DEF Next, ProcessStep

\* Each number is handed out once and taken in once.
LEMMA ApartStep ==
  ASSUME Inv, NumbersApart, [Next]_vars
  PROVE  NumbersApart'
<1>1. /\ NumberMoves /\ finished \in Nat /\ nextSegment \in Nat /\ finished <= nextSegment
      /\ segNo \in [Everyone -> Nat]
      /\ \A t \in Everyone : Executing(t) => segNo[t] < nextSegment
  BY NumberSteps DEF Inv, TypeOK, NumbersHeld, Everyone
<1>2. ASSUME NEW t \in Everyone, Fetch(t), ~Executing(t), OthersExecute(t)
      PROVE  NumbersApart'
  <2>1. /\ segNo'[t] = nextSegment /\ finished' = finished
        /\ \A u \in Everyone \ {t} : segNo'[u] = segNo[u]
    BY <1>1, <1>2 DEF Fetch
  <2>2. \A u \in Everyone \ {t} : Executing(u) => segNo[u] # nextSegment
    BY <1>1
  <2>3. ASSUME NEW u \in Everyone, Executing(u)'
        PROVE  /\ finished' <= segNo'[u]
               /\ \A v \in Everyone : Executing(v)' /\ segNo'[v] = segNo'[u] => v = u
    <3>1. CASE u = t
      BY <1>1, <1>2, <2>1, <2>2, <3>1 DEF OthersExecute
    <3>2. CASE u # t
      <4>1. Executing(u) /\ segNo'[u] = segNo[u] /\ segNo[u] # nextSegment
        BY <1>2, <2>1, <2>2, <2>3, <3>2 DEF OthersExecute
      <4>2. QED BY <1>2, <2>1, <4>1 DEF NumbersApart, OthersExecute
    <3>3. QED BY <3>1, <3>2
  <2>4. QED BY <2>3 DEF NumbersApart
<1>3. ASSUME NEW t \in Everyone, Execute(t), Executing(t), ~Executing(t)', OthersExecute(t)
      PROVE  NumbersApart'
  <2>1. segNo' = segNo /\ finished' = finished + 1 /\ segNo[t] = finished
    BY <1>3 DEF Execute
  <2>2. ASSUME NEW u \in Everyone, Executing(u)'
        PROVE  /\ finished' <= segNo'[u]
               /\ \A v \in Everyone : Executing(v)' /\ segNo'[v] = segNo'[u] => v = u
    <3>1. u # t /\ Executing(u)
      BY <1>3, <2>2 DEF OthersExecute
    <3>2. finished <= segNo[u] /\ segNo[u] # finished /\ segNo[u] \in Nat
      BY <1>1, <1>3, <2>1, <3>1 DEF NumbersApart
    <3>3. finished' <= segNo'[u]
      BY <1>1, <2>1, <3>2
    <3>4. ASSUME NEW v \in Everyone, Executing(v)', segNo'[v] = segNo'[u] PROVE v = u
      <4>1. Executing(v)
        BY <1>3, <3>4 DEF OthersExecute
      <4>2. QED BY <2>1, <3>1, <3>4, <4>1 DEF NumbersApart
    <3>5. QED BY <3>3, <3>4
  <2>3. QED BY <2>2 DEF NumbersApart
<1>4. CASE UNCHANGED segments /\ \A u \in Everyone : Executing(u)' <=> Executing(u)
  <2>1. segNo' = segNo /\ finished' = finished
    BY <1>4 DEF segments
  <2>2. QED BY <1>4, <2>1 DEF NumbersApart
<1>5. QED BY <1>1, <1>2, <1>3, <1>4 DEF NumberMoves

LEMMA GoInvHolds == Spec => []GoInv
<1>1. Init => GoInv
  <2> SUFFICES ASSUME Init PROVE GoInv
    OBVIOUS
  <2>1. NamesLive
    BY DEF Init, NamesLive
  <2>2. \A t \in Everyone : ~Executing(t)
    BY PoolFacts DEF Init, Everyone, Executing
  <2>3. QED BY <2>1, <2>2 DEF GoInv, NumbersApart
<1>2. Inv /\ GoInv /\ [Next]_vars => GoInv'
  BY NamesStep, ApartStep DEF GoInv
<1>3. QED BY <1>1, <1>2, InvHolds, PTL DEF Spec

LEMMA JoiningLive ==
  ASSUME Inv, GoInv, Joining
  PROVE  index \in Slots /\ threadId[index] \in Workers /\ Live(threadId[index])
<1>1. TypeOK /\ Slotted
  BY DEF Inv
<1>2. index \in Slots /\ statusFlag[index] # "unused"
  <2>1. CASE process = "joinCancelled"
    BY <1>1, <2>1 DEF Slotted
  <2>2. CASE process = "join" /\ index < MaximumThreads /\ MustJoin(index)
    BY <1>1, <2>2, PoolFacts DEF MustJoin, Slots, TypeOK
  <2>3. QED BY <2>1, <2>2 DEF Joining
<1>3. ~Joined(index)
  <2>1. ~(index < index)
    BY <1>2, PoolFacts DEF Slots
  <2>2. QED BY <2>1 DEF Joining, Joined
<1>4. QED BY <1>1, <1>2, <1>3 DEF GoInv, NamesLive, Slotted

\* No thread id is joined twice or before its thread was created: what
\* pthread_join gets, in joinCancelled threads and at the end, is the id of a
\* thread that has not been joined.
THEOREM JoinsAreSound == Spec => []JoinsLiveThread
<1>1. Inv /\ GoInv => JoinsLiveThread
  BY JoiningLive DEF JoinsLiveThread
<1>2. QED BY <1>1, InvHolds, GoInvHolds, PTL

\* A join never waits for a thread that waits for the process thread: the
\* joined one still brings its segment in, and the first number in hand is in
\* the hands of a thread that can.
THEOREM DriverGoesOn == Spec => []SomeThreadGoesOn
<1>1. Inv /\ GoInv => SomeThreadGoesOn
  <2> SUFFICES ASSUME Inv, GoInv, Waits("process")
               PROVE  \E t \in Everyone :
                        /\ t # "process" => worker[t] \notin {"free", "exited"}
                        /\ ~Waits(t)
    BY DEF SomeThreadGoesOn, Everyone
  <2>1. CASE \E t \in Everyone : Executing(t)
    <3>1. PICK t \in Everyone : Executing(t)
      BY <2>1
    <3>2. /\ finished \in Nat /\ nextSegment \in Nat /\ segNo[t] \in Nat
          /\ finished <= segNo[t] /\ segNo[t] < nextSegment
      BY <3>1 DEF Inv, TypeOK, Everyone, NumbersHeld, GoInv, NumbersApart
    <3>3. finished \in finished .. nextSegment - 1
      BY <3>2
    <3>4. PICK u \in Everyone : Executing(u) /\ segNo[u] = finished
      BY <3>3 DEF Inv, NumbersHeld
    <3>5. ~Waits(u)
      BY <3>4 DEF Waits, Joining, Executing
    <3>6. u # "process" => worker[u] \notin {"free", "exited"}
      BY <3>4 DEF Executing
    <3>7. QED BY <3>5, <3>6
  <2>2. CASE \A t \in Everyone : ~Executing(t)
    <3>1. Joining /\ worker[threadId[index]] # "exited"
      BY <2>2 DEF Waits, Everyone
    <3>2. threadId[index] \in Workers /\ worker[threadId[index]] # "free"
      BY <3>1, JoiningLive DEF Live
    <3>3. threadId[index] \in Everyone /\ threadId[index] # "process"
      BY <3>2, PoolFacts DEF Everyone
    <3>4. ~Waits(threadId[index])
      BY <2>2, <3>3 DEF Waits
    <3>5. QED BY <3>1, <3>2, <3>3, <3>4
  <2>3. QED BY <2>1, <2>2
<1>2. QED BY <1>1, InvHolds, GoInvHolds, PTL
=============================================================================
