--------------------------- MODULE StreamSetProofs ---------------------------
(***************************************************************************)
(* Proofs about StreamBuffer: whatever the pipeline, the threads and the   *)
(* capacities, its counts implement StreamSet.                             *)
(***************************************************************************)
EXTENDS StreamBufferProofs

LockState == PositionsMatchCounters /\ \A t \in Threads : Holds(t)

\* Threads with earlier segments have passed the exit, or the entry, of k.
EarlierOut(t, k) ==
  \A u \in Threads : Active(u) /\ segNo[u] < segNo[t] => LetOut(u, k)
EarlierIn(t, k) ==
  \A u \in Threads : Active(u) /\ segNo[u] < segNo[t] => LetIn(u, k)

-----------------------------------------------------------------------------
(* Facts about the pipeline and the counters.                              *)

LEMMA PipelineFacts ==
  ASSUME CountsBounded
  PROVE  /\ DataParallel \subseteq Kernels
         /\ pipeline.mayStop \subseteq Consumers
         /\ \A k \in pipeline.mayStop : k \notin DataParallel
         /\ \A k \in Consumers :
              pipeline.jumpTarget[k] > k /\ pipeline.jumpTarget[k] \in 3 .. NumKernels + 1
<1>1. pipeline \in Pipelines
  BY DEF CountsBounded
<1>2. QED BY <1>1, PipelineAssumption DEF DataParallel

LEMMA KernelFacts ==
  /\ NumKernels \in Nat /\ NumKernels > 1
  /\ Kernels \subseteq Nat \ {0} /\ 1 \in Kernels /\ NumKernels \in Kernels
  /\ Consumers = Kernels \ {1}
  /\ \A k \in Kernels : 1 <= k /\ k <= NumKernels
  /\ \A k \in Kernels : k # NumKernels => k + 1 \in Kernels
BY BoundAssumption DEF Kernels, Consumers

\* Whoever holds the exit counter of a kernel comes after all earlier segments.
LEMMA ExitOrder ==
  ASSUME PositionsMatchCounters, NEW t \in Threads, Active(t), NEW k \in Kernels,
         MayExit(t, k)
  PROVE  EarlierOut(t, k) /\ ~LetOut(t, k)
<1>1. post[k] = segNo[t] /\ segNo[t] \in Nat
  BY DEF MayExit, PositionsMatchCounters
<1>2. ~LetOut(t, k)
  BY <1>1 DEF PositionsMatchCounters
<1>3. ASSUME NEW u \in Threads, Active(u), segNo[u] < segNo[t]
      PROVE  LetOut(u, k)
  BY <1>1, <1>3 DEF PositionsMatchCounters
<1>4. QED BY <1>2, <1>3 DEF EarlierOut

\* The same of the entry counter.
LEMMA EntryOrder ==
  ASSUME PositionsMatchCounters, CountsBounded, NEW t \in Threads, Active(t),
         NEW k \in Kernels, MayEnter(t, k)
  PROVE  IF k \in DataParallel THEN EarlierIn(t, k) /\ ~LetIn(t, k)
                               ELSE EarlierOut(t, k) /\ ~LetOut(t, k)
<1>1. CASE k \notin DataParallel
  BY <1>1, ExitOrder DEF MayEnter, MayExit, EntryCount
<1>2. CASE k \in DataParallel
  <2>1. pre[k] = segNo[t] /\ segNo[t] \in Nat
    BY <1>2 DEF MayEnter, EntryCount, PositionsMatchCounters
  <2>2. ~LetIn(t, k)
    BY <1>2, <2>1 DEF PositionsMatchCounters
  <2>3. ASSUME NEW u \in Threads, Active(u), segNo[u] < segNo[t]
        PROVE  LetIn(u, k)
    BY <1>2, <2>1, <2>3 DEF PositionsMatchCounters
  <2>4. QED BY <1>2, <2>2, <2>3 DEF EarlierIn
<1>3. QED BY <1>1, <1>2

\* Earlier segments have left every kernel before the one that may be entered.
LEMMA JumpOrder ==
  ASSUME PositionsMatchCounters, CountsBounded, NEW t \in Threads, Active(t),
         NEW j \in Kernels, MayEnter(t, j), NEW k \in Kernels, k < j
  PROVE  EarlierOut(t, k) /\ EarlierIn(t, k)
<1>1. ASSUME NEW u \in Threads, Active(u), segNo[u] < segNo[t]
      PROVE  k < kernelId[u]
  <2>1. LetIn(u, j) \/ LetOut(u, j)
    BY <1>1, EntryOrder DEF EarlierIn, EarlierOut
  <2>2. kernelId[u] \in Nat /\ j \in Nat /\ k \in Nat
    BY KernelFacts DEF CountsBounded
  <2>3. j < kernelId[u] \/ j = kernelId[u]
    BY <2>1, Zenon DEF LetIn, LetOut
  <2>4. QED BY <2>2, <2>3
<1>2. QED BY <1>1 DEF EarlierOut, EarlierIn, LetOut, LetIn

-----------------------------------------------------------------------------
(* Steps of one thread keep the counters in order.                         *)

\* A store by thread t to counter lock[k]: none, or its own segment number plus
\* one where it had not released the kernel and all earlier segments had.
PostStored(t, k) ==
  \/ /\ post'[k] = post[k]
     /\ Active(t)' => (LetOut(t, k)' <=> LetOut(t, k))
  \/ /\ post'[k] = segNo[t] + 1
     /\ ~LetOut(t, k) /\ EarlierOut(t, k)
     /\ Active(t)' => LetOut(t, k)'
PreStored(t, k) ==
  \/ /\ pre'[k] = pre[k]
     /\ Active(t)' => (LetIn(t, k)' <=> LetIn(t, k))
  \/ /\ pre'[k] = segNo[t] + 1
     /\ ~LetIn(t, k) /\ EarlierIn(t, k)
     /\ Active(t)' => LetIn(t, k)'

\* What t does leaves every other thread where it is.
OthersStay(t) ==
  \A u \in Threads \ {t} :
    /\ pc'[u] = pc[u] /\ kernelId'[u] = kernelId[u] /\ target'[u] = target[u]

LEMMA CountersKeep ==
  ASSUME CountsBounded, LockState, NEW t \in Threads, Active(t), OthersStay(t),
         UNCHANGED <<pipeline, nextSegNo, segNo>>,
         pre' \in [Kernels -> Nat], post' \in [Kernels -> Nat],
         \A k \in Kernels : PostStored(t, k),
         \A k \in DataParallel : PreStored(t, k),
         \A k \in Kernels \ DataParallel : pre'[k] = pre[k],
         Holds(t)'
  PROVE  LockState'
<1>1. PositionsMatchCounters /\ DataParallel \subseteq Kernels /\ DataParallel' = DataParallel
  BY PipelineFacts DEF LockState, DataParallel
<1>2. segNo[t] \in Nat /\ nextSegNo \in Nat /\ segNo[t] + 1 <= nextSegNo
  BY <1>1 DEF PositionsMatchCounters
<1>3. pre' \in [Kernels -> 0 .. nextSegNo'] /\ post' \in [Kernels -> 0 .. nextSegNo']
  <2>1. \A k \in Kernels : post'[k] \in 0 .. nextSegNo
    BY <1>1, <1>2 DEF PostStored, PositionsMatchCounters
  <2>2. \A k \in Kernels : pre'[k] \in 0 .. nextSegNo
    BY <1>1, <1>2 DEF PreStored, PositionsMatchCounters
  <2>3. QED BY <2>1, <2>2
<1>4. \A u \in Threads \ {t} :
        /\ Active(u)' <=> Active(u)
        /\ \A k : (LetOut(u, k)' <=> LetOut(u, k)) /\ (LetIn(u, k)' <=> LetIn(u, k))
  BY DEF OthersStay, Active, LetOut, LetIn, At
<1>5. ASSUME NEW u \in Threads, Active(u)'
      PROVE  /\ Active(u) /\ segNo[u] < nextSegNo
             /\ \A v \in Threads : Active(v)' /\ segNo[v] = segNo[u] => v = u
  BY <1>1, <1>4, <1>5 DEF PositionsMatchCounters
<1>6. ASSUME NEW u \in Threads, Active(u)', NEW k \in Kernels
      PROVE  post'[k] > segNo[u] <=> LetOut(u, k)'
  <2>1. /\ segNo[u] \in Nat /\ post[k] \in Nat /\ Active(u)
        /\ post[k] > segNo[u] <=> LetOut(u, k)
        /\ post[k] > segNo[t] <=> LetOut(t, k)
        /\ segNo[u] = segNo[t] => u = t
    BY <1>1, <1>5, <1>6 DEF PositionsMatchCounters
  <2>2. CASE u = t
    BY <1>2, <1>6, <2>1, <2>2 DEF PostStored
  <2>3. CASE u # t
    <3>1. LetOut(u, k)' <=> LetOut(u, k)
      BY <1>4, <2>3
    <3>2. CASE post'[k] = post[k]
      BY <2>1, <3>1, <3>2
    <3>3. CASE post'[k] = segNo[t] + 1 /\ ~LetOut(t, k) /\ EarlierOut(t, k)
      <4>1. CASE segNo[u] < segNo[t]
        BY <1>2, <2>1, <3>1, <3>3, <4>1 DEF EarlierOut
      <4>2. CASE segNo[u] > segNo[t]
        BY <1>2, <2>1, <3>1, <3>3, <4>2
      <4>3. QED BY <1>2, <2>1, <2>3, <4>1, <4>2
    <3>4. QED BY <3>2, <3>3 DEF PostStored
  <2>4. QED BY <2>2, <2>3
<1>7. ASSUME NEW u \in Threads, Active(u)', NEW k \in DataParallel
      PROVE  pre'[k] > segNo[u] <=> LetIn(u, k)'
  <2>1. /\ segNo[u] \in Nat /\ pre[k] \in Nat /\ Active(u)
        /\ pre[k] > segNo[u] <=> LetIn(u, k)
        /\ pre[k] > segNo[t] <=> LetIn(t, k)
        /\ segNo[u] = segNo[t] => u = t
    BY <1>1, <1>5, <1>7 DEF PositionsMatchCounters
  <2>2. CASE u = t
    BY <1>2, <1>7, <2>1, <2>2 DEF PreStored
  <2>3. CASE u # t
    <3>1. LetIn(u, k)' <=> LetIn(u, k)
      BY <1>4, <2>3
    <3>2. CASE pre'[k] = pre[k]
      BY <2>1, <3>1, <3>2
    <3>3. CASE pre'[k] = segNo[t] + 1 /\ ~LetIn(t, k) /\ EarlierIn(t, k)
      <4>1. CASE segNo[u] < segNo[t]
        BY <1>2, <2>1, <3>1, <3>3, <4>1 DEF EarlierIn
      <4>2. CASE segNo[u] > segNo[t]
        BY <1>2, <2>1, <3>1, <3>3, <4>2
      <4>3. QED BY <1>2, <2>1, <2>3, <4>1, <4>2
    <3>4. QED BY <3>2, <3>3 DEF PreStored
  <2>4. QED BY <2>2, <2>3
<1>8. PositionsMatchCounters'
  BY <1>1, <1>3, <1>5, <1>6, <1>7 DEF PositionsMatchCounters
<1>9. ASSUME NEW u \in Threads, u # t
      PROVE  Holds(u)'
  <2>1. /\ Holds(u) /\ kernelId[u] \in Kernels /\ segNo[u] \in Nat
        /\ pc'[u] = pc[u] /\ kernelId'[u] = kernelId[u] /\ target'[u] = target[u]
        /\ segNo'[u] = segNo[u]
    BY <1>1, <1>9 DEF LockState, CountsBounded, PositionsMatchCounters, OthersStay
  <2> DEFINE k == kernelId[u]
  <2>2. ASSUME Active(u), post[k] = segNo[u]
        PROVE  post'[k] = segNo[u]
    <3>1. /\ post[k] > segNo[u] <=> LetOut(u, k)
          /\ post[k] > segNo[t] <=> LetOut(t, k)
          /\ segNo[u] # segNo[t]
      BY <1>1, <1>9, <2>1, <2>2 DEF PositionsMatchCounters
    <3>2. EarlierOut(t, k) /\ ~LetOut(t, k) => FALSE
      BY <1>2, <2>1, <2>2, <3>1 DEF EarlierOut
    <3>3. QED BY <2>1, <2>2, <3>2 DEF PostStored
  <2>3. ASSUME Active(u), k \in DataParallel, pre[k] = segNo[u]
        PROVE  pre'[k] = segNo[u]
    <3>1. /\ pre[k] > segNo[u] <=> LetIn(u, k)
          /\ pre[k] > segNo[t] <=> LetIn(t, k)
          /\ segNo[u] # segNo[t]
      BY <1>1, <1>9, <2>1, <2>3 DEF PositionsMatchCounters
    <3>2. EarlierIn(t, k) /\ ~LetIn(t, k) => FALSE
      BY <1>2, <2>1, <2>3, <3>1 DEF EarlierIn
    <3>3. QED BY <2>1, <2>3, <3>2 DEF PreStored
  <2>4. QED
    BY <1>1, <2>1, <2>2, <2>3 DEF Holds, MayEnter, MayExit, EntryCount, At, Active
<1>10. \A u \in Threads : Holds(u)'
  BY <1>9
<1>11. QED BY <1>8, <1>10 DEF LockState

LEMMA LockTypes ==
  ASSUME CountsBounded, LockState, NEW t \in Threads
  PROVE  /\ PositionsMatchCounters /\ Holds(t)
         /\ pre \in [Kernels -> Nat] /\ post \in [Kernels -> Nat]
         /\ segNo[t] \in Nat /\ nextSegNo \in Nat
         /\ kernelId[t] \in Kernels /\ target[t] \in 1 .. NumKernels + 1
         /\ pc \in [Threads -> ControlPoints] /\ kernelId \in [Threads -> Kernels]
         /\ target \in [Threads -> 1 .. NumKernels + 1]
BY DEF LockState, PositionsMatchCounters, CountsBounded

\* A thread fetches a segment number or leaves its loop.
LEMMA FetchLocks ==
  ASSUME CountsBounded, LockState, NEW t \in Threads,
         ObtainSegmentNumber(t) \/ Leave(t)
  PROVE  LockState'
<1>1. /\ PositionsMatchCounters /\ pc \in [Threads -> ControlPoints]
      /\ segNo \in [Threads -> Nat] /\ nextSegNo \in Nat
      /\ pre \in [Kernels -> 0 .. nextSegNo] /\ post \in [Kernels -> 0 .. nextSegNo]
  BY LockTypes DEF PositionsMatchCounters
<1>2. DataParallel' = DataParallel /\ DataParallel \subseteq Kernels
  BY PipelineFacts DEF DataParallel, ObtainSegmentNumber, Leave
<1>3. CASE ObtainSegmentNumber(t)
  <2>1. /\ pc' = [pc EXCEPT ![t] = "acquire"] /\ segNo' = [segNo EXCEPT ![t] = nextSegNo]
        /\ nextSegNo' = nextSegNo + 1 /\ kernelId[t] = 1
        /\ UNCHANGED <<pre, post, kernelId, target>>
    BY <1>3, LockTypes DEF ObtainSegmentNumber, Goto, Holds
  <2>2. \A u \in Threads \ {t} :
          /\ Active(u)' <=> Active(u)
          /\ \A k : (LetOut(u, k)' <=> LetOut(u, k)) /\ (LetIn(u, k)' <=> LetIn(u, k))
          /\ segNo'[u] = segNo[u] /\ pc'[u] = pc[u]
    BY <1>1, <2>1 DEF Active, LetOut, LetIn, At
  <2>3. /\ segNo'[t] = nextSegNo
        /\ \A k \in Kernels : ~LetOut(t, k)' /\ ~LetIn(t, k)'
    BY <1>1, <2>1, KernelFacts DEF LetOut, LetIn, At
  <2>4. ASSUME NEW u \in Threads, Active(u)'
        PROVE  /\ segNo'[u] < nextSegNo'
               /\ \A v \in Threads : Active(v)' /\ segNo'[v] = segNo'[u] => v = u
    BY <1>1, <2>1, <2>2, <2>3, <2>4 DEF PositionsMatchCounters
  <2>5. ASSUME NEW u \in Threads, Active(u)'
        PROVE  /\ \A k \in Kernels : post'[k] > segNo'[u] <=> LetOut(u, k)'
               /\ \A k \in DataParallel : pre'[k] > segNo'[u] <=> LetIn(u, k)'
    <3>1. CASE u = t
      BY <1>1, <1>2, <2>1, <2>3, <3>1
    <3>2. CASE u # t
      BY <1>1, <1>2, <2>1, <2>2, <2>5, <3>2 DEF PositionsMatchCounters
    <3>3. QED BY <3>1, <3>2
  <2>6. /\ nextSegNo' \in Nat /\ segNo' \in [Threads -> Nat]
        /\ pre' \in [Kernels -> 0 .. nextSegNo'] /\ post' \in [Kernels -> 0 .. nextSegNo']
    BY <1>1, <2>1
  <2>7. PositionsMatchCounters'
    BY <1>2, <2>4, <2>5, <2>6 DEF PositionsMatchCounters
  <2>8. ASSUME NEW u \in Threads PROVE Holds(u)'
    BY <1>1, <1>2, <2>1, <2>2, <2>8
       DEF LockState, Holds, MayEnter, MayExit, EntryCount, At
  <2>9. QED BY <2>7, <2>8 DEF LockState
<1>4. CASE Leave(t)
  <2>1. /\ pc' = [pc EXCEPT ![t] = "done"] /\ At(t, "fetch")
        /\ UNCHANGED <<nextSegNo, segNo, pre, post, kernelId, target>>
    BY <1>4 DEF Leave, Goto, locks
  <2>2. \A u \in Threads :
          /\ Active(u)' <=> Active(u)
          /\ \A k : /\ LetOut(u, k)' <=> LetOut(u, k)
                    /\ Active(u) => (LetIn(u, k)' <=> LetIn(u, k))
    BY <1>1, <2>1 DEF Active, LetOut, LetIn, At
  <2>3. PositionsMatchCounters'
    BY <1>1, <1>2, <2>1, <2>2 DEF PositionsMatchCounters
  <2>4. ASSUME NEW u \in Threads PROVE Holds(u)'
    BY <1>1, <1>2, <2>1, <2>4 DEF LockState, Holds, MayEnter, MayExit, EntryCount, At
  <2>5. QED BY <2>3, <2>4 DEF LockState
<1>5. QED BY <1>3, <1>4

\* Steps within a kernel that store no counter.
LEMMA QuietLocks ==
  ASSUME CountsBounded, LockState, NEW t \in Threads,
         EnterProducer(t) \/ Expand(t) \/ EnterConsumer(t) \/ Return(t) \/ LoopExit(t)
           \/ (LoopExitStopping(t) /\ kernelId[t] \notin DataParallel)
  PROVE  LockState'
<1>1. /\ UNCHANGED <<pipeline, nextSegNo, segNo, pre, post, kernelId, target>>
      /\ kernelId[t] \in Kernels
  <2>1. UNCHANGED <<pipeline, locks, segNo, kernelId, target>>
    BY Zenon DEF EnterProducer, Expand, EnterConsumer, Return, LoopExit, LoopExitStopping
  <2>2. QED BY <2>1, LockTypes DEF locks
<1>0. pc \in [Threads -> ControlPoints]
  BY LockTypes
<1>a. /\ \E label : Goto(t, label)
      /\ \/ /\ At(t, "acquire") /\ MayEnter(t, kernelId[t])
            /\ Goto(t, "ready") \/ Goto(t, "expand")
         \/ At(t, "expand") /\ Goto(t, "ready")
         \/ At(t, "run") /\ Goto(t, "loopExit")
         \/ /\ At(t, "loopExit") /\ Goto(t, "exit")
            /\ kernelId[t] \in DataParallel => MayExit(t, kernelId[t])
  <2>1. CASE EnterProducer(t)
    <3>1. At(t, "acquire") /\ kernelId[t] = 1 /\ MayEnter(t, 1)
      BY <2>1, Zenon DEF EnterProducer
    <3>2. PICK label : Goto(t, label) /\ label \in {"ready", "expand"}
      BY <2>1, Zenon DEF EnterProducer
    <3>3. QED BY <3>1, <3>2, Zenon
  <2>2. CASE Expand(t)
    <3>1. At(t, "expand") /\ Goto(t, "ready")
      BY <2>2, Zenon DEF Expand
    <3>2. QED BY <3>1, Zenon
  <2>3. CASE EnterConsumer(t)
    <3>1. At(t, "acquire") /\ MayEnter(t, kernelId[t]) /\ Goto(t, "ready")
      BY <2>3, Zenon DEF EnterConsumer
    <3>2. QED BY <3>1, Zenon
  <2>4. CASE Return(t)
    <3>1. At(t, "run") /\ Goto(t, "loopExit")
      BY <2>4, Zenon DEF Return
    <3>2. QED BY <3>1, Zenon
  <2>5. CASE LoopExit(t)
    <3>1. /\ At(t, "loopExit") /\ Goto(t, "exit")
          /\ kernelId[t] \in DataParallel => MayExit(t, kernelId[t])
      BY <2>5, Zenon DEF LoopExit
    <3>2. QED BY <3>1, Zenon
  <2>6. CASE LoopExitStopping(t) /\ kernelId[t] \notin DataParallel
    <3>1. At(t, "loopExit") /\ Goto(t, "exit")
      BY <2>6, Zenon DEF LoopExitStopping
    <3>2. QED BY <2>6, <3>1, Zenon
  <2>7. QED BY <2>1, <2>2, <2>3, <2>4, <2>5, <2>6, Zenon
<1>b. \A label : Goto(t, label) => pc'[t] = label /\ \A u \in Threads \ {t} : pc'[u] = pc[u]
  BY <1>0 DEF Goto
<1>2. /\ Active(t) /\ OthersStay(t)
      /\ \/ At(t, "acquire") /\ MayEnter(t, kernelId[t]) /\ pc'[t] \in {"ready", "expand"}
         \/ At(t, "expand") /\ pc'[t] = "ready"
         \/ At(t, "run") /\ pc'[t] = "loopExit"
         \/ /\ At(t, "loopExit") /\ pc'[t] = "exit"
            /\ kernelId[t] \in DataParallel => MayExit(t, kernelId[t])
  <2>1. Active(t)
    BY <1>a DEF Active, At
  <2>2. OthersStay(t)
    BY <1>1, <1>a, <1>b, Zenon DEF OthersStay
  <2>3. QED BY <1>a, <1>b, <2>1, <2>2
<1>3. DataParallel' = DataParallel
  BY <1>1 DEF DataParallel
<1>4. \A k : LetOut(t, k)' <=> LetOut(t, k)
  BY <1>1 DEF LetOut
<1>5. \A k : LetIn(t, k)' <=> LetIn(t, k)
  BY <1>1, <1>2 DEF LetIn, At
<1>c. /\ MayEnter(t, kernelId[t])' <=> MayEnter(t, kernelId[t])
      /\ MayExit(t, kernelId[t])' <=> MayExit(t, kernelId[t])
  BY <1>1, <1>3 DEF MayEnter, MayExit, EntryCount
<1>d. /\ pc[t] \in {"expand", "ready"} => MayEnter(t, kernelId[t])
      /\ pc[t] \in {"run", "loopExit"} /\ kernelId[t] \notin DataParallel
           => MayExit(t, kernelId[t])
  BY LockTypes DEF Holds
<1>6. Holds(t)'
  <2>1. pc'[t] \in {"expand", "ready"} => MayEnter(t, kernelId[t])
    BY <1>2, <1>d DEF At
  <2>2. pc'[t] = "loopExit" /\ kernelId[t] \notin DataParallel => MayExit(t, kernelId[t])
    BY <1>2, <1>d DEF At
  <2>3. pc'[t] = "exit" => MayExit(t, kernelId[t])
    BY <1>2, <1>d DEF At
  <2>4. pc'[t] \in {"expand", "ready", "loopExit", "exit"}
    BY <1>2
  <2>5. QED BY <1>1, <1>3, <1>c, <2>1, <2>2, <2>3, <2>4 DEF Holds, At
<1>7. QED
  <2>1. \A k \in Kernels : PostStored(t, k)
    BY <1>1, <1>4 DEF PostStored
  <2>2. \A k \in DataParallel : PreStored(t, k)
    BY <1>1, <1>5 DEF PreStored
  <2>3. pre' \in [Kernels -> Nat] /\ post' \in [Kernels -> Nat]
    BY <1>1, LockTypes
  <2>4. Active(t) /\ OthersStay(t) /\ UNCHANGED <<pipeline, nextSegNo, segNo>>
    BY <1>1, <1>2
  <2>5. \A k \in Kernels \ DataParallel : pre'[k] = pre[k]
    BY <1>1
  <2>6. QED BY <1>1, <1>6, <2>1, <2>2, <2>3, <2>4, <2>5, CountersKeep

\* The pre counter of the thread's own kernel is stored once it may enter.
LEMMA ReleasePreStores ==
  ASSUME CountsBounded, LockState, NEW t \in Threads, Active(t),
         MayEnter(t, kernelId[t]), pre' = ReleasePre(t), kernelId' = kernelId,
         Active(t)' => LetIn(t, kernelId[t])'
  PROVE  /\ pre' \in [Kernels -> Nat]
         /\ \A k \in DataParallel : PreStored(t, k)
         /\ \A k \in Kernels \ DataParallel : pre'[k] = pre[k]
<1> DEFINE n == kernelId[t]
<1>1. n \in Kernels /\ segNo[t] + 1 \in Nat /\ pre \in [Kernels -> Nat]
      /\ PositionsMatchCounters /\ DataParallel \subseteq Kernels
  BY LockTypes, PipelineFacts
<1>2. pre' = IF n \in DataParallel THEN [pre EXCEPT ![n] = segNo[t] + 1] ELSE pre
  BY DEF ReleasePre
<1>3. ASSUME NEW k \in DataParallel
      PROVE  PreStored(t, k)
  <2>1. CASE k = n
    <3>1. EarlierIn(t, k) /\ ~LetIn(t, k)
      BY <1>1, <1>3, <2>1, EntryOrder
    <3>2. QED BY <1>1, <1>2, <1>3, <2>1, <3>1 DEF PreStored
  <2>2. CASE k # n
    <3>1. pre'[k] = pre[k] /\ (LetIn(t, k)' <=> LetIn(t, k))
      BY <1>1, <1>2, <1>3, <2>2 DEF LetIn
    <3>2. QED BY <3>1 DEF PreStored
  <2>3. QED BY <2>1, <2>2
<1>4. QED BY <1>1, <1>2, <1>3

\* The counters that a thread at an entry point leaves alone.
LEMMA InvokeLocks ==
  ASSUME CountsBounded, LockState, NEW t \in Threads, Invoke(t)
  PROVE  LockState'
<1>1. /\ UNCHANGED <<pipeline, nextSegNo, segNo, post, kernelId, target>>
      /\ pre' = ReleasePre(t) /\ Goto(t, "run") /\ At(t, "ready")
  BY DEF Invoke
<1>2. /\ Active(t) /\ OthersStay(t) /\ pc'[t] = "run" /\ MayEnter(t, kernelId[t])
  BY <1>1, LockTypes DEF Goto, At, Active, OthersStay, Holds
<1>3. DataParallel' = DataParallel
  BY <1>1 DEF DataParallel
<1>4. LetIn(t, kernelId[t])' /\ \A k : LetOut(t, k)' <=> LetOut(t, k)
  BY <1>1, <1>2 DEF LetIn, LetOut
<1>5. Holds(t)'
  BY <1>1, <1>2, <1>3 DEF Holds, MayEnter, MayExit, EntryCount, At
<1>6. /\ pre' \in [Kernels -> Nat]
      /\ \A k \in DataParallel : PreStored(t, k)
      /\ \A k \in Kernels \ DataParallel : pre'[k] = pre[k]
  BY <1>1, <1>2, <1>4, ReleasePreStores
<1>7. \A k \in Kernels : PostStored(t, k)
  BY <1>1, <1>4 DEF PostStored
<1>8. QED
  BY <1>1, <1>2, <1>5, <1>6, <1>7, LockTypes, CountersKeep

LEMMA ShortLocks ==
  ASSUME CountsBounded, LockState, NEW t \in Threads, EnterShort(t)
  PROVE  LockState'
<1> DEFINE n == kernelId[t]
<1>1. /\ UNCHANGED <<pipeline, nextSegNo, segNo, post, kernelId>>
      /\ target' = [target EXCEPT ![t] = pipeline.jumpTarget[n]]
      /\ pre' = IF pipeline.jumpTarget[n] > NumKernels THEN ReleasePre(t) ELSE pre
      /\ Goto(t, "jump") /\ At(t, "acquire") /\ MayEnter(t, n) /\ n # 1
  BY DEF EnterShort
<1>2. n \in Consumers /\ pipeline.jumpTarget[n] > n
      /\ pipeline.jumpTarget[n] \in 3 .. NumKernels + 1
  BY <1>1, LockTypes, KernelFacts, PipelineFacts
<1>3. /\ Active(t) /\ OthersStay(t) /\ pc'[t] = "jump"
      /\ target'[t] = pipeline.jumpTarget[n] /\ kernelId'[t] = n
  BY <1>1, LockTypes DEF Goto, At, Active, OthersStay
<1>4. DataParallel' = DataParallel /\ DataParallel \subseteq Kernels
  BY <1>1, PipelineFacts DEF DataParallel
<1>5. Holds(t)'
  BY <1>2, <1>3 DEF Holds, At
<1>6. \A k \in Kernels : PostStored(t, k)
  BY <1>1 DEF PostStored, LetOut
<1>7. /\ pre' \in [Kernels -> Nat]
      /\ \A k \in DataParallel : PreStored(t, k)
      /\ \A k \in Kernels \ DataParallel : pre'[k] = pre[k]
  <2>1. CASE pipeline.jumpTarget[n] > NumKernels
    <3>1. LetIn(t, n)'
      BY <1>3, <2>1 DEF LetIn, At
    <3>2. QED BY <1>1, <1>3, <2>1, <3>1, ReleasePreStores
  <2>2. CASE ~(pipeline.jumpTarget[n] > NumKernels)
    <3>1. pre' = pre
      BY <1>1, <2>2
    <3>2. \A k : LetIn(t, k)' <=> LetIn(t, k)
      BY <1>1, <1>3, <2>2 DEF LetIn, At
    <3>3. QED BY <3>1, <3>2, LockTypes DEF PreStored
  <2>3. QED BY <2>1, <2>2
<1>8. QED
  BY <1>1, <1>3, <1>5, <1>6, <1>7, LockTypes, CountersKeep

\* A kernel that has stopped is not data-parallel.
LEMMA StoppedLocks ==
  ASSUME CountsBounded, LockState, NEW t \in Threads, EnterStopped(t),
         kernelId[t] \notin DataParallel
  PROVE  LockState'
<1> DEFINE n == kernelId[t]
<1>1. /\ UNCHANGED <<pipeline, nextSegNo, segNo, pre, post, kernelId>>
      /\ At(t, "acquire") /\ MayEnter(t, n) /\ n \in Kernels
  BY LockTypes DEF EnterStopped, locks
<1>2. /\ Active(t) /\ OthersStay(t)
      /\ \/ pc'[t] = "jump" /\ target'[t] = n + 1
         \/ pc'[t] = "exit" /\ target' = target
  BY <1>1, LockTypes DEF EnterStopped, Goto, At, Active, OthersStay
<1>3. DataParallel' = DataParallel
  BY <1>1 DEF DataParallel
<1>4. Holds(t)'
  <2>1. MayExit(t, n)
    BY <1>1 DEF MayEnter, MayExit, EntryCount
  <2>2. n \in Nat
    BY <1>1, KernelFacts
  <2>3. QED BY <1>1, <1>2, <2>1, <2>2 DEF Holds, MayExit, At
<1>5. \A k \in Kernels : PostStored(t, k)
  BY <1>1 DEF PostStored, LetOut
<1>6. \A k \in DataParallel : PreStored(t, k)
  BY <1>1 DEF PreStored, LetIn
<1>7. QED
  BY <1>1, <1>2, <1>4, <1>5, <1>6, LockTypes, CountersKeep

\* The exit counter is passed on.
LEMMA ExitLocks ==
  ASSUME CountsBounded, LockState, NEW t \in Threads, ExitStep(t)
  PROVE  LockState'
<1> DEFINE n == kernelId[t]
<1>1. /\ UNCHANGED <<pipeline, nextSegNo, segNo, pre>>
      /\ post' = [post EXCEPT ![n] = segNo[t] + 1]
      /\ At(t, "exit") /\ n \in Kernels
      /\ \/ /\ kernelId' = [kernelId EXCEPT ![t] = n + 1] /\ target' = target
            /\ Goto(t, "acquire")
         \/ /\ kernelId' = [kernelId EXCEPT ![t] = 1]
            /\ target' = [target EXCEPT ![t] = 1]
            /\ Goto(t, "fetch")
  BY LockTypes DEF ExitStep, ExitProducer, ExitConsumer, ExitLastKernel, ForgetLocals
<1>2. /\ Active(t) /\ OthersStay(t) /\ MayExit(t, n)
      /\ Active(t)' => pc'[t] = "acquire" /\ kernelId'[t] = n + 1
      /\ pc'[t] \in {"acquire", "fetch"} /\ (pc'[t] = "fetch" => kernelId'[t] = 1)
  BY <1>1, LockTypes DEF Goto, At, Active, OthersStay, Holds
<1>3. EarlierOut(t, n) /\ ~LetOut(t, n)
  BY <1>1, <1>2, LockTypes, ExitOrder
<1>4. n \in Nat /\ Kernels \subseteq Nat
  BY <1>1, KernelFacts
<1>5. ASSUME NEW k \in Kernels PROVE PostStored(t, k)
  <2>1. CASE k = n
    <3>1. post'[k] = segNo[t] + 1
      BY <1>1, <2>1, LockTypes
    <3>2. Active(t)' => LetOut(t, k)'
      BY <1>2, <1>4, <2>1 DEF LetOut
    <3>3. QED BY <1>3, <2>1, <3>1, <3>2 DEF PostStored
  <2>2. CASE k # n
    <3>1. post'[k] = post[k]
      BY <1>1, <2>2, LockTypes
    <3>2. Active(t)' => (LetOut(t, k)' <=> LetOut(t, k))
      BY <1>2, <1>4, <2>2 DEF LetOut
    <3>3. QED BY <3>1, <3>2 DEF PostStored
  <2>3. QED BY <2>1, <2>2
<1>6. ASSUME NEW k \in DataParallel PROVE PreStored(t, k)
  <2>1. k \in Nat
    BY <1>4, <1>6, PipelineFacts
  <2>2. Active(t)' => (LetIn(t, k)' <=> LetIn(t, k))
    BY <1>1, <1>2, <1>4, <2>1 DEF LetIn, At
  <2>3. QED BY <1>1, <2>2 DEF PreStored
<1>7. Holds(t)'
  BY <1>2 DEF Holds, At
<1>8. post' \in [Kernels -> Nat]
  BY <1>1, LockTypes
<1>9. QED
  BY <1>1, <1>2, <1>5, <1>6, <1>7, <1>8, LockTypes, CountersKeep

\* A jump passes on every counter between the thread's kernel and its target.
LEMMA JumpLocks ==
  ASSUME CountsBounded, LockState, NEW t \in Threads, JumpStep(t)
  PROVE  LockState'
<1> DEFINE n == kernelId[t]
           j == target[t]
<1>1. /\ UNCHANGED <<pipeline, nextSegNo, segNo>>
      /\ post' = ReleasedUntil(post, t, Kernels)
      /\ At(t, "jump") /\ n \in Kernels /\ n < j
      /\ n \in Nat /\ j \in Nat /\ Kernels \subseteq Nat /\ DataParallel \subseteq Kernels
  <2>1. /\ UNCHANGED <<pipeline, nextSegNo, segNo>>
        /\ post' = ReleasedUntil(post, t, Kernels) /\ At(t, "jump")
    BY DEF JumpStep, JumpWithin, JumpToEnd
  <2>2. n \in Kernels /\ j \in 1 .. NumKernels + 1 /\ n < j
    BY <2>1, LockTypes DEF Holds
  <2>3. NumKernels \in Nat /\ Kernels \subseteq Nat /\ DataParallel \subseteq Kernels
    BY KernelFacts, PipelineFacts
  <2>4. n \in Nat /\ j \in Nat
    <3> HIDE DEF n, j
    <3>1. QED BY <2>2, <2>3
  <2>5. QED BY <2>1, <2>2, <2>3, <2>4, Zenon
<1>2. Active(t)
  BY <1>1 DEF Active, At
<1>3. post' \in [Kernels -> Nat] /\ pre' \in [Kernels -> Nat]
  BY <1>1, LockTypes DEF JumpStep, JumpWithin, JumpToEnd, ReleasedUntil
<1>4. CASE JumpWithin(t)
  <2>1. /\ j \in Kernels /\ MayEnter(t, j) /\ pre' = ReleasedUntil(pre, t, DataParallel)
        /\ kernelId' = [kernelId EXCEPT ![t] = j] /\ target' = target /\ Goto(t, "acquire")
        /\ j <= NumKernels
    BY <1>1, <1>4, LockTypes DEF JumpWithin, Kernels
  <2>2. OthersStay(t) /\ pc'[t] = "acquire" /\ kernelId'[t] = j
    BY <2>1, LockTypes DEF Goto, OthersStay
  <2>3. ASSUME NEW k \in Kernels PROVE PostStored(t, k)
    <3>1. CASE n <= k /\ k < j
      <4>1. post'[k] = segNo[t] + 1
        BY <1>1, <2>3, <3>1 DEF ReleasedUntil
      <4>2. ~LetOut(t, k) /\ LetOut(t, k)'
        BY <1>1, <2>2, <3>1 DEF LetOut
      <4>3. EarlierOut(t, k)
        BY <1>2, <2>1, <3>1, LockTypes, JumpOrder
      <4>4. QED BY <4>1, <4>2, <4>3 DEF PostStored
    <3>2. CASE ~(n <= k /\ k < j)
      <4>1. post'[k] = post[k]
        BY <1>1, <2>3, <3>2 DEF ReleasedUntil
      <4>2. LetOut(t, k)' <=> LetOut(t, k)
        BY <1>1, <2>2, <3>2 DEF LetOut
      <4>3. QED BY <4>1, <4>2 DEF PostStored
    <3>3. QED BY <3>1, <3>2
  <2>4. ASSUME NEW k \in DataParallel PROVE PreStored(t, k)
    <3>1. k \in Kernels /\ k \in Nat
      BY <1>1, <2>4
    <3>2. CASE n <= k /\ k < j
      <4>1. pre'[k] = segNo[t] + 1
        BY <2>1, <2>4, <3>1, <3>2 DEF ReleasedUntil
      <4>2. ~LetIn(t, k) /\ LetIn(t, k)'
        BY <1>1, <2>1, <2>2, <3>1, <3>2, KernelFacts DEF LetIn, At
      <4>3. EarlierIn(t, k)
        BY <1>2, <2>1, <3>1, <3>2, LockTypes, JumpOrder
      <4>4. QED BY <4>1, <4>2, <4>3 DEF PreStored
    <3>3. CASE ~(n <= k /\ k < j)
      <4>1. pre'[k] = pre[k]
        BY <2>1, <3>1, <3>3 DEF ReleasedUntil
      <4>2. LetIn(t, k)' <=> LetIn(t, k)
        BY <1>1, <2>2, <3>1, <3>3 DEF LetIn, At
      <4>3. QED BY <4>1, <4>2 DEF PreStored
    <3>4. QED BY <3>2, <3>3
  <2>5. \A k \in Kernels \ DataParallel : pre'[k] = pre[k]
    BY <2>1 DEF ReleasedUntil
  <2>6. Holds(t)'
    BY <2>2 DEF Holds, At
  <2>7. QED
    BY <1>1, <1>2, <1>3, <2>2, <2>3, <2>4, <2>5, <2>6, LockTypes, CountersKeep
<1>5. CASE JumpToEnd(t)
  <2>1. /\ j > NumKernels /\ MayExit(t, NumKernels)
        /\ pre' = ReleasedUntil(pre, t, DataParallel \ {n})
        /\ kernelId' = [kernelId EXCEPT ![t] = 1] /\ target' = [target EXCEPT ![t] = 1]
        /\ Goto(t, "fetch")
    BY <1>5 DEF JumpToEnd, ForgetLocals
  <2>2. OthersStay(t) /\ pc'[t] = "fetch" /\ ~Active(t)'
    BY <2>1, LockTypes DEF Goto, OthersStay, Active
  <2>3. \A k : EarlierOut(t, k) /\ EarlierIn(t, k)
    <3>1. EarlierOut(t, NumKernels) /\ NumKernels \in Kernels
      BY <1>2, <2>1, LockTypes, ExitOrder, KernelFacts
    <3>2. ASSUME NEW u \in Threads PROVE ~LetOut(u, NumKernels)
      <4>1. kernelId[u] \in Kernels
        BY DEF CountsBounded
      <4>2. kernelId[u] \in Nat /\ kernelId[u] <= NumKernels /\ NumKernels \in Nat
        BY <4>1, KernelFacts
      <4>3. QED BY <4>2 DEF LetOut
    <3>3. QED BY <3>1, <3>2 DEF EarlierOut, EarlierIn
  <2>4. ASSUME NEW k \in Kernels PROVE PostStored(t, k)
    <3>1. CASE n <= k /\ k < j
      BY <1>1, <2>2, <2>3, <2>4, <3>1 DEF PostStored, LetOut, ReleasedUntil
    <3>2. CASE ~(n <= k /\ k < j)
      BY <1>1, <2>2, <2>4, <3>2 DEF PostStored, ReleasedUntil
    <3>3. QED BY <3>1, <3>2
  <2>5. ASSUME NEW k \in DataParallel PROVE PreStored(t, k)
    <3>1. k \in Kernels /\ k \in Nat
      BY <1>1, <2>5
    <3>2. CASE k # n /\ n <= k /\ k < j
      <4>1. pre'[k] = segNo[t] + 1
        BY <2>1, <2>5, <3>1, <3>2 DEF ReleasedUntil
      <4>2. ~LetIn(t, k)
        BY <1>1, <3>1, <3>2 DEF LetIn
      <4>3. QED BY <2>2, <2>3, <4>1, <4>2 DEF PreStored
    <3>3. CASE ~(k # n /\ n <= k /\ k < j)
      <4>1. pre'[k] = pre[k]
        BY <2>1, <3>1, <3>3 DEF ReleasedUntil
      <4>2. QED BY <2>2, <4>1 DEF PreStored
    <3>4. QED BY <3>2, <3>3
  <2>6. \A k \in Kernels \ DataParallel : pre'[k] = pre[k]
    BY <2>1 DEF ReleasedUntil
  <2>7. Holds(t)'
    BY <2>1, <2>2, LockTypes DEF Holds, At
  <2>8. QED
    BY <1>1, <1>2, <1>3, <2>2, <2>4, <2>5, <2>6, <2>7, LockTypes, CountersKeep
<1>6. QED BY <1>4, <1>5 DEF JumpStep

-----------------------------------------------------------------------------
(* Steps keep the invocations of a kernel in a chain.                      *)

CountState == CountsBounded /\ LockState /\ InvocationsChained

LEMMA CountTypes ==
  ASSUME CountState, NEW t \in Threads
  PROVE  /\ from[t] \in Nat /\ to[t] \in Nat /\ avail[t] \in Nat /\ segNo[t] \in Nat
         /\ \A k \in Kernels : count[k] \in Nat /\ internal[k] \in Nat
         /\ kernelId[t] \in Kernels
         /\ from \in [Threads -> 0 .. MaxItems] /\ to \in [Threads -> 0 .. MaxItems]
         /\ avail \in [Threads -> 0 .. MaxItems]
         /\ count \in [Kernels -> 0 .. MaxItems] /\ internal \in [Kernels -> 0 .. MaxItems]
         /\ DataParallel \subseteq Kernels
         /\ 0 .. MaxItems \subseteq Nat
<1>1. 0 .. MaxItems \subseteq Nat
  BY KernelBounds
<1>2. QED
  BY <1>1, LockTypes, PipelineFacts DEF CountState, CountsBounded

\* A step that moves no count and lets no thread into a kernel.
LEMMA ChainKept ==
  ASSUME CountState,
         UNCHANGED <<pipeline, count, internal, stopped>>,
         \A u \in Threads : avail'[u] \in {0, avail[u]},
         \A u \in Threads : \A k \in Kernels : InKernel(u, k)' =>
           /\ InKernel(u, k)
           /\ from'[u] = from[u] /\ to'[u] = to[u] /\ avail'[u] = avail[u]
           /\ segNo'[u] = segNo[u]
           /\ pc'[u] \in {"run", "loopExit"} => pc[u] \in {"run", "loopExit"}
  PROVE  InvocationsChained'
<1>1. DataParallel' = DataParallel
  BY DEF DataParallel
<1>2. InvocationsChained
  BY DEF CountState
<1>3. stopped' \subseteq pipeline'.mayStop /\ \A k \in DataParallel : count'[k] <= internal'[k]
  BY <1>2 DEF InvocationsChained
<1>4. ASSUME NEW u \in Threads PROVE avail'[u] <= count'[1]
  BY <1>2, CountTypes, KernelFacts DEF InvocationsChained
<1>5. ASSUME NEW u \in Threads, NEW k \in Kernels, InKernel(u, k)'
      PROVE  /\ count'[k] <= from'[u] /\ from'[u] <= to'[u]
             /\ k # 1 => k \notin stopped' /\ to'[u] <= avail'[u]
             /\ k \in DataParallel /\ pc'[u] \in {"run", "loopExit"} => to'[u] <= internal'[k]
             /\ \A v \in Threads : InKernel(v, k)' /\ segNo'[u] < segNo'[v] => to'[u] <= from'[v]
  <2>1. /\ InKernel(u, k)
        /\ from'[u] = from[u] /\ to'[u] = to[u] /\ avail'[u] = avail[u]
        /\ segNo'[u] = segNo[u]
        /\ pc'[u] \in {"run", "loopExit"} => pc[u] \in {"run", "loopExit"}
    BY <1>5
  <2>2. /\ count[k] <= from[u] /\ from[u] <= to[u]
        /\ k # 1 => k \notin stopped /\ to[u] <= avail[u]
        /\ k \in DataParallel /\ pc[u] \in {"run", "loopExit"} => to[u] <= internal[k]
        /\ \A v \in Threads : InKernel(v, k) /\ segNo[u] < segNo[v] => to[u] <= from[v]
    BY <1>2, <2>1 DEF InvocationsChained
  <2>3. QED BY <2>1, <2>2
<1>6. QED BY <1>1, <1>3, <1>4, <1>5 DEF InvocationsChained

\* Whoever may enter a kernel begins behind everyone who is in it.
LEMMA EntryChain ==
  ASSUME CountState, NEW t \in Threads, Active(t), NEW k \in Kernels, MayEnter(t, k),
         NEW u \in Threads \ {t}, InKernel(u, k)
  PROVE  segNo[u] < segNo[t] /\ k \in DataParallel /\ to[u] <= internal[k]
<1>1. PositionsMatchCounters /\ Holds(u) /\ CountsBounded /\ InvocationsChained
  BY LockTypes DEF CountState
<1>2. /\ Active(u) /\ segNo[u] # segNo[t] /\ segNo[u] \in Nat /\ segNo[t] \in Nat
      /\ kernelId[u] = k /\ pc[u] \in {"expand", "ready", "run", "loopExit"} /\ k \in Nat
  BY <1>1, KernelFacts DEF InKernel, Active, PositionsMatchCounters
<1>3. k \in DataParallel
  <2>1. SUFFICES ASSUME k \notin DataParallel PROVE FALSE
    OBVIOUS
  <2>2. post[k] = segNo[u] /\ post[k] = segNo[t]
    BY <1>1, <1>2, <2>1 DEF Holds, MayEnter, MayExit, EntryCount
  <2>3. QED BY <1>2, <2>2
<1>4. pre[k] = segNo[t] /\ (pre[k] > segNo[u] <=> LetIn(u, k))
  BY <1>1, <1>2, <1>3 DEF MayEnter, EntryCount, PositionsMatchCounters
<1>5. pc[u] \notin {"expand", "ready"} /\ LetIn(u, k)
  <2>1. CASE pc[u] \in {"expand", "ready"}
    BY <1>1, <1>2, <1>3, <1>4, <2>1 DEF Holds, MayEnter, EntryCount, LetIn, At
  <2>2. CASE pc[u] \in {"run", "loopExit"}
    BY <1>2, <2>2 DEF LetIn
  <2>3. QED
    <3>1. pc[u] \in {"expand", "ready"} => FALSE
      <4>1. SUFFICES ASSUME pc[u] \in {"expand", "ready"} PROVE FALSE
        OBVIOUS
      <4>2. pre[k] = segNo[u]
        BY <1>1, <1>2, <1>3, <4>1 DEF Holds, MayEnter, EntryCount
      <4>3. QED BY <1>2, <1>4, <4>2
    <3>2. QED BY <1>2, <2>2, <3>1
<1>6. segNo[u] < segNo[t]
  BY <1>2, <1>4, <1>5
<1>7. pc[u] \in {"run", "loopExit"}
  BY <1>2, <1>5
<1>8. to[u] <= internal[k]
  BY <1>1, <1>3, <1>7 DEF InvocationsChained, InKernel
<1>9. QED BY <1>3, <1>6, <1>8

\* Whoever may leave a kernel ends before everyone who is still in it begins.
LEMMA ExitChain ==
  ASSUME CountState, NEW t \in Threads, Active(t), NEW k \in Kernels, MayExit(t, k),
         InKernel(t, k), NEW u \in Threads \ {t}, InKernel(u, k)
  PROVE  k \in DataParallel /\ to[t] <= from[u]
<1>1. PositionsMatchCounters /\ Holds(u) /\ CountsBounded /\ InvocationsChained
  BY LockTypes DEF CountState
<1>2. /\ Active(u) /\ segNo[u] # segNo[t] /\ segNo[u] \in Nat /\ segNo[t] \in Nat
      /\ kernelId[u] = k /\ pc[u] \in {"expand", "ready", "run", "loopExit"} /\ k \in Nat
  BY <1>1, KernelFacts DEF InKernel, Active, PositionsMatchCounters
<1>3. k \in DataParallel
  <2>1. SUFFICES ASSUME k \notin DataParallel PROVE FALSE
    OBVIOUS
  <2>2. post[k] = segNo[u] /\ post[k] = segNo[t]
    BY <1>1, <1>2, <2>1 DEF Holds, MayEnter, MayExit, EntryCount
  <2>3. QED BY <1>2, <2>2
<1>4. ~(segNo[u] < segNo[t])
  <2>1. EarlierOut(t, k) /\ ~LetOut(u, k)
    BY <1>1, <1>2, ExitOrder DEF LetOut
  <2>2. QED BY <1>2, <2>1 DEF EarlierOut
<1>5. segNo[t] < segNo[u]
  BY <1>2, <1>4
<1>6. QED BY <1>1, <1>3, <1>5 DEF InvocationsChained

\* A thread enters a kernel.
LEMMA EntryKeepsChain ==
  ASSUME CountState, NEW t \in Threads, Active(t), MayEnter(t, kernelId[t]),
         kernelId[t] # 1 => kernelId[t] \notin stopped,
         UNCHANGED <<pipeline, count, internal, stopped, avail, kernelId, segNo>>,
         from' = [from EXCEPT ![t] = ItemCount(kernelId[t])],
         NEW n \in Nat, ItemCount(kernelId[t]) <= n,
         kernelId[t] # 1 => n <= avail[t],
         to' = [to EXCEPT ![t] = n],
         pc'[t] \in {"ready", "expand"}, OthersStay(t)
  PROVE  InvocationsChained'
<1> DEFINE k == kernelId[t]
<1>1. /\ InvocationsChained /\ DataParallel' = DataParallel /\ k \in Kernels
      /\ count[k] \in Nat /\ internal[k] \in Nat /\ ItemCount(k) \in Nat
      /\ count[k] <= ItemCount(k)
  BY CountTypes DEF CountState, DataParallel, ItemCount, InvocationsChained
<1>2. /\ from'[t] = ItemCount(k) /\ to'[t] = n
      /\ \A u \in Threads \ {t} : from'[u] = from[u] /\ to'[u] = to[u]
  BY CountTypes
<1>3. /\ InKernel(t, k)' /\ \A m \in Kernels : InKernel(t, m)' => m = k
      /\ \A u \in Threads \ {t} : \A m \in Kernels : InKernel(u, m)' <=> InKernel(u, m)
  BY DEF InKernel, OthersStay
<1>4. ASSUME NEW u \in Threads \ {t}, InKernel(u, k)
      PROVE  segNo[u] < segNo[t] /\ to[u] <= ItemCount(k)
  BY <1>1, <1>4, EntryChain DEF ItemCount
<1>5. ASSUME NEW u \in Threads, NEW m \in Kernels, InKernel(u, m)'
      PROVE  /\ count[m] <= from'[u] /\ from'[u] <= to'[u]
             /\ m # 1 => m \notin stopped /\ to'[u] <= avail[u]
             /\ m \in DataParallel /\ pc'[u] \in {"run", "loopExit"} => to'[u] <= internal[m]
             /\ \A v \in Threads : InKernel(v, m)' /\ segNo[u] < segNo[v] => to'[u] <= from'[v]
  <2>1. CASE u = t
    <3>1. m = k
      BY <1>3, <1>5, <2>1
    <3>2. ASSUME NEW v \in Threads, InKernel(v, k)' PROVE ~(segNo[t] < segNo[v])
      <4>1. segNo[t] \in Nat /\ segNo[v] \in Nat
        BY CountTypes
      <4>2. CASE v = t
        BY <4>1, <4>2
      <4>3. CASE v # t
        <5>1. segNo[v] < segNo[t]
          BY <1>1, <1>3, <1>4, <3>2, <4>3
        <5>2. QED BY <4>1, <5>1
      <4>4. QED BY <4>2, <4>3
    <3>3. QED BY <1>1, <1>2, <2>1, <3>1, <3>2
  <2>2. CASE u # t
    <3>1. InKernel(u, m) /\ pc'[u] = pc[u] /\ from'[u] = from[u] /\ to'[u] = to[u]
      BY <1>2, <1>3, <1>5, <2>2 DEF OthersStay
    <3>2. /\ count[m] <= from[u] /\ from[u] <= to[u]
          /\ m # 1 => m \notin stopped /\ to[u] <= avail[u]
          /\ m \in DataParallel /\ pc[u] \in {"run", "loopExit"} => to[u] <= internal[m]
          /\ \A v \in Threads : InKernel(v, m) /\ segNo[u] < segNo[v] => to[u] <= from[v]
      BY <1>1, <3>1 DEF InvocationsChained
    <3>3. ASSUME NEW v \in Threads, InKernel(v, m)', segNo[u] < segNo[v]
          PROVE  to'[u] <= from'[v]
      <4>1. CASE v = t
        BY <1>2, <1>3, <1>4, <2>2, <3>1, <3>3, <4>1
      <4>2. CASE v # t
        BY <1>2, <1>3, <3>1, <3>2, <3>3, <4>2
      <4>3. QED BY <4>1, <4>2
    <3>4. QED BY <3>1, <3>2, <3>3
  <2>3. QED BY <2>1, <2>2
<1>6. QED BY <1>1, <1>5 DEF InvocationsChained

LEMMA EnterChain ==
  ASSUME CountState, NEW t \in Threads, EnterProducer(t) \/ EnterConsumer(t)
  PROVE  InvocationsChained'
<1>1. /\ UNCHANGED <<pipeline, count, internal, stopped, avail, kernelId, segNo, target>>
      /\ from' = [from EXCEPT ![t] = ItemCount(kernelId[t])]
      /\ At(t, "acquire") /\ MayEnter(t, kernelId[t])
      /\ kernelId[t] # 1 => kernelId[t] \notin stopped
  BY DEF EnterProducer, EnterConsumer, counts
<1>2. Active(t) /\ ItemCount(kernelId[t]) \in 0 .. MaxItems
  BY <1>1, CountTypes, ItemCountBounded DEF Active, At, CountState
<1>3. ASSUME Goto(t, "ready") \/ Goto(t, "expand")
      PROVE  pc'[t] \in {"ready", "expand"} /\ OthersStay(t)
  BY <1>1, <1>3, LockTypes DEF CountState, Goto, OthersStay
<1>4. CASE EnterProducer(t)
  <2>1. PICK n \in pipeline.segmentLengths :
          /\ to' = [to EXCEPT ![t] = Min({ItemCount(1) + n, MaxItems})]
          /\ Goto(t, "ready") \/ Goto(t, "expand")
    BY <1>4, Zenon DEF EnterProducer
  <2>2. kernelId[t] = 1 /\ n \in Nat /\ MaxItems \in Nat
    BY <1>4, KernelBounds, PipelineAssumption DEF EnterProducer, CountState, CountsBounded
  <2>3. ItemCount(1) + n \in Nat /\ ItemCount(1) <= ItemCount(1) + n
        /\ ItemCount(1) <= MaxItems
    BY <1>2, <2>2
  <2> DEFINE end == Min({ItemCount(1) + n, MaxItems})
  <2>4. end \in {ItemCount(1) + n, MaxItems}
    BY <2>2, <2>3, MinOfTwo
  <2>5. end \in Nat /\ ItemCount(1) <= end
    BY <2>2, <2>3, <2>4
  <2> HIDE DEF end
  <2>6. to' = [to EXCEPT ![t] = end]
    BY <2>1 DEF end
  <2>7. QED BY <1>1, <1>2, <1>3, <2>1, <2>2, <2>5, <2>6, EntryKeepsChain
<1>5. CASE EnterConsumer(t)
  <2>1. PICK n \in ItemCount(kernelId[t]) .. avail[t] :
          to' = [to EXCEPT ![t] = n] /\ Goto(t, "ready")
    BY <1>5 DEF EnterConsumer
  <2>2. n \in Nat /\ ItemCount(kernelId[t]) <= n /\ n <= avail[t]
    BY <1>2, <2>1, CountTypes
  <2>3. QED BY <1>1, <1>2, <1>3, <2>1, <2>2, EntryKeepsChain
<1>6. QED BY <1>4, <1>5

\* A data-parallel kernel reports the end of its invocation before it runs.
LEMMA InvokeChain ==
  ASSUME CountState, NEW t \in Threads, Invoke(t)
  PROVE  InvocationsChained'
<1> DEFINE k == kernelId[t]
<1>1. /\ UNCHANGED <<pipeline, count, stopped, from, to, avail, kernelId, segNo, target>>
      /\ internal' = IF k \in DataParallel THEN [internal EXCEPT ![k] = to[t]] ELSE internal
      /\ At(t, "ready") /\ Goto(t, "run")
  BY DEF Invoke
<1>2. /\ Active(t) /\ OthersStay(t) /\ pc'[t] = "run" /\ MayEnter(t, k)
      /\ InKernel(t, k) /\ InvocationsChained /\ DataParallel' = DataParallel
  BY <1>1, LockTypes DEF CountState, Goto, At, Active, OthersStay, Holds, InKernel, DataParallel
<1>3. /\ k \in Kernels /\ internal'[k] = IF k \in DataParallel THEN to[t] ELSE internal[k]
      /\ \A m \in Kernels \ {k} : internal'[m] = internal[m]
  BY <1>1, CountTypes
<1>4. \A u \in Threads : \A m \in Kernels : InKernel(u, m)' <=> InKernel(u, m)
  BY <1>1, <1>2 DEF InKernel, OthersStay
<1>5. count[k] <= from[t] /\ from[t] <= to[t]
  BY <1>2, <1>3 DEF InvocationsChained
<1>6. \A m \in DataParallel : count[m] <= internal'[m]
  BY <1>2, <1>3, <1>5, CountTypes DEF InvocationsChained
<1>7. ASSUME NEW u \in Threads, NEW m \in Kernels, InKernel(u, m),
             m \in DataParallel, pc'[u] \in {"run", "loopExit"}
      PROVE  to[u] <= internal'[m]
  <2>1. CASE u = t
    <3>1. m = k
      BY <1>7, <2>1 DEF InKernel
    <3>2. to[t] \in Nat
      BY CountTypes
    <3>3. QED BY <1>3, <1>7, <2>1, <3>1, <3>2
  <2>2. CASE u # t /\ m # k
    BY <1>2, <1>3, <1>7, <2>2 DEF InvocationsChained, OthersStay
  <2>3. CASE u # t /\ m = k
    <3>1. segNo[u] < segNo[t]
      BY <1>2, <1>3, <1>7, <2>3, EntryChain
    <3>2. to[u] <= from[t]
      BY <1>2, <1>3, <1>7, <2>3, <3>1 DEF InvocationsChained
    <3>3. QED BY <1>3, <1>5, <1>7, <2>3, <3>2, CountTypes
  <2>4. QED BY <2>1, <2>2, <2>3
<1>8. ASSUME NEW u \in Threads, NEW m \in Kernels, InKernel(u, m)'
      PROVE  /\ count[m] <= from[u] /\ from[u] <= to[u]
             /\ m # 1 => m \notin stopped /\ to[u] <= avail[u]
             /\ \A v \in Threads : InKernel(v, m)' /\ segNo[u] < segNo[v] => to[u] <= from[v]
  BY <1>2, <1>4, <1>8 DEF InvocationsChained
<1>9. QED
  BY <1>1, <1>2, <1>4, <1>6, <1>7, <1>8 DEF InvocationsChained

\* A kernel reports its count and is left by the thread that may leave it.
LEMMA LoopExitChain ==
  ASSUME CountState, NEW t \in Threads,
         LoopExit(t) \/ (LoopExitStopping(t) /\ kernelId[t] \in Consumers \ DataParallel)
  PROVE  /\ InvocationsChained' /\ count[kernelId[t]] <= to[t]
         /\ Active(t) /\ InKernel(t, kernelId[t]) /\ MayExit(t, kernelId[t])
<1> DEFINE k == kernelId[t]
<1>1. /\ UNCHANGED <<pipeline, internal, from, to, kernelId, segNo, target>>
      /\ count' = [count EXCEPT ![k] = to[t]]
      /\ At(t, "loopExit") /\ Goto(t, "exit")
      /\ \/ stopped' = stopped
         \/ stopped' = stopped \union {k} /\ k \in pipeline.mayStop /\ k \notin DataParallel
      /\ \/ avail' = avail
         \/ avail' = [avail EXCEPT ![t] = to[t]] /\ k = 1
  BY DEF LoopExit, LoopExitStopping, locals
<1>2. /\ Active(t) /\ OthersStay(t) /\ pc'[t] = "exit" /\ MayExit(t, k)
      /\ InKernel(t, k) /\ InvocationsChained /\ DataParallel' = DataParallel
  <2>1. k \in DataParallel => MayExit(t, k)
    BY DEF LoopExit
  <2>2. QED
    BY <1>1, <2>1, LockTypes
       DEF CountState, Goto, At, Active, OthersStay, Holds, InKernel, DataParallel
<1>3. /\ k \in Kernels /\ count'[k] = to[t]
      /\ \A m \in Kernels \ {k} : count'[m] = count[m]
  BY <1>1, CountTypes
<1>4. /\ \A m \in Kernels : ~InKernel(t, m)'
      /\ \A u \in Threads \ {t} : \A m \in Kernels : InKernel(u, m)' <=> InKernel(u, m)
  BY <1>1, <1>2 DEF InKernel, OthersStay
<1>5. count[k] <= from[t] /\ from[t] <= to[t]
  BY <1>2, <1>3 DEF InvocationsChained
<1>6. count[k] <= to[t]
  BY <1>3, <1>5, CountTypes
<1>7. stopped' \subseteq pipeline'.mayStop
  BY <1>1, <1>2 DEF InvocationsChained
<1>8. \A m \in DataParallel : count'[m] <= internal[m]
  BY <1>1, <1>2, <1>3, CountTypes DEF InvocationsChained, At
<1>9. ASSUME NEW u \in Threads PROVE avail'[u] <= count'[1]
  <2>1. avail[u] <= count[1] /\ avail[u] \in Nat /\ count[1] \in Nat /\ to[t] \in Nat
    BY <1>2, CountTypes, KernelFacts DEF InvocationsChained
  <2>2. count[1] <= count'[1] /\ count'[1] \in Nat
    BY <1>3, <1>6, <2>1, KernelFacts
  <2>3. avail'[u] = avail[u] \/ (avail'[u] = to[t] /\ k = 1)
    BY <1>1, CountTypes
  <2>4. QED BY <1>3, <2>1, <2>2, <2>3
<1>10. ASSUME NEW u \in Threads, NEW m \in Kernels, InKernel(u, m)'
       PROVE  /\ count'[m] <= from[u] /\ from[u] <= to[u]
              /\ m # 1 => m \notin stopped' /\ to[u] <= avail'[u]
              /\ m \in DataParallel /\ pc'[u] \in {"run", "loopExit"} => to[u] <= internal[m]
              /\ \A v \in Threads : InKernel(v, m)' /\ segNo[u] < segNo[v] => to[u] <= from[v]
  <2>1. u # t /\ InKernel(u, m) /\ pc'[u] = pc[u] /\ avail'[u] = avail[u]
    BY <1>1, <1>2, <1>4, <1>10, CountTypes DEF OthersStay
  <2>2. /\ count[m] <= from[u] /\ from[u] <= to[u]
        /\ m # 1 => m \notin stopped /\ to[u] <= avail[u]
        /\ m \in DataParallel /\ pc[u] \in {"run", "loopExit"} => to[u] <= internal[m]
        /\ \A v \in Threads : InKernel(v, m) /\ segNo[u] < segNo[v] => to[u] <= from[v]
    BY <1>2, <2>1 DEF InvocationsChained
  <2>3. m = k => to[t] <= from[u] /\ k \in DataParallel
    BY <1>2, <1>3, <2>1, ExitChain
  <2>4. QED BY <1>1, <1>3, <1>4, <2>1, <2>2, <2>3
<1>11. InvocationsChained'
  BY <1>1, <1>2, <1>7, <1>8, <1>9, <1>10 DEF InvocationsChained
<1>12. QED BY <1>2, <1>6, <1>11

-----------------------------------------------------------------------------
(* Steps keep the minima of consumed counts in order.                      *)

\* 1 is never stopped, and no count is reported beyond what is available.
LEMMA MinimaTypes ==
  ASSUME CountState, MinimaInOrder
  PROVE  /\ consumed \in Nat /\ transitory \in [Threads -> Nat]
         /\ \A u \in Threads : transitory[u] \in Nat /\ segNo[u] \in Nat
         /\ 1 \in Kernels \ stopped
<1>1. stopped \subseteq Consumers
  BY PipelineFacts DEF CountState, InvocationsChained
<1>2. QED BY <1>1, KernelFacts, CountTypes DEF MinimaInOrder

\* A step that moves no count; it may let a thread forget its minimum.
LEMMA MinimaKept ==
  ASSUME CountState, MinimaInOrder,
         UNCHANGED <<count, stopped, consumed>>,
         transitory' \in [Threads -> Nat],
         \A u \in Threads :
           \/ transitory'[u] = 0
           \/ /\ transitory'[u] = transitory[u]
              /\ Active(u) => Active(u)' /\ segNo'[u] = segNo[u]
              /\ Active(u) => \A k \in Kernels \ stopped : Passed(u, k)' <=> Passed(u, k)
  PROVE  MinimaInOrder'
<1>1. consumed \in Nat /\ 1 \in Kernels \ stopped /\ \A u \in Threads : transitory[u] \in Nat
  BY MinimaTypes
<1>2. ASSUME NEW u \in Threads, transitory'[u] # 0
      PROVE  /\ transitory'[u] = transitory[u] /\ segNo'[u] = segNo[u]
             /\ Active(u) /\ Active(u)' /\ Passed(u, 1)' /\ consumed <= transitory[u]
             /\ \A k \in Kernels \ stopped : Passed(u, k)' <=> Passed(u, k)
             /\ \A v \in Threads : Active(v) /\ segNo[v] < segNo[u] =>
                  transitory[v] <= transitory[u]
  BY <1>1, <1>2 DEF MinimaInOrder
<1>3. ASSUME NEW k \in Kernels \ stopped'
      PROVE  /\ consumed' <= count'[k]
             /\ \A u \in Threads : Passed(u, k)' => transitory'[u] <= count'[k]
  <2>1. k \in Kernels \ stopped /\ consumed <= count[k] /\ count[k] \in Nat
    <3>1. k \in Kernels \ stopped
      OBVIOUS
    <3>2. count[k] \in 0 .. MaxItems /\ MaxItems \in Nat
      BY <3>1, KernelBounds DEF CountState, CountsBounded
    <3>3. QED BY <3>1, <3>2 DEF MinimaInOrder
  <2>2. ASSUME NEW u \in Threads, Passed(u, k)' PROVE transitory'[u] <= count[k]
    <3>1. CASE transitory'[u] = 0
      BY <2>1, <3>1
    <3>2. CASE transitory'[u] # 0
      BY <1>2, <2>2, <3>2 DEF MinimaInOrder
    <3>3. QED BY <3>1, <3>2
  <2>3. QED BY <2>1, <2>2
<1>4. ASSUME NEW u \in Threads, transitory'[u] # 0, NEW v \in Threads, Active(v)',
             segNo'[v] < segNo'[u]
      PROVE  transitory'[v] <= transitory'[u]
  <2>1. CASE transitory'[v] = 0
    BY <1>1, <1>2, <1>4, <2>1
  <2>2. CASE transitory'[v] # 0
    BY <1>2, <1>4, <2>2
  <2>3. QED BY <2>1, <2>2
<1>5. QED BY <1>1, <1>2, <1>3, <1>4 DEF MinimaInOrder

\* A count is reported.
LEMMA MinimaAtLoopExit ==
  ASSUME CountState, MinimaInOrder, NEW t \in Threads, LoopExit(t)
  PROVE  MinimaInOrder'
<1> DEFINE k == kernelId[t]
           tr == transitory'[t]
<1>1. /\ UNCHANGED <<stopped, consumed, kernelId, segNo, target>>
      /\ count' = [count EXCEPT ![k] = to[t]]
      /\ At(t, "loopExit") /\ Goto(t, "exit")
      /\ transitory' = [transitory EXCEPT ![t] = IF k = 1 THEN to[t] ELSE Minimum(t)]
  BY DEF LoopExit
<1>2. /\ Active(t) /\ InKernel(t, k) /\ MayExit(t, k) /\ count[k] <= to[t]
      /\ OthersStay(t) /\ pc'[t] = "exit" /\ k \in Kernels /\ k \in Nat
  BY <1>1, LoopExitChain, LockTypes, KernelFacts DEF CountState, Goto, OthersStay
<1>3. /\ consumed \in Nat /\ transitory \in [Threads -> Nat] /\ 1 \in Kernels \ stopped
      /\ \A u \in Threads : transitory[u] \in Nat /\ segNo[u] \in Nat /\ kernelId[u] \in Nat
      /\ to[t] \in Nat /\ k \notin stopped /\ Kernels \subseteq Nat
      /\ \A m \in Kernels : count[m] \in Nat
  BY <1>2, MinimaTypes, CountTypes, KernelFacts DEF CountState, InvocationsChained
<1>4. /\ tr = IF k = 1 THEN to[t] ELSE Minimum(t)
      /\ \A u \in Threads \ {t} : transitory'[u] = transitory[u]
      /\ tr \in Nat /\ tr <= to[t]
      /\ k # 1 => tr <= transitory[t] /\ tr \in {transitory[t], to[t]}
  BY <1>1, <1>3, MinOfTwo DEF Minimum
<1>5. /\ count'[k] = to[t]
      /\ \A m \in Kernels \ {k} : count'[m] = count[m]
      /\ \A m \in Kernels : count[m] <= count'[m] /\ count'[m] \in Nat
  BY <1>1, <1>2, <1>3, CountTypes
<1>6. /\ \A u \in Threads : Active(u)' <=> Active(u)
      /\ \A u \in Threads \ {t} : \A m \in Kernels : Passed(u, m)' <=> Passed(u, m)
      /\ \A m \in Kernels : Passed(t, m)' <=> Passed(t, m) \/ m = k
  BY <1>1, <1>2, <1>3 DEF Active, Passed, OthersStay, At
<1>7. ASSUME NEW m \in Kernels \ stopped
      PROVE  /\ consumed <= count'[m]
             /\ \A u \in Threads : Passed(u, m)' => transitory'[u] <= count'[m]
  <2>1. consumed <= count[m] /\ \A u \in Threads : Passed(u, m) => transitory[u] <= count[m]
    BY DEF MinimaInOrder
  <2>2. consumed <= count'[m]
    BY <1>3, <1>5, <2>1
  <2>3. ASSUME NEW u \in Threads, Passed(u, m)' PROVE transitory'[u] <= count'[m]
    <3>1. CASE u # t
      BY <1>3, <1>4, <1>5, <1>6, <2>1, <2>3, <3>1
    <3>2. CASE u = t /\ m = k
      BY <1>4, <1>5, <3>2
    <3>3. CASE u = t /\ m # k
      <4>1. m < k
        BY <1>2, <1>3, <1>6, <2>3, <3>3 DEF Passed
      <4>2. k # 1
        BY <1>2, <1>3, <4>1, KernelFacts
      <4>3. transitory[t] <= count[m]
        BY <1>6, <2>1, <2>3, <3>3
      <4>4. QED BY <1>3, <1>4, <1>5, <3>3, <4>2, <4>3
    <3>4. QED BY <3>1, <3>2, <3>3
  <2>4. QED BY <2>2, <2>3
<1>8. consumed <= count[k] /\ consumed <= to[t]
  <2>1. consumed <= count[k]
    BY <1>2, <1>3 DEF MinimaInOrder
  <2>2. QED BY <1>2, <1>3, <2>1
\* Earlier segments have passed the kernel.
<1>9. ASSUME NEW u \in Threads, Active(u), segNo[u] < segNo[t]
      PROVE  transitory[u] <= to[t]
  <2>1. LetOut(u, k)
    BY <1>2, <1>9, LockTypes, ExitOrder DEF CountState, EarlierOut
  <2>2. transitory[u] <= count[k]
    BY <1>2, <1>3, <2>1 DEF LetOut, Passed, MinimaInOrder
  <2>3. QED BY <1>2, <1>3, <2>2
\* Later ones have no minimum yet if this is the producer.
<1>10. ASSUME NEW u \in Threads, transitory[u] # 0, segNo[t] < segNo[u]
       PROVE  k # 1
  <2>1. SUFFICES ASSUME k = 1 PROVE FALSE
    OBVIOUS
  <2>2. Active(u) /\ Passed(u, 1)
    BY <1>10 DEF MinimaInOrder
  <2>3. /\ post[1] = segNo[t] /\ (post[1] > segNo[u] <=> LetOut(u, 1))
        /\ At(u, "exit") /\ kernelId[u] = 1 => post[1] = segNo[u]
    BY <1>2, <1>3, <2>1, <2>2, LockTypes
       DEF CountState, PositionsMatchCounters, MayExit, Holds
  <2>4. QED BY <1>3, <1>10, <2>2, <2>3 DEF Passed, LetOut
<1>11. ASSUME NEW u \in Threads, transitory'[u] # 0
       PROVE  /\ Active(u) /\ Passed(u, 1)' /\ consumed <= transitory'[u]
              /\ \A v \in Threads : Active(v) /\ segNo[v] < segNo[u] =>
                   transitory'[v] <= transitory'[u]
  <2>1. CASE u = t
    <3>1. k # 1 => consumed <= transitory[t] /\ Passed(t, 1) /\
            \A v \in Threads : Active(v) /\ segNo[v] < segNo[t] =>
              transitory[v] <= transitory[t]
      <4>1. SUFFICES ASSUME k # 1 PROVE transitory[t] # 0
        BY DEF MinimaInOrder
      <4>2. QED BY <1>3, <1>4, <1>11, <2>1, <4>1
    <3>2. Passed(t, 1)' /\ consumed <= tr
      BY <1>3, <1>4, <1>6, <1>8, <3>1
    <3>3. ASSUME NEW v \in Threads, Active(v), segNo[v] < segNo[t]
          PROVE  transitory'[v] <= tr
      <4>1. v # t
        BY <1>3, <3>3
      <4>2. transitory'[v] = transitory[v] /\ transitory[v] <= to[t]
        BY <1>4, <1>9, <3>3, <4>1
      <4>3. QED BY <1>4, <3>1, <3>3, <4>2
    <3>4. QED BY <1>2, <2>1, <3>2, <3>3
  <2>2. CASE u # t
    <3>1. transitory'[u] = transitory[u] /\ transitory[u] # 0
      BY <1>4, <1>11, <2>2
    <3>2. /\ Active(u) /\ Passed(u, 1) /\ consumed <= transitory[u]
          /\ \A v \in Threads : Active(v) /\ segNo[v] < segNo[u] =>
               transitory[v] <= transitory[u]
      BY <3>1 DEF MinimaInOrder
    <3>3. ASSUME NEW v \in Threads, Active(v), segNo[v] < segNo[u]
          PROVE  transitory'[v] <= transitory'[u]
      <4>1. CASE v = t
        <5>1. k # 1
          BY <1>10, <3>1, <3>3, <4>1
        <5>2. tr <= transitory[t] /\ transitory[t] <= transitory[u]
          BY <1>4, <3>2, <3>3, <4>1, <5>1
        <5>3. QED BY <1>3, <1>4, <3>1, <4>1, <5>2
      <4>2. CASE v # t
        BY <1>4, <3>1, <3>2, <3>3, <4>2
      <4>3. QED BY <4>1, <4>2
    <3>4. QED BY <1>3, <1>6, <2>2, <3>1, <3>2, <3>3
  <2>3. QED BY <2>1, <2>2
<1>12. consumed' \in Nat /\ transitory' \in [Threads -> Nat]
  BY <1>1, <1>3, <1>4
<1>13. QED BY <1>1, <1>6, <1>7, <1>11, <1>12 DEF MinimaInOrder

\* A consumer that stops no longer bounds the minima.
LEMMA MinimaAtStop ==
  ASSUME CountState, MinimaInOrder, NEW t \in Threads, LoopExitStopping(t),
         kernelId[t] \in Consumers \ DataParallel
  PROVE  MinimaInOrder'
<1> DEFINE k == kernelId[t]
<1>1. /\ UNCHANGED <<consumed, transitory, kernelId, segNo, target>>
      /\ count' = [count EXCEPT ![k] = to[t]]
      /\ stopped' = stopped \union {k}
      /\ At(t, "loopExit") /\ Goto(t, "exit")
  BY DEF LoopExitStopping, locals
<1>2. OthersStay(t) /\ pc'[t] = "exit" /\ k \in Kernels /\ k \in Nat
  BY <1>1, LockTypes, KernelFacts DEF CountState, Goto, OthersStay
<1>3. \A m \in Kernels \ {k} : count'[m] = count[m]
  BY <1>1, CountTypes
<1>4. /\ \A u \in Threads : Active(u)' <=> Active(u)
      /\ \A u \in Threads : \A m \in Kernels \ {k} : Passed(u, m)' <=> Passed(u, m)
  BY <1>1, <1>2 DEF Active, Passed, OthersStay, At
<1>5. 1 \in Kernels \ {k} /\ Kernels \ stopped' \subseteq Kernels \ ({k} \union stopped)
  BY <1>1, KernelFacts
<1>6. QED BY <1>1, <1>3, <1>4, <1>5 DEF MinimaInOrder

\* The end of a segment publishes the minimum its thread has collected.
LEMMA MinimaAtEnd ==
  ASSUME CountState, MinimaInOrder, NEW t \in Threads, ExitLastKernel(t)
  PROVE  /\ MinimaInOrder' /\ consumed <= consumed'
         /\ \A k \in Kernels \ stopped : consumed' <= count[k]
<1>1. /\ UNCHANGED <<count, stopped, segNo>>
      /\ consumed' = NewConsumed(t) /\ kernelId[t] = NumKernels
      /\ transitory' = [transitory EXCEPT ![t] = 0]
      /\ kernelId' = [kernelId EXCEPT ![t] = 1]
      /\ At(t, "exit") /\ Goto(t, "fetch")
  BY DEF ExitLastKernel, ForgetLocals
<1>2. Active(t) /\ OthersStay(t) /\ pc'[t] = "fetch" /\ MayExit(t, NumKernels)
      /\ PositionsMatchCounters
  <2>1. target' = [target EXCEPT ![t] = 1]
    BY DEF ExitLastKernel, ForgetLocals
  <2>2. QED BY <1>1, <2>1, LockTypes DEF CountState, Active, At, Goto, OthersStay, Holds
<1>3. /\ consumed \in Nat /\ transitory \in [Threads -> Nat]
      /\ \A u \in Threads : transitory[u] \in Nat /\ segNo[u] \in Nat
      /\ \A m \in Kernels : count[m] \in Nat
  BY MinimaTypes, CountTypes
<1>4. consumed' \in Nat /\ consumed <= consumed'
      /\ consumed' = IF transitory[t] = 0 THEN consumed ELSE transitory[t]
  <2>1. transitory[t] # 0 => consumed <= transitory[t]
    BY DEF MinimaInOrder
  <2>2. QED BY <1>1, <1>3, <2>1 DEF NewConsumed
<1>5. ASSUME NEW k \in Kernels \ stopped PROVE consumed' <= count[k]
  <2>1. Passed(t, k)
    BY <1>1, KernelFacts DEF Passed
  <2>2. transitory[t] <= count[k] /\ consumed <= count[k]
    BY <2>1 DEF MinimaInOrder
  <2>3. QED BY <1>4, <2>2
<1>6. ASSUME NEW u \in Threads, transitory'[u] # 0
      PROVE  /\ u # t /\ transitory'[u] = transitory[u] /\ transitory[u] # 0
             /\ Active(u)' /\ Active(u)
             /\ \A k \in Kernels : Passed(u, k)' <=> Passed(u, k)
  <2>1. u # t /\ transitory'[u] = transitory[u]
    BY <1>1, <1>3, <1>6
  <2>2. Active(u)
    BY <1>6, <2>1 DEF MinimaInOrder
  <2>3. QED BY <1>2, <1>6, <2>1, <2>2 DEF Active, Passed, OthersStay, At
\* Every other thread carries a later segment.
<1>7. ASSUME NEW u \in Threads, Active(u), u # t PROVE segNo[t] < segNo[u]
  <2>1. EarlierOut(t, NumKernels)
    BY <1>2, KernelFacts, ExitOrder
  <2>2. ~LetOut(u, NumKernels)
    <3>1. kernelId[u] \in Kernels
      BY CountTypes
    <3>2. kernelId[u] \in Nat /\ kernelId[u] <= NumKernels /\ NumKernels \in Nat
      BY <3>1, KernelFacts
    <3>3. QED BY <3>2 DEF LetOut
  <2>3. segNo[u] # segNo[t]
    BY <1>2, <1>7 DEF PositionsMatchCounters
  <2>4. ~(segNo[u] < segNo[t])
    BY <1>7, <2>1, <2>2 DEF EarlierOut
  <2>5. QED BY <1>3, <2>3, <2>4
<1>8. ASSUME NEW u \in Threads, transitory'[u] # 0
      PROVE  /\ Active(u)' /\ Passed(u, 1)' /\ consumed' <= transitory'[u]
             /\ \A v \in Threads : Active(v)' /\ segNo[v] < segNo[u] =>
                  transitory'[v] <= transitory'[u]
  <2>1. /\ Passed(u, 1) /\ consumed <= transitory[u]
        /\ \A v \in Threads : Active(v) /\ segNo[v] < segNo[u] =>
             transitory[v] <= transitory[u]
    BY <1>6, <1>8 DEF MinimaInOrder
  <2>2. consumed' <= transitory[u]
    BY <1>2, <1>4, <1>6, <1>7, <1>8, <2>1
  <2>3. ASSUME NEW v \in Threads, Active(v)', segNo[v] < segNo[u]
        PROVE  transitory'[v] <= transitory'[u]
    <3>1. v # t
      BY <1>2, <2>3 DEF Active
    <3>2. Active(v) /\ transitory'[v] = transitory[v]
      BY <1>1, <1>3, <1>2, <2>3, <3>1 DEF Active, OthersStay
    <3>3. QED BY <1>6, <1>8, <2>1, <2>3, <3>2
  <2>4. QED BY <1>6, <1>8, <2>1, <2>2, <2>3, KernelFacts
<1>9. ASSUME NEW k \in Kernels \ stopped, NEW u \in Threads, Passed(u, k)'
      PROVE  transitory'[u] <= count[k]
  <2>1. CASE transitory'[u] = 0
    BY <1>3, <2>1
  <2>2. CASE transitory'[u] # 0
    BY <1>6, <1>9, <2>2 DEF MinimaInOrder
  <2>3. QED BY <2>1, <2>2
<1>10. transitory' \in [Threads -> Nat]
  BY <1>1, <1>3
<1>11. MinimaInOrder'
  BY <1>1, <1>4, <1>5, <1>8, <1>9, <1>10 DEF MinimaInOrder
<1>12. QED BY <1>4, <1>5, <1>11

-----------------------------------------------------------------------------
(* The invariant.                                                          *)

LEMMA CountParts ==
  ASSUME CountsBounded
  PROVE  CountInvariant <=> CountState /\ MinimaInOrder
BY DEF CountInvariant, CountState, LockState

\* Only kernels with state stop.
LEMMA StoppingKernels ==
  ASSUME CountState, NEW t \in Threads, EnterStopped(t) \/ LoopExitStopping(t)
  PROVE  kernelId[t] \in Consumers \ DataParallel
<1>1. kernelId[t] \in pipeline.mayStop
  BY DEF EnterStopped, LoopExitStopping, CountState, InvocationsChained
<1>2. QED BY <1>1, PipelineFacts DEF CountState

LEMMA LockStep ==
  ASSUME CountState, NEW t \in Threads, ThreadStep(t)
  PROVE  LockState'
<1>1. CountsBounded /\ LockState
  BY DEF CountState
<1>2. CASE ObtainSegmentNumber(t) \/ Leave(t)
  BY <1>1, <1>2, FetchLocks
<1>3. CASE ProducerStep(t) \/ EnterConsumer(t) \/ Return(t) \/ LoopExit(t)
  BY <1>1, <1>3, QuietLocks DEF ProducerStep
<1>4. CASE EnterShort(t)
  BY <1>1, <1>4, ShortLocks
<1>5. CASE EnterStopped(t)
  BY <1>1, <1>5, StoppingKernels, StoppedLocks
<1>6. CASE LoopExitStopping(t)
  BY <1>1, <1>6, StoppingKernels, QuietLocks
<1>7. CASE Invoke(t)
  BY <1>1, <1>7, InvokeLocks
<1>8. CASE ExitStep(t)
  BY <1>1, <1>8, ExitLocks
<1>9. CASE JumpStep(t)
  BY <1>1, <1>9, JumpLocks
<1>10. QED
  BY <1>2, <1>3, <1>4, <1>5, <1>6, <1>7, <1>8, <1>9
     DEF ThreadStep, ConsumerStep, KernelStep

\* The steps that neither enter a kernel's invocation nor report a count.
QuietStep(t) ==
  ObtainSegmentNumber(t) \/ Leave(t) \/ Expand(t) \/ EnterShort(t) \/ EnterStopped(t)
    \/ Return(t) \/ ExitStep(t) \/ JumpStep(t)

LEMMA QuietChain ==
  ASSUME CountState, NEW t \in Threads, QuietStep(t)
  PROVE  InvocationsChained'
<1>1. /\ UNCHANGED <<pipeline, count, internal, stopped>>
      /\ \/ pc'[t] \in {"fetch", "acquire", "jump", "exit", "done"}
         \/ /\ UNCHANGED <<kernelId, segNo>>
            /\ \/ At(t, "expand") /\ pc'[t] = "ready"
               \/ At(t, "run") /\ pc'[t] = "loopExit"
      /\ \A u \in Threads : avail'[u] \in {0, avail[u]}
      /\ \A u \in Threads \ {t} :
           /\ pc'[u] = pc[u] /\ kernelId'[u] = kernelId[u] /\ segNo'[u] = segNo[u]
           /\ from'[u] = from[u] /\ to'[u] = to[u] /\ avail'[u] = avail[u]
  <2>1. /\ pc \in [Threads -> ControlPoints] /\ segNo \in [Threads -> Nat]
        /\ kernelId \in [Threads -> Kernels]
        /\ from \in [Threads -> 0 .. MaxItems] /\ to \in [Threads -> 0 .. MaxItems]
        /\ avail \in [Threads -> 0 .. MaxItems]
    BY LockTypes, CountTypes DEF CountState, PositionsMatchCounters
  <2>2. CASE ObtainSegmentNumber(t) \/ Leave(t)
    <3>1. /\ UNCHANGED <<pipeline, counts, kernelId, locals>>
          /\ segNo' = segNo \/ segNo' = [segNo EXCEPT ![t] = nextSegNo]
          /\ \/ pc' = [pc EXCEPT ![t] = "acquire"]
             \/ pc' = [pc EXCEPT ![t] = "done"]
      BY <2>2, Zenon DEF ObtainSegmentNumber, Leave, Goto
    <3>2. pc'[t] \in {"acquire", "done"} /\ \A u \in Threads \ {t} : pc'[u] = pc[u]
      BY <2>1, <3>1
    <3>3. \A u \in Threads \ {t} : segNo'[u] = segNo[u]
      BY <2>1, <3>1
    <3>4. UNCHANGED <<pipeline, count, internal, stopped, kernelId, from, to, avail>>
      BY <3>1 DEF counts, locals
    <3>5. QED BY <3>2, <3>3, <3>4
  <2>3. CASE Expand(t) \/ Return(t)
    BY <2>1, <2>3 DEF Expand, Return, Goto, At, counts, locals
  <2>4. CASE EnterShort(t) \/ EnterStopped(t)
    BY <2>1, <2>4 DEF EnterShort, EnterStopped, Goto, counts, locals
  <2>5. CASE ExitStep(t)
    BY <2>1, <2>5 DEF ExitStep, ExitProducer, ExitConsumer, ExitLastKernel, ForgetLocals,
                      Goto, counts, locals
  <2>6. CASE JumpWithin(t)
    <3>1. /\ UNCHANGED <<pipeline, counts, segNo, from, to, avail>>
          /\ kernelId' = [kernelId EXCEPT ![t] = target[t]]
          /\ pc' = [pc EXCEPT ![t] = "acquire"]
      BY <2>6, Zenon DEF JumpWithin, Goto
    <3>2. pc'[t] = "acquire" /\ \A u \in Threads \ {t} : pc'[u] = pc[u] /\ kernelId'[u] = kernelId[u]
      BY <2>1, <3>1
    <3>3. QED BY <3>1, <3>2 DEF counts
  <2>8. CASE JumpToEnd(t)
    <3>1. /\ UNCHANGED <<pipeline, counts, segNo>>
          /\ pc' = [pc EXCEPT ![t] = "fetch"] /\ ForgetLocals(t)
      BY <2>8, Zenon DEF JumpToEnd, Goto
    <3>2. /\ kernelId' = [kernelId EXCEPT ![t] = 1]
          /\ from' = [from EXCEPT ![t] = 0] /\ to' = [to EXCEPT ![t] = 0]
          /\ avail' = [avail EXCEPT ![t] = 0]
      BY <3>1, Zenon DEF ForgetLocals
    <3>3. pc'[t] = "fetch" /\ \A u \in Threads \ {t} : pc'[u] = pc[u] /\ kernelId'[u] = kernelId[u]
      BY <2>1, <3>1, <3>2
    <3>4. \A u \in Threads \ {t} : from'[u] = from[u] /\ to'[u] = to[u]
      BY <2>1, <3>2
    <3>5. avail'[t] = 0 /\ \A u \in Threads \ {t} : avail'[u] = avail[u]
      BY <2>1, <3>2
    <3>6. UNCHANGED <<pipeline, count, internal, stopped>>
      BY <3>1 DEF counts
    <3>7. \A u \in Threads : avail'[u] \in {0, avail[u]}
      BY <3>5
    <3>8. \A u \in Threads \ {t} : segNo'[u] = segNo[u]
      BY <3>1
    <3>9. QED BY <3>3, <3>4, <3>5, <3>6, <3>7, <3>8
  <2>7. QED BY <2>2, <2>3, <2>4, <2>5, <2>6, <2>8 DEF QuietStep, JumpStep
<1>2. (Expand(t) \/ Return(t)) => UNCHANGED <<from, to, avail>>
  BY DEF Expand, Return, locals
<1>3. ASSUME NEW u \in Threads, NEW k \in Kernels, InKernel(u, k)'
      PROVE  /\ InKernel(u, k)
             /\ from'[u] = from[u] /\ to'[u] = to[u] /\ avail'[u] = avail[u]
             /\ segNo'[u] = segNo[u]
             /\ pc'[u] \in {"run", "loopExit"} => pc[u] \in {"run", "loopExit"}
  <2>1. CASE u # t
    BY <1>1, <1>3, <2>1 DEF InKernel
  <2>2. CASE u = t
    <3>1. /\ UNCHANGED <<kernelId, segNo>>
          /\ \/ At(t, "expand") /\ pc'[t] = "ready"
             \/ At(t, "run") /\ pc'[t] = "loopExit"
      BY <1>1, <1>3, <2>2 DEF InKernel
    <3>2. UNCHANGED <<from, to, avail>>
      <4>1. Expand(t) \/ Return(t)
        BY <3>1, Zenon
           DEF QuietStep, ObtainSegmentNumber, Leave, EnterShort, EnterStopped, ExitStep,
               ExitProducer, ExitConsumer, ExitLastKernel, JumpStep, JumpWithin, JumpToEnd, At
      <4>2. QED BY <1>2, <4>1
    <3>3. QED BY <1>3, <2>2, <3>1, <3>2 DEF InKernel, At
  <2>3. QED BY <2>1, <2>2
<1>4. QED BY <1>1, <1>3, ChainKept

LEMMA ChainStep ==
  ASSUME CountState, NEW t \in Threads, ThreadStep(t)
  PROVE  InvocationsChained'
<1>1. CASE QuietStep(t)
  BY <1>1, QuietChain
<1>2. CASE EnterProducer(t) \/ EnterConsumer(t)
  BY <1>2, EnterChain
<1>3. CASE Invoke(t)
  BY <1>3, InvokeChain
<1>4. CASE LoopExit(t) \/ LoopExitStopping(t)
  BY <1>4, StoppingKernels, LoopExitChain
<1>5. QED
  BY <1>1, <1>2, <1>3, <1>4
     DEF ThreadStep, ProducerStep, ConsumerStep, KernelStep, QuietStep

LEMMA MinimaStep ==
  ASSUME CountState, MinimaInOrder, NEW t \in Threads, ThreadStep(t)
  PROVE  MinimaInOrder'
<1>1. CASE LoopExit(t)
  BY <1>1, MinimaAtLoopExit
<1>2. CASE LoopExitStopping(t)
  BY <1>2, StoppingKernels, MinimaAtStop
<1>3. CASE ExitLastKernel(t)
  BY <1>3, MinimaAtEnd
<1>4. CASE ~(LoopExit(t) \/ LoopExitStopping(t) \/ ExitLastKernel(t))
  <2>1. /\ pc \in [Threads -> ControlPoints] /\ segNo \in [Threads -> Nat]
        /\ kernelId \in [Threads -> Kernels] /\ transitory \in [Threads -> Nat]
        /\ kernelId[t] \in Nat /\ Kernels \subseteq Nat
    BY LockTypes, CountTypes, MinimaTypes, KernelFacts DEF CountState, PositionsMatchCounters
  <2>2. At(t, "fetch") => transitory[t] = 0
    BY DEF MinimaInOrder, Active, At
  <2>3. /\ UNCHANGED <<count, stopped, consumed>>
        /\ transitory' \in [Threads -> Nat]
        /\ \A u \in Threads \ {t} : transitory'[u] = transitory[u]
        /\ \A u \in Threads \ {t} :
             pc'[u] = pc[u] /\ kernelId'[u] = kernelId[u] /\ segNo'[u] = segNo[u]
        /\ \/ transitory'[t] = 0
           \/ /\ transitory'[t] = transitory[t] /\ segNo'[t] = segNo[t] /\ Active(t)'
              /\ \A k \in Kernels \ stopped : Passed(t, k)' <=> Passed(t, k)
    <3>1. CASE ObtainSegmentNumber(t) \/ Leave(t)
      BY <2>1, <2>2, <3>1 DEF ObtainSegmentNumber, Leave, Goto, counts, locals
    <3>2. CASE EnterProducer(t)
      BY <2>1, <3>2 DEF EnterProducer, Goto, At, counts, Active, Passed
    <3>3. CASE EnterConsumer(t) \/ EnterShort(t) \/ EnterStopped(t)
      <4>1. /\ UNCHANGED <<counts, transitory, segNo, kernelId>>
            /\ At(t, "acquire") /\ kernelId[t] # 1
        BY <3>3, Zenon DEF EnterConsumer, EnterShort, EnterStopped, locals
      <4>2. \/ Goto(t, "ready") \/ Goto(t, "jump")
            \/ kernelId[t] \in stopped /\ Goto(t, "exit")
        BY <3>3, Zenon DEF EnterConsumer, EnterShort, EnterStopped
      <4>3. /\ \A u \in Threads \ {t} : pc'[u] = pc[u]
            /\ \/ pc'[t] \in {"ready", "jump"}
               \/ kernelId[t] \in stopped /\ pc'[t] = "exit"
        BY <2>1, <4>2 DEF Goto
      <4>4. \A k \in Kernels \ stopped : Passed(t, k)' <=> Passed(t, k)
        BY <4>1, <4>3 DEF Passed, At
      <4>5. Active(t)'
        BY <4>3 DEF Active
      <4>6. UNCHANGED <<count, stopped, consumed>>
        BY <4>1 DEF counts
      <4>7. QED BY <2>1, <4>1, <4>3, <4>4, <4>5, <4>6
    <3>4. CASE Expand(t) \/ Invoke(t) \/ Return(t)
      BY <2>1, <3>4 DEF Expand, Invoke, Return, Goto, At, counts, locals, Active, Passed
    <3>5. CASE ExitProducer(t) \/ ExitConsumer(t)
      <4>1. /\ UNCHANGED <<count, stopped, consumed, transitory, segNo>>
            /\ At(t, "exit") /\ pc' = [pc EXCEPT ![t] = "acquire"]
            /\ kernelId' = [kernelId EXCEPT ![t] = kernelId[t] + 1]
        BY <2>1, <3>5 DEF ExitProducer, ExitConsumer, Goto, counts, locals
      <4>2. pc'[t] = "acquire" /\ kernelId'[t] = kernelId[t] + 1
        BY <2>1, <4>1
      <4>3. \A k \in Kernels : Passed(t, k)' <=> Passed(t, k)
        BY <2>1, <4>1, <4>2 DEF Passed, At
      <4>4. QED BY <2>1, <4>1, <4>2, <4>3 DEF Active
    <3>6. CASE JumpStep(t)
      BY <2>1, <3>6 DEF JumpStep, JumpWithin, JumpToEnd, ZeroTransitory, ForgetLocals, Goto, counts
    <3>7. QED
      BY <1>4, <3>1, <3>2, <3>3, <3>4, <3>5, <3>6
         DEF ThreadStep, ProducerStep, ConsumerStep, KernelStep, ExitStep
  <2>4. \A u \in Threads \ {t} :
          /\ Active(u)' <=> Active(u)
          /\ \A k : Passed(u, k)' <=> Passed(u, k)
    BY <2>3 DEF Active, Passed, At
  <2>5. ASSUME NEW u \in Threads
        PROVE  \/ transitory'[u] = 0
               \/ /\ transitory'[u] = transitory[u]
                  /\ Active(u) => Active(u)' /\ segNo'[u] = segNo[u]
                  /\ Active(u) =>
                       \A k \in Kernels \ stopped : Passed(u, k)' <=> Passed(u, k)
    BY <2>3, <2>4
  <2>6. QED BY <2>3, <2>5, MinimaKept
<1>5. QED BY <1>1, <1>2, <1>3, <1>4

LEMMA InitCounts == Init => CountInvariant
<1> SUFFICES ASSUME Init PROVE CountInvariant
  OBVIOUS
<1>1. /\ nextSegNo = 0 /\ stopped = {} /\ consumed = 0
      /\ \A k \in Kernels : pre[k] = 0 /\ post[k] = 0 /\ internal[k] = 0 /\ count[k] = 0
      /\ \A t \in Threads :
           /\ pc[t] = "fetch" /\ kernelId[t] = 1 /\ avail[t] = 0 /\ transitory[t] = 0
      /\ pre \in [Kernels -> {0}] /\ post \in [Kernels -> {0}]
      /\ segNo \in [Threads -> {0}] /\ transitory \in [Threads -> {0}]
  BY DEF Init
<1>2. /\ DataParallel \subseteq Kernels /\ 1 \in Kernels
      /\ \A t \in Threads : ~Active(t) /\ \A k : ~InKernel(t, k)
  BY <1>1, PipelineFacts, InitInv, KernelFacts
     DEF Active, InKernel, Inv, ReclaimInvariant
<1>3. PositionsMatchCounters
  BY <1>1, <1>2 DEF PositionsMatchCounters
<1>4. \A t \in Threads : Holds(t)
  BY <1>1 DEF Holds, At
<1>5. InvocationsChained
  BY <1>1, <1>2 DEF InvocationsChained
<1>6. MinimaInOrder
  BY <1>1 DEF MinimaInOrder
<1>7. QED BY <1>3, <1>4, <1>5, <1>6 DEF CountInvariant

\* A step that touches neither counts nor threads.
LEMMA QuietMemory ==
  ASSUME CountInvariant,
         UNCHANGED <<pipeline, nextSegNo, pre, post, counts, control, locals>>
  PROVE  CountInvariant'
BY DEF CountInvariant, PositionsMatchCounters, Holds, InvocationsChained, MinimaInOrder,
       counts, control, locals, Active, LetOut, LetIn, InKernel, Passed, At, MayEnter,
       MayExit, EntryCount, DataParallel

LEMMA StepCounts ==
  ASSUME Inv, CountInvariant, [Next]_vars
  PROVE  CountInvariant'
<1>1. CountsBounded /\ CountsBounded' /\ CountState /\ MinimaInOrder
  BY StepInv, CountParts DEF Inv, ReclaimInvariant
<1>2. ASSUME NEW t \in Threads, ThreadStep(t)
      PROVE  CountInvariant'
  <2>1. LockState' /\ InvocationsChained' /\ MinimaInOrder'
    BY <1>1, <1>2, LockStep, ChainStep, MinimaStep
  <2>2. QED BY <2>1 DEF LockState, CountInvariant
<1>3. CASE ReleaseBuffer \/ Returned \/ UNCHANGED vars
  BY <1>3, QuietMemory DEF ReleaseBuffer, Returned, vars, locks
<1>4. QED BY <1>2, <1>3 DEF Next

LEMMA CountsHold == Spec => [](Inv /\ CountInvariant)
<1>1. Init => Inv /\ CountInvariant
  BY InitInv, InitCounts
<1>2. Inv /\ CountInvariant /\ [Next]_vars => (Inv /\ CountInvariant)'
  BY StepInv, StepCounts
<1>3. QED BY <1>1, <1>2, PTL DEF Spec

\* For every pipeline and number of threads, the invocations of a kernel are
\* chained in segment order and every thread's minimum of consumed counts is
\* one: it bounds what each kernel it has passed has processed, and threads of
\* later segments have no smaller one (computeMinimumConsumedItemCounts,
\* writeUpdatedItemCounts).
THEOREM CountInvariantHolds == Spec => []CountInvariant
<1>1. Inv /\ CountInvariant => CountInvariant
  OBVIOUS
<1>2. QED BY <1>1, CountsHold, PTL

-----------------------------------------------------------------------------
(* The refinement.                                                         *)

LEMMA InitStream == Init => Stream!StreamInit
BY KernelFacts DEF Init, Stream!StreamInit

\* A report of the producer appends, one of a consumer processes.
LEMMA ReportImplements ==
  ASSUME CountState, NEW t \in Threads, LoopExit(t) \/ LoopExitStopping(t)
  PROVE  [Stream!StreamNext]_Stream!streamVars
<1> DEFINE k == kernelId[t]
<1>1. /\ k \in Kernels /\ count' = [count EXCEPT ![k] = to[t]]
      /\ consumed' = consumed
      /\ count \in [Kernels -> 0 .. MaxItems] /\ 0 .. MaxItems \subseteq Nat
      /\ to[t] \in Nat /\ avail[t] \in Nat /\ \A m \in Kernels : count[m] \in Nat
  BY CountTypes DEF LoopExit, LoopExitStopping
<1>2. InvocationsChained /\ InKernel(t, k) /\ count[k] <= to[t]
  BY StoppingKernels, LoopExitChain DEF CountState
<1>3. CASE k = 1
  <2>1. /\ LoopExit(t) /\ stopped' = stopped /\ count'[1] = to[t]
        /\ \A m \in Consumers : count'[m] = count[m]
    <3>1. LoopExit(t)
      BY <1>3, StoppingKernels, KernelFacts
    <3>2. QED BY <1>1, <1>3, <3>1, KernelFacts DEF LoopExit
  <2>2. [m \in Consumers |-> count'[m]] = [m \in Consumers |-> count[m]]
    BY <2>1
  <2>3. CASE to[t] = count[1]
    BY <1>1, <2>1, <2>2, <2>3 DEF Stream!streamVars
  <2>4. CASE to[t] > count[1]
    BY <1>1, <2>1, <2>2, <2>4 DEF Stream!StreamNext, Stream!Produce
  <2>5. QED BY <1>1, <1>2, <1>3, <2>3, <2>4
<1>4. CASE k # 1
  <2>1. k \in Consumers /\ k \notin stopped /\ to[t] <= count[1] /\ 1 \in Kernels
    <3>1. 1 \in Kernels /\ k \in Consumers
      BY <1>1, <1>4, KernelFacts
    <3>2. k \notin stopped /\ to[t] <= avail[t] /\ avail[t] <= count[1]
      BY <1>1, <1>2, <1>4 DEF InvocationsChained
    <3>3. QED BY <1>1, <3>1, <3>2
  <2>2. count'[1] = count[1] /\ stopped' \in {stopped, stopped \union {k}}
    BY <1>1, <1>4, <2>1 DEF LoopExit, LoopExitStopping
  <2>3. PICK j \in Consumers : j = k
    BY <2>1
  <2>4. [m \in Consumers |-> count'[m]]
          = [[m \in Consumers |-> count[m]] EXCEPT ![j] = to[t]]
    BY <1>1, <2>1, <2>3, KernelFacts
  <2>5. to[t] \in [m \in Consumers |-> count[m]][j] .. count[1]
    BY <1>1, <1>2, <2>1, <2>3
  <2>6. Stream!Process(j)
    BY <1>1, <2>1, <2>2, <2>3, <2>4, <2>5 DEF Stream!Process
  <2>7. QED BY <2>6 DEF Stream!StreamNext
<1>5. QED BY <1>3, <1>4

\* The end of a segment reclaims.
LEMMA EndImplements ==
  ASSUME CountState, MinimaInOrder, NEW t \in Threads, ExitLastKernel(t)
  PROVE  [Stream!StreamNext]_Stream!streamVars
<1>1. /\ UNCHANGED <<count, stopped>>
      /\ consumed <= consumed' /\ consumed \in Nat /\ consumed' \in Nat
      /\ \A k \in Kernels \ stopped : consumed' <= count[k]
      /\ 1 \in Kernels \ stopped /\ count[1] \in Nat
  BY MinimaAtEnd, MinimaTypes, CountTypes DEF ExitLastKernel, MinimaInOrder
<1>2. CASE consumed' = consumed
  BY <1>1, <1>2 DEF Stream!streamVars
<1>3. CASE consumed' # consumed
  <2>1. consumed' \in consumed + 1 .. count[1]
    BY <1>1, <1>3
  <2>2. \A k \in Consumers \ stopped : consumed' <= [m \in Consumers |-> count[m]][k]
    BY <1>1, KernelFacts
  <2>3. Stream!Reclaim
    BY <1>1, <2>1, <2>2 DEF Stream!Reclaim
  <2>4. QED BY <2>3 DEF Stream!StreamNext
<1>4. QED BY <1>2, <1>3

LEMMA StepImplements ==
  ASSUME Inv, CountInvariant, [Next]_vars
  PROVE  [Stream!StreamNext]_Stream!streamVars
<1>1. CountState /\ MinimaInOrder
  BY CountParts DEF Inv, ReclaimInvariant
<1>2. CASE \E t \in Threads : LoopExit(t) \/ LoopExitStopping(t)
  BY <1>1, <1>2, ReportImplements
<1>3. CASE \E t \in Threads : ExitLastKernel(t)
  BY <1>1, <1>3, EndImplements
<1>4. CASE ~(\E t \in Threads : LoopExit(t) \/ LoopExitStopping(t) \/ ExitLastKernel(t))
  <2> DEFINE Same == UNCHANGED <<count, stopped, consumed>>
  <2>1. UNCHANGED counts => Same
    BY DEF counts
  <2>2. ASSUME NEW t \in Threads, ThreadStep(t)
        PROVE  Same
    <3>1. CASE ObtainSegmentNumber(t) \/ Leave(t)
      BY <2>1, <3>1, Zenon DEF ObtainSegmentNumber, Leave
    <3>2. CASE ProducerStep(t)
      BY <2>1, <3>2, Zenon DEF ProducerStep, EnterProducer, Expand
    <3>3. CASE ConsumerStep(t)
      BY <2>1, <3>3, Zenon DEF ConsumerStep, EnterConsumer, EnterShort, EnterStopped
    <3>4. CASE Invoke(t)
      BY <3>4, Zenon DEF Invoke
    <3>5. CASE Return(t)
      BY <2>1, <3>5, Zenon DEF Return
    <3>6. CASE ExitProducer(t) \/ ExitConsumer(t)
      BY <2>1, <3>6, Zenon DEF ExitProducer, ExitConsumer
    <3>7. CASE JumpStep(t)
      BY <2>1, <3>7, Zenon DEF JumpStep, JumpWithin, JumpToEnd
    <3>8. QED
      BY <1>4, <2>2, <3>1, <3>2, <3>3, <3>4, <3>5, <3>6, <3>7, Zenon
         DEF ThreadStep, KernelStep, ExitStep
  <2>3. ReleaseBuffer => Same
    BY <2>1, Zenon DEF ReleaseBuffer
  <2>4. UNCHANGED vars => Same
    BY <2>1 DEF vars
  <2>5. Same
    BY <2>2, <2>3, <2>4, Zenon DEF Next, Returned
  <2>6. QED BY <2>5 DEF Stream!streamVars
<1>5. QED BY <1>2, <1>3, <1>4

\* The counts that the threads of any pipeline keep behave as StreamSet
\* promises: only what every consumer still running has processed is given
\* back, although the minimum is collected kernel by kernel and written by
\* whichever thread ends its segment (writeConsumedItemCounts).
THEOREM CountsImplementStreamSet == Spec => ImplementsStreamSet
<1>1. Inv /\ CountInvariant /\ [Next]_vars => [Stream!StreamNext]_Stream!streamVars
  BY StepImplements
<1>2. Spec => [][Stream!StreamNext]_Stream!streamVars
  BY <1>1, CountsHold, PTL DEF Spec
<1>3. Spec => Stream!StreamInit
  BY InitStream DEF Spec
<1>4. QED BY <1>2, <1>3 DEF ImplementsStreamSet, Stream!StreamSpec
=============================================================================
