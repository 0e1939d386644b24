----------------------------- MODULE StreamBuffer -----------------------------
(***************************************************************************)
(* The memory of one stream set of a multithreaded pipeline: a circular    *)
(* ManagedDynamicBuffer that its producer expands while consumers of       *)
(* earlier segments still read the buffer it replaces.                     *)
(*                                                                         *)
(* Kernel 1 produces the stream set and every other kernel consumes it,    *)
(* each in a partition of its own.  The counters pre and post are those of *)
(* SegmentPipeline.  A buffer that was replaced is kept in the list of     *)
(* pending deletions until the consumed item count has passed a mark.      *)
(* Addresses are numbers of buffers and are never used again.              *)
(***************************************************************************)
EXTENDS Naturals, Sequences, FiniteSetsExt

CONSTANTS
  Threads,
  NumKernels,
  Pipelines,        \* attributes of the pipelines that may have been compiled
  InitialCapacity,  \* chunks of the first buffer
  MaxItems,         \* bound: items the producer can append in all
  MaxSegments,      \* bound: segments of the run
  AllOnes           \* the largest size_t, above every item count

Kernels   == 1 .. NumKernels
Consumers == 2 .. NumKernels
Items     == 0 .. MaxItems - 1
Unwritten == MaxItems                 \* content of a slot nobody stored to

ASSUME BoundAssumption ==
  /\ NumKernels \in Nat \ {0, 1}
  /\ InitialCapacity \in Nat \ {0}
  /\ MaxItems \in Nat
  /\ MaxSegments \in Nat
  /\ AllOnes \in Nat

\* dataParallel: kernels for which isDataParallel holds; jumpTarget: kernel a
\* consumer jumps to when its input is short; mayStop: consumers that may
\* terminate early; blockWidth: items in a chunk; nonFixedRate: the consumed
\* count is rounded down to chunks; segmentLengths: numbers of items the
\* producer may append in a segment; strideLength: consumers process whole
\* strides of this many items.
ASSUME PipelineAssumption ==
  \A p \in Pipelines :
    /\ p.dataParallel \subseteq Kernels
    /\ p.jumpTarget \in [Consumers -> 3 .. NumKernels + 1]
    /\ \A k \in Consumers : p.jumpTarget[k] > k
    /\ p.mayStop \subseteq Consumers \ p.dataParallel
    /\ p.blockWidth \in Nat \ {0}
    /\ p.nonFixedRate \in BOOLEAN
    /\ p.segmentLengths \subseteq Nat
    /\ p.strideLength \in Nat \ {0}
    /\ AllOnes > MaxItems + p.blockWidth

VARIABLES
  pipeline,      \* the compiled pipeline, fixed
  nextSegNo,     \* next logical segment number
  pre,           \* kernel -> pre-invocation counter
  post,          \* kernel -> post-invocation or full counter
  internal,      \* kernel -> STATE_FREE_INTERNAL item count (data-parallel)
  count,         \* kernel -> ITEM_COUNT: items produced or processed
  stopped,       \* consumers whose termination signal is set
  consumed,      \* CONSUMED_ITEM_COUNT of the stream set
  buffers,       \* every buffer allocated so far
  base,          \* LinearBaseAddress of the handle; 0 once released
  pending,       \* the PendingDeletionStruct of the handle
  pc,            \* thread -> control point
  segNo,         \* thread -> segment it carries
  kernelId,      \* thread -> kernel it is at
  target,        \* thread -> kernel a jump leads to
  from,          \* thread -> first item of its invocation
  to,            \* thread -> one after the last item of its invocation
  seenConsumed,  \* thread -> consumed item count its producer has read
  view,          \* thread -> local virtual base address
  avail,         \* thread -> locally available items
  transitory     \* thread -> TRANSITORY_CONSUMED_ITEM_COUNT

locks   == <<nextSegNo, pre, post>>
counts  == <<internal, count, stopped, consumed>>
memory  == <<buffers, base, pending>>
control == <<pc, segNo, kernelId, target>>
locals  == <<from, to, seenConsumed, view, avail, transitory>>
vars    == <<pipeline, locks, counts, memory, control, locals>>

ControlPoints ==
  { "fetch",     \* about to obtain a segment number
    "acquire",   \* waiting for the entry counter of kernelId
    "expand",    \* producer: not enough space, buffer not yet expanded
    "ready",     \* about to be invoked, entry counter held
    "run",       \* in the invocation
    "loopExit",  \* invocation over, its item counts not yet written
    "exit",      \* item counts written, exit counter not yet released
    "jump",      \* waiting to jump to target
    "done" }     \* left the pipeline loop

Empty == [buffer |-> 0, mark |-> AllOnes]
Entries == [buffer : Nat, mark : Nat]
Views == [buffer : Nat, at : Nat]

\* The types of the shared state and of each thread's locals.
TypeOK ==
  /\ pipeline \in Pipelines
  /\ nextSegNo \in Nat
  /\ pre \in [Kernels -> Nat] /\ post \in [Kernels -> Nat]
  /\ internal \in [Kernels -> Nat] /\ count \in [Kernels -> Nat]
  /\ stopped \subseteq Consumers
  /\ consumed \in Nat
  /\ \A b \in 1 .. Len(buffers) :
       /\ buffers[b].capacity \in Nat \ {0}
       /\ buffers[b].content \in
            [0 .. buffers[b].capacity * pipeline.blockWidth - 1 -> Items \union {Unwritten}]
       /\ buffers[b].freed \in Nat
  /\ base \in 0 .. Len(buffers)
  /\ pending.first \in Entries /\ pending.second \in Entries
  /\ pending.links \in Seq(Entries)
  /\ pc \in [Threads -> ControlPoints]
  /\ segNo \in [Threads -> Nat]
  /\ kernelId \in [Threads -> Kernels]
  /\ target \in [Threads -> 1 .. NumKernels + 1]
  /\ \A f \in {from, to, seenConsumed, avail, transitory} : f \in [Threads -> Nat]
  /\ view \in [Threads -> Views]

-----------------------------------------------------------------------------
(* Addresses and pending deletions: the operations of ManagedDynamicBuffer. *)

DataParallel == pipeline.dataParallel
BlockWidth   == pipeline.blockWidth
Chunk(i)     == i \div BlockWidth
ChunksFor(n) == (n + BlockWidth - 1) \div BlockWidth
RoundUp(n, m) == ((n + m - 1) \div m) * m
Slots(b)     == buffers[b].capacity * BlockWidth

\* Distance of item i from the start of v's buffer when it is addressed
\* through the virtual base address that getVirtualBasePtr computed at item
\* v.at.  The buffer is mapped twice in a row.
Offset(v, i) ==
  (Chunk(v.at) % buffers[v.buffer].capacity) * BlockWidth + i - Chunk(v.at) * BlockWidth

Mapped(v, i) ==
  /\ v.buffer # 0
  /\ buffers[v.buffer].freed = 0
  /\ i >= Chunk(v.at) * BlockWidth
  /\ Offset(v, i) < 2 * Slots(v.buffer)
Load(v, i) == buffers[v.buffer].content[Offset(v, i) % Slots(v.buffer)]

\* Items lo .. hi - 1 stored through v.
Stored(v, lo, hi) ==
  LET stored == { i \in lo .. hi - 1 : Mapped(v, i) }
      size   == Slots(v.buffer)
  IN [buffers EXCEPT ![v.buffer].content =
        [s \in DOMAIN @ |->
           IF \E i \in stored : Offset(v, i) % size = s
             THEN CHOOSE i \in stored : Offset(v, i) % size = s
             ELSE @[s]]]

Unmapped(bs) ==
  [b \in DOMAIN buffers |->
     IF b \in bs THEN [buffers[b] EXCEPT !.freed = @ + 1] ELSE buffers[b]]

\* Seeded fault: the third entry replaces the second.
AddedWithoutList(entry) ==
  IF pending.first.buffer = 0 THEN [pending EXCEPT !.first = entry]
                              ELSE [pending EXCEPT !.second = entry]

\* addToPendingDeletions: two fixed slots, then a linked list.
Added(entry) ==
  IF pending.first.buffer = 0 THEN [pending EXCEPT !.first = entry]
  ELSE IF pending.second.buffer = 0 THEN [pending EXCEPT !.second = entry]
  ELSE [pending EXCEPT !.links = Append(@, entry)]

\* How many leading links may go once c items are consumed.
RemovableLinks(c) ==
  Min({ n \in 0 .. Len(pending.links) :
          n < Len(pending.links) => pending.links[n + 1].mark >= c })

\* The buffers that removeFromPendingDeletions unmaps at consumed count c.
Removed(c) ==
  IF c <= pending.first.mark THEN {}
  ELSE {pending.first.buffer} \union
       IF pending.second.mark >= c THEN {}
       ELSE {pending.second.buffer} \union
            { pending.links[i].buffer : i \in 1 .. RemovableLinks(c) }

\* What it leaves in the structure.  When the second slot goes and no link is
\* left, only the second slot is cleared.
Remaining(c) ==
  LET kept == SubSeq(pending.links, RemovableLinks(c) + 1, Len(pending.links)) IN
  IF c <= pending.first.mark THEN pending
  ELSE IF pending.second.mark >= c
    THEN [first  |-> pending.second,
          second |-> IF pending.links = <<>> THEN Empty ELSE Head(pending.links),
          links  |-> IF pending.links = <<>> THEN <<>> ELSE Tail(pending.links)]
  ELSE IF kept = <<>> THEN [pending EXCEPT !.second = Empty, !.links = <<>>]
  ELSE [first  |-> kept[1],
        second |-> IF Len(kept) = 1 THEN Empty ELSE kept[2],
        links  |-> SubSeq(kept, 3, Len(kept))]

-----------------------------------------------------------------------------
(* The kernels' counters, as in SegmentPipeline.                           *)

EntryCount(k) == IF k \in DataParallel THEN pre[k] ELSE post[k]
MayEnter(t, k) == EntryCount(k) = segNo[t]
MayExit(t, k)  == post[k] = segNo[t]
ReleasePre(t) == IF kernelId[t] \in DataParallel
                 THEN [pre EXCEPT ![kernelId[t]] = segNo[t] + 1] ELSE pre

Goto(t, label) == pc' = [pc EXCEPT ![t] = label]
At(t, label) == pc[t] = label

\* Seeded fault: the next segment begins where the last one reported to be.
ReportedCount(k) == count[k]

\* Where the next invocation of kernel k begins.
ItemCount(k) == IF k \in DataParallel THEN internal[k] ELSE count[k]
HasJump(k) == pipeline.jumpTarget[k] # k + 1

NoView == [buffer |-> 0, at |-> 0]
ForgetLocals(t) ==
  /\ kernelId' = [kernelId EXCEPT ![t] = 1]
  /\ target' = [target EXCEPT ![t] = 1]
  /\ from' = [from EXCEPT ![t] = 0]
  /\ to' = [to EXCEPT ![t] = 0]
  /\ seenConsumed' = [seenConsumed EXCEPT ![t] = 0]
  /\ view' = [view EXCEPT ![t] = NoView]
  /\ avail' = [avail EXCEPT ![t] = 0]
  /\ transitory' = [transitory EXCEPT ![t] = 0]

-----------------------------------------------------------------------------
Init ==
  /\ pipeline \in Pipelines
  /\ nextSegNo = 0
  /\ pre = [k \in Kernels |-> 0]
  /\ post = [k \in Kernels |-> 0]
  /\ internal = [k \in Kernels |-> 0]
  /\ count = [k \in Kernels |-> 0]
  /\ stopped = {}
  /\ consumed = 0
  /\ buffers = << [capacity |-> InitialCapacity, freed |-> 0,
                   content |-> [s \in 0 .. InitialCapacity * BlockWidth - 1
                                  |-> Unwritten]] >>
  /\ base = 1
  /\ pending = [first |-> Empty, second |-> Empty, links |-> <<>>]
  /\ pc = [t \in Threads |-> "fetch"]
  /\ segNo = [t \in Threads |-> 0]
  /\ kernelId = [t \in Threads |-> 1]
  /\ target = [t \in Threads |-> 1]
  /\ from = [t \in Threads |-> 0]
  /\ to = [t \in Threads |-> 0]
  /\ seenConsumed = [t \in Threads |-> 0]
  /\ view = [t \in Threads |-> NoView]
  /\ avail = [t \in Threads |-> 0]
  /\ transitory = [t \in Threads |-> 0]

ObtainSegmentNumber(t) ==
  /\ At(t, "fetch")
  /\ nextSegNo < MaxSegments
  /\ segNo' = [segNo EXCEPT ![t] = nextSegNo]
  /\ nextSegNo' = nextSegNo + 1
  /\ Goto(t, "acquire")
  /\ UNCHANGED <<pipeline, pre, post, counts, memory, kernelId, target, locals>>

\* The bound on segments stands for the end of the input.
Leave(t) ==
  /\ At(t, "fetch")
  /\ nextSegNo = MaxSegments
  /\ Goto(t, "done")
  /\ UNCHANGED <<pipeline, locks, counts, memory, segNo, kernelId, target, locals>>

-----------------------------------------------------------------------------
(* The producer.                                                           *)

\* Seeded fault: items that running threads have yet to publish are not counted.
WritablePublished(c) == Slots(base) - (count[1] - c)

\* getWritableOutputItems at consumed count c.
Writable(c) ==
  Slots(base) - (ItemCount(1) - IF pipeline.nonFixedRate THEN Chunk(c) * BlockWidth ELSE c)

\* Entering the producer reads the consumed count, frees what it allows and
\* decides how many items the segment appends.
EnterProducer(t) ==
  /\ At(t, "acquire") /\ kernelId[t] = 1
  /\ MayEnter(t, 1)
  /\ seenConsumed' = [seenConsumed EXCEPT ![t] = consumed]
  /\ buffers' = Unmapped(Removed(consumed))
  /\ pending' = Remaining(consumed)
  /\ from' = [from EXCEPT ![t] = ItemCount(1)]
  /\ \E n \in pipeline.segmentLengths :
       LET end == Min({ItemCount(1) + n, MaxItems}) IN
       /\ to' = [to EXCEPT ![t] = end]
       /\ Goto(t, IF end - ItemCount(1) <= Writable(consumed) THEN "ready" ELSE "expand")
  /\ UNCHANGED <<pipeline, locks, counts, base, segNo, kernelId, target, view, avail,
                 transitory>>

\* Seeded faults: no wait for the segments that still write; safe to delete as
\* soon as a consumer moves.
MayExpandAtOnce(t) == TRUE
MarkAtConsumed(t) == seenConsumed[t]

\* ensureSufficientOutputSpace: "we need to wait for the other thread to
\* finish processing before we can proceed".
MayExpand(t) == 1 \in DataParallel => MayExit(t, 1)
SafeToDeleteAt(t) == from[t] + BlockWidth

\* reserveCapacity: at least twice the capacity; the chunks from the consumed
\* one to the last produced one are copied.
Expand(t) ==
  LET old      == buffers[base]
      first    == Chunk(seenConsumed[t])
      needed   == ChunksFor(to[t]) - first
      capacity == old.capacity + RoundUp(needed, old.capacity)
      size     == capacity * BlockWidth
      copied   == first * BlockWidth .. ChunksFor(from[t]) * BlockWidth - 1
      content  == [s \in 0 .. size - 1 |->
                     IF \E i \in copied : i % size = s
                       THEN old.content[(CHOOSE i \in copied : i % size = s) % Slots(base)]
                       ELSE Unwritten]
  IN
  /\ At(t, "expand")
  /\ MayExpand(t)
  /\ buffers' = Append(buffers, [capacity |-> capacity, freed |-> 0, content |-> content])
  /\ base' = Len(buffers) + 1
  /\ pending' = Added([buffer |-> base, mark |-> SafeToDeleteAt(t)])
  /\ Goto(t, "ready")
  /\ UNCHANGED <<pipeline, locks, counts, segNo, kernelId, target, locals>>

-----------------------------------------------------------------------------
(* The consumers.                                                          *)

\* Input that is short makes a root with a jump block jump.
EnterConsumer(t) ==
  LET k == kernelId[t] IN
  /\ At(t, "acquire") /\ k # 1
  /\ MayEnter(t, k)
  /\ k \notin stopped
  /\ from' = [from EXCEPT ![t] = ItemCount(k)]
  /\ \E n \in ItemCount(k) .. avail[t] :
       /\ to' = [to EXCEPT ![t] = n]
       /\ (n - ItemCount(k)) % pipeline.strideLength = 0
       /\ n = ItemCount(k) => ~HasJump(k)
       /\ Goto(t, "ready")
  /\ UNCHANGED <<pipeline, locks, counts, memory, segNo, kernelId, target,
                 seenConsumed, view, avail, transitory>>

EnterShort(t) ==
  LET k == kernelId[t] IN
  /\ At(t, "acquire") /\ k # 1
  /\ MayEnter(t, k)
  /\ k \notin stopped
  /\ HasJump(k)
  /\ target' = [target EXCEPT ![t] = pipeline.jumpTarget[k]]
  /\ pre' = IF pipeline.jumpTarget[k] > NumKernels THEN ReleasePre(t) ELSE pre
  /\ Goto(t, "jump")
  /\ UNCHANGED <<pipeline, nextSegNo, post, counts, memory, segNo, kernelId, locals>>

\* A consumer that has terminated leaves at once, without a minimum of
\* consumed counts; with a jump block it jumps to the next partition.
EnterStopped(t) ==
  LET k == kernelId[t] IN
  /\ At(t, "acquire") /\ k # 1
  /\ MayEnter(t, k)
  /\ k \in stopped
  /\ IF HasJump(k) THEN target' = [target EXCEPT ![t] = k + 1] /\ Goto(t, "jump")
                   ELSE UNCHANGED target /\ Goto(t, "exit")
  /\ UNCHANGED <<pipeline, locks, counts, memory, segNo, kernelId, locals>>

-----------------------------------------------------------------------------
(* Invocation and exit of any kernel.                                      *)

\* A data-parallel kernel stores its internal item count and lets the next
\* segment in.  The producer gets the address of its output from the handle.
Invoke(t) ==
  LET k == kernelId[t] IN
  /\ At(t, "ready")
  /\ internal' = IF k \in DataParallel THEN [internal EXCEPT ![k] = to[t]] ELSE internal
  /\ pre' = ReleasePre(t)
  /\ view' = IF k = 1 THEN [view EXCEPT ![t] = [buffer |-> base, at |-> from[t]]] ELSE view
  /\ Goto(t, "run")
  /\ UNCHANGED <<pipeline, nextSegNo, post, count, stopped, consumed, memory,
                 segNo, kernelId, target, from, to, seenConsumed, avail, transitory>>

\* The kernel's own code: the producer stores its items.
Return(t) ==
  /\ At(t, "run")
  /\ buffers' = IF kernelId[t] = 1 THEN Stored(view[t], from[t], to[t]) ELSE buffers
  /\ Goto(t, "loopExit")
  /\ UNCHANGED <<pipeline, locks, counts, base, pending, segNo, kernelId, target, locals>>

\* Seeded faults: the count of the last consumer alone; a lookbehind item
\* withheld without saturation at 0.
MinimumOfLast(t) == to[t]
MinimumUnsaturated(t) == Min({transitory[t], to[t]}) - 1

\* computeMinimumConsumedItemCounts, with the kernel's fully processed count.
Minimum(t) == Min({transitory[t], to[t]})

\* writeUpdatedItemCounts, after the wait for the post-invocation counter.
LoopExit(t) ==
  LET k == kernelId[t] IN
  /\ At(t, "loopExit")
  /\ k \in DataParallel => MayExit(t, k)
  /\ count' = [count EXCEPT ![k] = to[t]]
  /\ IF k = 1
       THEN /\ transitory' = [transitory EXCEPT ![t] = to[t]]
            /\ avail' = [avail EXCEPT ![t] = to[t]]
       ELSE /\ transitory' = [transitory EXCEPT ![t] = Minimum(t)]
            /\ UNCHANGED avail
  /\ Goto(t, "exit")
  /\ UNCHANGED <<pipeline, locks, internal, stopped, consumed, memory, segNo, kernelId,
                 target, from, to, seenConsumed, view>>

\* The consumer terminates in this segment.  A terminated kernel counts as
\* having processed everything, so its count does not lower the minimum.
LoopExitStopping(t) ==
  LET k == kernelId[t] IN
  /\ At(t, "loopExit")
  /\ k \in pipeline.mayStop
  /\ count' = [count EXCEPT ![k] = to[t]]
  /\ stopped' = stopped \union {k}
  /\ Goto(t, "exit")
  /\ UNCHANGED <<pipeline, locks, internal, consumed, memory, segNo, kernelId, target,
                 locals>>

\* checkForPartitionExit: the producer's local virtual base address is set
\* before its exit counter is released.
ExitProducer(t) ==
  /\ At(t, "exit") /\ kernelId[t] = 1
  /\ view' = [view EXCEPT ![t] = [buffer |-> base, at |-> seenConsumed[t]]]
  /\ post' = [post EXCEPT ![1] = segNo[t] + 1]
  /\ kernelId' = [kernelId EXCEPT ![t] = 2]
  /\ Goto(t, "acquire")
  /\ UNCHANGED <<pipeline, nextSegNo, pre, counts, memory, segNo, target, from, to,
                 seenConsumed, avail, transitory>>

ExitConsumer(t) ==
  LET k == kernelId[t] IN
  /\ At(t, "exit") /\ k \in 2 .. NumKernels - 1
  /\ post' = [post EXCEPT ![k] = segNo[t] + 1]
  /\ kernelId' = [kernelId EXCEPT ![t] = k + 1]
  /\ Goto(t, "acquire")
  /\ UNCHANGED <<pipeline, nextSegNo, pre, counts, memory, segNo, target, locals>>

\* writeConsumedItemCounts: the last consumer writes the minimum, but "if we
\* skipped over a partition, we don't want to update the current consumed
\* value".
NewConsumed(t) == IF transitory[t] = 0 THEN consumed ELSE transitory[t]

\* The end of the segment; the locals of the thread's loop are forgotten.
ExitLastKernel(t) ==
  /\ At(t, "exit") /\ kernelId[t] = NumKernels
  /\ consumed' = NewConsumed(t)
  /\ post' = [post EXCEPT ![NumKernels] = segNo[t] + 1]
  /\ Goto(t, "fetch")
  /\ ForgetLocals(t)
  /\ UNCHANGED <<pipeline, nextSegNo, pre, internal, count, stopped, memory, segNo>>

-----------------------------------------------------------------------------
(* Jumps.  The releases of the kernels passed over are taken as one step.  *)

ReleasedUntil(lock, t, kernels) ==
  [k \in Kernels |-> IF k \in kernels /\ kernelId[t] <= k /\ k < target[t]
                     THEN segNo[t] + 1 ELSE lock[k]]

\* zeroAnySkippedTransitoryConsumedItemCountsUntil.
ZeroTransitory(t) == [transitory EXCEPT ![t] = 0]

\* A jump acquires the target's entry counter, passes over the kernels before
\* it, and arrives at the target with that counter held.
JumpWithin(t) ==
  /\ At(t, "jump") /\ target[t] <= NumKernels
  /\ MayEnter(t, target[t])
  /\ pre' = ReleasedUntil(pre, t, DataParallel)
  /\ post' = ReleasedUntil(post, t, Kernels)
  /\ transitory' = ZeroTransitory(t)
  /\ kernelId' = [kernelId EXCEPT ![t] = target[t]]
  /\ Goto(t, "acquire")
  /\ UNCHANGED <<pipeline, nextSegNo, counts, memory, segNo, target, from, to,
                 seenConsumed, view, avail>>

\* A jump past the last kernel waits for that kernel's exit counter; the pre
\* counter of the kernel it leaves was released at once.
JumpToEnd(t) ==
  /\ At(t, "jump") /\ target[t] > NumKernels
  /\ MayExit(t, NumKernels)
  /\ pre' = ReleasedUntil(pre, t, DataParallel \ {kernelId[t]})
  /\ post' = ReleasedUntil(post, t, Kernels)
  /\ Goto(t, "fetch")
  /\ ForgetLocals(t)
  /\ UNCHANGED <<pipeline, nextSegNo, counts, memory, segNo>>

-----------------------------------------------------------------------------
\* Seeded fault: only what the consumers have passed is released.
ReleasedPassed == {base} \union Removed(consumed)

\* releaseBuffer: the current buffer and every pending one.
ReleasedBuffers == {base} \union Removed(AllOnes)

\* Once every thread has left, releaseOwnedBuffers.
ReleaseBuffer ==
  /\ \A t \in Threads : At(t, "done")
  /\ base # 0
  /\ buffers' = Unmapped(ReleasedBuffers)
  /\ pending' = Remaining(AllOnes)
  /\ base' = 0
  /\ UNCHANGED <<pipeline, locks, counts, control, locals>>

\* The pipeline has returned.
Returned == base = 0 /\ UNCHANGED vars

ProducerStep(t) == EnterProducer(t) \/ Expand(t)
ConsumerStep(t) == EnterConsumer(t) \/ EnterShort(t) \/ EnterStopped(t)
KernelStep(t) == Invoke(t) \/ Return(t) \/ LoopExit(t) \/ LoopExitStopping(t)
ExitStep(t) == ExitProducer(t) \/ ExitConsumer(t) \/ ExitLastKernel(t)
JumpStep(t) == JumpWithin(t) \/ JumpToEnd(t)
ThreadStep(t) ==
  ObtainSegmentNumber(t) \/ Leave(t) \/ ProducerStep(t) \/ ConsumerStep(t)
    \/ KernelStep(t) \/ ExitStep(t) \/ JumpStep(t)

Next == (\E t \in Threads : ThreadStep(t)) \/ ReleaseBuffer \/ Returned

Spec == Init /\ [][Next]_vars

-----------------------------------------------------------------------------
(* Properties.                                                             *)

\* The items a running consumer may read are where its local virtual base
\* address says, in memory that is still mapped and not stored over, although
\* the buffer may have been replaced, and the replaced one put up for
\* deletion, since that address was taken (updateLocalDynamicBufferStructsUntil).
ReadsWhatWasProduced ==
  \A t \in Threads :
    At(t, "run") /\ kernelId[t] # 1 =>
      \A i \in from[t] .. to[t] - 1 : Mapped(view[t], i) /\ Load(view[t], i) = i

\* What a consumer has yet to process survives every expansion: all items
\* from the consumed count to the produced count are in the current buffer
\* (the copy of reserveCapacity).
UnreadKept ==
  base # 0 =>
    \A i \in consumed .. count[1] - 1 :
      /\ buffers[base].freed = 0
      /\ buffers[base].content[i % Slots(base)] = i

\* An invocation of the producer stores into mapped memory of the current
\* buffer and never over an item that is not yet consumed, of its own thread
\* or of another one (getWritableOutputItems, ensureSufficientOutputSpace).
StoresFit ==
  \A t \in Threads :
    At(t, "run") /\ kernelId[t] = 1 =>
      /\ view[t].buffer = base
      /\ to[t] - consumed <= Slots(base)
      /\ \A i \in from[t] .. to[t] - 1 : Mapped(view[t], i)

\* "The consumed item count is monotonically nondecreasing" and never exceeds
\* what the producer has produced or a consumer still running has processed:
\* the stream set behaves as StreamSet promises.
Stream == INSTANCE StreamSet WITH
  produced <- count[1], processed <- [k \in Consumers |-> count[k]]
ImplementsStreamSet == Stream!StreamSpec

\* Every buffer the stream set has used is unmapped when the pipeline
\* returns (releaseBuffer, freePendingDeletions).
NothingLeaked == base = 0 => \A b \in DOMAIN buffers : buffers[b].freed > 0

PendingBuffers ==
  {pending.first.buffer, pending.second.buffer}
    \union { pending.links[i].buffer : i \in DOMAIN pending.links }

\* An entry is empty or has a mark that a count can pass; the second entry is
\* used only after the first, and the list only after both.
PendingShape ==
  /\ pending \in [first : Entries, second : Entries, links : Seq(Entries)]
  /\ pending.first.mark < AllOnes \/ pending.first.buffer = 0
  /\ pending.second.mark < AllOnes \/ pending.second.buffer = 0
  /\ pending.first.buffer = 0 => pending.second.buffer = 0
  /\ pending.second.buffer = 0 => pending.links = <<>>
  /\ \A i \in DOMAIN pending.links :
       pending.links[i].buffer # 0 /\ pending.links[i].mark < AllOnes

\* No count exceeds what the producer can append.
CountsBounded ==
  /\ pipeline \in Pipelines
  /\ internal \in [Kernels -> 0 .. MaxItems] /\ count \in [Kernels -> 0 .. MaxItems]
  /\ pc \in [Threads -> ControlPoints]
  /\ kernelId \in [Threads -> Kernels] /\ target \in [Threads -> 1 .. NumKernels + 1]
  /\ \A f \in {from, to, avail} : f \in [Threads -> 0 .. MaxItems]

\* Why nothing leaks: a buffer that is still mapped is the one the handle
\* points to or waits among the pending deletions, and these are in a shape in
\* which releaseBuffer finds every one of them (removeFromPendingDeletions,
\* addToPendingDeletions).  The invariant is inductive.
ReclaimInvariant ==
  /\ CountsBounded
  /\ PendingShape
  /\ base \in Nat
  /\ base = 0 => \A t \in Threads : At(t, "done")
  /\ \A b \in DOMAIN buffers : buffers[b].freed > 0 \/ b \in {base} \union PendingBuffers
  /\ NothingLeaked

-----------------------------------------------------------------------------
(* The invariant that keeps the counts of kernels and segments in order.   *)

Active(t) == pc[t] \notin {"fetch", "done"}
LetOut(t, k) == k < kernelId[t]
LetIn(t, k) ==
  \/ k < kernelId[t]
  \/ /\ k = kernelId[t]
     /\ \/ pc[t] \in {"run", "loopExit", "exit"}
        \/ At(t, "jump") /\ target[t] > NumKernels
InKernel(t, k) == kernelId[t] = k /\ pc[t] \in {"expand", "ready", "run", "loopExit"}
Passed(t, k) == k < kernelId[t] \/ (k = kernelId[t] /\ At(t, "exit"))

\* As in SegmentPipeline: a counter has passed a thread's segment exactly if
\* the thread has released it, and no two threads carry one segment.
PositionsMatchCounters ==
  /\ nextSegNo \in Nat /\ segNo \in [Threads -> Nat]
  /\ pre \in [Kernels -> 0 .. nextSegNo] /\ post \in [Kernels -> 0 .. nextSegNo]
  /\ \A t \in Threads : Active(t) =>
       /\ segNo[t] < nextSegNo
       /\ \A u \in Threads : Active(u) /\ segNo[u] = segNo[t] => u = t
       /\ \A k \in Kernels : post[k] > segNo[t] <=> LetOut(t, k)
       /\ \A k \in DataParallel : pre[k] > segNo[t] <=> LetIn(t, k)

\* The counter a thread holds at each control point.
Holds(t) ==
  /\ pc[t] \in {"expand", "ready"} => MayEnter(t, kernelId[t])
  /\ pc[t] \in {"run", "loopExit"} /\ kernelId[t] \notin DataParallel
       => MayExit(t, kernelId[t])
  /\ At(t, "exit") => MayExit(t, kernelId[t])
  /\ At(t, "jump") => kernelId[t] < target[t]
  /\ At(t, "fetch") => kernelId[t] = 1

\* The invocations of a kernel form a chain: each begins where the ones of
\* earlier segments end, behind what the kernel has reported.
InvocationsChained ==
  /\ stopped \subseteq pipeline.mayStop
  /\ \A k \in DataParallel : count[k] <= internal[k]
  /\ \A t \in Threads : avail[t] <= count[1]
  /\ \A t \in Threads : \A k \in Kernels : InKernel(t, k) =>
       /\ count[k] <= from[t] /\ from[t] <= to[t]
       /\ k # 1 => k \notin stopped /\ to[t] <= avail[t]
       /\ k \in DataParallel /\ pc[t] \in {"run", "loopExit"} => to[t] <= internal[k]
       /\ \A u \in Threads : InKernel(u, k) /\ segNo[t] < segNo[u] => to[t] <= from[u]

\* What a thread has collected is a minimum over the kernels it has passed,
\* and does not decrease from one segment to the next.
MinimaInOrder ==
  /\ consumed \in Nat /\ transitory \in [Threads -> Nat]
  /\ \A k \in Kernels \ stopped :
       /\ consumed <= count[k]
       /\ \A t \in Threads : Passed(t, k) => transitory[t] <= count[k]
  /\ \A t \in Threads : transitory[t] # 0 =>
       /\ Active(t) /\ Passed(t, 1)
       /\ consumed <= transitory[t]
       /\ \A u \in Threads : Active(u) /\ segNo[u] < segNo[t] =>
            transitory[u] <= transitory[t]

\* Why the consumed count is safe although it is taken by threads that pass
\* the consumers at different times, without a lock of its own
\* (computeMinimumConsumedItemCounts, writeConsumedItemCounts).
CountInvariant ==
  /\ PositionsMatchCounters
  /\ \A t \in Threads : Holds(t)
  /\ InvocationsChained
  /\ MinimaInOrder

-----------------------------------------------------------------------------
(* The invariant that keeps the contents of the buffers in order.          *)

HoldsItem(b, i) == buffers[b].content[i % Slots(b)] = i

\* The invocation of the producer that t carries has begun and is not reported.
Publishing(t) == kernelId[t] = 1 /\ pc[t] \in {"run", "loopExit"}
BeingPublished(i) ==
  \E t \in Threads : Publishing(t) /\ from[t] <= i /\ i < to[t]

\* Past the producer.
Downstream(t) == Active(t) /\ kernelId[t] # 1

PendingEntries ==
  {pending.first, pending.second} \union { pending.links[i] : i \in DOMAIN pending.links }

\* The current buffer is the latest one; what is pending came before it.
CurrentIsLatest ==
  /\ base = Len(buffers)
  /\ buffers[base].freed = 0
  /\ \A b \in PendingBuffers : b < base

\* In the producer, a thread appends no further than one buffer beyond the
\* consumed count that it has seen, stores to the current buffer, and does not
\* jump.
RoomFor(t) ==
  /\ kernelId[t] = 1 /\ ~ At(t, "jump")
  /\ seenConsumed[t] <= consumed
  /\ pc[t] # "expand" => to[t] <= seenConsumed[t] + Slots(base)
  /\ At(t, "run") => view[t] = [buffer |-> base, at |-> from[t]]
  /\ At(t, "exit") => avail[t] = to[t]
Producing(t) ==
  At(t, "expand") \/ (Active(t) /\ kernelId[t] = 1 /\ pc[t] # "acquire")
RoomKept == \A t \in Threads : Producing(t) => RoomFor(t)

\* No item is left out between the produced count and an invocation's start.
NoGaps ==
  /\ \A i \in count[1] .. ItemCount(1) - 1 : BeingPublished(i)
  /\ \A t \in Threads : InKernel(t, 1) =>
       \A i \in count[1] .. from[t] - 1 : BeingPublished(i)

\* The current buffer has what is not consumed, and what was just stored.
ItemsInPlace ==
  /\ \A i \in consumed .. count[1] - 1 : HoldsItem(base, i)
  /\ \A t \in Threads : kernelId[t] = 1 /\ At(t, "loopExit") =>
       \A i \in from[t] .. to[t] - 1 : HoldsItem(base, i)

\* The buffer a thread reads has what the thread may still read, and its mark,
\* if it is put up for deletion, is not below that.
ViewKept(t) ==
  /\ view[t].buffer \in 1 .. Len(buffers)
  /\ view[t].at = seenConsumed[t]
  /\ seenConsumed[t] <= consumed
  /\ avail[t] <= seenConsumed[t] + Slots(view[t].buffer)
  /\ \A i \in consumed .. avail[t] - 1 :
       buffers[view[t].buffer].freed = 0 /\ HoldsItem(view[t].buffer, i)
  /\ \A e \in PendingEntries : e.buffer = view[t].buffer => avail[t] <= e.mark
ViewsKept == \A t \in Threads : Downstream(t) => ViewKept(t)

\* Why an address that a thread took is good for as long as the thread has
\* items to read behind it, although the buffer may be replaced, put up for
\* deletion and unmapped meanwhile (ensureSufficientOutputSpace,
\* reserveCapacity, updateLocalDynamicBufferStructsUntil).
ContentInvariant ==
  base # 0 =>
    /\ CurrentIsLatest
    /\ RoomKept
    /\ NoGaps
    /\ ItemsInPlace
    /\ ViewsKept

\* Both invariants together are inductive.
StreamInvariant == CountInvariant /\ ContentInvariant

-----------------------------------------------------------------------------
\* The comments in removeFromPendingDeletions: "We must keep the second entry
\* ... but must delete the first one", "copy a 'black' entry over the first
\* and thus clear it": an entry that was deleted is cleared, so that no
\* buffer is unmapped a second time.
FreedOnce == \A b \in DOMAIN buffers : buffers[b].freed <= 1
=============================================================================
