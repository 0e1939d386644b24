# TLA+ models of the Parabix pipeline runtime

Parabix compiles a text-processing program (a graph of kernels that pass bit
streams) into one *pipeline*: generated code that several threads run together.
The hard part is not in any kernel. It is in what the pipeline compiler emits
around the kernels: segment counters that order the threads, jumps that pass
over idle partitions without losing a lock, a termination protocol without a
coordinator, buffers that are replaced while other threads still read them, and
a thread pool that grows and shrinks while the pipeline runs. This directory
models that core, the scheduler of icgrep that runs searches on top of it, and
the set representation that regular expressions and generated tables are built
from; it checks the models with TLC and proves their safety with TLAPS.

Source paths below are relative to `src/`; `CG` stands for
`lib/kernel/pipeline/compiler/codegen`.

## 1. Inventory

| Component | State | Operations | Interacts with |
|---|---|---|---|
| Kernel synchronization locks (`CG/synchronization_logic.cpp`) | one segment counter per phase, one or two logical segment counters per kernel | obtain a segment number, acquire (spin), release (store) | every other part of a segment |
| Partition control flow (`CG/partition_processing_logic.cpp`) | control flow only | enter a partition, jump over partitions, release what a jump passes over | locks, termination |
| Kernel segment execution (`CG/kernel_segment_processing_logic.cpp`, `CG/kernel_execution_logic.cpp`) | per-thread item counts and flags | execute, complete, terminate, leave for lack of input | locks, termination, buffers |
| Termination (`CG/termination_logic.cpp`, `analysis/termination_analysis.cpp`) | one signal per partition root and per kernel that can end by itself; consumer termination counts | record, read, propagate, decide that the pipeline has ended | all threads |
| Multithreaded driver (`CG/multithreading_model_logic.cpp`) | array of thread structs, status flags, thread ids | create, loop, add, cancel, join, free | segments |
| Stream set buffers (`lib/kernel/core/streamset.cpp`, `CG/buffer_management_logic.cpp`) | base address and capacity in the handle, two fixed entries and a list of pending deletions; a local base address per thread | expand and copy, add to and remove from the pending deletions, release | the producer's lock; consumed counts decide what is freed |
| Item counts and consumers (`CG/kernel_io_calculation_logic.cpp`, `CG/consumer_logic.cpp`) | produced, processed and consumed counts; the internal counts of data-parallel kernels; a transitory minimum per thread | compute writable and available items, take the minimum of the consumers, write it | buffers, locks, termination |
| Pipeline builder and analyses (`pipeline_builder.cpp`, `analysis/`) | compile-time graphs | partition, schedule, size buffers | give the constants of the models |
| Grep engine (`lib/grep/grep_engine.cpp`) | groups of files, result strings, two atomic counters, a status per group, `grepMatchFound` | search, print in order, stop early, search the standard input | runs one pipeline per file or batch |
| Object cache (`lib/objcache`) | `.o` and `.kernel` files shared by processes | load, write, expire | file system |
| Unicode sets (`lib/ucd/core/unicode_set.cpp`) | runs of quads that are empty, mixed or full; the mixed quads | construct, insert, operators, complement, iterate, compare | keys and character classes of `lib/re` and the generated property tables |
| Kernels, regular expressions, Pablo, IDISA, Unicode tables, file selection, CSV, audio, tools | sequential | — | — |

What makes each part correct, and how it can go wrong:

* **Locks.** Segments pass each kernel in order, and a kernel with state is
  never in two threads at once. A counter is stored, not incremented: one store
  by the wrong thread moves it backwards or lets a later segment in.
* **Jumps.** A jump passes on every counter it skips, after having acquired the
  one it jumps to. A forgotten release hangs all later segments.
* **Termination.** No kernel runs after it ended, no consumer ends before its
  producer, and all threads leave without agreeing on it explicitly.
* **Buffers.** No item is lost, stored over or read from unmapped memory while
  any consumer that still runs needs it, although the buffer may be replaced
  between the moment a thread takes its address and the moment it reads; and
  every replaced buffer is unmapped once, no later than at the pipeline's end.
* **Thread pool.** A thread struct is used by one thread at a time although a
  cancelled thread may linger; every thread is joined before the array is freed.
* **Grep engine.** Each group is searched once, printed once and in order, while
  other threads still search; the exit status is right in every mode.
* **Unicode sets.** Every sequence of calls leaves well-formed runs with the
  right members; iteration, the predicates and order answer for the members; when
  equality, `empty` and `full` do depends on the way the set was put together.
* **Object cache.** A reader never links an object with another's signature.

The full list of hazards, each with its source line and the properties that
cover it, is under `hazards` in `PROJECT.json`.

## 2. Modules

| Module | Models |
|---|---|
| `SegmentOrder` | Abstract specification: what the two counters of each kernel promise, without threads, locks or jumps. |
| `SegmentPipeline` | The code emitted for one phase of a multithreaded pipeline: every control path of a thread through the kernels. |
| `SegmentPipelineProofs` | Locks: theorems for all constants. |
| `SegmentTerminationProofs` | Termination: theorems for all constants, on top of the former. |
| `StreamSet` | Abstract specification: what a stream set promises its producer and its consumers, whatever memory holds it. |
| `StreamBuffer` | The circular buffer of one stream set under several threads: counts, expansion, pending deletions, addresses. |
| `StreamBufferProofs` | Memory: theorems about it, for all constants. |
| `StreamSetProofs` | Counts: theorems for all constants, among them that they implement `StreamSet`. |
| `StreamContentProofs` | Contents: theorems for all constants about what readers and the writer find in the buffers. |
| `DynamicThreads` | The driver with `dynamic-multithreading`: workers added, cancelled and joined while segments run. |
| `DynamicThreadsProofs` | Theorems about it, for all constants. |
| `GrepScheduler` | `GrepEngine::searchAllFiles` and `DoGrepThreadMethod`. |
| `GrepSchedulerProofs` | Theorems about it, for all constants. |
| `UnicodeSet` | `UnicodeSet` as a sequence of runs and quads, and every call on it. |
| `UnicodeSetProofs` | Theorems about it, for all constants. |
| `MC*` | Instances for TLC. `MCSegmentPipelineLive` composes three instances of `SegmentPipeline`. |

### SegmentPipeline

A thread's `pc` names the points between two accesses to shared memory; the
emitted code between them is one action.

| Variable | Code |
|---|---|
| `nextSegNo` | `PHASE_NEXT_LOGICAL_SEGMENT_NUMBER`, taken by an atomic add |
| `pre[k]`, `post[k]` | the logical segment counters of kernel k: `SYNC_LOCK_PRE_INVOCATION` and `SYNC_LOCK_POST_INVOCATION` of a data-parallel kernel; `post` is `SYNC_LOCK_FULL` of a kernel with state |
| `signal[k]` | the termination signal in the shared state |
| `seen[t][k]` | the signal thread t has loaded in this segment |
| `returned[k]` | the termination code the kernel's own code returned |
| `segNo`, `kernelId`, `target`, `closing` | the thread's segment, its kernel, where a jump leads, and whether its partition is in its final segment |

The actions follow the emitted blocks: `ObtainSegmentNumber`, `Acquire`, then
one of the exits of a terminated root, `InsufficientIO`,
`CatchPropagatedTermination`, `InvokeKernel` or `InvokeFinally`; the return of
the kernel (`ReturnNormally`, `ReturnTerminated`), `RecordTermination`,
`ReleaseAfterTermination`, `AwaitPost`, `ExitKernel`; a jump
(`AcquireJumpTarget`, `ReleaseSkippedPre`, `ReleaseSkippedPost`); and
`EndSegment`. Item counts and buffers are reduced to three choices: whether a
kernel has enough input and output space, whether a segment is final, and
whether the kernel returns a code. The choices are constrained as the code
constrains them (a segment is final only if a producer was seen closed; input
is exhausted from segment `LastInput` on). Partitions, jump targets and
data-parallelism are results of the compile-time analyses and so are constants;
the assumptions on them are what the analyses establish. The nested loop of a
kernel that is invoked several times in one segment is one invocation: the
locks do not change in between.

### StreamBuffer

Kernel 1 produces one stream set and the others consume it. The counters and
their order are those of `SegmentPipeline`; here each segment carries item
counts and memory.

| Variable | Code |
|---|---|
| `count[k]`, `internal[k]` | `ITEM_COUNT` of the kernel; `STATE_FREE_INTERNAL` item count, which a data-parallel kernel advances before it runs |
| `consumed`, `transitory[t]` | `CONSUMED_ITEM_COUNT` of the stream set; the minimum a thread collects on its way past the consumers |
| `buffers`, `base` | every buffer allocated, with its content and the number of times it was unmapped; the one the handle points to |
| `pending` | the `PendingDeletionStruct`: two fixed entries and a linked list, each a buffer and the count that must be consumed before it may go |
| `view[t]` | the local virtual base address with the item for which it was computed |
| `stopped` | consumers whose termination signal is set |

`EnterProducer` reads the consumed count, frees what it allows and compares the
writable items with those the segment appends; `Expand` waits for the threads
that still write, copies the chunks from the consumed to the produced item and
queues the old buffer; `Invoke` releases the early counter and takes the
address; `Return` is the kernel's own code, the only step that stores. Consumers
take the address the producer's exit left in their thread (`ExitProducer`),
read whole strides or jump, and write their counts in `LoopExit`; the last
kernel writes the minimum (`ExitLastKernel`). `ReleaseBuffer` runs once all
threads have left. Addressing is modelled by what it computes: an item's slot is
its distance from the chunk of the virtual base address modulo the capacity, in
a buffer that is mapped twice in a row, so a wrong base, a wrong copy and a
wrapped store are visible as wrong content.

Abstracted: a buffer's address is a number that is never used again (a stale
read is a read of a buffer with `freed > 0`, whatever the allocator does); a
jump releases all counters it passes over in one step, since `SegmentPipeline`
shows the interleavings of these releases; `pipeline` is a variable that no step
changes, so that one run covers several compiled pipelines. A kernel's stores
and loads are one step at the end of its invocation; `ReadsWhatWasProduced` and
`StoresFit` are required in every state until then, so no moment of the
invocation is left out. `StreamSet` is the specification a user of the runtime would
write: items are appended, each consumer reads a prefix, and only items that
every running consumer has processed are given back.

### DynamicThreads

A thread struct is a slot; `statusFlag`, `threadId` are its fields. The process
thread is the only writer of both. Segments are one step each, in order: this is
what `SegmentPipeline` shows of the last kernel's counter. The measured
synchronization overhead may be anything, so the process thread may add, remove
or keep at each check. `Workers` are `pthread_t` values, which may be reused
after a join; there is one more than slots, so that a thread lost by the driver
shows.

### GrepScheduler

A result string is the number of files of its group that it covers. A thread
takes a group, searches it file by file, marks it, records a match and takes the
next; the engine's own thread prints in between and at the end, then searches
the standard input. The two `doGrep` variants differ where the code differs: at
a file that does not open, and at a file without a size. `grepMatchFound` and
`mFileStatus` are plain (not atomic) variables in the code; the model takes each
store as one step that is visible in order. That is an assumption about the
compiled code, listed as a hazard.

### UnicodeSet

A quad is the set of its one bits, a run is a type with a length. Each
constructor and each member function is an operator that walks runs and quads as
the code does; the actions apply them to one object in any order. The variable
`members` is the set of code points the calls describe, computed without runs or
quads, and serves as the reference definition. `joined` records that all runs
were appended with `append_run`, which joins equal neighbours: `insert`,
`insert_range` and the constructor for a range write runs directly.
`operator==`, `empty` and `full` compare runs. `ComparisonsExact` says for every
reachable object when their answers are right for the members: exactly if no two
neighbouring runs have one type, which holds while `joined` does. The header
promises more for `empty` and `full`, without a condition, and the code does not
keep it (finding 6). The object of the model owns its buffers: the branches for
capacity 0 in `insert` are not modelled (section 6).

## 3. Runs

| Run | Instance | Shows |
|---|---|---|
| `branch` | 3 threads, 6 kernels in 4 partitions, a jump over a branch and one past the end, data-parallel kernels, a source that reports a fatal termination, propagated termination | order of segments, both lock assertions, the termination protocol, the inductive invariants, the refinement of `SegmentOrder` |
| `live` | three compiled pipelines: one that jumps past the end, one whose last partition ends by its own code only (2 threads), one with `SerializeThreads` (3 threads) | each fetched segment passes every kernel; all threads leave; serialized threads work one at a time |
| `early_dp` | a data-parallel kernel that may terminate | violation, finding 1 |
| `stream_buffer` | 3 threads, a producer and two consumers, three pipelines | no item is lost, stored over or read after it was unmapped; stores fit; every buffer is freed; the inductive invariants of memory, counts and contents; the refinement of `StreamSet` |
| `stream_buffer_twice` | 2 threads, no data-parallel kernel | violation, finding 4 |
| `dynamic` | 2 to 4 threads, a check after every segment of the process thread | slots are not shared, scans stay in the array, all threads are joined, the driver returns |
| `grep` | 3 threads, groups of 2, 1 and 1 files, one unreadable, standard input; quiet and normal mode | groups not shared, output ordered and complete, answer right, the search returns |
| `grep_quiet` | quiet mode, an unreadable file in a group of two | violation, finding 2 |
| `grep_stdin` | normal mode, standard input is a pipe | violation, finding 3 |
| `unicode_set` | 4 quads of 3 code points, 6 operands, every sequence of calls except those of finding 5 | runs well-formed, members, iteration, predicates and order right; equality, `empty` and `full` right exactly for joined runs |
| `unicode_set_range` | the same with all calls of `insert_range` | violation, finding 5 |
| `unicode_set_full` | as `unicode_set`, with what the comments say of `empty` and `full` | violation, finding 6 |

**Bounds.** The locks compare a thread with the segments before and after its
own, so three threads give a thread with neighbours on both sides. The six
kernels of `branch` are a source, a partition with a follower that is
data-parallel, a root in between, and a last partition of two on a path of its
own, which the second partition jumps to and the third passes over; it jumps
past the end itself. Each kind of jump, root and follower thus occurs with each
kind of lock. Two threads suffice for liveness without serialization: a thread
can only wait for its predecessor. `LastInput` 1 or 2 lets one or two segments
pass normally before the end. Segment numbers are not capped: the pipelines end.

`StreamBuffer`: eleven items in four segments let the buffer expand three times,
which fills both fixed entries and the list; chunks of one and of two items make
copies start inside and at the edge of a chunk and stores wrap around the end,
and segments of seven items need more than twice the capacity. The three
pipelines have a data-parallel producer (expansion waits for the other writers),
a data-parallel consumer that jumps past the end, and a consumer with state that
jumps; in each a consumer may stop early (the minimum is taken over fewer of
them). A jump over one consumer to another needs a fourth kernel; the theorems of
`StreamSetProofs` and `StreamContentProofs` cover it. Its threads stop at
`MaxSegments` and deadlock is checked, so that nothing gets stuck before
`Returned`.

Four thread slots in `DynamicThreads` leave holes between running slots; a
period of 1 makes the check re-enter before a cancelled thread has stopped, the
case the source comments on. Three threads and three groups in `GrepScheduler`
let the printer wait for a slow worker while another group is complete.

`UnicodeSet`: three bits are the least for which one quad holds two intervals;
with four quads a run can be split in the middle with a quad left on both sides.
The six operands place runs of each type and several lengths against every
position. The code walks quads by position and never looks at their number, so
larger sets repeat these cases.

The theorems remove these bounds for the properties listed in section 4.

**Fairness.** Weak fairness per thread: they are system threads, and the wait
loops of the generated code poll without giving up. A spinning thread's step is
its leaving the loop. No fairness is assumed of the choices (input, termination
codes, synchronization overhead): the constant `LastInput` or `LastSegment`
ends the input. Only `live`, `dynamic` and `grep` state liveness.

**Mutants.** The operators marked *Seeded fault* are the changed definitions
that `PROJECT.json` lists for each property; no specification uses them.

## 4. Proofs

`SegmentPipelineProofs` assumes the named assumptions of `SegmentPipeline` and
`NoDataParallelTermination` (no data-parallel kernel can return a termination
code; finding 1 is what happens otherwise). It proves, for any threads, kernels,
partitions and input:

* `LockInvariantHolds`, from which the rest follows. None of the lock
  properties is inductive: they say what counters were, not why. The invariant
  adds the reason. `CountersMatchPositions` says that a thread's position and
  the counters determine each other: counter k has passed the thread's
  segment exactly if the thread has released it. `SegmentsDistinct` gives each
  number one owner, `CountersOrdered` keeps later kernels behind earlier
  ones, and `Holds` says at each control point which counter equals the
  thread's own number. The step proof reduces to two lemmas: a store to `pre`
  (`ReleasePreKeeps`) or to `post` (`ReleasePostKeeps`) by the thread that
  holds it moves exactly this thread's position; all other steps keep the
  counters (`LocalStepKeeps`).
* `TypeCorrect`, `EarlierSegmentsComplete`, `ReleaseAssertionHolds`,
  `AcquireAssertionHolds`: the properties of run `branch` on order and on both
  assertions.
* `CountersImplementOrder`: initial states and steps map to `SegmentOrder` with
  `begun <- pre`, `finished <- post`.

`SegmentTerminationProofs` builds on it, under the same assumption.
`TerminationInvariantHolds` proves why signals need no lock of their own.
The properties of run `branch` on termination are not inductive: that a kernel
is not invoked after its signal was written depends on what its thread had read,
and on nobody writing in between. `SeenWasRecorded` ties what threads have read
to what was written; `InvokedUnterminated` says that from the decision to
invoke a kernel to the record of its end the signal stays unset, which follows
from `LockInvariant`: two threads that could both record for one kernel would
both hold its counter (lemma `RecordsAlone`); `FinalAfterProducer` and
`FollowersOpen` say why a thread is in a final segment, and which thread comes
past a root that ended. From it follow `TerminatedStaysIdle`
(`NeverInvokedAfterTermination`), `ProducersEndFirst`
(`CompletedAfterProducer`), `ThreadsLeaveInTime` (`LeavesWhenTerminated`),
`SignalsWrittenOnce` (`TerminatesOnce`) and `FatalIsNeverRecorded`. `SerializedThreadsAlternate` proves
`RunsSequentially` from the fact that a thread between its entry to the
first kernel and its exit from the last finds its own number in the last
kernel's counter (`LastCounterIsMine`).

`StreamBufferProofs` assumes only the named assumptions of `StreamBuffer`.
`ReclaimInvariantHolds`: a buffer that is mapped is the current one or pending,
and the pending deletions have a shape (`PendingShape`: the second entry is used
only after the first, the list only after both, each mark below the largest
`size_t`) in which `releaseBuffer` reaches every entry. The work is in three
lemmas on the structure itself: removal loses no entry it does not unmap
(`RemovalKeepsPending`), addition loses none (`AdditionKeepsPending`), and
removal at the largest count finds all (`ReleaseFindsPending`). From it follows
`NoBufferLeaks`. The invariant says nothing of being freed *once*: that fails,
finding 4.

`StreamSetProofs` proves the other half, under the same assumptions.
`CountInvariantHolds` is about counts that no lock of their own protects: a
thread collects the minimum over the consumers on its way past them, each under
a different lock, and the thread that ends a segment writes it. Four parts
depend on each other. `PositionsMatchCounters` and `Holds` are the argument of
`SegmentPipelineProofs` for this module's steps: a store by the holder of a
counter moves exactly its own position (`CountersKeep`). `InvocationsChained`
says that the invocations of a kernel follow each other in segment order without
overlap: whoever may enter begins where the ones still inside end
(`EntryChain`), and whoever may leave ends before they begin (`ExitChain`).
`MinimaInOrder` says that what a thread has collected bounds what every kernel
it has passed and that still runs has processed, and that a thread with a later
segment has collected no less; the second part is what makes the written count
grow, and it needs the chain (`MinimaAtLoopExit`) and the order in which
segments end (`MinimaAtEnd`). A jump sets the minimum to 0 and the end of the
segment then leaves the consumed count alone. `CountsImplementStreamSet` maps a
producer's report to `Produce` or a stutter, a consumer's to `Process`, the end
of a segment to `Reclaim` or a stutter, and every other step to a stutter.

`StreamContentProofs` puts both together: what a running consumer reads through
an address that it took long ago is what was produced. `ReadsWhatWasProduced`,
`UnreadKept` and `StoresFit` are far from inductive; `ContentInvariant` adds why
they hold. The current buffer is the newest and not among the pending ones
(`CurrentIsLatest`). A thread in the producer appends at most one buffer length
beyond the consumed count *it has seen*, which is not above the real one
(`RoomKept`). Between the produced count and the start of any invocation every
item belongs to an invocation that is still to be reported (`NoGaps`), so that a
producer that has waited for the others (`MayExpand`) copies everything
(`ExpandAlone`, `ExpansionCopies`). The current buffer has the items from the
consumed to the produced count and those just stored (`ItemsInPlace`). And for
each thread past the producer the buffer *it* reads is mapped and has what is
left of the thread's items, and its mark, if it is put up for deletion, is not
below the thread's last item (`ViewsKept`): the mark is computed from the
produced count, which no thread's available items exceed, so a removal finds
only buffers whose readers are done (`RemovedHavePassed`, `MappedForReaders`).
Addressing is arithmetic modulo two capacities: items less than a buffer apart
have different slots (`SlotsDiffer`), and the address computed from the virtual
base leads to item i modulo the capacity whichever item the base was computed
for (`AddressedSlot`). The proof uses that consumed counts never fall and that
no running consumer is behind them, which is `CountInvariant`; so both together
are the inductive invariant, `StreamInvariant`. `StreamInvariantHolds` is that
theorem, and from it follow `BufferTypesCorrect`, `ReadersSeeItems`,
`UnreadItemsKept` and `StoresAlwaysFit`. None of them assumes a bound on items,
segments, capacities or threads.

`DynamicThreadsProofs` has four parts in its invariant: types; `Slotted` (each
thread that has not been joined owns the slot that names it, and slots without a
flag name none); `Counted` (the number of active threads is that of the running
slots and the process thread); and `NumbersHeld` (each segment number handed out
and not finished is held by a thread that executes it). The second gives `SlotsNotShared`, the third `ScansEnd`: a scan for a free or for a
running slot meets one inside the array. The second and the fourth give `FreedIdle`.

`GrepSchedulerProofs` assumes only that the engine's thread is one of the
threads and that groups are not empty. `SearchInvariantHolds` says that a
group is untouched, in the hands of one thread, or completely searched, that
the numbers handed out are distinct, and that the output is a prefix of the
groups. The steps that merely move a thread share one lemma (`MoveKeeps`). From
it follow `GroupsNeverShared`, `OutputInOrder` and `OutputIsComplete`.
`AnswerIsCorrect` needs `AnswerInvariant` besides: a flag that is set has a
matching input behind it (`MatchesReal`), a match in a file that was searched is
known to the flag or to the thread that has yet to record it (`MatchesKnown`),
and the engine's thread returns last (`LastToReturn`): `AnswerInvariantHolds`. It holds under `InputsKept`: a file that does not open is alone
in its group, and the standard input has a size. Findings 2 and 3 are what
happens otherwise, so the hypothesis cannot be dropped.

`UnicodeSetProofs` assumes `SizeAssumption` (a quad has more than one bit, the
other sets are sets of code points) and that `MergingRanges` is `FALSE`: the
calls of finding 5, which do lose members, are left out as in the run
`unicode_set`. `Holds` says which quads an object lays out: its runs lie next to
each other, and the k-th Mixed quad is the k-th stored one. `Represents` says
that these are the quads of a set of code points, and `SetInvariantHolds` that
the object always represents `members`.

* *Writing.* `ShownConcat` and `ShownAppended` say what an object holds after a
  part has been put behind another and after `append_quad`; with them each call
  that builds an object has a lemma of its own (`CombineRepresents` for the four
  operators, `ConvertRepresents`, `InsertRepresents`, `InsertRangeRepresents`,
  `ComplementRepresents`, `IsolatesRepresents`). The two iterators over quads
  stay in step because the stretches of a walk are contiguous (`WalkPlaces`,
  `StretchQuads`), even where `advance` crosses several runs (`AdvanceAt`).
* *Reading.* `QuestionsExact` is about the early end of `intersects` and
  `subset`. `IterationIsExact` follows the search of the interval iterator:
  where it stands (`ItAt`), that a search finds the next border and nothing
  before it (`ScanFinds`), and that it yields all intervals (`IntervalsListed`);
  the list of maximal intervals of a set is unique (`ListUnique`), so it is the
  one in the property. `CountIs` adds up full runs and Mixed quads separately,
  as `count` does.
* *Comparing.* `OrderIsTotal` compares the first difference of runs, then of
  quads. `ComparisonsAreExact` says for any object when `operator==`, `empty`
  and `full` answer for the members. One direction is that an object without
  neighbours of one type is determined by its quads (`ObjectUnique`); the other
  that a single run has no neighbours and that the set it is compared with has
  none of one type. `JoinedInvariantHolds`: what `append_run` wrote has none.

The walks are recursive functions over places or code points. The proofs unfold
one step of them at a time, and the induction is over a set of places
(`LeastNumber`, `UpToNumber`), so no induction theorem with an operator
parameter is used.

**No deadlock.** TLC looks for deadlocks on the small instances only. Four proof
modules say for every value of the constants that the threads never all wait for
one another. `ENABLED` is out of the prover's reach, so each module names the
places where the code waits in a predicate `Waits(t)`, which is the negation of
the guard of the one step that the thread has there; TLC confirmed on small
instances that it holds exactly where a thread has no step. The argument has
two halves. First, nothing is lost: a number that was handed out stays in the
hands of one thread until it has passed everything (`NoSegmentIsLost`,
`NoGroupIsLost`, and `NumbersHeld` of `DynamicThreadsProofs`). This is not
implied by the order of the locks, which a thread that left with its number
unreleased would not disturb. Second, whoever holds the earliest number never
waits.

* `SegmentTerminationProofs`, under `NoDataParallelTermination`:
  `EarliestSegmentAdvances` and `NoDeadlock`. With the earliest segment every
  release that can come before on any counter has been made, also where a
  jump skips kernels, and also when SerializeThreads makes a thread wait on the
  counter of the last kernel.
* `StreamContentProofs`, without a further assumption: the same two theorems,
  where a producer that expands its buffer also waits, holding its own
  counter, for the earlier segments' producers
  (`ensureSufficientOutputSpace`).
* `GrepSchedulerProofs`: `SearchGoesOn`. The second printing loop waits for
  a group only when all groups are taken, so another thread has it in hand, and
  the joins wait only for workers, which never wait.
* `DynamicThreadsProofs`: `JoinsAreSound` says that `pthread_join` gets the id of
  a thread that was created and has not been joined, both when a cancelled slot
  is used again and at the end; `DriverGoesOn` that the joined thread is not
  held up by the process thread: no two threads hold one number
  (`NumbersApart`), and the least one in hand can always be brought in.

Deadlock freedom is not progress: that a waiting thread *eventually* gets its
turn needs fairness, and is what the liveness properties of the runs `live`,
`dynamic` and `grep` check.

Only model-checked: all liveness (`EverySegmentPasses`, `AllThreadsLeave`,
`DriverReturns`, `SearchReturns`), because the prover supports neither fairness
nor `ENABLED`. Every safety property of a passing run is stated by a theorem. That of
the run `live` is `RunsSequentially` of its serialized instance of `SegmentPipeline`;
the theorem `SerializedThreadsAlternate` proves it of `SegmentPipeline` itself.

## 5. Findings

1. `isKernelStateFree` (`compiler/common/common.cpp:237`) calls an internally
   synchronized kernel data-parallel without looking at its termination
   attributes. When such a kernel terminates by itself its pre-invocation
   counter is released twice: run `early_dp` drives the counter back and breaks
   the assertion of `releaseSynchronizationLock`.
2. `GrepEngine::doGrep` (`grep_engine.cpp:842`) drops the matches of a group
   when a later file of it does not open, although `-q` promises to ignore
   errors: run `grep_quiet`.
3. `EmitMatchesEngine::doGrep` (`grep_engine.cpp:894`) returns at once for an
   input without a size, and so never searches a piped standard input that "will
   always be searched": run `grep_stdin`.
4. `removeFromPendingDeletions` (`lib/kernel/core/streamset.cpp:1221`) clears
   only the second entry when both fixed entries are removed and no link is
   left. The first keeps its address and mark and is unmapped again later,
   although the comment at line 1097 wants it cleared: run
   `stream_buffer_twice`.
5. `UnicodeSet::insert_range` (`lib/ucd/core/unicode_set.cpp:909`) counts the
   last quad among those it passes over. If that quad was mixed, the new bits
   are merged with the next mixed quad, or its old members are lost:
   `{4}.insert_range(0, 3)` with quads of three code points has no 4. Run
   `unicode_set_range`; the run `unicode_set` leaves these calls out.
6. `UnicodeSet::empty` and `full` (`include/ucd/core/unicode_set.h:95`, `:99`)
   ask for a single run, but `insert` (`lib/ucd/core/unicode_set.cpp:697`, and
   `:681` where it overwrites a run of length 1) does not join the quad that it
   fills to a neighbouring `Full` run; `insert_range` and the constructor for a
   range leave equal neighbours, too. The range of all code points but the last,
   with the last inserted, has "the full set of possible Unicode codepoints" and
   is not `full()`; its inversion has "no members" and is not `empty()`. Run
   `unicode_set_full`.

One more disagreement is shown by a theorem instead of a run.
`signalAbnormalTermination` (`CG/termination_logic.cpp:126`) records `Aborted`
for a fatal termination as well, so no signal is ever `Fatal`
(`FatalIsNeverRecorded`) and the test that would halt the pipeline at the end of
the iteration, as `attributes.h:277` says, never succeeds.

## 6. Not modelled

* **Buffers.** Linear buffers (those of a pipeline's own inputs and outputs;
  the options that make others linear are commented out
  in `compiler/config.h:41-43`), external, thread-local, repeating and truncated
  ones; add and lookahead amounts, partial sums; a jump over the producer itself,
  after which a thread reads the handle without the producer's lock (a hazard).
* **Pipeline.** Several phases (the emitted code marks this case as unfinished:
  `#warning fix this for phases`); nested pipelines, which run the same code with
  one thread or inside a kernel; progress detection, which exists only with
  assertions enabled; the propagation graph of consumer terminations; the
  compile-time analyses, whose results are constants with assumptions.
* **Unicode sets.** Predefined sets that share the buffers of generated tables
  until they are written (capacity 0): in `insert` of a code point the copy of
  the quads (lines 633 to 647 of `unicode_set.cpp`) and the splitting of a run of
  length 1 (the test of `mRunCapacity` at line 680) are a hazard without a
  property. `at` and printing. The debug assertions that a set has fewer Mixed
  quads than `UNICODE_QUAD_COUNT` (lines 100, 109, 1387 and 1421), which a set
  whose quads are all Mixed would fail: the model is of the build without
  assertions.
* **Object cache.** Files that several processes and a janitor change without a
  lock; the code states no promise for that case.
* **Sequential libraries.** What kernels compute, regular expressions, Pablo,
  IDISA, CSV, file selection: transformations of one value into another, without
  state over time. Generated Unicode tables make up most of the repository's
  lines and have no behaviour at all.
* Unaligned or torn memory accesses: counters are word-sized, and the emitted
  loads and stores of locks are acquire and release.

## 7. Plan

Done: `SegmentOrder`, `SegmentPipeline` with proofs of locks, termination and freedom from deadlock,
`StreamSet`, `StreamBuffer` with the proofs of reclamation, of the refinement, of the contents and of freedom from deadlock,
`DynamicThreads` and `GrepScheduler` with proofs of safety and of freedom from deadlock, `UnicodeSet` with proofs. Next, in this order:

1. `TerminationPropagation`: the consumer termination counts and the graph of
   `termination_analysis.cpp`; a producer stops only when all of its consumers
   have. Composes with `SegmentPipeline` by replacing the constant
   `PropagationTargets`.
2. Phases: `PHASE_NEXT_LOGICAL_SEGMENT_NUMBER` per phase, and the driver's
   workers across them.
3. The batch search (`EmitMatchesEngine::doGrep` over a group) as a detailed
   form of `GrepScheduler`'s `GrepFile`, with file sizes and descriptors.
