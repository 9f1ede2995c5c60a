# WriteBoost RCU in TLA+

A verification development for `wbrcu::rcu_protected<T>`
(`src/include/wbrcu/rcu_protected.hpp`) and the reader marks it is built on
(`src/include/wbrcu/detail/ThreadCachedReaders.hpp`), and for its NUMA variant
(`src/include/numa_temp/rcu_numa.hpp`). Paths below are relative to `src/`, line numbers
are those of `rcu_protected.hpp` where no file is given.

## 1. Inventory: the system

`rcu_protected<T>` owns an object of type T. Readers call `get_ptr()` and get a
pointer to the version published last, which stays intact until they drop it.
Writers call `update(callback)`. The first writer becomes *the updater*: it copies
the object, runs its callback and those that others have enqueued meanwhile on the
copy, publishes the copy, retires the old object, and goes on until nothing is left
to do. Retired objects wait in one of two lists, by epoch, until no reader can hold
them, then serve as a pool for later copies.

| Component | State | Operations | Interacts with |
|---|---|---|---|
| Reader marks, `ThreadCachedReaders` | one byte per thread: reading bit, epoch bit | `increment`, `decrement`, `epochIsClear` (a scan of all bytes) | called by get_ptr and its deleter; scanned by `retire` |
| Read side (58-66, 119-129) | `m_ptr`, `m_epoch`, the pointer held | `get_ptr`, the deleter | reads `m_epoch` and `m_ptr`, writes its mark |
| Copy and pool (131-146) | `m_finished`, the heap | `get_copy` | takes memory `retire` put there |
| Reclamation (209-230) | `m_retireLists`, `m_epoch` | `retire` | scans the marks, frees and pools objects |
| Update protocol (68-86, 148-207) | `m_updateCnt`, `m_updateQueue`, locals of `do_updates` | `update`, `try_register`, `do_updates` | threads race on `m_updateCnt`; callbacks may call `update` and `get_ptr` again |
| Construction, destruction (45-53) | all of the above | `~rcu_protected` | destruction is the caller's to serialise |
| `rand()`, `ThreadLocalTag` (20-38) | none | compile-time hash | tag of the thread-local bytes |
| NUMA variant (`include/numa_temp/rcu_numa.hpp`) | pointer, pool and lists per node, one epoch for all | the same; publication is a loop over the nodes | experimental: no file includes it |
| Comparison classes (`benchmark/common.hpp`) | lock or folly RCU | `get_ptr`, `update` | benchmarks only |
| Benchmarks, tests, build | | | drivers |

Hard behaviours: no step of `get_ptr` is atomic with `retire`; the scan is no
snapshot; the updater role passes between threads through one counter, and a
callback is counted before it can be found in the queue; memory is reused under the
nose of readers that held it a moment ago; callbacks re-enter the class; callbacks and
allocations throw, and nothing catches; stores are relaxed; the NUMA variant publishes
node by node.
`PROJECT.json` lists these as hazards, each at its line, with the properties that
would catch it.

What makes each component correct:

* marks: a scan that answers "clear" has not overlooked a reader who stayed;
* reclamation: a held object is never deleted, pooled or written to
  (`ReaderProtection`, `HeldObjectIsImmutable`); no object leaks or is freed twice
  (`EveryObjectHasOneOwner`); memory is bounded where nobody reads
  (`MemoryIsBounded`); the epoch keeps moving (`ReclamationNeverStops`), held up by nobody
  who came later (`OnlyStayersStopScans`);
* update protocol: one updater whenever there is work (`CountMeansOneUpdater`), the
  count is exact (`CountIsExact`), nothing is left behind
  (`NoUpdaterMeansAllPublished`), each callback runs once and in its caller's order
  (`RunsOnceInCallOrder`), batches are bounded (`BatchIsBounded`), calls return
  (`CallsReturnUnlessStuck`), updates reach readers
  (`EveryUpdateIsPublished`);
* exceptions and destruction: readers stay safe, nothing is deleted twice
  (`DestructorDeletesOnce`), no callback is dropped (`DestructorDropsNoUpdate`);
* the NUMA variant: what holds of the class should hold of it; on one node much of it
  does (`ReaderProtectionOnOneNode`, `HeldObjectIsImmutableOnOneNode`,
  `DestructorFreesOnce`), on two some does (`NodesAgree`, `ImplementsAdvance`) and some does not (section 7); without NUMA
  support it is the class (`ImplementsPlain`);
* the class: it implements `RcuContract`.

## 2. Modules

| Module | Models | Notes |
|---|---|---|
| `ThreadCachedReaders` | the bytes and the scan | `epochIsClear` is `ScanBegin`, one `ScanMiss` per byte that differs in any order, then `ScanHit` or `ScanClear` |
| `ScanSoundness`, `ScanSoundnessProofs` | the same, with a history variable; theorems | `stayed`: who has been in the epoch since the scan began |
| `EpochAdvance` | abstract specification of progress: the epoch and the readers, no objects | what decides whether `retire` reclaims |
| `EpochReclamation` | `get_ptr`, `get_copy`, the exchange, `retire` | takes the marks as `Counters == INSTANCE ThreadCachedReaders`, conjoins their actions; implements `EpochAdvance` |
| `EpochInvariant`, `EpochReclamationProofs` | the inductive invariant `IInv`; theorems | the proofs use it (section 6), as a part of `MemoryInv` TLC checks it |
| `EpochMemory`, `EpochMemoryProofs` | the bound on memory, whom scans wait for, and their invariant `MemoryInv`; theorems | history: `found`, a scan has met a reader; `stayed`, who has been inside since the epoch changed |
| `StoreBuffers`, `StoreBuffersProofs` | `EpochReclamation` with relaxed stores that reach memory late; theorems | `BufferSpec`, one history bit, `missed`: a scan has passed by a reader whose mark was in the buffer; `BufferInv` |
| `UpdateProtocol`, `UpdateProtocolProofs` | `update`, `try_register`, `do_updates`, counter and queue, no objects; theorems | the same code stands in both headers |
| `RcuContract` | abstract specification of the class | submitted updates, published version, the version each reader sees |
| `RcuProtected` | the whole class | `Protocol == INSTANCE UpdateProtocol` and `Reclamation == INSTANCE EpochReclamation`, their actions conjoined |
| `RcuInvariant`, `RcuProtectedProofs` | the invariants `RcuInv` and `ContractInv`; theorems about the class and its contract | section 6 |
| `RcuLifetime`, `RcuLifetimeProofs` | `RcuProtected` with exceptions and the destructor; theorems | EXTENDS it, adds `Throw` and `Destroy` |
| `NumaReclamation` | the memory of the NUMA variant, and its invariant `NumaInv` | any number of nodes implements `EpochAdvance` |
| `NumaProtected`, `NumaProtectedProofs` | the NUMA variant as a whole, and its invariant `ClassInv`; theorems | `UpdateProtocol` and `NumaReclamation`, their actions conjoined; without NUMA support it implements `RcuProtected` (`Plain`) |
| `MC...` | symmetry for TLC | |

A definition under the comment "Mutant of X" is a plausible bug in X, a dropped guard
or a wrong order. It is in no specification; it is kept to show that a property fails
when the code is wrong in that way (`PROJECT.json`, "mutants").

How the code maps to actions. A reader is at `rpc`: `LoadEpoch` and `StoreMark` are
the two accesses of `rcu_read_lock` (122), `LoadPtr` the load of `m_ptr` (64),
`Unlock` the deleter. The updater is at `phase` in `EpochReclamation`: `GetCopy`
(131-146), `Apply` (a callback returns, 76 and 176), `Publish` (190), `Retire`
(214-218: push and the threshold test), the scan, `Reclaim` (226-228) and
`AdvanceEpoch` (229). In `UpdateProtocol` a thread is at `pc`: `TryRegister` is the
fetch_add (153), `Write` the blockingWrite (84), `Enter` the load on line 168, `Read`
the blockingRead (175), `Reload` lines 183-187, `Resign` and `NextBatch` the two
outcomes of lines 195-205. In `RcuProtected`, `GetCopy`, `RunCallback` and `Publish` are
one step of both halves, `RetireStep` one of the memory alone, the others of the
protocol alone. `NumaProtected` has the same steps; there `RetireStep` also goes round
the loop over the nodes (`rcu_numa.hpp` 309-312). `RcuLifetime!Throw` is an exception out
of `get_copy` (`GetCopyThrows`), a callback (`CallbackThrows`) or `push_back`
(`PushBackThrows`), `Destroy` lines 47-53.

Abstractions. Lists and pool are sets: their order decides only which free object is
reused, and the model takes any. A list is cleared in one step with the swap and the
deletes (226-228): only the updater accesses them, and a reader that still holds one
of the objects is a violation whichever delete comes first. (In `NumaReclamation` they
count entries, since one object can be in a list twice.) In `RcuProtected` an
object's content is the set of callbacks that have run on it, which tells apart a
lost, a repeated and a reordered update. `m_updateQueue` (folly, external) is a FIFO
with blocking ends. A thread that is in the middle of `get_ptr` takes no updater
step; a thread that holds a pointer may.

**Memory model.** All steps interleave in one order that all threads see, except in
`StoreBuffers`. The code asks for less. `StoreBuffers` gives every thread the store
buffer that x86 has: the relaxed stores of a mark, of its removal and of the epoch reach
memory later, and nothing orders a mark before the load of `m_ptr`. So a scan may pass by a
reader whose mark is in the buffer, and then the reader loses its protection (run
`relaxed_marks`, section 7). That is the only way (`late_stores`): until it happens
(`missed`) readers are protected, although marks, their removals and the epoch are late.
The exchange of `m_ptr` is a release (190) and waits for the stores before it; so does
the next updater for those of the last (195-200, 153-155). A thread that has an epoch of its
own in the buffer reads that. A stale `m_epoch` needs no buffer: any time may pass between
`LoadEpoch` and `StoreMark`. What a weaker machine than x86 may do is not modelled: there the
relaxed removal of a mark may also overtake the reads before it, which nothing in the code
forbids.

## 3. Runs

| Run | Question | Bounds |
|---|---|---|
| `marks` | is a scan that is no snapshot good enough? | 3 readers, 2 scanners |
| `reclamation` | does any interleaving let a reader see reclaimed or changing memory, lose an object, or let memory grow though nobody is in the way? Do scans give up for newcomers? Is it `EpochAdvance` with objects? `MemoryInv` holds | 2 readers, 1 updater, 6 objects, 2 contents, threshold 2 |
| `epoch_progress` | can readers that come and go hold up the epoch forever? | 3 readers, 1 updater |
| `late_stores` | is a scan that misses a buffered mark the only harm that late stores do? `BufferInv` holds | 2 updaters, one of them also a reader, another reader, 4 objects, 2 contents, threshold 1, 2 stores per buffer |
| `relaxed_marks` | *violated*: readers are protected, in the same specification | 1 reader, 1 updater, 4 objects, 1 content |
| `updater_role` | is there one updater whenever there is work, is the count exact, does every call return, and does nobody get stuck but in a nested call? `ProtocolInv` holds | 3 threads, 2 calls each, 2-slot queue |
| `nested_full_queue` | *violated*: a nested call returns | 2 threads, 2 calls each, 1-slot queue |
| `class` | is an update lost, doubled or reordered, is a batch bounded, does the counter keep updaters apart on pool and lists, does the class implement `RcuContract`? `ContractInv` holds | 2 updaters with 2 calls each, one of them also a reader, another reader, 5 objects, both thresholds 1, 3-slot queue |
| `liveness` | is every update published though a reader never lets go? | 2 threads, 1 call each, so no nested calls, 1 reader, 1-slot queue, flushing threshold 0 |
| `lifetime` | what do exceptions leave to readers and to the destructor? | 2 threads, 2 calls each, 1 reader, 6 objects |
| `numa` | what of all that does the NUMA variant keep, on a machine without NUMA support, with one node, with two? Is it `RcuProtected` on the first? `ClassInv` holds | 2 threads, 2 calls each, 1 reader, 5 objects, at most 2 nodes, concurrency 1 or 2 |
| `numa_readers` | *violated*: readers are protected | 1 thread, 3 calls, 2 readers, at most 2 nodes, 5 objects |

Why the bounds are enough. A stale mark needs a reader that loads the epoch, two
epoch changes, and a second reader to keep an epoch busy. At threshold 1 `retire` tries
to advance every time, so that two readers and 4 or 5 objects give all of these
(`late_stores`, `class`): an updater that is not held up needs 3 objects there. At
threshold 2 (`reclamation`) it needs 5, and `retire` also returns early on line 217.
Every object a publication retires takes one address, so `RcuProtected` needs one more
than the number of calls: no run of it is short of memory. `MaxCalls` bounds the calls
per thread; two calls by two threads give a full batch, a batch begun while another is
retired, and a nested call of a nested call; at most three callbacks wait at once, so that
the queue of `class` is never full, while those of `updater_role` and `liveness` are.
`FlushingThreshold` 0 is the case in which the inner loop is never broken. `liveness` has no
nested calls, as a thread has only one; with two calls each TLC does not finish in minutes.
That nested calls are published, in order, is a safety property (`NoUpdaterMeansAllPublished`
and `RunsOnceInCallOrder` in `class`), and that they return is asked in `updater_role`.

`epoch_progress` is a run of `EpochAdvance` because a model with finitely many objects
cannot state progress: there a class that never reclaims just runs out of memory.
`EpochReclamation` takes only the steps of `EpochAdvance` (checked in `reclamation`,
proved in section 6). The run explains why `retire` asks about the *previous*
epoch: asking about the current one would be safe too, but newcomers could keep the
answer FALSE forever (mutant `TryAdvanceCurrent`).

`BatchIsBounded` says that a batch holds at most the flushing threshold, and one more
only if it is the first of a registration. `MemoryIsBounded` says that at most
2 * `CleanupThreshold` + 1 objects exist as long as no scan has found a reader in its way,
and the pool serves every copy once they do; the history bit `found` of
`EpochMemory` remembers whether one has. `OnlyStayersStopScans` is the safety half of
`ReclamationNeverStops`, with the objects: a scan gives up only for a reader who has been
inside since the epoch last changed. `CallsReturnUnlessStuck` is what is left
of "calls return" once the nested call that meets a full queue is set aside.
`StuckOnlyInNestedCall` says that of every state, and that `CanGo`, the guards of a
thread's next step written out, implies ENABLED; the proof needs that (section 6).

In `numa` a behaviour is one on any machine: the constructor finds out whether there is
NUMA support and how many nodes there are, and `hardware_concurrency` is that of the
build. It is divided by the number of nodes, which gives thresholds 1 and 2 on one node,
0 and 1 on two (0 acts like 1, as the list that is tested is not empty).
`ImplementsPlain` is about the machine without NUMA support whose concurrency is the
bound, `MaxConcurrency`: a cleanup threshold of `RcuProtected` is a constant, so the one it
is mapped to must be one too, and as the theorem holds for every bound it holds for every
number of cores. `MaxRetired` is
out of reach in both NUMA runs, where calls are finitely many.

Deadlock is checked except where the program is over: when all calls have returned and
nobody is left to read (`updater_role`, `nested_full_queue`) and after the destructor
(`lifetime`).

## 4. Fairness

`EpochAdvance!FairSpec`: threads inside `get_ptr` and `retire` run on, readers let go
of their pointers, and updates keep coming, so there is always another `retire` (the
last two are the premise of `ReclamationNeverStops`). No reader has to lock.
`UpdateProtocol!FairSpec`: every thread inside `update` runs on, callbacks return (strong
fairness, because a callback that keeps calling `update` is not always able to return).
`RcuProtected!FairSpec` is the same for the composition; readers finish `get_ptr` and need
not let go. Nothing is assumed of the queue beyond that: calls are finitely many, so no
blocked writer can be overtaken forever. `RcuLifetime` and `StoreBuffers` claim no
liveness, as a call may throw and no standard says when a relaxed store gets there;
`NumaProtected` claims none; the actions of its update protocol are those of
`UpdateProtocol`, checked in `updater_role`.

## 5. The contract

`RcuContract` has no epochs, copies, queue or memory: `Submit`, `PublishBatch`,
`TakePointer`, `DropPointer`. `RcuProtected` implements it with `current` the content
of the object in `m_ptr` and a reader's `view` the content of the object it holds
*now*, so the refinement fails if that object is ever written to.

## 6. Proofs

Every theorem is about any readers, updaters, objects and values of the other constants,
from the assumption its component states about them (`ReclamationAssumption`,
`ProtocolAssumption`, `RcuAssumption`, `BufferAssumption`, `NumaAssumption`: thresholds
and capacities are numbers, the set of updaters is finite where they are counted, `Null`,
`NoUpdate` and `Garbage` are none of the things they stand in for). TLC checks the
inductive invariants of the large components in their runs (`MemoryInv`, with `IInv`,
`BufferInv`, `ProtocolInv`, `ContractInv`, with `RcuInv`, and `ClassInv`).

**The marks** (`ScanSoundnessProofs`). `ScanOvertakesNoStayer`:
whoever has stayed in the epoch since the scan began is still ahead of it, because
the scan passes nobody it finds in the epoch. `ScanIsSound` follows: the answer
"clear" is given only when nobody is ahead.

**The core** (`EpochReclamationProofs`). `TypeCorrect`,
`ObjectsHaveOneOwner`, `ReadersAreProtected`, `HeldObjectsAreImmutable` and
`ReclamationImplementsAdvance`, all from `InductiveInvariant == Spec => []IInv`.
`ReaderProtection` is not inductive. `IInv` adds that marks show what readers did
(`MarksAreTrue`), that there is one updater and its phase says what it owns
(`OneUpdater`, `PhasesAreTrue`), and `HeldIsSafe`: a held object is published, on its
way out or in a list; it is in the list of the epoch the reader did *not* lock in
only while that is the current epoch; and if the reader locked in the previous
epoch and the scan has passed it by, it holds the published object. The last part is
what makes stale marks harmless: a reader the scan does not see has locked after the
last exchange. Each conjunct has a lemma with one step per action; `HeldStep` is the
heart, at `SkipReader`, `Reclaim` and `AdvanceEpoch`.

**The bound on memory** (`EpochMemoryProofs`). `MemoryStaysBounded`. `retire` compares only
the *current* list with the threshold, and nothing ever compares the pool. What bounds it
is where it comes from: a list becomes the pool when the epoch changes, so the pool is a
list that was tested two changes ago. `MemoryInv` therefore follows two groups of objects,
those that go round in this epoch (`Working`: copy, outgoing object, current list, pool)
and those that wait (`Waiting`); each has at most `CleanupThreshold`, the groups swap when
the epoch changes, and new memory is only taken while the working group is below the
threshold. The published object is the one more. A scan that finds a reader voids all of
it, which is what `found` records.

That reclamation is not held up for good is a liveness property, and TLC's. What it rests on
is proved: a scan gives up only for a reader who has been inside since the epoch last changed
(`NewcomersStopNoScan`). Such readers only become fewer, and they are gone when they have let
go of their pointers. `MemoryInv` says who they are: a reader whose epoch is over has been
there since before the change, whatever readers have come (`OldReaders`).

**Store buffers** (`StoreBuffersProofs`). `OnlyMissedMarksHarm` and `KeptUntilMissed`, about
the code as it is and any readers and updaters, which may be the same threads. `IInv` fails
there, since a mark may show a reader who has left, or not show one who has come, and
`m_epoch` may lag behind. `BufferInv` says that a mark, while it counts, is the last store of
its thread, in memory or in the buffer (`MarksAreStored`), that only one thread can have an
epoch to store and has yet to publish then (`EpochIsSettled`), and reads the lists by the
`newest` epoch, the one last stored. From the exchange to the end of the scan the newest
epoch is the one in memory, because the exchange waits for the store. What readers hold is
then safe as in the core (`BufferedHeldIsSafe`), except where `SkipReader` passes by a
reader whose mark is in the buffer, and there `missed` becomes true.

**The update protocol** (`UpdateProtocolProofs`). `ProtocolInv` is inductive: one
updater exactly while the count is above 0, the count is what is done, running, queued and
about to be queued (threads in `Writing`, a finite set, counted by `Cardinality`), and
`LocalsFollowPc`, which ties what a thread has at hand to where it is. Each needs the
others: only because the count is exact does the compare_exchange of `Resign` find nobody
waiting, only because there is one updater is there one `done` to count. `LoopIsBounded`
(the updater has done no more than it expects, and expects no more than is counted) and
`UnflushedIsBounded` (a batch starts at 0 and stops at the threshold) are what the contract
needs of the loop. `OneUpdaterInWork` and `CountStaysExact` follow. `NobodyWaitsForNobody` is deadlock freedom: an updater that waits for a
callback waits for one that is counted, hence about to be written by a thread that has room,
as the queue is empty; a writer waits for room, and then the count is above 0 and there is an
updater, which can go on unless it is itself in a callback that writes.

**The class** (`RcuProtectedProofs`). Both halves are instances, and
their theorems hold of the class once its steps are theirs. For the protocol that is so by
the way the actions are conjoined. The core assumes one updater at a time; by `ProtocolInv` there is one thread past
`try_register`, and by `RcuInv` (`ProgressMatchesPhase`: where a thread is in
`do_updates` fixes its phase in the core; `ContentIsReal`: what it writes is content) a
step of the class is then a step of the core. `RcuInv` needs the core's invariant for
the objects written to, so `RcuInv` and the core's `IInv` are proved by one induction.
From it: `ClassImplementsReclamation` and, with the core's theorem about `IInv`,
`ClassProtectsReaders`.

**The contract** (`RcuProtectedProofs`). `AllIsPublished`, `CallbacksRunOnceInCallOrder`,
`BatchesAreBounded` and the refinement `ClassImplementsContract`, from `ContractInv`, which
says of every update where it is between its call and its publication: in an object,
running, in the queue or about to be written to it. `NothingIsLost` says it is somewhere,
`NothingIsDoubled` that it is in one place only, and both need that a private copy has
everything the published object has (`CopyExtendsPublished`). `CallsAreInOrder` needs
`NothingIsDoubled`, and the queue: of two calls of one thread the earlier is applied,
running, or ahead in the queue, so that it leaves the queue first. `BatchIsCounted` says
that `unflushed`, plus one in the first batch, *is* the number of updates a publication
adds, and `BatchIsNew` that none adds nothing; there `LoopIsBounded` comes in. For the
refinement a step must not change what a reader sees, which is the core's
`HeldObjectIsImmutable` for the class.

**Exceptions and the destructor** (`RcuLifetimeProofs`). `LifeInv` distinguishes three
times. Until the updater throws, the class is as above, so when all calls have returned the
updater has resigned, on an exact count, and the queue is empty (`NoUpdateDropped`). Once the
updater has thrown (`Frozen`), the count is above 0 with nobody to bring it back, so no
step touches `m_ptr`, the lists or the pool again (`PublicationEnds`), every object but at
most one has exactly one owner, and what readers hold stays out of pool and heap
(`ReadersOutliveExceptions`). Then the destructor finds the owners the invariant names
(`EveryObjectDeletedOnce`).

**The NUMA variant** (`NumaProtectedProofs`). On any number of nodes the variant takes only
steps of `NumaReclamation`, whose single updater the counter provides, and of `EpochAdvance`
(`NumaImplementsReclamation`, `NumaImplementsAdvance`), and
`QuietNodesAgree`: in the middle of the loop, the nodes behind it already have the new copy
(`NodesBehindHaveCopy`), and when it is through no node is ahead. On one node
`OneNodeProtectsReaders` and `OneNodeDestructorFreesOnce`: there an object has at most one
entry in any list (`NothingIsListedTwice`), lists are sets again, and the argument of the
core applies. (With two nodes neither holds, see section 7.) Without NUMA support also
`AllIsPublished`, by the argument of the contract (`NothingIsLost`); with it, what
`get_copy` hands out need not be a copy. `OneNodeKeepsHeldObjects` is the core's
`HeldObjectsAreImmutable` on one node. All of them come from one invariant, `ClassInv`.

`NumaImplementsPlain`: without NUMA support the variant takes only steps of `RcuProtected`,
whose lists and pool are the sets of what is in the variant's (each object once, by
`NothingIsListedTwice`). The thresholds then have to agree: here the length of a list is a
sum over its entries, there a `Cardinality`. `SizeIsCardinality` proves them equal by a
smallest counterexample among the finite subsets, under the well-founded order of strict
inclusion, which takes the place of the induction the provers cannot do.
`PlainKeepsPromises` then has the contract, the order of callbacks and the bound on batches
from the theorems about `RcuProtected`, as an instance of its proof module (`Class`).

**Only model-checked.** The liveness properties (`ReclamationNeverStops`,
`CallsReturnUnlessStuck`, `EveryUpdateIsPublished`) and, of
`StuckOnlyInNestedCall`, that a thread whose guard in `CanGo` is true is ENABLED; both are
beyond the prover. Every other property of a passing run is the subject of a theorem. Proved
and in no run by name are `SomebodyCanGo` and the type invariants, most of which the
inductive invariants contain. (What the three other runs violate is shown by
their counterexamples.)

## 7. Where code and documents disagree

Shown by a run:

* `NestedUpdateReturns` (run `nested_full_queue`): `test/test_rcu_protected.cpp:98` calls
  `update` in a callback. With the queue full, its `blockingWrite` (84) waits for the
  thread it runs on. The capacity, 500 times the number of cores, makes this rare.
* `ReaderProtection` (run `relaxed_marks`): a reader's mark sits in its store buffer while
  it loads `m_ptr`; the scan passes by, and `retire` reclaims the object, against the
  comment on lines 223-225. Nothing else about the relaxed stores does harm (run
  `late_stores`).
* NUMA, `ReaderProtection` (run `numa_readers`): publication and retirement go node by node
  (`rcu_numa.hpp` 309-312) under one epoch. A copy that both nodes publish is replaced and
  retired on node 0, under epoch 0, and that retire changes the epoch to 1. A reader of node
  1, where the copy is still published, gets it under the mark of epoch 1. Another reader,
  with the mark of epoch 0, keeps node 1's retire from changing the epoch back; when it has
  gone, the next publication's retire on node 0 finds epoch 0 clear and takes the copy into
  node 0's pool, with the reader of node 1 still holding it. (Without the second reader it
  takes one publication more, and an object that is in the pools of both nodes.)

Seen while modelling, with what does hold stated instead:

* `doc/checkpoint2/checkpoint2.md:91` calls the flushing threshold the maximum number of
  updates performed on a private copy. `unflushed` (171, 178) does not count the
  updater's own callback (76), so the first batch can be one larger: `BatchIsBounded`.
* `doc/checkpoint1/checkpoint1.md:103` and `doc/checkpoint2/checkpoint2.md:75` say that
  `retire` tries to change the epoch only when the list of the current epoch *exceeds* P, the
  number of reader threads. The code tries as soon as the list has `cleanupThreshold` objects
  (217), which is `hardware_concurrency` (212). Safety is the same either way; the memory
  is not: with the documents' comparison a list can have one object more
  (`RetireAboveThreshold`, the mutant of `MemoryInv`). `MemoryIsBounded` is stated for the
  code.
* The comment on `m_updateCnt` (110) says a count above 0 means an updater in work. A
  callback that throws takes the updater away and leaves the count. Nothing is published
  from then on (`NothingPublishedAfterException`), readers are safe, one object is leaked.
* NUMA: new node memory is handed out without a copy of the current object
  (`rcu_numa.hpp:239`), and earlier updates are lost. `NoUpdaterMeansAllPublished` is
  therefore stated for machines without NUMA support only.
* NUMA: with two nodes the epoch flips twice per publication (372) when no reader is in the
  way, from the start at threshold 1, at higher ones once both nodes' lists are long enough.
  Each node then always sees the same epoch, the list of that epoch is never taken into its
  pool, and memory grows with every update.
* NUMA: the destructor frees each node's pointer (`rcu_numa.hpp` 120-141). After a
  publication that is one object on all nodes, freed once per node: `DestructorFreesOnce`
  is therefore stated for one node.
* `doc/checkpoint2/checkpoint2.md:67` calls the tag unique; by the hash of lines 19-33,
  line 1 of a file `f1` and line 6 of `f2` share one. This costs contention, not safety.

## 8. Plan

Done: the reader-reclaimer core, its progress, its use of memory and its store buffers; the
update protocol; the class, its contract, its exceptional exits and its end; the NUMA
variant, and that it is the class where there is no NUMA support. Every safety property,
action property and refinement the runs check is proved, deadlock freedom but for what it
says about ENABLED.

Left to the runs: what the prover cannot do (end of section 6).

Not modelled and why:

* `rand()` and tags: a pure hash evaluated at compile time, whose result only chooses
  which instances share a lock of folly's;
* the classes `benchmark/common.hpp` compares with: two are one lock around each operation,
  the third is folly's RCU, which is not in the repository;
* thread exit (folly unlinks the byte, the same as 0 here) and folly's queue, which is
  taken as a FIFO with blocking ends;
* a pointer that changes threads, or a second one in the same thread: the comment on
  `get_ptr` leaves the latter to the caller;
* the order in which lists hold objects;
* `numa_alloc_onnode` out of memory (`rcu_numa.hpp:239`): it returns NULL, `try_register`
  then returns that after having counted, and `update` takes the thread for one that is not
  the updater and enqueues, so that nobody is the updater while the count is above 0;
* an exception out of making the `folly::Function` that is to be enqueued (84): that happens
  inside folly's `blockingWrite`, which is noexcept, and ends the program;
* machines weaker than x86;
* the benchmarks (no protocol of their own) and the tests;
* calls of `update` without end: no document promises that the updater's own call
  returns then. Nor is there a bound for the list of the current epoch while a reader
  does not let go; the models bound it by `Objects`.
