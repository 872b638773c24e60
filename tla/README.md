# Lock-free MPMC queue: TLA+ models and proofs

A verification project for the queue library in this repository: the
Michael-Scott queue `ms_queue`, its two reclaimers, the hazard pointer domain,
the mutex queue it is measured against, the benchmark that measures them, and the
memory orderings the lock-free parts depend on. `PROJECT.json` lists components,
runs, mutants, the line-by-line map, hazards, findings and theorems in
machine-readable form.

Run a model with `tlc -config X.cfg M`, a proof with `tlapm M.tla`.

## 1. The system

| component | state | operations | what is hard | what makes it correct |
|---|---|---|---|---|
| `ms_queue` (`include/lfq/ms_queue.hpp`) | `head_`, `tail_`, the nodes' `next` and `value` | `enqueue`, `try_dequeue`, `empty`, constructor, destructor | every access interleaves with every other; `tail_` lags; weak CASes fail; snapshots go stale | a linearizable FIFO, a well-formed list, no null or freed dereference, lock-freedom |
| `leaky_reclaimer` (same file) | none | `guard::protect`, `set`, `retire` | nothing is ever freed | - |
| `hp_domain` (`include/lfq/hazard_pointer.hpp`) | the list of records (slots, `active`), `orphans_`, counters; per thread a record and a bag | `local_record`, `retire`, `scan`, `drain`, `in_flight`, thread exit | records are recycled and bags handed over while others walk and scan; snapshots are stale when used; ordering of publish and verify | no protected node is freed, none is lost or freed twice, garbage and records are bounded |
| `hp_reclaimer` (same file) | the guard's record | `guard` constructor and destructor, `protect`, `set`, `retire` | load-publish-verify; `set` leaves validation to the caller | a pointer `protect` returned stays allocated |
| `mutex_queue` (`include/lfq/mutex_queue.hpp`) | a mutex, a `std::queue` | `enqueue`, `try_dequeue`, `empty` | early return under the lock, moved-from front | a linearizable FIFO, no deadlock |
| Relacy models (`model/`) | ports of the queue and of protect/scan | `enqueue`, `try_dequeue`, a protector, a retirer | memory orderings | no unpublished, null or freed pointer is followed, under the C++ memory model |
| tests (`tests/`) | - | producers, consumers, holders, retirers, samplers | termination by counters, sampling of counters | the assertions they make |
| benchmark (`bench/`) | `spin_barrier`, `consumed`, latency vectors | `run_threads`, four trials, `split_ratio`, `run_suite`, `summarize`, option parsing | start line, consumers that stop on a shared counter, unsigned arithmetic on options | trials start together, end, and count what was done; one row per repetition |
| `inject.hpp`, `padding.hpp`, `plot.py`, `third_party/` | - | random yields, alignment, plotting, vendored code | - | not modelled, see section 7 |

How they interact. `ms_queue` is a template over its reclaimer: it opens a guard
at the start of an operation, protects `tail_` or `head_` in slot 0 and `next` in
slot 1, and retires the old dummy after the `head_` CAS. The domain is process-wide;
threads meet in its record list, in the slots that scans read, and on the orphan
stack. A thread enters it on first use and leaves it in `~tl_cache`. Tests and
trials drive whole queues from many threads.

## 2. Modules

```
FIFO                     what a queue promises
 ^          ^
MSQueue   MutexQueue     implementations (Linearizable == Abstract!Spec)
 |
MSQueueHP ---- INSTANCE HazardDomain
 |                       ^
 |                 HazardCells          the domain's most general client
 |                  |        |
MSQueueHPProgress  HazardProgress  HazardAlloc      liveness; bad_alloc

WeakMemory               the C++ memory orderings
 ^          ^
HazardFence QueueRA      protect against scan; the queue and its suite

BenchTrial               the benchmark's threads over an abstract queue
BenchSuite               its options, repetitions, rows and summaries

MSQueue -- MSQueueInv, MSQueueHP ------------- MSQueue_proofs
                                                |  INSTANCE
HazardDomain -- HazardInv ------------- HazardDomain_proofs
                                                |  EXTENDS
HazardCells -- HazardAlloc ------------ HazardCells_proofs

HazardFence -- HazardFenceInv --------- HazardFence_proofs
QueueRA ------ QueueRAInv ------------- QueueRA_proofs
MutexQueue_proofs     BenchTrial_proofs     BenchSuite_proofs
```

`MC_*` modules add the symmetry sets or constants of a run.

* **FIFO.** A queue of values and, per thread, the stage of its operation: called,
  effect done, returned. `try_dequeue` may answer *empty* only if the queue was
  empty at a moment of the call (`ObserveEmpty`); an implementation whose snapshot
  then fails validation starts over (`Forget`).
* **MSQueue.** One action per access to shared memory, in source order: for
  `enqueue` `EnqCall` (new node), `EnqProtect`, `EnqNext`, `EnqCheck`, `EnqHelp`,
  `EnqLink`, `EnqSwing`, `EnqReturn`; for `try_dequeue` `DeqCall`, `DeqProtect`,
  `DeqTail`, `DeqNext`, `DeqCheck`, `DeqHelp`, `DeqRead`, `DeqSwing`, `DeqRetire`,
  `DeqReturn`; `DtorStart` and `DtorStep`. `compare_exchange_weak` may fail
  although its comparison holds. `n`, `head`, `tail`, `nx`, `val` are the code's
  locals. `chain` is a ghost: the list from `head_`, extended by the link CAS and
  shortened by the `head_` CAS; `ListInv` ties it to the pointers.
* **HazardDomain.** The domain and the guard without a client: `Acq*`
  (acquire_record), `Protect*`, `SetSlot`, `ClearSlot`, `Retire`, `RetireCheck`,
  `Scan*`, `ThreadExit`, `PushOrphan`, `OrphansDone`, `ExitClear`,
  `ReleaseRecord`. A scan reads the slots one at a time, so others publish, clear,
  link and recycle records in the middle of it. `retire`'s deleter is one step per
  node. Records are numbered in link order, which makes `next` a decrement.
  The two push loops (records, orphans) are one step each: a failed CAS of theirs
  only reloads what the next attempt compares with.
* **HazardCells.** Cells that any thread may protect, replace and retire from, in
  any order, with threads that drain, exit and come back: the tests of
  `reclaim_test.cpp` and the protocol of `hp_model.hpp` with their scripts removed.
* **MSQueueHP.** `MSQueue`'s actions with the domain's in the places where the code
  calls the reclaimer. Freed addresses are allocated again, so ABA is possible as
  far as hazard pointers do not prevent it.
* **HazardProgress, MSQueueHPProgress.** Fairness and liveness of reclamation;
  lock-freedom of the queue over `hp_reclaimer`.
* **HazardAlloc.** HazardCells with a bounded number of allocations that fail:
  `new record`, `push_back` in `retire` and in `adopt_orphans`, the snapshot vector
  of `scan`. Nothing in `include/lfq` catches `bad_alloc`, so the call ends where it
  threw and the client goes on. In `~tl_cache` a throw would end the process.
* **WeakMemory.** The memory orderings operationally: every location keeps its writes
  in modification order, every thread a view it must not read behind, every write
  the view it carries. A relaxed load may return any write from the thread's view on;
  acquire takes over the view of the write; release lends it; read-modify-writes
  continue release sequences; a seq_cst fence exchanges views with all earlier ones.
  Two restrictions, both noted in the module: writes are appended in modification
  order (exact here, `StoresInOrder` included), and loads do not read from writes
  that come later in the run (no load buffering). `mem`, `view`, `seen`, `rel`, `sc`
  are the state; a module that EXTENDS it adds its threads' control.
* **HazardFence.** `hp_model.hpp`, protector and retirer, extended by what carries an
  ordering in `hazard_pointer.hpp` and not there: the second slot with `set` and the
  validating load of `head_`, linking and recycling of records, bags of several nodes,
  several retirers, the orphan stack. `src` stands for `head_` over linked nodes
  1, 2, ... A node's accesses are counted in a location `Clock(p)` that nobody
  reads, so that "the free happens after the access" is a comparison of views.
  `Plans` says which threads take part and for how long; a behaviour follows one plan.
* **QueueRA.** `queue_model.hpp` and its suite (`before`, `thread`, `after`), each
  atomic access one step with the code's ordering. In a setup with `hp` the guard is
  that of `hp_reclaimer` and consumers scan between operations: the composition that
  no Relacy suite runs. `Setups` lists the instances of the suite; a behaviour is of one.
* **MutexQueue.** Lock, critical section and unlock of each operation; moving out of
  `front()` and `pop()` are two steps.
* **BenchTrial.** The driver (spawn, wait, release, join), the barrier, and the
  worker loops of `pairs`, `enq`, `deq` and `pc`; the queue is a number of items.
  `Trials` are the configurations `run_suite` starts; `split_ratio` has the rounding
  of the floating-point share and the sum of the two options as an `unsigned`.
* **BenchSuite.** `parse_thread_list`, the options `parse_args` accepts, the sweep of
  `run_suite` with `unsigned` of `W` bits, `summarize`. A trial is one step; rows
  keep their labels, summaries the ranks they report.

* **MSQueueInv, HazardInv, HazardFenceInv, QueueRAInv.** The inductive invariants of the
  queue, of the domain, and of the two weak-memory models.
* **`*_proofs`.** The theorems of section 4 and their lemmas. `HazardDomain_proofs` has
  the domain's lemmas, one per operation and independent of the client; the modules
  about its two clients cite them, `MSQueue_proofs` through an INSTANCE.
  `MSQueue_proofs` is about the queue over both reclaimers, `HazardCells_proofs` about
  the domain with and without allocations that fail.

Operators commented *Mutant* are not part of a model: each is a plausible bug that
replaces the definition after it, and shows that a property can fail. The small
operators they replace (`Swung`, `Verified`, `tail_mo`, ...) name the one comparison,
value or ordering of the code that the bug would change.

## 3. Runs

States and times are with two workers.

| run | instance | distinct states | checks |
|---|---|---|---|
| `msqueue` | 3 threads, 2 values, 4 nodes | 240,659 | `TypeOK`, `ListInv`, `DerefSafe`, `QuiescedTail`, `DtorInv`, `LinkedOnce`, `Linearizable`, and the proofs' `IInv` |
| `msqueue_hp` | 2 threads, 2 values, 3 nodes, 2 slots, 3 retirements | 1,615,567 | `HPTypeOK`, `StillCorrect` (the list, dereference, quiescence and destructor invariants of `msqueue`), `UseAllocated`, `FreedUnused`, `NodesAccounted`, `Linearizable` |
| `msqueue_hp_progress` | 2 threads of which 1 runs, 3 nodes, 2 slots, 2 retirements, a queue that is not destroyed | 379,633 | `RunningCallsReturn` |
| `mutex` | 3 threads, 2 values, calls while fewer than 2 items | 11,925 | `MutualExclusion`, `OpsReturn`, `Linearizable`, deadlock |
| `hazard_cells` | 3 threads, 1 cell, 2 nodes, 1 slot, 2 retirements, threshold 2K per record | 1,751,212 | `NoUseAfterFree`, `OneOwner`, `BooksBalance`, `RecordsExclusive`, `RecordsBounded`, `BagBounded` |
| `hazard_progress` | 2 threads of which 1 runs, 2 nodes | 111,433 | `Reclaimed` |
| `hazard_alloc` | 2 threads, 2 nodes, 2 slots, 2 failing allocations | 671,271 | `MemorySafe` |
| `hazard_fence` | three plans: two dequeues against two unlinks; a record that changes hands; an orphan that is adopted | 3,094,504 | `UseSafe`, `FreeHappensAfter`, `StoresInOrder` |
| `queue_ra` | four setups: 2 producers with 1 value and 2 consumers; 1 producer with 2 values and 2 consumers; over hazard pointers, 2 producers with 1 value and 1 consumer, 1 producer with 2 values and 1 consumer | 2,082,084 | `Published`, `ExactlyOnceInOrder`, `Drained`, `UseSafe` |
| `bench_trial` | 1 to 4 threads, 2 operations each, ratios 1:1, 3:1, 1:3 and two whose sum wraps, 4-bit unsigned | 60,750 | `StartLine`, `AllCounted`, `TrialEnds` |
| `bench_suite` | 4-bit unsigned, up to 2 thread counts, 0 to 5 warmup and repetitions | 18,825 | `OneRowPerRep`, `NearestRank` |
| `hazard_stalled` | as `hazard_progress` | violated | `StalledPinsSlotsOnly` |

Why the bounds are enough for the cases that matter:

* `msqueue`: three threads give an enqueue suspended between its CASes, a helper, and
  a dequeue that overtakes both; three allocations let a node be linked, dequeued
  and the list grow past it, so every stale-snapshot case occurs. The helping
  branches, failed CASes and the destructor all fire.
* `msqueue_hp`: three node addresses and three retirements let the first dummy be
  freed, reused, and become the dummy again while another operation still
  holds its address, the classic ABA. `ScanMin = 1` and `ScanFactor = 0` make every
  `retire` scan: the model scans more often than the code, which takes 64, so frees
  happen at least as early. Thread exit, recycling, adoption and drain interleave.
* `hazard_cells`: a holder, a retirer that exits, and an adopter are three threads;
  two nodes allow reuse of a freed address, and `drain` and thread exit scan with any
  number of records. The threshold is the code's two hazards per record; the minimum
  of 64 only raises it, so 1 is the hard case. Slots are interchangeable there; two
  slots are in `msqueue_hp`. `MaxRecords` exceeds the number of threads, so a
  superfluous record would show.
* `bench_trial`: with four threads pc runs with up to three consumers, so one can be
  between its dequeue and its count while others load, spin and stop. One thread is
  the first of the default sweep; `pc` skips it. Of the two ratios that do not fit
  the 4-bit `unsigned`, one sums to zero and one to a share that cannot be converted.
* `hazard_fence`: a second guard lets a scan read the slot of a *later* hazard, and a
  second unlink lets the successor that `set` published be retired too; the own
  hazard keeps a just-retired node, so a free takes two scans. A second protector takes
  over the record of the first; a second retirer, which only calls `drain()`, must
  free what it never unlinked.
  One plan per case keeps the run small: the cases do not need each other.
* `queue_ra`: the shapes of `model_check.cpp` are 1Px2+1C, 1Px1+2C, 2Px2+1C and
  2Px1+2C, of which Relacy samples all but the protocol suite. The first setup is the
  last of these, exhaustively, and contains the second; the second setup contains the
  first. Over hazard pointers, `writes` of a setup bounds the writes to a slot, of which
  an operation makes one for each publication, retries included, and one to clear. With
  2, in the third setup, a thread completes one operation without a retry, or is caught
  retrying: enough for an enqueuer that holds a stale tail against the scan that
  follows a dequeue. With 4, in the fourth, the producer and the consumer complete two
  operations each, or retry, the consumer scans after each, and the suite ends, so
  `Drained` is also met with nodes that a scan has freed. A second consumer that reads
  the *successor* while the first dequeues and frees it is beyond what TLC can explore
  under this memory; that half of `UseSafe` rests on its theorem, on
  `hazard_fence`, where the first plan has it, and on `msqueue_hp`.
* `msqueue_hp_progress`: three nodes are the lagging tail that a suspended enqueue left
  behind, its successor, and the node of the enqueue that must help before it can link
  its own; an enqueue also loses its link CAS, and a dequeue its `head_` CAS. With helping
  removed from `enqueue` alone, the run fails. Two retirements let two dequeues race,
  a scan keep what the suspended thread names, and an address come back. The destructor
  is left to `msqueue_hp`: it runs when no call does.
* `bench_suite`: 4 bits are enough for a thread count that narrows to another (17 to
  1). The counts are such that `warmup + reps` does not wrap, see section 6.

Deadlock is checked for `mutex`. The other systems may stop: the queue after its
destructor or when the bound on nodes is reached, the domain when all threads have
exited, a trial or a sweep at its end, a suite after `after()`.

### Which orderings matter

The weak-memory models were also run with one ordering relaxed at a time. The
mutants of the project are three of the variants the Relacy models name, plus the
clear of `~guard` and the recycling CAS; the others are reported here.

* `QueueRA` (leaky): besides the tail load, relaxing the link CAS, the swing, the
  helping CAS, the `head_` CAS, either load of `next`, or protect's load each violates
  `Published`. Relaxing the two re-checks (`tail_` in `enqueue`, `head_` in
  `try_dequeue`) violates nothing: they are the staleness heuristics the comments
  say they are.
* `HazardFence`: removing either fence of the guard, protect's or `set`'s, or the
  scan's violates `UseSafe`; relaxing the publishing store or the slot loads violates
  `FreeHappensAfter`. Relaxing `set`'s store, the unlink, the record's link CAS, the
  adopting exchange, `push_orphan`'s CAS or the verifying loads violates neither
  property here: the fences already order what these protect. They also publish the
  contents of records and orphans, which this module does not model.

### Fairness

* `MSQueueHPProgress`: only threads in `Running` are scheduled; the others may stop at
  any access for ever, in the queue or inside the domain. A running thread takes its
  next step (WF). A weak CAS does not fail spuriously for ever (SF on its success): the
  standard allows spurious failure but the hardware loops that implement it make
  progress. Since `Nodes`
  bounds the number of enqueues, strong fairness excludes no starvation by other
  threads' successes that the bounded model could show; what is shown is that a
  *suspended* thread stalls nobody, which is the progress claim of the code.
* `HazardProgress`: running threads take their steps, close the guards they open,
  and call `drain()` again and again, as `reclaim_test` does between its phases.
  The code never scans an idle thread's bag by itself.
* `MutexQueue`: the holder of a mutex runs, and a waiter gets a mutex that is
  free again and again. `std::mutex` does not promise the second; implementations
  in use provide it in practice. Mutual exclusion and refinement do not use it.
* `BenchTrial`: the driver and all workers are scheduled (WF).

## 4. What is proved

Every safety property the runs check has a theorem, except `Drained` and
`OneRowPerRep`: for any number of threads, values, nodes, slots, cells and records, any
scan threshold, any number of failing allocations, and for the weak-memory models any
plans and setups, not only for the instances of section 3.

| module | theorems | statement |
|---|---|---|
| `MSQueue_proofs` | `Invariance`, `TypeCorrect`, `ListCorrect`, `DerefCorrect`, `QuiescedTailCorrect`, `DtorCorrect` | `Spec => []IInv`, and `TypeOK`, `ListInv`, `DerefSafe`, `QuiescedTail`, `DtorInv` |
| | `LinkedOnceCorrect`, `Refinement` | `Spec => LinkedOnce`, `Spec => Linearizable` |
| | `HPInvariance`, `HPTypeCorrect`, `StillCorrectHP`, `UseAllocatedHP`, `NodesAccountedHP` | `HPSpec => []HPInv`, and `HPTypeOK`, `StillCorrect`, `UseAllocated`, `NodesAccounted` |
| | `FreedUnusedHP`, `HPRefinement` | `HPSpec => FreedUnused`, `HPSpec => Linearizable` |
| `HazardCells_proofs` | `Safe`, `TypeCorrect`, `NoUseAfterFreeCorrect`, `OneOwnerCorrect`, `RecordsExclusiveCorrect`, `RecordsBoundedCorrect`, `BooksBalanceCorrect` | `Spec => []SafeInv`, and `TypeOK`, `NoUseAfterFree`, `OneOwner`, `RecordsExclusive`, `RecordsBounded`, `BooksBalance` |
| | `BagBoundedCorrect` | `Spec => []BagBounded` if `ScanFactor > K` |
| | `MemorySafeCorrect` | `AllocSpec => []MemorySafe` |
| `HazardFence_proofs` | `FenceInvariance`, `UseSafeCorrect`, `FreeHappensAfterCorrect`, `StoresInOrderCorrect` | `Spec => []FenceInv`, and `UseSafe`, `FreeHappensAfter`, `StoresInOrder` |
| `QueueRA_proofs` | `RAInvariance`, `PublishedCorrect`, `UseSafeCorrect`, `ExactlyOnceInOrderCorrect` | `Spec => []RAInv`, and `Published`, `UseSafe`, `ExactlyOnceInOrder` |
| `MutexQueue_proofs` | `TypeCorrect`, `MutualExclusionCorrect`, `Refinement` | `Spec => []TypeOK`, `[]MutualExclusion`, `Linearizable` |
| `BenchTrial_proofs` | `TrialCorrect`, `StartLineCorrect`, `AllCountedCorrect` | `Spec => []TrialInv`, and `StartLine`, `AllCounted` |
| `BenchSuite_proofs` | `NearestRankCorrect` | `Spec => []NearestRank` if `NoWrap` |

Assumptions. Each module names what it assumes of its constants (`ConstAssumption`,
`DomainAssumption`, `HPAssumption`, ...): the dummy is a node and `Null` is none, there
are finitely many threads, a record has at least one slot (two for the queue), the
minimal threshold is positive. For `QueueRA`, `NullAssumption` says that `nullptr` is
neither a node nor the name of a producer or of the dummy, so that the locations are
distinct; nothing is assumed of the sets of producers and consumers but that they are
disjoint. Two theorems have a hypothesis of their own.
`BagBoundedCorrect` needs a threshold above the number of slots; the code's factor is
`2 * kSlots`. `NearestRankCorrect` needs `warmup + reps` not to wrap, and section 6 says
what happens when it does. For `BenchTrial`, thread counts and options are positive
(`parse_thread_list` and `parse_args` refuse zero; the count that narrows to zero would
be a trial without threads) and options fit an `unsigned`.

### The queue

The list invariant is not inductive: it says nothing of what a thread remembers.
`MSQueueInv` adds, for every point of an operation, what its stale snapshot still
implies:

* `NodeInv`: an unlinked node is known to its enqueue only, and a *dequeued* node has
  a non-null `next`. The second is why a stale enqueue cannot link behind a dequeued
  node: its CAS expects null.
* `EnqInv`: if the enqueue's `tail` is still the last node then `tail_` is not behind
  it; after the link, the new node follows `tail`. So neither the swing nor a helper
  can move `tail_` back.
* `DeqInv`: `head` is the first node or was dequeued, never one in the middle; if it
  is still first and `tail` was read ahead of it, `tail_` is ahead of it, hence
  `next` is not null. This is the argument of the comment at the tail load.
* `LagInv`: whenever `tail_` lags, the enqueue that linked the last node is about to
  swing it; at quiescence there is none, so nothing lags.
* `CursorInv`: the destructor has deleted exactly the chain before its cursor.

`NextInv` has one lemma per action. Frame lemmas (`NodeFrame`, `ListFrame`,
`TailFrame`, `LocalFrame`) carry the conjuncts an action does not touch;
`AppendChain` and `TailChain` say what the two CASes do to the chain. The refinement
maps the queue to the values of the chain without its dummy and each thread to its
stage. The link CAS is the effect of `enqueue`, the `head_` CAS that of
`try_dequeue`; the empty answer takes effect at the load of `head->next`, provided
`head = tail` was read before, and is undone (`Forget`) if validation fails.

### The hazard pointer domain

`HazardInv` has the parts that hold for any client:

* `RecordInv`, `ControlInv`: an active record has one thread, an inactive one names
  nothing; what holds between two accesses of each operation.
* `CountInv`, why there are never more records than threads. A thread walking the list
  gets below record `j + 1` only by finding it in use, and then its owner is not below
  it. So of the threads, at least `nlinked - j` are not in `Below(j)`; for the thread
  that is about to link, in `Below(0)`, there is room for one more.
* `BagsInv`: bags and orphans are disjoint.
* `Spares(u, r, s, m)`, the heart of no use after free: thread `u`, if it has `m` in its
  bag, has not begun to read the slots, has `m` in its snapshot, or has yet to read
  slot `s` of record `r`. `SparesFresh`: a node that is not retired is spared by all.
  `SparesKeep`: as long as the slot names `m`, every operation of every thread
  preserves it (a retire or adoption puts `m` in a bag only before the snapshot, records
  linked later are ahead of the walk). `SparedNotFreed`: so `m` is not deleted.
* `BoundInv`: a snapshot has at most one node per slot read, so a scan leaves fewer
  nodes than the threshold.

`HazardCells_proofs` adds the client: `HoldInv` (what `protect` returned is named and
spared), `OwnerInv` and `NoneLost` (a node is in one cell, one thread's hands, one bag
or the stack). `BooksBalance` sums over threads; the proof counts the set of deletions
not yet added to `freed_count_` (`Uncounted`) instead, since folds cannot be reasoned
about here. For `HazardAlloc`, the four actions that throw keep `SafeInv`; of the others `SafeKeeps` says so already. `NoneLost` is what they break.

### The queue over the domain

`HPInv` is `IInv`, the domain's invariants and three parts that join them:

* `CallInv`: how the domain's steps nest in an operation; between two calls an
  operation has its record.
* `GuardInv`: at every label at which an operation holds a node, a slot of its record
  names that node and every scan spares it (`Names`). It is established when `protect`
  returns and when `head_` is found unchanged after `set(1, next)`: in both cases the
  node is in the list at that moment, so it is not retired yet, and it was published
  before. That `set` alone does not suffice shows in the proof: `Names(t, 1, nx[t])`
  starts to hold at `DeqCheck` (`CheckGuard`), not at the store.
* `OwnInv`: retired nodes are allocated, out of the list and in no operation's hands.

Queue steps keep `IInv` by `NextInv`, unchanged from the leaky queue. The one new step,
`Delete`, keeps it because a waiting node is neither in the list nor private, and
`HeldStay` says nobody holds it. For this to work `IInv` must not mention nodes that
nobody can reach: `NodeInv` speaks of allocated nodes only, and `DeqInv` asks for an
allocated `next` only once it was validated. The refinement carries over because the
abstraction does not look at the heap.

### Protect against scan, under weak memory

`FenceInv` (`HazardFenceInv`) is about views. `MemInv` says that no view goes further
than memory and that whoever has a write to a *slot* in view has what that write carries:
slots are only read with acquire. One lemma per operation of `WeakMemory` (`Load`,
`Store`, `Update`, `Fence`) says how views grow. On top of it:

* `SpareAt`, `OwnAt`: what released a record carries all writes to its slots, so the
  acquire of the recycling CAS gives the new owner all of them. Its stores are therefore
  the last of the modification order, which is `StoresInOrder`.
* `BagInv`: the fences are totally ordered, and `sc` is what the last one knew. A node in
  the bag of a scan that is past its fence is unlinked for `sc`.
* `Fenced(n, q, s, k)`: the k-th write to a slot named `n`, and a fence came after it. If
  the protector's fence came first, every scan's fence has that write in view, so its
  acquire load cannot return an older one: it finds `n`, or a later write to the slot. If
  the scan's fence came first, the protector has the unlink in view, and its verifying
  load cannot return `n`. `HoldAt` is this alternative at each label; a verification
  that succeeds leaves `Holds`, whence `UseSafe`.
* `Covered`: an access was made under a fenced hazard that is still there, or whose
  replacement carries the access (release of the clear). A scan that frees the node has
  the replacement in view, hence the access: `FreeHappensAfter`. That the scan misses a
  hazard is not the only way to race a reader, and this is the part the fences do not give.

### The queue under weak memory

`RAInv` is `QueueInv(L)` for the one list `L` that memory holds (`ListIsList`). `L` never
loses a node: dequeued ones stay, since a load may still return them.

* `ListInv(L)`: the i-th write of `tail_` and of `head_` is `L[i]`, and `L[i].next` has two
  writes, null and `L[i + 1]`, but for the last. A CAS that succeeds on `tail_` or
  `head_` acts on the last write, so the modification orders run through `L` one by one.
* `CarryInv(L)`: whoever acquires a `tail_` has all links before it in view, and the node;
  a `head_`, that node and a `tail_` at least as far; a link, the construction of the node
  linked. These are the release CASes; the last is what `Published` rests on.
* `ProducerAt`, `ConsumerAt`: what the locals imply at each label. A consumer sees `tail_`
  no further back than its `head`; so if the `tail` it loads differs from `head`, it is
  ahead, `head`'s link is in view, and `next` cannot be null. This is the argument of the
  comment at the tail load, and `bug_relaxed_tail_load` breaks exactly it.
* `GotInv(L)`: what was dequeued is what `head_` went through, in the order of `L`.
* `Gone(n, v, L)`: a view is past `n` in `head_` and in `tail_`. `RetiredInv`: a retired
  node is gone for its retirer, for `sc` once the scan has fenced, and for ever after it
  is freed. `Spared`, `Guards` and `HazardAt` are `Fenced` and `HoldAt` again, for the two
  slots of an operation: after the fence a pointer is gone or spared, and a load that
  still finds it in `head_` or `tail_` shows that it is not gone (`FoundNotGone`). For slot
  1 what is found is `head`, and its successor is not gone if it is not.

That `tail_` may lag behind `head_`'s reader is why `Gone` has two conjuncts: an enqueuer
protects `tail_`, and a node is retired only after `tail_` has left it in the retirer's
view (`HeadAt(c, head, 1, L)` at the `head_` CAS).

One lemma per action shows `QueueInv` (`LinkInv` for a longer list, the others for the
same), from lemmas that assemble the invariant out of what the acting thread's step does
(`Assemble`, `LocalStep`, `QuietStep`).

### The mutex queue and the benchmark

`MutexQueue`: mutual exclusion together with what the holder carries (`CarryInv`).
`BenchTrial`: `LineInv` relates the barrier's counter to the number of workers at the
line, `ItemsInv` says that every item is in the queue, taken and not yet counted, or
counted; sums over workers are cardinalities of sample sets. `BenchSuite`: the loop has
measured `rep - warmup` repetitions, so a summary is of at least one, and the rest is
arithmetic on the ranks.

### Only model-checked

* Liveness (`RunningCallsReturn`, `Reclaimed`, `OpsReturn`, `TrialEnds`): fairness and
  ENABLED are out of the prover's reach.
* `Drained` of `QueueRA`: teardown follows `next` recursively (`Chain`) and enumerates the
  junk list by a choice, and what a recursive definition computes needs induction. It
  presumes, as every suite does, that values are enqueued only if somebody dequeues them.
* `OneRowPerRep`: `FlattenSeq` and `SelectSeq` are recursive.
* `StalledPinsSlotsOnly` is false.

## 5. Hazards and the properties aimed at them

`PROJECT.json` lists them at their lines. The ones that shaped the models:

* suspension between link and swing (`ListInv`, `RunningCallsReturn`);
* three loads of `try_dequeue` and an unconditional dereference (`DerefSafe`);
* an empty answer decided before it is validated (`Linearizable`);
* ABA through reused addresses (`FreedUnused`, `Linearizable` in `msqueue_hp`);
* the unverified `set(1, next)` that only the `head_` check justifies (`UseAllocated`,
  `FreedUnused`: without the publication TLC finds the freed node in use);
* a scan that frees from a stale snapshot (`NoUseAfterFree`);
* recycling of a record somebody is walking past (`RecordsExclusive`,
  `RecordsBounded`);
* hand-over of a bag at thread exit (`OneOwner`, `NodesAccounted`, `Reclaimed`);
* consumers that stop on a counter incremented after the dequeue (`AllCounted`,
  `TrialEnds`);
* publish and verify passing each other, and the second slot (`UseSafe`);
* a free that races the last read it did not see (`FreeHappensAfter`);
* a late clear of a recycled record (`StoresInOrder`);
* stale tails and unpublished nodes (`Published`);
* `bad_alloc` in the middle of a scan (`MemorySafe`).

Two have no property, because nothing holds there: the latency vectors a consumer may
outgrow and `warmup + reps` that wraps. Both are in section 6.

## 6. Findings

**A stalled thread pins its bag** (`hazard_pointer.hpp:24`, run `hazard_stalled`).
"A stalled thread pins only what its own K slots name" is true of *other* threads'
garbage. Its own bag, below the threshold, is scanned by nobody else. `Reclaimed` is
what does hold.

Noted while modelling, without a run:

* `hazard_pointer.hpp:127`: `in_flight()` loads `freed_count_` and then
  `retired_count_`. `reclaim_test.cpp:148` asserts twice the true bound because "2x
  absorbs the sampling skew", but a sampler preempted between the loads counts every
  later retirement and none of the later frees, so a sample has no bound.
* `hazard_pointer.hpp:216`: "Nothing is ever silently dropped"
  (`hazard_pointer.hpp:53`) holds unless `push_back` throws after `adopt_orphans` took
  the stack (`AdoptThrows`); what was not yet pushed is then reachable from nowhere. It
  is a leak: `MemorySafe` holds. With `BooksBalance` as the invariant of `hazard_alloc`,
  TLC shows the run.
* `ms_queue.hpp:206`: `retire` may throw inside `try_dequeue` after `head_` was swung. The
  node is then leaked (`RetireThrows`) and the value lost to the client, which sees the
  exception.
* `bench_main.cpp:169` and `224`: consumers reserve for an even share of the items (or
  twice it), and one consumer may take all, so a latency vector can grow during a trial,
  against `harness.hpp:10`.
* `bench_main.cpp:287`: `warmup + reps` is unsigned and wraps, for `--warmup=-1` say. The
  sweep then measures nothing and `summarize` indexes an empty vector. With 15 among the
  `Counts` of `bench_suite`, TLC shows `OneRowPerRep` violated.
* `bench_main.cpp:254`: `ratio_p + ratio_c` is unsigned and wraps too, for
  `--ratio=2147483648:2147483648` to zero. The share is then infinite, and converting it
  to `unsigned` is undefined; the two bounds after it still leave a thread to each side
  (lemma `SplitSides`), so the trial is a proper one with another split than asked for.
* `DESIGN.md:260` still calls all orderings `seq_cst`.

## 7. Not modelled

* `in_flight()`, which only reads two counters.
* Load buffering, and the non-atomic contents of records and orphans under weak memory.
  The sequentially consistent modules and the weak-memory ones are related by their
  common source only; no refinement between them is claimed.
* The benchmark's clock, pinning and output text, and `percentile_sorted`, whose formula
  is the one of `summarize` applied to latencies.
* `inject.hpp` (chooses among interleavings the models explore all of), `model_check.cpp`
  (a list of Relacy runs and expected verdicts), `padding.hpp`, plotting, results,
  vendored code. The watchdog of `stress_test.cpp` is a timeout of the test itself.
* `empty()` under concurrency: the header restricts it to quiesced states, where
  `QuiescedTail` says it is exact.
* The 64-bit counters do not wrap in any feasible run and are natural numbers.

## 8. What is left

The models are complete with respect to section 7, and every safety property they can be
proved to have is proved, except the two recursive ones of section 4. Worth adding if the
code changes:

1. A refinement of `MSQueue` by `QueueRA`. `ListInv(L)` and `GotInv(L)` are most of it; the
   empty answer is missing, which under weak memory has no single moment at which the queue
   was empty for everybody.
2. The plain contents of records and orphan blocks under weak memory.
