# shm_sync: verification project

shm_sync is a collection of shared-memory synchronization benchmarks: locks,
queues and stacks written in C++ and Ada, each driven by a small multi-threaded
program that measures it. This directory holds TLA+ models of them, the TLC
runs that check the models on small instances, and TLAPS proofs of the theorems
that hold for every number of threads. Paths are relative to the repository.

## 1. Inventory

### Parts and how they interact

| Part | State | Operations | Status |
|---|---|---|---|
| `common/barrier` | one 64-bit call counter per thread | `barrier_init`, `barrier_wait` | modelled and proved |
| lock drivers, `benchmark/blocking/*/driver.cpp` | per thread: run, execution, iterations; samples | `main`, `thread_f` | modelled in part (`Bench`) |
| TASLock, TATASLock | one flag | `lock`, `unlock` | modelled and proved |
| ArrayLock | `tail`, `flags[]`, a slot per thread | `init_arraylock`, `lock`, `unlock` | modelled and proved |
| CLHQueueLock | `tail`, nodes, three pointers per thread | two initialisations, `lock`, `unlock`, `delete_per_thread` | modelled and proved |
| PetersonLock | `flag0`, `flag1`, `turn` | `reset_peterson_lock`, `lock`, `unlock` | modelled and proved |
| FilterLock | `levels[]`, `victims[]` | `reset_filter_lock`, `lock`, `unlock` | modelled and proved |
| Taubenfeld | `group`, `state[]`, an inner lock | `entry_section`, `lock`, `unlock`, `exit_section` | modelled and proved (fairness of the sequentially consistent build) |
| C++11MutexLock, POSIXMutexLock, POLock, PO_FIFO_Lock | a mutex or a guard, an entry queue | loops around it | modelled and proved (`LibraryLocks`) |
| pair drivers, `driver.cpp` and `driver_*.adb` of queues and stacks | as the lock drivers, producers and consumers | `main`, `f_prod`, `f_cons` | modelled in part (`PairBench`) |
| COstack, `common/hazard_pointers` | linked nodes, hazard pointers, reclaim list and count | `push`, `pop`, retire, reclaim | modelled and proved |
| AdaLockfree, `common/tagged_pointers` | Michael-Scott queue with counted pointers, freed nodes | `Enqueue`, `Dequeue`, `Empty` | modelled twice, sequentially consistent (`MSQueue`) and with its memory orders (`AcquireQueue`); both proved unless freed addresses come back |
| BQueue | a ring per pair, head, tail and their batches | `enqueue`, `dequeue`, `backtracking` | modelled and proved |
| BoostSPSC, BoostMPMC, `monitors/Ada` | a library's queue | loops around it | modelled (`LibraryQueue`) |
| C++11MutexStack | list under a mutex | `push`, `pop` | modelled and proved (`ListUnderLock`) |
| Ada_TAS_MPMC | list and its length under a flag | `Enqueue`, `Dequeue` | modelled and proved (`ListUnderLock`) |
| `tsx/GNARL_patch` | shadow lock, mutex, transactions | `Write_Lock`, `Read_Lock`, `Unlock` | modelled and proved (`Elision`) |
| `tsx/DiningPhilosophers` | forks | `Acquire`, `Release`, rendezvous | modelled and proved |
| `tsx/HashTable` | open-addressing table, item count | `Insert`, `Lookup`, `Check_Resize`, `Clean` | modelled and proved |
| `tsx/kmeans` | next chunk, delta, new centers | `Add_Index`, `Write_Points`, rendezvous | modelled and proved |
| `common/stats` | sample array, results | `initStats`, `enterSample`, collectors, aggregation, `dumpData` | modelled (`Stats`) without `dumpRawData`, colours and wording |
| `common/timer` | `loops_per_jiffy` | `calibrate_delay`, `useful_work_us`, `useful_work_ns` | modelled and proved (`Timer`) |
| `common/ada_binding/papi` | per thread: times, sets of counters | start, end, read, measure | modelled and proved (`Papi`) without `PAPI_setup` |
| `*_ar.cpp` of the locks | as above | as above, weaker memory orders | modelled (`Relaxed*`, `FairLock`) and proved |
| `common/atomic_intrinsic/ada` | none | `Atomic_Load`, `Atomic_Store`, `Atomic_Compare_Exchange` | modelled and, as the queue uses them, proved (`AcquireQueue`) |
| `common/atomic_intrinsic/c++` | none | `mem_fence` on two architectures | modelled (`Fences`) |
| `common/stats/log.cpp`, `color_term.cpp` | none that matters | output | not modelled |
| `tsx/CMD_Args`, `scripts`, `cmake` | none shared | option parsing, plots, build | not modelled: sequential input and output |

Every benchmark has the same shape. `main` parses the options, initialises the
barrier, the samples and the lock, creates the threads and joins them. Each
thread runs `thread_f`: for every scaling run and every execution it calls
`barrier_wait`, and if it takes part, calls the lock's `*_sync` function (a loop
of `lock`, useful work, `unlock`, useful work) and stores the time it took with
`enterSample`. What interacts is thus: threads among each other through the
lock; each thread's re-initialisation of the lock, in the driver, with the
others' last and next accesses, through the barrier; and the drivers with the
sample array. Queues and stacks have pairs of threads, a producer and a consumer
each, and the consumers take what the producers make. The transactional
benchmarks have a main task instead that meets its workers at rendezvous, between
which they share protected objects, and these the run-time system may elide.
Most locks exist twice, sequentially consistent (`*_sc.cpp`) and
with weaker memory orders (`*_ar.cpp`, the acquire-release build).

### What is hard, and what makes each part correct

* **Barrier.** The counters are polled one after the other while others come and
  go. Correct: no call returns before every thread has made its call of the same
  number, and every call returns.
* **Driver.** Iterations are divided with a remainder; samples of all runs share
  one array. Correct: the work asked for is done, each participant has a sample
  of its own.
* **Spin locks.** The flag is carried over from execution to execution. Correct:
  exclusion, and the program ends although the lock may starve a thread.
* **Array lock.** Slots wrap around modulo the number of threads, also in runs
  with fewer participants; thread 0 re-initialises without synchronisation of
  its own. Correct: exclusion, first come first served, nobody in the lock at
  re-initialisation, slots inside the array.
* **CLH lock.** Nodes change owners at every `unlock`; each thread frees the node
  it once allocated. Correct: exclusion, first come first served, no access to
  freed memory, everything freed once.
* **Peterson and filter locks.** Threads reset shared variables while others may
  still be locking. Correct: exclusion nevertheless, bounded overtaking
  (Peterson), the levels' filtering (filter lock), progress.
* **Taubenfeld.** Two groups of threads let each other pass; the group switches
  between the loads of a waiting thread. Correct: exclusion, the README's
  fairness ("prevents a thread from accessing a resource twice while another
  thread is waiting"), no circular waiting.
* **Stack with hazard pointers.** A consumer dereferences a node others may pop,
  retire and free meanwhile, and whose address may come back. Correct: it behaves
  as a stack, no access to freed memory, no node or item lost or doubled, the
  count of retired nodes right.
* **Lock-free queue.** `Next` is loaded through a node that may have been freed.
  Correct: it behaves as a queue, nobody acts on what a freed node held.
* **B-Queue.** Batches are probed at their far end; the consumer backtracks, and
  the ring wraps. Correct: it behaves as a queue, what a batch promises is there,
  the consumer finds what is there.
* **Queues of libraries and under locks.** Consumers wait for items, and the
  drivers compute how many. Correct: nobody waits for an item that does not come;
  what is left is what the shares leave out; an exception leaves the lock free.
* **Lock elision.** Transactions against the fall-back path. Correct: exclusion,
  operations seen whole, every call ends.
* **Philosophers.** No circle of waiting, forks in one hand, at each table.
* **Hash tables.** What was inserted is found in spite of collisions and resizes.
* **k-means.** Every point is worked on once per loop.
* **Samples.** The collectors' statistics are of the samples that were entered,
  and what is printed does not run together.
* **Calibration.** The thread may lose the processor at any moment of
  `calibrate_delay`. Correct: it ends, never finds more rounds than fit into a
  tick, and a delay lasts about as long as asked.
* **PAPI.** A call of the library may fail. Correct: what is reported of a
  thread is what it measured in this round.
* **Acquire-release builds.** A load may return a value that is out of date, and a
  store may be seen late. Correct: exclusion still, and what one critical section
  did to the data is known in the next.
* **Fences and intrinsics.** A fence keeps at least the orders it is named for,
  on each architecture; a memory order that goes from Ada to C stays the same.

`PROJECT.json` lists the hazards with their lines and the properties that cover them.

## 2. Modules

`Locks` has the options of the lock drivers and what every lock promises.
`Bench` gives the driver's statements as operators over the labels of `pc`; each
lock's module EXTENDS it and strings the statements together with its own;
`PairBench` does the same for queues and stacks. What `main` makes of the command
line are the CONSTANTS, and `Spec` is the program that it then starts. One shared
load or store is one step wherever a property could tell, and loads of a spin loop
that do not end it are not steps (they change nothing).

| Module | Models | Correspondence |
|---|---|---|
| `AbstractBarrier` | the promise of `barrier.h` | calls made and calls returned per thread |
| `Barrier` | `barrier.cpp` | `Count` the increment, `Load` of `my_level`, `Scan` one load of another counter; `Inc` wraps at `CtrMax` |
| `Locks` | what all locks share | the constants, `Inside`, `MutualExclusion` |
| `Bench` | `thread_f`, `enterSample`'s index | `Arrive`/`Pass` the beginning and return of `barrier_wait`, `Start` the entry of `*_sync`, `EndIteration` its loop control, `Record` and `NextExec` the rest |
| `SpinLock` | TASLock (`TestFirst = FALSE`), TATASLock (`TRUE`) | `Test`, `Swap`, `Lose`, `Unlock` |
| `ArrayLock` | ArrayLock | `Draw` the fetch-and-add, `Enter`, `Lower` and `Grant` the two stores of `unlock`, `InitArrayLock`; `Order` the queue by tickets, which maps it to `FifoMutex` |
| `FifoMutex` | what the queue locks promise | a queue of threads, whether the first has entered |
| `CLHQueueLock` | CLHQueueLock | addresses are reused by `Alloc`, which leaves the memory uninitialised; `Mark`, `SwapTail`, `CLHEnter`, `CLHUnlock`, `Free`; `CLHOrder` the queue that `tail` and the predecessors imply (`Linked`), which maps it to `FifoMutex` |
| `PetersonLock` | PetersonLock | three stores of the reset, four accesses of `lock`, `unlock` |
| `FilterLock` | FilterLock | two stores of the reset, `SetLevel`, `SetVictim`, `Scan` one load of `levels[k]`, `Check`, `Unlock` |
| `FairLock` | Taubenfeld, `fair_lock_sc.cpp`, and `fair_lock_ar.cpp` on x86-64 (`Buffered`) | each access of the doorway, of the waiting loop and of `exit_section`; `Drain` lets the oldest store of a thread reach the memory, `Fence` is its `mfence` |
| `LibraryLocks` | the benchmarks of a library's mutex, of POLock and PO_FIFO_Lock (`Fifo`) | `LibraryLock`, or `Call` and `Serve` of the entry; `LibraryShare` as each driver computes it |
| `Memory` | the memory of C++11 and Ada as far as the builds use it | each location has the sequence of the values stored in it, each thread a view, how far it knows each sequence; a load returns any value from its view on; a release store carries the view of its thread, and an acquire load takes over what it finds |
| `RelaxedBench` | one execution in an acquire-release build | `*_sync` between two barriers, by all threads or fewer; a critical section stores in `Payload` |
| `RelaxedSpinLock` | `taslock_ar.cpp`, `tatas_lock_ar.cpp` | as `SpinLock`, with memory orders |
| `RelaxedQueueLocks` | `arraylock_ar.cpp`, `clhqueue_lock_ar.cpp` | as `ArrayLock` and `CLHQueueLock`; `Fence` is `mem_fence(ss)` of the CLH lock, `SwapTail` its relaxed exchange with the dependency that stands for consume |
| `RelaxedTurnLocks` | `peterson_lock_ar.cpp`, `filter_lock_ar.cpp` | as `PetersonLock` and `FilterLock`, with the resets before the next execution (of the filter, the victim: its level is 0 already, and stored once more) |
| `Fences` | `fences.h`, `fences_x86_64.h`, `fences_aarch64.h` | two threads with two accesses each and a fence between; `OnIntel`, `OnArm` the instructions a fence is made of |
| `PairBench` | `f_prod`, `f_cons` | as `Bench`, with two roles |
| `Container` | what stacks and queues promise (`Lifo`) | a sequence of items |
| `COstack` | `COstack_sc.cpp`, `hazard_pointers.hpp` | `NewNode`, `Link` for push; `LoadHead`, `Protect`, `Reload`, `ReadNext`, `Unlink`, `Clear` for pop; `Retire` to `Uncount` for retiring and reclaiming, one load of a hazard pointer per `ScanSlot`; `Places` all that can have a node, and `OldestFirst` the items from `head` on, which map it to `Container` |
| `MSQueue` | `unbounded_queues.adb`, CAS_8 and CAS_16 | one load or exchange of a tagged pointer per action; `Reuse`: whether `new` may return a freed address, or else the next one that was never used; memory that is not allocated holds `Garbage`; `Contents` the items of the nodes that can be `Reached` from `List.First`, which map it to `Container` |
| `AcquireQueue` | `gcc_atomics.c`, `Atomic_Intrinsic`, and CAS_16 on `Memory` | `gcc_memorder` and `Builtin` translate orders, `Supported` selects by size; the queue as in `MSQueue`, without freed nodes: the address of a node is that of its item, the producer and what it has left |
| `BQueue` | `fifo.c` without macros, and with PROD_BATCH, CONS_BATCH, BACKTRACKING, ADAPTIVE (`Batched`) | `ProbeFree`, `Store` for enqueue; probing and `Halve`, `EndBacktrack` for backtracking; load and clear for dequeue |
| `ListUnderLock` | `Ada_TAS_MPMC` (`Ada`) and `mutexstack.cpp` | statements under the flag or mutex, `Handler` for the exception or the return from an empty stack |
| `LibraryQueue` | BoostSPSC, BoostMPMC, `monitors/Ada` | `Push`, `Pop`; `Share` as each driver computes it |
| `Elision` | the patch of the Ada run-time system | `XBegin` to `Aborted` the loop of attempts, `Acquire` to `LockMutex` the fall-back path, `XEnd`, `UnlockMutex`, `Release` of Unlock. The transactional memory is the processor's: conflicts roll back at once. `Completed` is the set of the procedure's calls that took effect |
| `DiningPhilosophers` | `Philosopher`, `Fork`, the driver's loops | `SetPID` and `FinishMeal` the rendezvous, one call of a fork per action |
| `HashTable` | `Hashmap`, `Growing_Hashmap`, `Worker`, the driver's loops | a call of the protected object per action; `CheckResize`, `CountItem`, `Insert` for the growing table; `TableStart` and `TableFinish` the rendezvous of the main task, `NextNrOfTasks` its outer loop; `Rehashed` the loop of `Check_Resize` as a function of the number of places copied |
| `KMeans` | `Normal_Exec`, `Concurrent_Work`, `Global_s`, `New_Centers` | a statement or protected call per action |
| `Stats` | `stats.cpp`, `smpl_collector.cpp` | `EnterSample`; `DumpData` with its rows, `numWidth` and `computeSampleWidths`; products modulo 2^`Width` |
| `Timer` | `timer_x86.cpp` | `Trial`, `Recalibrate`, `Test`, `Found` of `calibrate_delay`; `Interrupt` takes the processor away between any two of its steps; `UsefulWork` the products of 32-bit words |
| `Papi` | `binding.cpp`, `papi_binding.adb` | one call of the library per action, `Fail` or `Succeed` |
| `BenchProofs` | lemmas on the driver | used by the proofs of the locks |
| `*Proofs` | theorems of the component | |
| `MCCommon` | `Barrier`, and after it `Timer`, `Stats` or `Papi` for TLC | `part` says which; the mapping to `AbstractBarrier` is in `Barrier` |
| `MCLocks` | all locks of the sequentially consistent build, in their drivers, and `FairLock` with buffers, for TLC | INSTANCEs that share the driver's variables; `lock` says which benchmark the behaviour is one of, and the others' variables stay `None` |
| `MCRelaxed` | the `Relaxed*` modules, `AcquireQueue`, `Fences`, and `PetersonLock`, `FilterLock`, `FairLock` with more threads or iterations, for safety | the same, with `prog` |
| `MCQueues` | the queues and stacks for TLC | the same, with `bench`; the mapping to `Container` |
| `MCTsx` | `Elision`, `DiningPhilosophers`, `HashTable`, `KMeans` for TLC | the same |

Programs that have nothing to do with each other share a run only because each
behaviour is one of a single program: the states of a run are the sum of theirs,
not the product.

**Barrier in the driver.** The locks use the abstract form (arrive; return once
every counter has reached one's own): `ImplementsFairBarrier` checks, and
`BarrierImplements` proves, that the polling barrier provides it. `Bench` keeps
`ctr` unbounded, which is the "146 years" of `barrier.h`.

**Memory.** `Memory` has the values of a location in the order in which they were
stored, so that a store always becomes the newest (no store is put before an
older one), and a read-modify-write reads the newest. It has no sequentially
consistent order over several locations: sequentially consistent loads and stores
are acquire and release ones, which can do more than they should, never less.
What it leaves out is values out of thin air. Fair synchronization hangs on a
store and a later load of another location in order (`mfence`), which such a memory
cannot express; it has store buffers instead.

**Wrong variants.** A definition commented "Wrong variant of X" is not part of
the model: it is X with a plausible bug, and the run named in `PROJECT.json`
finds a property violated when it takes the place of X. They show that the
properties can fail.

**Histories.** `ticket`, `served`, `passed`, `worked`, `calls`, `got` and the like
record what happened for the sake of a property and influence nothing.

## 3. Runs

| Run | Instance | Shows |
|---|---|---|
| `common` | barrier: 3 threads, 3 calls; then one of: the calibration with a tick of 1 to 101 rounds, first guess 8 steps, two interruptions of 1, 20 or 70 rounds; samples of 4 threads in 2 groups with scaling runs, and of 2 threads, 3 executions; 3 rounds of PAPI for up to 3 threads with 2 failures | separation, refinement of the abstract barrier with its fairness; calibration ends, never too long, delays as asked; statistics are of the samples entered, columns do not run together; reports are of their round |
| `locks` | TAS, TATAS, array and CLH lock, a mutex, PO_FIFO_Lock, Peterson (2 threads, 3 executions), filter (3 threads), fair lock (2 threads) in both builds, one in each behaviour; else 3 threads, 4 iterations (array lock: 7, fair lock on store buffers: 3), 2 executions (CLH lock and fair lock on store buffers: 1), scaling runs but for the fair lock | exclusion and termination of all; the driver's accounting; slots, re-initialisation and node memory; first come, first served |
| `peterson_lock_three` | 3 threads | **violation** of exclusion (finding) |
| `relaxed` | acquire-release builds with 3 threads (Peterson: 2) and 4 iterations (array lock: 5, filter: 3), also with fewer threads as in scaling runs; the Ada queue with 1 producer and 2 consumers or the other way round, 2 items; all fences on both architectures; Peterson with 8 iterations and 3 executions, filter with 3 threads, 7 iterations, 2 executions and scaling runs, fair lock with 3 threads, and with 2 threads and 5 iterations on store buffers | exclusion on a memory that returns old values; ordered critical sections; the queue's items come out as put in; fences; bounded overtaking, the filtering of levels, the README's fairness |
| `fair_lock_store_buffers` | Taubenfeld's lock on x86-64 store buffers, 3 threads; `OneComesLate` lets one of them execute its doorway first and keep its stores in the buffer | **violation** of the README's fairness (finding) |
| `relaxed_sections` | as `relaxed` | **violation**: the filter lock does not order its sections (finding) |
| `co_stack` | 2 producers, 2 consumers, 3 items, 2 addresses (symmetric), every retired node reclaimed | refinement of `Container`, memory safety, nothing lost |
| `co_stack_slots` | 2 pairs, 6 hazard pointers | **violation**: a node freed in use (finding) |
| `queues` | every queue and stack, one in each behaviour: 2 pairs, 3 items and scaling runs for most; the lock-free queue with 2 items, and with 3 and addresses that come back for 1 pair; B-Queue with 8 places and, batched, with 11 items | refinement of `Container`; freed nodes, batches and lengths; what is left in the queues; the end of all that no lock can starve, the stack of `COstack` over two scaling runs included |
| `ms_queue_reuse` | 2 pairs, 3 addresses that come back | **violation**: an item that is on no list (finding) |
| `tsx` | elision (2 writers and a reader; 2 writers twice), philosophers (tables of 2 and 3, 2 meals), hash tables (1 to 3 workers, 3 keys that collide; 2 workers, 6 keys, 4 places that grow), k-means (2 tasks, 7 points in chunks of 2, 3 loops (`MaxLoops` = 2)), one in each behaviour | exclusion and atomicity of elided operations; forks; keys; points and changes; everything ends |
| `growing_table_full` | 2 workers, 2 places | **violation**: the assertion in `Find_Slot` fails (finding) |

**Bounds, and why they are enough.** Three threads are the fewest for which one
thread can be passed by a second while a third waits, and for which a scaling
run has both idle and several active threads. Iteration numbers are not
multiples of the thread numbers, so that the division leaves a remainder, and
exceed the number of threads, so that a slot or node is used again within an
execution. Two executions are what a stale tail, flag or node needs to be met
again; three runs come with `ScRuns`, and in them the CLH lock meets its stale
nodes with one execution each. The stack has few items but two threads on
each side, and fewer addresses than items, so that a node comes back while
another thread still holds its address; `ReclaimAt` = 1 stands for 100, so that
every retired node is a candidate. B-Queue's batch of 4 in a ring of 8 is probed,
halved and wraps, and 11 items go around the ring. `CountTag` = 100 is never
reached: that a counter of 16 or 64 bits comes around while a thread sleeps is
left out. Hash values are chosen so that keys collide and the search wraps around.
Two aborts (`RetryMaxCount` = 1) take a task both around the loop and out of it.
In the statistics `Width` = 5 bits for 32 hold the products of the instances, with
little room. For the timer the ticks are below, at and between powers of two, and
an interruption is shorter or longer than a tick, so that it hides in a trial or
not; `HZ` = 8, `WordSize` = 4096 and `PerSecond` = 100 keep the proportions of
100, 2^32 and 10^6 to each other. Two failures of PAPI are enough for one round
to fail and the next to suffer from it. For the acquire-release builds one
execution is checked: behind a barrier all threads know everything, so that
nothing but values is carried over, and what the resets before the next barrier
store is part of it. What is proved holds for all values.

**Fairness.** `WF_vars(Step(t))` for each thread: each thread is an
operating-system thread, which is scheduled again and again while it runs; and
no store stays in a store buffer for ever (`Drain`). Nothing more is assumed; no
lock is assumed fair. Spin locks may starve a thread as long as the others have
iterations left, and these are finitely many, so the program terminates all the
same. A queue under a lock is different: its consumers poll it, without end, and
may shut the producers out for ever, since nothing assumes that their lock is
fair; `Termination` exempts the two (`ListUnderLock`). A task of the transactional
benchmarks, the main task included, has `WF` of its own; interrupts
(`Interrupted` in a transaction, `Interrupt` of a calibration) have none: they may
come or not, the latter at most `MaxInterrupts` times. The growing table, whose
insertion may fail, is checked for safety only, and so are `co_stack` and
`relaxed`.

**Deadlock.** The drivers stop when all threads are done, so the runs have
`CHECK_DEADLOCK FALSE`, and `Termination` says that they stop nowhere else. It is
stated with `[]<>`, which for a state that nothing follows is what `<>` says.
`MCCommon` has an explicit step for the end and is checked for deadlock.

**What the violations show.** `peterson_lock_sc.cpp` gives thread 0 one side and
all other threads the other one. The driver takes any `--threads` up to 4096, so
two threads on one side are in the critical section together.
`hazard_pointers.hpp` scans from `MAX_NR_THREADS / 2` = 14 on, which are the
consumers' numbers only with 14 pairs. With 2 to 13 pairs some consumers are
unprotected; in the run, thread 2 of 2 pairs is, with 3 in the place of 14. (With
more than 14 pairs thread numbers exceed the array, which `SlotsAssumption`
excludes.) The lock-free queue frees its nodes, and `new` sets the counter of a
node's `Next` to 0: a producer that fell asleep before its exchange links its
item to a node that came back and is not on the list yet, or never will be; with
one pair this cannot happen, and `queues` shows that there reuse is harmless. The
growing hash table checks its size, counts an item and inserts it in three steps,
so that tasks overfill it together; no driver uses it. The spin loop of the
acquire-release filter lock loads relaxed: the exchange of `victims`, whose
comment speaks of "synchronizes-with", comes before it, and the thread that comes
in need not have acquired what its predecessor released. (Peterson's
acquire-release build, which leaves its loop by a relaxed load of `turn` as well,
does not order its sections either; no comment says that it does, and the run
leaves it out of `SectionsOrderedByLock`.) In `fair_lock_ar.cpp` the
only fence of the doorway is the one after the waiting loop. A thread may load
`group` while its own stores are still on their way; the others see that it stands
outside, pass, and the group is switched twice. The thread then belongs to a group
of the past, gets the lock, and switches the group again when it leaves, under the
threads that wait: one of them gets the lock twice while another waits.

Of the drivers with delays, Taubenfeld's is the one that does not call
`calibrate_delay`, so that its delays are those of the first guess; no run is about
this.

**Worth knowing.**

* `reset_filter_lock(tid)` clears `victims[tid]`, although that is the victim of
  *level* `tid`, where others may be waiting. The runs show it to be harmless: the
  reset may let one more thread pass the level, but the thread that resets has
  itself dropped out, so the levels still filter (`LevelsFilter`). In the
  acquire-release build it is a store in the middle of a chain of exchanges, which
  it interrupts; exclusion holds all the same (`RelaxedFilterExcludes`).
* `NoSecondAccess` of `FairLock` counts from the moment at which all see the end
  of a thread's doorway; an access for which another thread had set out before
  comes on top of the one the README allows. On store buffers that moment is when
  the store reaches the memory. Counted so, the build for store buffers keeps the
  promise with two threads (run `relaxed`) and breaks it with three (run
  `fair_lock_store_buffers`).
* `ArrayLock` has `MAX_NR_THREADS` (28) flags and draws slots modulo the number of
  threads, which its driver checks against 4096 only; `SlotsFit` (`FairLockProofs`)
  assumes at most `MAX_NR_THREADS` threads.
* `AllWorkSampled` exempts the scaling runs of PO_FIFO_Lock, whose shares are
  computed once in `main`. In most pair drivers a consumer compares its number
  among *all* threads with the remainder and so never gets a share of it:
  `LeftBehind` says how many items stay in the queues for that reason, and that no
  others do. In `driver_polock.adb` the long options `--uin` and `--uout` set the
  number of threads.
* `FreedUnused` is checked together with `LastLags`, which says why: `Last` never
  points to a freed node. Both are proved where addresses do not come back.
* An explicit abort of a transaction leaves the loop of attempts at once, unlike
  the note in the patch; the operation then takes the fall-back path.
* `calibrate_delay` notices that a trial was disturbed when its loops come to no
  sensible base; if the very first trial is interrupted, the steps of the search
  become 0 and the base stays as small as the first guess. `DelayAsAsked` leaves
  this case out (`Sound`), and `NeverTooLong` does not need to. Delays of more than
  about 0.2 s wrap around in 32 bits (`Longest`).
* `compare_exchange` hands the orders of Ada to C as they are, while loads and
  stores translate them: both agree because the compiler numbers its constants in
  the same order.
* A set of PAPI counters whose read or stop fails goes on running and is forgotten;
  the next round's set then does not start. `ReportsOfRound` says that nothing of
  another round is reported then.
* A k-means task never sets `Local_Delta` back, and `Add_Delta` adds it again after
  every loop (`ChangesCounted` says by how much that is too large). Nothing depends on it: the
  exit that would have, at cluster.adb:141, is commented out, and every execution
  makes 501 loops, since `Loop_Count` begins with -1 and ends it at 500.
* `enterSample` asserts the range of the sample but not that of the thread, and
  `deleteSamples` leaves `sample` as it is; its test enters samples with
  `tr <= nr_threads`.

## 4. Proofs

All theorems hold for every value of the constants that meets the named
assumptions (at least one thread, pair and execution, a natural number of
iterations; at least two philosophers; a machine with positive speed, words and
ticks; a finite memory), and where a line below names one, a hypothesis of their
own:

* `AllScanned` (`COstackProofs`): the hazard pointers of all consumers are among
  those that are scanned. The program does not ensure it, which is the finding of
  run `co_stack_slots`; with the hypothesis the stack is right, so that this is
  all that is wrong.
* `NrThreads <= 2` for exclusion of Peterson's lock in both builds, again what the program does
  not ensure (run `peterson_lock_three`), and `NrThreads <= MaxNrThreads` for
  `SlotsFit`.
* `Setting` (elision): finitely many tasks, at least one call of each.
  `MeansSetting` (k-means): at least one task, chunks of at least one point, and
  what is nearest to a point is a center.
  `TableSetting` (hash tables): at least one task, hash values are natural
  numbers, no key is the mark of an unused place, and each worker draws its keys
  from a table of `NumOp` of them. `FixedTableSuffices` is about the fixed table,
  `~Growing`: of the growing one its conclusion is false (run
  `growing_table_full`).
* `~Buffered` for the fairness of Taubenfeld's lock: on store buffers it does not
  hold (run `fair_lock_store_buffers`). Its exclusion needs no hypothesis.
* `Fifo` where the protected object with the entry queue is meant, `~Fifo` where
  the others are, and `Ada` and `~Ada` for the queue and the stack of
  `ListUnderLock`.
* `CalibrationSetting` (timer): the driver calibrates, the first guess is a power of
  two (`1 << 12`) and no smaller than the precision (`1 << 8`), the ticks per
  second are a multiple of four, and the rounds of a quarter of a second fit into
  a word. Without the second, steps of the search stop halving evenly or become
  smaller than a band of trials, and the search may end further below the tick.
* `RingSetting` (B-Queue): the batches are shorter than the ring, as in `fifo.h`,
  and the queue looked at is that of any pair.
* `MSSetting` (lock-free queue): freed addresses do not come back, which is what
  the algorithm takes for granted and the program does not ensure (run
  `ms_queue_reuse`).
* `QueueSetting` (the same on `Memory`): each thread is a producer or a consumer, with
  a natural number of iterations, and the build exchanges 16 bytes at once
  (`USE_DWATOMIC`). That addresses do not come back is in the model.

| Theorems | Inductive invariant |
|---|---|
| `ComponentProofs`, the barrier: `BarrierTypeCorrect`, `BarrierSeparates`, `BarrierImplements` | a thread that is scanning has found the counters of the threads before `thr` at its level; counters equal calls, because `NrWaits <= CtrMax`. `Separation` alone says nothing of a scan half done |
| `ComponentProofs`, the timer: `TimerTypeCorrect`, `CalibrationNeverTooLong`; with `CalibrationSetting`, `DelaysAreAsAsked` | `Fits`: the base found so far is below what a tick can hold, the candidate exceeds it by the step under test alone, and a trial that is still within its tick has made no more rounds than that; an interruption can only make a candidate look too long. `NeverTooLong` speaks of the result only. That the result is not too short either (`Accurate`): steps are bands of trials times powers of two (`StepsHalve`), and a band is no longer than the trials before it (`BandsGrow`), so that a step that is still too long can be halved evenly; hence, as long as no candidate is disturbed, what was accepted and two more steps reach the tick, or every candidate was accepted, which the sum at the end finds out (`Bracketed`). The rest is in the products of words, which do not wrap around, and in the factor, which is rounded up (`FactorSuffices`) |
| `ComponentProofs`, the philosophers: `TableTypeCorrect`, `ForksAreHeld`, `ForksAreOrdered` | what each philosopher holds follows from its label (`SeatsInv`); a philosopher at work has its two forks in order; those not let go yet, or waited for, hold nothing, so that a new table is laid with all forks on it; a fork lies on the table if nobody has it (`ForksInv`). The forks' order needs arithmetic of the last philosopher's `mod` (`LastOne`) |
| `LockProofs`, the spin locks: `SpinTypeCorrect`, `SpinLockExcludes` | the flag is set whenever somebody is in the critical section, and nobody else is |
| `LockProofs`, Peterson's lock: `PetersonTypeCorrect` (any number of threads); `PetersonExcludes`, `PetersonBounded` (at most two) | as long as one thread is between raising its flag and lowering it, the other's reset has been made or cannot come, by the barrier counters; then the classical argument over `turn` |
| `LockProofs`, the filter lock: `FilterTypeCorrect`, `LevelsAreFiltered`, `FilterLockExcludes` | a thread is past another at a level only if it is not the victim (`NotVictim`), and the victim is one of those engaged there (`VictimThere`). A reset breaks both for its level until the next execution; so they are claimed of levels whose thread has not reset its victim, and a thread that has done so is out of the lock. Then, by induction over the levels, at most `NrThreads - l` threads are above level l or have dropped out to reset a higher level (`Filterable`). `LevelsFilter`, which counts the former alone, says neither who is filtered out nor that a reset costs a thread |
| `FairLockProofs`, the array lock: `TypeCorrect`, `InitIsAlone`, `SlotsAreOwn`, `SlotsAreOwned`, `SlotsFit`, `ArrayLockExcludes`, `FirstComeFirstServed` | counters of the two barriers tell in which half of which execution each thread is; tickets of the queued threads are the numbers `served .. tail - 1`, each drawn by one, and at most `NrThreads` of them; the flag that is up is that of ticket `served`. Distinct tickets in a window of `NrThreads` have distinct slots. The queue is `Order`, the threads by their tickets: a draw appends to it, a grant removes its head |
| `LockProofs`, the CLH lock: `CLHTypeCorrect`, `CLHQueueLockExcludes`, `NodesAreOwned`, `CLHFirstComeFirstServed` | each thread is going to own one node next, the one it spins on if it is queued, and its present one otherwise; these and the one at `tail` are all different, and `lock` and `unlock` exchange two of them (`Apart`). Of the nodes spun on and the one at `tail` at most one is unlocked (`OneGrant`). The phases between the three barriers tell which nodes are allocated or freed. For the order of service: there is a queue with the links of `Linked`, and only one, by induction from its end, so that `CLHOrder` is what the last step made of it |
| `LockProofs`, mutexes and protected objects: `LibraryTypeCorrect`, `LibraryLocksExclude`; with `Fifo`, `EntryServesInOrder` | the calls in the queue of the entry are of different threads, and of all those that wait there; while a thread is inside, the guard is down |
| `FairLockProofs`, Taubenfeld's lock: `FairTypeCorrect`, `FairLockExcludes`; with `~Buffered`, `FairLockIsFair` | of exclusion: the inner lock is a thread's from its exchange until its release has left the store buffer, and one thread's at a time. Of fairness: whoever has chosen its group is of the present one or of the other, which is older; a thread of the present group gets past others in the waiting loop only if these are not older (`NoneOlder`), so that the group is not switched again before nobody older is left. How often one has been passed by another follows from who of the two is older (`Budget`): `NoSecondAccess`, which is the largest of these numbers, says too little to be inductive |
| the driver, `BenchProofs` and each lock's module: `SpinWorkSampled`, `PetersonWorkSampled`, `FilterWorkSampled`, `CLHWorkSampled`, `LibraryWorkSampled` (`~Fifo`), and in `FairLockProofs` `WorkSampled` (array lock) and `FairWorkSampled` | the iterations of an execution are numbered so that each thread has the numbers that leave its own as remainder; those a thread has done are the first ones of its share (`AllCompleted`), and `worked` is how many these are of all threads, so that they are all `NrIter` when the threads are done, whatever the remainder of the division; the samples are those of the executions that are over or sampled (`Entered`), at different places (`Account`) |
| `ComponentProofs`, PAPI: `PapiTypeCorrect`, `ReportsAreOfTheirRound` | which round the set that runs and the set that is kept are of, at each call that is next (`SetsOfRounds`), and hence what has been counted (`CountedOfRound`) and stored as time (`TimeOfRound`) |
| `QueueProofs`, B-Queue (`RingSetting`): `RingTypeCorrect`, `RingBatchesHold`, `RingImplements` | the n places from the consumer's on are filled and the others free, around the ring (`RingInOrder`); of what is left of the producer's batch all places, and one more, are free; of what is left of the consumer's batch all are filled. One probe at the far end is enough because the filled places have no gap. The queue is the items of these places |
| `QueueProofs`, lists under a lock: `ListTypeCorrect`, `ListExcludes`, `ListCounts`; with `Ada`, `AdaQueueImplements`; with `~Ada`, `MutexStackImplements` | one thread is between the lock's acquisition and release (`HeldByOne`); the counter is the length of the list, but for the thread inside, which has changed one of the two (`Counted`) |
| `QueueProofs`, the lock-free queue (`MSSetting`): `MSTypeCorrect`, `FreedNeverUsed`, `LastIsBehind`, `MSNoItemLost`, `OldestIsTaken`, `AdaLockfreeImplements` | all nodes that have ever been on the list, in the order in which they came there: each links to the next (`Chained`), `List.First` and `List.Last` are two of them, the latter not before the former and at most one from the end (`EndsAt`); those from `List.First` on are allocated, those before it were freed or are about to be (`Living`). What a thread has loaded is the number of a node in this order and bounds on where the ends are now (`ProducerAt`, `ConsumerAt`): a link read from freed memory is of a node before `List.First`, so that the second load of the end does not find what the first one found. That an exchange succeeds means that the end has not moved at all. The items are in these nodes, in the nodes that producers are about to link, or delivered (`ItemsPlaced`) |
| `RelaxedProofs`, the acquire-release spin locks: `RelaxedSpinLockExcludes`, `RelaxedSpinLockOrders` | `Handed`: while somebody is inside, the newest value of the lock is TRUE and that thread knows all sections; when it is FALSE, its message carries that knowledge, or everybody has it. Exclusion alone is inductive over exchanges, which read the newest value, but the order of the sections needs what the message carries |
| `RelaxedProofs`, the acquire-release CLH lock: `RelaxedCLHOrders` | the exchanges of `tail` in their order, of which the g-th appended the node that was released last: every queued thread has a place after it (`Placed`), and the nodes from there on are different ones (`NodesApart`). The fence makes each exchange carry the store that marked its node (`Marks`), the dependency hands it to the next thread, and so none can load a flag from before the mark (`CLHKnows`): the first value FALSE it can find is the release, which carries all sections (`Sections`). Exclusion itself depends on what views say: without the fence it is lost (mutant `FenceNone`) |
| `RelaxedProofs`, the acquire-release array lock: `RelaxedArrayOrders` | tickets as for the array lock (`Tickets`); the message that lets ticket i in has the number `Turn(i)` in the sequence of its flag, the lowering the next (`Flags`). A view that `Covers` m tickets has seen the sections of all of them and the lowering of their flags. Threads that wait cover all tickets but the last `NrThreads`, because the exchange of `tail` carries what its threads knew and at most `NrThreads` tickets are the last ones of their threads (`TicketsFit`); two tickets of one slot are `NrThreads` apart, so that nobody finds its flag up from the round before, although it was lowered by a relaxed store (`Knows`) |
| `RelaxedProofs`, Peterson's acquire-release lock: `RelaxedPetersonExcludes` | while both threads are in the execution, the last message of `turn` tells of the flags of those that have given `turn` away (`FlagsRaised`): each exchange carries what its thread knows, its own flag above all, and what the exchange before carried. So of two such threads the one that gave `turn` away last knows the other's flag and its own exchange (`IsLast`), whatever else its loads may still return, and waits (`LastWaits`). A reset replaces the last message of `turn` by one that tells of nothing, but then the other thread is alone |
| `RelaxedProofs`, the acquire-release filter lock: `RelaxedFilterExcludes` | the same at every level whose victim nobody has reset yet (`Chain`): the last exchange of the victim tells of the levels of all threads that are engaged there or past it (`ToldOfAll`), `High` enough whatever store of them is read from then on; its thread knows that (`VictimKnows`) and so cannot finish its scan, nor find another victim, before all others have gone (`VictimWaits`). A level whose victim has been reset lets everybody through, but the thread that reset it has dropped out: the threads past level l and those that have reset the victim of a higher level are at most `NrThreads - l`, by induction over the levels (`AllFiltered`) |
| `RelaxedProofs`, the lock-free Ada queue on `Memory` (`QueueSetting`): `AdaQueueAcquires` | again all nodes that have ever been on the list, in their order (`ListIs`): the link of each is stored twice at most, the second time to lead to the next node, and that message shows how the next node was filled. The messages of `List.First` lead to the nodes one after the other, those of `List.Last` to any of them, and each shows the node it leads to (`EndsAre`). So whatever a producer or consumer has loaded, an end or a link, however old, is of a node on the list which it knows to be filled (`ProducerIs`, `ConsumerIs`): of its two stores of the element it reads the second one. An exchange replaces the newest value and so takes or links one node only; what was dequeued are the nodes up to the newest value of `List.First`, each once and in this order (`Dequeued`), and the nodes of one producer are in the order in which it filled them (`NodesAre`) |
| `COstackProofs` (`AllScanned`): `TypeCorrect`, `NeverUsedAfterFree`, `RetiredCounted`, `AllAccounted`, `StackImplements` | the nodes from `head` on are a list (`StackIsList`), and every allocated node is in one place: on the stack, fresh with a producer, unlinked with a consumer, retired, or taken to be scanned (`Placed`). What keeps a node is not that a hazard pointer holds it, but that it did while the node was still on the stack: whoever retires the node takes and scans it later, and a scan half done has not yet come to that slot (`Protected`). Hence a node that a consumer has reloaded was neither freed nor allocated again, its link is what was read, and the exchange of `head` pops what it should: no ABA |
| `TsxProofs`, elision (`Setting`): `ElisionTypeCorrect`, `ElisionIsExclusive`, `ElidedCallsAreAtomic` | what a transaction has loaded and stored follows from where its task is (`Transactions`); one task is critical, and then no transaction is inside, because each has loaded the shadow lock (`Locked`); of two transactions that touched the object neither is a writer's (`Apart`). So the words hold the number of completed calls, plus one where the critical task has already stored (`MemoryIs`), and what a function has seen is what they hold (`Views`) |
| `TsxProofs`, k-means (`MeansSetting`): `MeansTypeCorrect`, `PointsWorkedOnOnce`, `DeltaIsTheChanges` | in each loop a point is beyond `Q_Index`, in what one task has still to do (`Todo`), or done (`Handed`); the first chunks, of which no call tells anybody, lie below `NThreads * CHUNK` side by side, and a task asks for no more only when `Q_Index` is past the last point (`Chunks`). The changes are pairs of a task and a number, those that were added to `Delt` are those of the tasks that have called `Add_Delta` (`Changes`). Which task is where follows from the rendezvous (`Meetings`) |
| `TsxProofs`, hash tables (`TableSetting`): `HashTypeCorrect`, `InsertedKeysFound`, `NoLookupFails`, `FixedTableSuffices` | the places between a key's hash value and the key are taken, around the end of the array (`Probed`), and no key is there twice (`TableOK`): an insertion stores a key at the end of its own search and so breaks no other. A resize keeps the keys by induction over the places of the old array, whose keys are fewer than the places of the new one. What is in the table are keys the workers have drawn, at most `NumOp` of them whatever the remainder of the division among the tasks (`Putting`, `Asked`), so that the fixed table is never full; and a worker that looks its keys up again has inserted all of them, because the main task meets every inserting worker first (`Rendezvous`) |

`BenchProofs` states once, for every lock, what the driver's statements preserve
(`DriverInv`): types, and that counters of threads in the same phase agree. It has
induction over the natural numbers as well (as `RelaxedProofs` has), in the form `Induction`: a set of
numbers without a least element is empty. That form takes no operator as a
parameter, so that the provers can use it. Where a model had to be reasoned about,
its operators are functions and not RECURSIVE (the list of `COstack`), or say what
is meant rather than compute it (`Order`, `Linked`, `Completed`).

**Only model-checked.** Liveness (`Termination`, `DelaysCalibrated`) and the fair
halves of refinements, which need ENABLED: `BarrierImplements`,
`FirstComeFirstServed`, `CLHFirstComeFirstServed`, `EntryServesInOrder`,
`StackImplements`, `RingImplements`, `AdaQueueImplements` and
`AdaLockfreeImplements` are about the safety parts. Then the fences
(`FencesSuffice` has no parameters, so that TLC checks all of it); what stays in
the queues at the end (`LeftBehind`, `OneNodeStays`), the queues of libraries, and
the lock-free queue whose addresses come back, which is right for one pair only;
the shares of PO_FIFO_Lock (`SharesDone`). `SamplesCollected` and `ColumnsFit`
compute by recursion over the samples. The theorems on locks, queues, elision,
k-means and hash tables are about the definitions of their own modules, which the
runs check through the INSTANCEs of the MC modules.

## 5. Not modelled

* The acquire-release build of the stack (`COstack_ar.cpp`): the same accesses with
  weaker orders. The ring of
  B-Queue and the list of Ada_TAS_MPMC are plain memory in the source; a place is
  loaded and stored in one step each, as on the processors the program is built
  for.
* Data races elsewhere are a choice over the outcomes: uninitialised memory
  (`FilterLock`, `CLHQueueLock`) has any value.
* On store buffers only Taubenfeld's lock is modelled, on `Memory` all others: the
  former builds on a fence of one architecture, the others on the language.
* `log.cpp` and `color_term.cpp`: nothing calls the log, and colours change only
  what a terminal shows. `dumpRawData` is not called. The command lines, `PAPI_setup`, scripts and
  build system are sequential input and output.
* Floating-point computations: distances in k-means are any choice of a nearest
  center; means and deviations are rounded to integers, and logarithms exact.
* Finalisation of Ada queues runs after the threads.

## 6. Plan

Done: every module of section 2 with its runs, and the proofs of section 4. What
would add most, in this order:

1. `COstack_ar.cpp` on `Memory`: whether the store of a hazard pointer can still
   be on its way when another consumer scans the pointers.
2. `LeftBehind` of all queues, by counting the items of a pair as `BenchProofs`
   counts iterations.
3. The lock-free queue with addresses that come back, for one pair: why reuse is
   harmless there.
