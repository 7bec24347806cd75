# Verification of the phoneME core

`src/Core` is a Java ME virtual machine in C++. It loads MIDlet suites, runs
their Java threads on host threads or on fibers, and gives them monitors, record
stores, timers, media, a display and connections. This directory holds TLA+
models of the parts whose correctness depends on the order in which things
happen, the TLC configurations that check them on small instances, and proofs,
checked by TLAPS, that some of the properties hold for every instance.

The paths below are relative to `src/Core/src` unless they say otherwise.

## 1. The system

### 1.1 Components

| Component | State it keeps | Operations | What is hard about it |
|---|---|---|---|
| Object monitors (`vm/MonitorTable.cpp`) | per object: owner, depth, entry queue, wait set; `cancelled_` | enter, exit, wait, notify, wake, release_all, clear | first come first served without lost wake-ups, for host threads and fibers; deadlines, interrupts and shutdown against notifications |
| Fiber scheduler (`vm/Scheduler.cpp` 410-680, `vm/JavaFiber.cpp`) | a control per fiber, a queue of runnable identifiers | launch, park, yield, wake, wake a list, carrier loop | stale and repeated queue entries; the carrier's sleep; wake-ups listed and delivered later |
| Java threads (`vm/Scheduler.cpp`, `vm/JavaThread.cpp`) | registries, state and flags per thread | start, native start, sleep, join, interrupt, finish, shutdown | flags under one mutex and conditions under another; pruning and shutdown beside starts |
| Execution engine (`vm/Machine.cpp`) | the execution gate, class tables, emulation events | execute, blocking calls, `ensure_initialized`, event worker | class initialization by several threads; callbacks pumped inside a wait |
| Timers (`vm/TimerService.cpp`) | timers, entries, task states | schedule, cancel, dispatch | a task in flight: cancelled, re-queued, collected |
| Media (`media/`, `vm/MediaEventService.cpp`) | players, pending events | realize ... close, poll, dispatch | polling from a copy of the registrations |
| Canvas and display (`runtime/CanvasRuntime.cpp`, `Framebuffer.cpp`) | event queue, repaint requests, published frames | post, pump, repaint, serial callbacks | coalescing; callbacks from a blocked thread |
| Heap (`vm/Heap.cpp`, `vm/ExecutionContext.cpp`, `vm/RootSet.cpp`) | slots, generations, a cache of resolved references; roots per thread and depth of `execute` | allocate, read, store, collect; publish, walk and clear roots | stale references and slots used again; running code whose references only a walker or an overlay reports |
| Record stores (`runtime/RecordStoreRegistry.cpp`) | stores in memory, a generation on disk | open, add, set, delete, close, flush, recover | deferred writes; a crash between unlink, link, rename and directory sync |
| Suites (`runtime/SuiteStore.cpp`, `SuiteInstaller.cpp`, `SuiteDatabase.cpp`) | directories in four roles, a database and its backup | install, update, uninstall, recover | a transaction over directories and a file |
| Push registry (`push/`) | registrations, alarms, one file | register, launch, acknowledge, recover | the same file replacement with fewer precautions |
| Work coordination (`runtime/ParallelExecutor.cpp`, `WorkCoordinator.cpp`) | current job, helper slots, admission counters | parallel_for, begin and end of work | late workers and the next job; atomics read one after another |
| Baseline JIT (`vm/BaselineJit.cpp`) | entries, code bytes, background tasks and results | compile, evict, retire, clear, publish, the background compilers | results for entries that are no longer what they were; compilers against the frames |
| Translation (`translation/TranslationService.cpp`) | cache, scheduled and waiting texts, queue, providers | look up, prefetch, the pump, the requests | detached threads, batches that fail, fallback and token renewal beside other requests |
| Runtime (`runtime/Runtime.cpp`, `api/CAPI.cpp`) | applications and their states | start, pause, resume, destroy | life-cycle calls beside a running MIDlet |
| Network, permissions, file system | handles; grants; paths | open, close, check, resolve | close against a blocked call |
| Verifier, class files, archives, graphics, bindings | none shared | data to data | not a matter of interleaving |

### 1.2 How they interact

Guest code runs only while its thread holds `Machine::execution_mutex_`, the
*gate*. Every call that can block gives the gate up first and takes it back
afterwards; `cooperative_quantum` gives it up now and then in between. A Java
thread is an OS thread of its own or, with green threads, a fiber; all fibers
share one carrier thread. Java thread 1 and the native tasks, that is the
lifecycle thread of a MIDlet, the emulation event worker and Bluetooth workers,
are always OS threads. So host threads and fibers meet at every monitor, join
and class initializer, and a fiber parks by another mechanism (a queue under
`fiber_mutex_`) than a host thread sleeps (a condition variable). Most of what
is hard in this code is on that border: a host thread lets a mutex go and falls
asleep in one step, a fiber lets it go and parks later.

`Machine::shutdown` runs on a host thread outside all this. It sets a flag, wakes
what it knows of, asks each worker to stop, clears the monitor table and joins
the workers.

### 1.3 What makes each part correct

- *Monitors*: exclusion and reentrancy, a wait gives back and restores the whole
  depth, entry in order of arrival, no ghost in a queue, no sleeper that a
  notification, deadline, interrupt or shutdown should have woken.
- *Fibers*: no runnable fiber is missing from the queue, the carrier never sleeps
  past one, each gets its turn, one runs at a time.
- *Threads*: a sleep lasts, a join tells the truth and returns, an interrupt gets
  through, a shutdown reaches everyone and ends.
- *Class initialization*: one initializer at a time and never again, supers first,
  no class left owned, waiters leave.
- *Record stores, suites, push*: after a crash at any point the recovered state is
  the old or the new one, and a reported success survives; no alarm, request or
  deferred change is forgotten.
- *Timers, events, media*: nothing is dispatched or queued again after its
  cancellation returned, nothing posted is slept through, one worker.
- *Work coordination*: each index of a loop is computed exactly once and before
  `parallel_for` returns; background work never blocks itself for good.
- *Heap*: a collection takes exactly the objects that cannot be reached, no reference
  to a taken object resolves to its successor, and no frame, running, blocked or below
  a callback, holds an object that was taken.
- *JIT*: the cache's bytes are those of its entries and within its limit.
- *Translation*: a text is asked for once, no request is lost, and who drew a text
  untranslated is told when the translation comes.

## 2. Plan

The order followed the weight of the components: threads and monitors first,
then what must survive a crash, then the services with threads of their own.

| Module | Composes | Abstract specification |
|---|---|---|
| `MonitorTable` | | `ObjectMonitor` |
| `FiberScheduler` | | `CooperativeFibers` |
| `JavaThreads`, `ClassInit` | each extends `FiberScheduler` | |
| `RecordStore`, `SuiteStore` | `CrashDirectory`, the file system under a crash | `promised`, the set of outcomes the calls have allowed |
| `PushRegistry` | in `HostServices` | |
| `TranslationService` | in `HostServices` | `TextTranslations` |
| `GuestMemory` | `JavaThreads`, `Heap`, `ExecutionRoots` | `JavaHeap` |
| `EmulationEvents` | `TimerService`, `MediaEvents` | |
| `BackgroundWork` | `ParallelExecutor`, `JitCache`, both on `WorkCoordinator` | `ParallelLoop` |

What would come next: the life cycle of applications in `runtime/Runtime.cpp`
with the commands of `api/CAPI.cpp`; the event queue of `CanvasRuntime`; the
handles of `network/ConnectionRegistry.cpp` with a model of descriptors that are
closed under a blocked call; and native frames in `JitCache`, with the code that is
released under them.

## 3. Modules

### 3.1 `MonitorTable` and `ObjectMonitor`

`MonitorTable` models `vm/MonitorTable.cpp` with its callers in `vm/Machine.cpp`
(`enter_monitor`, `exit_monitor`, `wait_on_object`, `notify_object`,
`interrupt_java_thread`, the gate, the clean-up of `execute`). A critical section
of `MonitorTable::mutex_` is one action.

| State | In the code |
|---|---|
| `owner`, `recursion`, `entryQueue`, `waitSet`, `cancelled` | fields of `Monitor` and of the table |
| `notified` | `WaitNode::notified` |
| `gate` | `Machine::execution_mutex_` |
| `pc`, `target`, `saved`, `deadline`, `result` | where a thread is in the call, and its locals |
| `run` | `FiberRunState`, or whether a host thread is asleep on a condition |
| `held` | history: the entries the thread's Java frames have made and not left |

The entry protocol is three steps, as in the code: `EnterContended` queues the
thread and `RetryBlocks` gives up the gate, then `Sleep` and `EnterBlocked` run
outside it. `Wait` is one step from the call to the release of the monitor;
`Pump` is `pump_blocking_wait_work`, which runs Canvas callbacks on the
waiting thread, within a hold of the gate of its own and with the monitor already
given back; what a callback does with monitors is over when it returns. `WaitSleeps`,
`WaitEnds` and `Reacquire` are the two loops of
`MonitorTable::wait`. `Park` is a separate step for a fiber and part of `Sleep`
and `WaitSleeps` for a host thread. Every broadcast wakes the host threads asleep
on a condition, and `wake_hook_` the fibers it names: `Woken(os, fs)` has one
argument for each.

`ObjectMonitor` is what a Java program may expect, without queues or wake-ups: a
lock and a depth, sleepers, signals and alarms.

### 3.2 `FiberScheduler` and `CooperativeFibers`

`FiberScheduler` models the part of `vm/Scheduler.cpp` under `fiber_mutex_`.
`fiberState`, `parkState`, `fiberDeadline` and `queued` are the fields of
`FiberControl`, `runnableQueue` is `fiber_runnable_queue_`, `resumed` is the fiber
the carrier runs. `Resume` is one pass of `fiber_carrier_loop`: expired fibers are
queued in any order (the map is unordered) and entries are popped up to the first
that is runnable. `ListParked` and `WakeListed` are the two halves of
`wake_fibers`, which takes a list under the lock and enqueues later, one by one.
`EnsureCarrier` and `Launch` are the two steps of a start after the claim:
`ensure_fiber_carrier` goes by its flag (`carrierStarted`), which says that there is a
carrier also when it has returned, and the fiber is then inserted and enqueued, carrier
or no carrier. `BeginShutdown`, `JoinCarrier` and `ClearFibers` are what `shutdown` does
to the fibers; a launch may come before, between and after.

`CooperativeFibers` says it without queue and flags: fibers are absent, ready,
running, blocked or finished, one runs at a time, it runs until it gives up, and
each ready one gets a turn as long as there is a carrier. The carrier goes only in a
shutdown and when no fiber lives; a fiber that is launched after that stays ready, and
may be dropped (4.2).

### 3.3 `JavaThreads`

Extends `FiberScheduler` with the life of a thread: `Start`, `StartCarrier` and
`StartLaunch` (the claim under `mutex_`; the carrier, and the worker or fiber, outside it), `StartNative` with the
pruning of ended tasks, `Sleep`, `Join`, `Interrupt`, the steps of
`finish_thread`, and the steps of `shutdown` (the last of which clear the fibers, whatever
they do). The pieces that take several
critical sections in the code are several actions here: a joiner evaluates its
predicate with the target's mutex held (`JoinBlocks`) and falls asleep (`Doze`);
`interrupt` sets the flag, and `WakeInterrupted` notifies every condition.
`Locked(u)` says that a dozing joiner still has u's mutex.

`registered` is `by_id_` and `by_object_`; `Objects` are the threads guest code
can name; `Program` is the set of calls the guest program makes, so that an
instance can leave some out. `JInit` is the state after the runtime is up.

### 3.4 `JavaHeap`, `Heap`, `ExecutionRoots`, `GuestMemory`

`Heap` is `vm/Heap.cpp`: `heapSlots` with occupation, generation, mark and one
reference of the object in the slot, `freeSlots`, and `slotCache`, the cache of
resolved references, whose hits are believed. A collection is `BeginCollection`,
`Mark` per pending reference and `FinishCollection`, which sweeps, clears weak
references and prunes what the runtime keeps per object (`images`); the mutator does
not run in between, because it needs the gate. `held` is what the roots yield.
`JavaHeap` says the same without slots: objects exist, a collection takes the least
complement that is closed under reachability and clears weak references and tables in
the same step.

`ExecutionRoots` is where `held` comes from. `stack[t]` is the thread's activations:
`execute()` still publishing or waiting for a monitor, the interpreter, compiled code
(called by `execute()`, by the interpreter or directly by compiled code), natives with
and without exposed arguments, and a wait that pumps callbacks. Each holds one
reference. `published`, `walker` and `overlay` are the fields of
`ExecutionContext::DepthRoots`, per depth; `LockDepth` is `g_execution_lock_depth`, which
is zero in a blocking call and counts from one again when a wait pumps. A wait may pump
wherever it is, and a direct call takes the depth after its caller's, as the code has
it; so an activation may take an entry of `DepthRoots` that another one needs.
`displaced` is the history of those. `Collect` takes what `Roots` does not yield.

`GuestMemory` extends both and `JavaThreads`, which share no table; `part` says which
of the three moves in a behaviour, because their product would say nothing more.
`threads_host` looks at the threads alone (`Parts`), with their fairness,
`threads_and_memory` at all three. Between them the two runs take every action.

### 3.5 `ClassInit`

Extends `FiberScheduler` with `Machine::ensure_initialized`. `frames[t]` is the
stack of initializations thread t is inside, each with the supers still to be
asked for; `asked[t]` is the class it waits for. `EnsureInitialized` is one round
of the loop under `class_initialization_mutex_` with its four outcomes: ready,
erroneous, claimed, owned by another. A fiber is claimed, launched and begun in steps of
their own (`Start`, `StartFiber`, `Begins`). `Finish` is `finish_initialization`, and
`Announce`, `WakeWaiter` and `Announced` its notifications. An initializer may
use other classes, return, throw, be caught, or fail; a failure unwinds every
initialization of the thread (`RollsBack`). `ShutdownNotifies` is the
`notify_all` of `Machine::shutdown`, which does not take the mutex: so falling
asleep (`FallAsleep`) is a step of its own. The shutdown goes on to join the host
workers and the carrier and to clear the fibers.

### 3.6 `CrashDirectory` and `RecordStore`

`CrashDirectory` is a directory under a crash: `now` is what a process sees, `disk`
the set of directories a restart may find. Each change of an entry may have
reached the disk or not until the directory is synchronized.

`RecordStore` models `runtime/RecordStoreRegistry.cpp`. The contents of a store are
a generation number, its files are the canonical one, the temporary and the
backup. `op` is the call that holds `mutex_`, with its place and its locals; each
step ends with one operation on the directory, which may fail (`faults`), and
`Crash` may come at any step. `loaded`, `opens`, `pending`, `anyPending` are
`stores_`, `open_count`, `pending_persist`, `any_pending_persist_`. `promised` is
history: the generations a restart may find, by what the calls have reported. A call
that changes the files first adds to it what a crash in its middle may leave, and
keeps in `op.before` what it was; a call that fails, and has undone its steps, goes
back to that. Where there may be no canonical file on the disk (`Unanchored`), the
files that are removed or overwritten beside it may be all that a restart finds, and
the promise says so (`Exposed`).

### 3.7 `SuiteStore`

`runtime/SuiteStore.cpp` and `SuiteDatabase.cpp`: `trees` is `suites/` with the
stage, backup, final and tombstone directory of each suite, `base` the root with
`suites.db`, its `.tmp` and `.bak`; both are directories of `CrashDirectory` that are
synchronized apart. Installing, updating and removing are sequences of renames and a
commit, each with its rollback; `configure` is the recovery, step by step.
`promised` is as above, `doubt` holds the suites whose last change was neither
confirmed nor taken back. A commit that cannot move the new database into place moves the
old one back, and that may fail too (`CommitFails`, two faults): then there is only the
backup, which a later commit removes (`Rotate`) and a later configure copies
(`Overwrites`).

### 3.8 `PushRegistry`

`push/PushRegistry.cpp`: a call reads the file of a suite, changes the state and
replaces the file (`Sync`, `Replace`, or `WriteFails`). `launchers` are the launches
the host has begun and has not reported on, each with its lease; the clock `now`
gives the dues, leases and expiries. `Crash` is the death of the process, which
leaves `tmp` behind.

### 3.9 `TimerService`, `MediaEvents`, `EmulationEvents`

The first two are libraries of operations on the state of `vm/TimerService.cpp` and
`vm/MediaEventService.cpp` (with the players of `media/MediaService.cpp` as far as
polling depends on them); `EmulationEvents` composes them with the event worker of
`vm/Machine.cpp`, serial callbacks, the threads that post, and the shutdown. The
worker's turn (`Top`, `DueTasks`, `PumpMedia`, `Poll`, `DeliverEvent`, `Delays`, `Check`,
`WakeUp`) looks under one mutex after the other. A start or stop whose listeners cannot be
told ends without a request for a poll (`PlayerCallFails`), and an event is dropped that
cannot be pinned or told (`PollPlayer`, `Drop`); `news` says whether
`emulation_event_generation_` has moved on since the worker observed it.

### 3.10 `WorkCoordinator`, `ParallelLoop`, `ParallelExecutor`, `JitCache`, `BackgroundWork`

`WorkCoordinator` holds the atomics of `runtime/WorkCoordinator.cpp`:
`try_begin_background_work` is three steps. `ParallelExecutor` is `parallel_for` with
its helpers; a helper is where the code is between two critical sections.
`ParallelLoop` is what a caller may expect. `JitCache` is the bookkeeping of
`vm/BaselineJit.cpp`: entries, cache bytes, the two queues, the compilers, the
switch that turns it off, retirement and clearing. The calls of the VM are atomic,
because they hold the gate and only the queues are shared.
`BackgroundWork` puts both on one coordinator; `machine`, chosen once, says how many
helpers, compilers and methods this process has.

What a method's code is worth (its hotness, its age in the LRU order, cooldowns, the
budgets at start-up) is left open, so that any entry may be evicted. The results are
published first in every call of the VM that looks at entries; pushing a result
commutes with the rest of the call, so the model publishes before a call begins
(`results = <<>>` in `Calls`) and one result a step. `availability_` is left out: when the
platform has refused executable memory, calls return before they publish anything
(`BaselineJit.cpp:9672-9680`), until a probe every `kUnavailableProbeInterval` calls
finds it ready. In the model these are times in which the VM makes no call; the fairness
of 4.4 takes it that they end.

### 3.11 `TranslationService`, `TextTranslations`, `HostServices`

`TranslationService` models `translation/TranslationService.cpp`; a critical section of
`State::mutex` is an action. Threads about to call `schedule_pump`, asleep before a
pump and inside `pump_requests` are counted (`scheduling`, `timing`, `pumping`). A
request is a record with its texts, its place in the chain of completions, and the
flags the code passes along. Time is what has not passed yet: `retry`, `blocked`,
`pace`. A lookup with a completion stands for both lookups.

`TextTranslations` knows three states of a text, who drew it meanwhile, and the
generation that tells him. `HostServices` runs `PushRegistry` or `TranslationService` in one
process: they share nothing, and the chosen configuration says which is used.

## 4. What the runs show

| Run | Instance | Shows | States |
|---|---|---|---|
| `monitor_host` | two host threads, depth 2, fair | frames against table, `ObjectMonitor` implemented, a freed monitor is taken, shutdown gets everyone out, with callbacks pumped in waits | 27,750 |
| `monitor_mixed` | a host thread and two fibers, Canvas callbacks, symmetric | queues, sleepers and order of entry | 604,209 |
| `monitor_fiber_handoff` | two fibers, fair | **violated**: see 4.1 | |
| `fibers` | two fibers, a waker, two reasons, a shutdown | the queue is never short, the carrier never oversleeps nor leaves a fiber behind, woken fibers run while it is there | 151,629 |
| `threads_host` | Main and a host thread, all calls, fair | sleeps last, joiners of ended threads leave, a shutdown ends when no worker joins Main | 3,768 |
| `threads_and_memory` | Main, a fiber, a native task; a heap of two slots; two threads' stacks of four, two objects, symmetric | joins tell the truth, everyone is told to stop; `JavaHeap` implemented; no frame that was not displaced holds an object that was taken | 1,072,723 |
| `class_init` | a host thread and a fiber, a class and its subclass, fair | no class left owned, initialized once, waiters leave | 42,616 |
| `record_store` | two stores, two generations, two faults, one crash | a restart finds what was promised, memory agrees with the disk, deferred changes are flushed | 600,512 |
| `suite_store` | two suites, two versions, three calls, two faults, one crash, symmetric | the same for suites | 266,472 |
| `host_services` | push: two suites, one connection, one alarm, two launches, a fault and a crash; translation: four configurations, two texts | one owner, exclusive leases, no alarm lost, requests leave; every text accounted for, `TextTranslations` implemented | 383,286 |
| `emulation_events` | two threads, a timer, a task, a player, a callback, two calls, one fault | one worker, nothing posted is slept through, cancelled stays cancelled, the end of media is heard, shutdown ends | 150,382 |
| `background_work` | four machines: two helpers; a helper and a compiler; two compilers; one compiler and two methods | `ParallelLoop` implemented, the cache accounted for, every compilation arrives | 221,203 |

`CHECK_DEADLOCK` is `FALSE` except in `background_work`: a program whose threads have
ended, or wait for a notification that never comes, really stops.

### 4.1 Where the code does not do what it says

- **A fiber is not told when a wait frees its monitor**
  (`monitor_fiber_handoff`). `MonitorTable::wait` broadcasts the condition
  (`MonitorTable.cpp:228`) but, unlike `exit` and `release_all`, never calls
  `wake_hook_` for the head of the entry queue. Fiber 1 owns the monitor, fiber 2
  queues and parks, fiber 1 waits: the monitor is free and fiber 2, the only one
  that could take it and notify fiber 1, stays parked.

### 4.2 Known counterexamples that no run lists

What TLC shows when an exception in a property is dropped or a bound or program of a
configuration is changed, and what reading the code for the models showed besides.

Threads:

- *A callback pumped in a nested wait takes the roots of the frames below it.* Roots
  are kept by the depth of `execute()`, and that depth is zero while a call blocks; the
  pump of a timed wait counts from one again (`enter_external_execution`,
  `Machine.cpp:4527`). If the waiting code is itself below another `execute()`, as a
  class initializer or a native's callback is, the callback runs at a depth that is in
  use: its `set_root_walker` replaces the walker of the suspended frames, and its
  `clear_roots` leaves them without one. The interpreter then holds objects that a
  collection takes, against "The interpreter call stack now remains rooted by a live
  precise walker for the lifetime of this execute() invocation" (`Machine.cpp:13137`).
- *A compiled method that calls another compiled method directly* gives the callee the
  depth after its own (`Machine.cpp:10638-10716`). When the callee deoptimizes, or a
  native under it calls back, `execute()` runs at a depth it has counted itself, which
  may be that of the callee or of its caller, and clears the entry they are reported
  by. `ExecutionContext.cpp:65` says that a nested dispatch at the same depth "should
  never occur". Direct calls are off in `conservative_device_mode`.
- Both are in the model: `displaced` says whose entry another has taken, and
  `HeldSurvives` and `StackRemainsRooted` except those. Without the exception each fails,
  with three or four activations. What is proved is that nothing else is
  displaced: not the outermost code of a thread, and nothing that has its depth to
  itself.
- *Arguments of synchronized natives* are not exposed to the collector
  (`Machine.cpp:19149`); the receiver is, through its monitor. They are the activations
  "unexposed", which `HeldSurvives` excepts.
- *A thread claimed before a shutdown is launched after the carrier has gone.*
  `start_thread` claims it under `mutex_`; then `shutdown` sets its flag, the carrier,
  which has no fiber, returns, and `ensure_fiber_carrier` still finds its flag set
  (`Scheduler.cpp:545`; it is reset at `2481`). The fiber is enqueued, nobody resumes it,
  and the clear at the end of `shutdown` drops it: the thread never runs, and is never
  seen to end. The models follow this; `CarrierAwake` says that, a carrier that cannot
  be created aside (section 6), it is the only way in which a fiber has no carrier.
- *An interrupt between check and sleep of a join is lost.* The flag is written under
  the joiner's mutex, the predicate is evaluated under the target's
  (`Scheduler.cpp:2037`); the join then lasts until its target ends.
- *A shutdown hangs on a worker that joins the bootstrap thread.* The loop that asks
  workers to stop notifies each one's own condition (`Scheduler.cpp:2455`); a joiner
  sleeps on its target's, and the bootstrap thread is excluded. Give Main an object in
  `ThreadsHost.cfg`: `ShutdownEnds` fails.
- *Park after wake.* A fiber checks, unlocks and parks in separate steps;
  `park_current_fiber` overwrites a state that a wake-up has just set to runnable
  (`Scheduler.cpp:497`). With the threads of `MonitorHost.cfg` in `Fibers`,
  `ShutdownUnblocks` fails. The same window is at `Machine.cpp:7103` for class
  initialization and at `Scheduler.cpp:1985` for the join of a native task.
- *A stale list ends a later sleep.* `wake_fibers` (`Scheduler.cpp:477`) delivers to a
  fiber what it was listed for at an earlier park; `sleep_current` of a fiber does not
  look again. Add `"sleep"` to the
  program of `GuestMemory.cfg` and check `SleepsLast`: it fails.
- *A worker outlives a shutdown.* A shutdown between the claim of a thread and the
  creation of its worker finds nothing to join (`Scheduler.cpp:2467`); the comment at
  `Scheduler.cpp:2436` promises the opposite. The record of a native task may be
  pruned while its worker is in the tail of `finish_thread` (`2422`).
- *Circular initialization.* Two threads that each wait for the class the other
  initializes wait until a shutdown. Two host threads do get out then; a fiber that
  parks after the shutdown's wake-up does not.

Persistence:

- *Record stores.* A crash during the first write of a store may leave only a torn
  temporary file: opening and deleting it fail from then on, and so does every
  `add_record` of the suite, because the quota scan reads all stores
  (`RecordStoreRegistry.cpp:1319`). A close whose persist fails leaves a closed store
  with a deferred change that `flush_pending` passes over, against
  `RecordStoreRegistry.hpp:81-83`; `PendingIsFlushed` is about open stores.
  `flush_all` stops at the first store that fails (`988-1003`). A recovery whose
  directory sync failed is not synchronized again by the next load (`920`): until another
  operation synchronizes the directory, a crash may leave only what stood beside the
  canonical file, which `Exposed` concedes.
- *Suites.* When a commit was in place but not confirmed, the next installation
  removes the backup directory (`SuiteStore.cpp:650`); after a power failure that
  brings the old database back, the suite is forgotten, against
  `SuiteDatabase.cpp:724-726`. `load` copies the backup over the primary without a
  sync (`436`), and the next commit begins by removing the backup: a power failure
  leaves no readable database. Removing a suite after a failed rollback removes the
  tombstone, then its only copy, before it notices that the directory is missing
  (`SuiteStore.cpp:829`). When the new database cannot be moved into place and the old
  one cannot be moved back either, the second error is dropped
  (`SuiteDatabase.cpp:706`): only the backup is left. The next commit removes it first
  (`683`), and until it has put its own database in place memory lists suites that no
  restart finds. If `configure` comes first, it copies the backup over the primary, while
  the renames of the failed commit may not be on the disk: a power failure during the copy
  leaves a torn primary and an older backup, or none. `Durable` concedes these cases
  through `promised` (`Exposed`, `Loses`, `Overwrites`), and `MemoryOnDisk` excepts the
  last but one (`Bare`).
- *Push.* A late or foreign `fail_launch_request` ends the lease of another host
  (`PushRegistry.cpp:840`; `disturbed`). A poll counts a due alarm as covered by a
  request that it then drops as expired (`1228-1266`): the alarm is gone without a
  launch. After an interrupted first write two suites may own a connection
  (`revived`); a torn temporary file makes the suite unreadable and every other
  suite's `register_connection` fail. An interrupted `remove_suite_state` brings back
  what the temporary file held.

Services:

- *Media.* `getState`, `getMediaTime` and `getDuration` synchronize the player and drop
  the end-of-media event (`MediaNatives.cpp:1313-1353`); the listeners never hear of
  it. `MediaService::resume` (`502`) asks for no poll. When the listeners cannot be told
  of STARTED, because a string or a root cannot be made or a call fails
  (`MediaNatives.cpp:522-564`), `start` returns before it asks for a poll although the
  player plays (`1181`): if nothing else asks for one, the end is never found. When the
  player of a polled event cannot be pinned the event is dropped, and the player is
  stopped already (`MediaEventService.cpp:102`, `189`); a dispatch that fails drops it,
  too (`217`). `EndsAreHeard` excepts all of these
  through `missed`. An end of media that is queued may be delivered after CLOSED.
- *Serial callbacks.* `enqueue_serial_callback` that cannot start the worker reports an
  error and leaves the callback in the queue, to be run later.
- *Timers.* An entry due at the largest i64 never is. A one-shot task in flight is in
  no list of roots (`TimerService.cpp:244`).
- *JIT.* `evict_for` spares only the method being inserted, and `retire` and
  `clear_cache` release code while native frames of it may be on a stack
  (`BaselineJit.cpp:10838`, `10063`, `10139`; nested `try_execute` at
  `Machine.cpp:18452`); the comment at `Machine.cpp:4345` covers only code that is
  being entered. The models have no native frames.
- *Translation.* With more than one concurrent request, a fallback from Google or a
  token renewal passes the check that "only one request may bootstrap the Bing token
  session" (`TranslationService.cpp:1666`), and two do. Completions of a text that is
  refused or fails are dropped without a call. Prefetches count towards
  `maximum_pending_requests`, so with a small limit they displace a lookup, against
  `TranslationService.hpp`. A text that waits alone can be overtaken by promoted
  prefetches as long as there are any.

### 4.3 Bounds, and why they are enough

- *Two or three threads.* Every mechanism modelled is pairwise: owner and
  contender, waiter and notifier, joiner and target, initializer and waiter. The
  order properties need two in a queue and one that competes: three threads, in
  `monitor_mixed`.
- *`MaxRecursion`* stands for the largest value of a u32. The code changes its
  behaviour only there, and depth 2 is enough to tell "restored whole" from
  "restored to one". `HistoryFits` bounds the history variable by the same value:
  it keeps a frame that enters through another thread's release from counting
  past the limit.
- *`MaxQueue`* bounds `fiber_runnable_queue_`, which in the code grows with stale
  entries. Only wake-ups from outside are held back, in `Wakeup` and `Interrupt`;
  the carrier's own steps never are. At 3 and 4, with two fibers, the queue holds
  repeated and stale entries at once. In `EmulationEvents` it is the code's own limit.
- *`Program`, `Objects`, `Makes`* restrict the guest program, not the runtime: a program
  that does not call `sleep` is a legal program. `threads_host` leaves
  out a thread object for Main, without which no worker can join Main: 4.2 has the
  other case.
- *Faults and crashes.* One crash is enough because recovery is itself a call that
  starts from every directory a crash can leave; two faults, because an operation and
  its rollback can both fail. Two generations or versions tell old from new.
- *Push*: one connection and two suites for ownership, two hosts for leases, three
  attempts and a clock of three instants: a lease ends before the request expires.
- *Machines of `background_work`*: each of the four pairs that interact, one at a time;
  a chunk longer than the loop is the whole loop (`c <= n`), and the
  pressure comes and goes by itself only where no loop has helpers; elsewhere it is
  their frames that press.
- *Configurations of `host_services`*: push alone; two providers that replace each other;
  batches with two requests at once; a full service. Checked once on their own, and too
  large for the run: automatic, pending 2, batch 2, two lookups (205,605 states);
  Google, two concurrent, three lookups (86,547); automatic, two concurrent, two
  lookups (378,721); automatic, pending 1, three lookups (527,639).
  `Destroy` comes after the last call, and a text's retry time passes while calls are
  left.
- *Histories as few values*: `generation` in translation counts modulo 2, `news` stands
  for a comparison of generations, `sequence` orders timer entries.
- *Memory.* Two slots are enough for one object to refer to another and for a slot to
  be used again while the other keeps a reference; `MaxGeneration = 2` makes the
  generations come round; with `CacheSize = 1` every resolution displaces another. Two
  objects: one that must survive and one that takes its memory. `MaxCalls` and
  `MaxActive` allow four activations, on one stack or on two: a caller, a native, a pump
  and a callback, or three direct calls under `execute()`; both ways of displacing an
  entry need three or four.
- *Symmetry* is used only in runs without liveness properties, over values that
  nothing in the specification distinguishes.

### 4.4 Fairness, and why the code justifies it

A host thread that can take a step takes it, the carrier runs, time passes, and a
shutdown that has begun goes on: these are threads of the operating system. The
gate and the mutexes come to every thread that wants them again and again, which
is strong fairness: `std::mutex` promises no order, but every holder is short, and
the gate is let go at each `cooperative_quantum`. Guest code is assumed to reach
that point (`Yield`, `YieldFiber`), never to return, notify or unlock, except
that code that must stop unwinds at its next safepoint (`MustStop(t) /\ Return(t)`,
`MustStop(t) /\ Fails(t)`). `ClassInit` assumes besides that an initializer that is
not waiting comes to an end: without it no waiter could hope to leave.

- *Record stores*: a call in progress goes on, and `flush_pending` comes again and again
  (strong fairness of `FlushDue`): the machine polls it at its safepoints
  (`Machine.cpp:14572`).
- *Push*: a call goes on, the clock runs, and the host polls each suite it serves.
- *Events*: the worker, the clock and the poll deadline go on, a runtime in the
  foreground pumps, threads that are inside a call continue, and a shutdown goes on.
- *Background work*: the executor's threads run and tasks return, compilers run, the VM
  goes on calling methods, which publishes results: it is assumed that executable memory,
  once refused, is available again at some later probe (3.10). `CompilesArrive` is about processes
  in which background work is allowed from some time on.
- *Translation*: detached threads run, time passes, and each HTTP request ends: the
  adapter gives it five seconds.

## 5. What is proved

Proofs are in the modules `*Proofs`, for every value of the constants allowed by
the named assumptions: any set of threads and objects, any recursion limit; for
the fibers a finite set, because the carrier's pass orders it.

| Theorem | States |
|---|---|
| `MonitorTableProofs!TypeCorrect` | `Spec => []TypeOK` |
| `MonitorTableProofs!FramesCorrect` | `Spec => []FramesMatchTable` |
| `MonitorTableProofs!MonitorsExclude` | two threads are never inside the same monitor |
| `MonitorTableProofs!QueuesCorrect` | `Spec => []QueuesMatchThreads` |
| `MonitorTableProofs!NobodyOversleeps` | `Spec => []NoSleepThroughWake` |
| `MonitorTableProofs!EntryIsFair` | `Spec => HandedToHead` |
| `MonitorTableProofs!MonitorsImplement` | `Spec => ImplementsObjectMonitor` |
| `ClassInitProofs!RunnableIsQueued` | `Spec => []RunnableInQueue` |
| `ClassInitProofs!CarrierNeverOversleeps` | `Spec => []CarrierAwake` |
| `ClassInitProofs!FibersCooperate` | `Spec => Abstract!Spec`: the scheduler implements `CooperativeFibers`, with starts and a shutdown in any order |
| `GuestMemoryProofs!JoinsCorrect` | `JSpec => []JoinsAreTrue` |
| `GuestMemoryProofs!StopReachesEveryone` | `JSpec => []EveryoneTold` |
| `GuestMemoryProofs!HostSleepsLast` | with host threads only, `JSpec => []SleepsLast` |
| `ClassInitProofs!OwnersCorrect` | `CSpec => []OwnersInitialize` |
| `ClassInitProofs!OnceCorrect` | `CSpec => InitializedOnce` |
| `ClassInitProofs!InitializersCooperate` | `CSpec => Abstract!Spec /\ [](RunnableInQueue /\ CarrierAwake)`: what holds of the scheduler holds below `ensure_initialized` |
| `GuestMemoryProofs!ReferencesResolve` | `HeapSpec => [](HeapTypeOK /\ NoStaleReference)` |
| `GuestMemoryProofs!HeapImplements` | `HeapSpec => ImplementsJavaHeap` |
| `GuestMemoryProofs!HeldIsSafe` | `ExecutionSpec => HeldSurvives`: no collection takes what an activation holds that is neither unexposed nor displaced |
| `GuestMemoryProofs!WalkerStays` | `ExecutionSpec => []StackRemainsRooted`: the interpreter's frames have their walker unless displaced |
| `GuestMemoryProofs!ThreadsAndMemory` | `GuestSpec` has `JoinsAreTrue`, `EveryoneTold`, `HeldSurvives` and `ImplementsJavaHeap`: what `threads_and_memory` checks |
| `RecordStoreProofs!StoresAreDurable` | `Spec => []Durable` |
| `RecordStoreProofs!MemoryIsOnDisk` | `Spec => []MemoryOnDisk` |
| `SuiteStoreProofs!DurableHolds` | `Spec => []Durable` |
| `SuiteStoreProofs!MemoryMatches` | `Spec => []MemoryOnDisk` |
| `HostServicesProofs!OwnershipHolds` | push: `Spec => []ConnectionsOwned` |
| `HostServicesProofs!LeasesExclude` | push: `[]LeaseExclusive` |
| `HostServicesProofs!AlarmsAreKept` | push: `AlarmsBecomeRequests` |
| `HostServicesProofs!RequestsAreAccounted` | translation: `[]RequestsAccounted` |
| `HostServicesProofs!TextsImplement` | `TranslationSpec => Promise!Spec`: the service implements `TextTranslations` |
| `HostServicesProofs!ServicesHold` | the composition `HostSpec` has all of these together |
| `EmulationEventsProofs!OneWorkerOnly` | `Spec => []OneWorker` |
| `EmulationEventsProofs!CancelledStays` | `Spec => []CancelledStaysCancelled` |
| `BackgroundWorkProofs!CacheIsAccounted` | `Spec => []CacheAccounted` |
| `BackgroundWorkProofs!LoopsImplement` | `Spec => Loop!Spec`: the executor implements `ParallelLoop` |
| `BackgroundWorkProofs!TokenIsHeld` | the types, and one holder of the token |

The arguments:

- *Monitors.* `FramesMatchTable` is inductive once it is joined with the types. A
  waiter owns nothing and keeps its depth in `saved`, which
  `Reacquire` writes back; a contender has no frame yet.
- *Lines.* `LineInv` joins to it that a queue holds exactly the threads in the places
  that wait for a turn, each once and at the object they are after, and that a
  thread in a wait set is in that wait. Without "each once", leaving a queue would not
  take a thread out of it.
- *Sleepers.* `SleepInv` says of a host thread asleep that none of the conditions its
  loop looks at holds: it is not the head of a free monitor's line, not notified, not
  past its deadline, and not interrupted unless the thread that interrupts it is about
  to broadcast. Every other step that makes one of them true
  broadcasts in the same critical section; that is shown for each. The order of
  entry needs one lemma on sequences: taking a thread out of a line without
  repetitions leaves the others in their order.
- *The abstract monitor.* `MonitorsImplement` maps the place of a thread to a phase, and
  what a notification, a deadline or an interrupt has done to a sleeper to `Signalled`
  and `Alarm`. Queue, gate, wake-ups and parking disappear: those steps are stutters.
  `LineInv` is needed because the abstract signal picks a sleeper, and the concrete
  one the head of the wait set: it must be asleep.
- *Fibers.* `QueueInv` has three parts beside the types. The carrier goes to sleep
  after it has looked through the queue, so that it oversleeps no one
  (`CarrierAwake`) follows only because every runnable fiber has an entry there
  (`RunnableInQueue`). The resumed fiber must be live (`ResumedIsLive`), or a
  carrier could end with a fiber on it. And as long as no shutdown has begun there is a
  carrier if any start has looked for one (`NoneWithoutCarrier`): only a launch beside a
  shutdown can find it gone. The refinement maps "resumed" to running,
  "starting" to absent, "runnable, or parked past its deadline" to ready, and the end of a
  shutdown to a step that drops what does not run; it needs in addition that
  nothing but the resumed fiber has the state running (`RunningIsResumed`). A wake-up of
  the running fiber changes its control and not its abstract status: a stutter.
- *Threads.* `ThreadInv` says of each thread where its flags stand at each place of
  its life (`Life`), that a join about to report completion has seen its target's
  end or its own stop, that each claimed thread has one starter (`OneStarter`), and,
  while shutdown goes through its list, that every thread that runs on is told or
  is still on the list (`Stopping`). The last is what makes a start beside the
  shutdown harmless: it is refused once the list is taken.
- *Class initialization.* `InitInv`: the classes of a thread's frames are those it
  owns, none occurs twice on the stack, and an owned class is neither initialized nor
  erroneous. It is the second part that lets the end of one initializer give
  its class back without leaving an outer frame for the same class. The two
  modules share their variables but not their steps: each step of `CNext` is a step of
  the scheduler without the bound on its queue (`AnyNext`), or leaves it alone. What
  is proved of the scheduler is proved of `AnyNext`, and so of both.
- *Heap.* Outside a collection `HeapInv` says that free slots are unoccupied and listed
  once, and that what roots, objects, images and cache lines name exists under its
  generation. The cache is believed without a look at the generation, so a line for a
  taken object would be a way to its successor. While a collection is on, the marked
  and the pending objects contain the roots and, but for the pending, what they refer
  to (`Covered`), and lie in every closed set (`Least`). When nothing is pending, the
  first says that the marked objects are closed, the second that no smaller set is:
  they are what `JavaHeap` keeps, however the marking went. No induction over the
  steps of the collector is needed for it.
- *Roots.* `RootsInv` has two parts beside the types. A stack is well formed
  (`ShapeAt`): whoever takes the entry of a depth (`execute()` or a direct call) has
  displaced everything of that depth below it, a native shares the entry of its
  Java caller, and nothing at depth one is displaced: only the outermost `execute()` takes
  that entry, since a pump counts as one.
  And each activation that is not displaced is reported at its depth by published roots,
  the walker or an overlay (`Reported`). A collection takes what is not reported, so that
  what the others hold lives. `StaysSound` is the lemma that carries both parts across a
  step that leaves the lower part of a stack alone, for any set of depths that the step
  takes over; no assumption is made about where a wait pumps.
- *Record stores.* `RecordInv` says of every directory that a crash may leave that
  only temporaries are cut short in it and that recovery finds what is promised
  (`Lasting`). At rest, a store in memory has its canonical file, or no file at all
  (`InPlace`): otherwise a write would overwrite a temporary, or remove a backup, that
  is all there is. While a generation is written, each canonical file that may be found
  is one that was promised before the call (`Prepared`), so that up to the rename nothing
  is lost; after it the backup, or that there was nothing, leads back there
  (`Reversible`); after the synchronization no other canonical file can be found, and
  the backup may go. While a deletion has moved the files aside (`Aside`), the
  temporary and the backup of each directory must be promised, for the canonical file may
  be the only one that is gone. Each operation on a directory is described by
  one lemma (`Becomes`, `Moved`), and three lemmas say which values must be promised for
  it to keep `Lasting`: for the temporary, the backup and the canonical file.
  The attempt found an error in an earlier form of the model: a flush that failed
  took its own generation out of `promised`, although an attempt before it, whose
  rollback had failed, may have left the same generation on the disk. TLC confirms it with
  three changes and four faults, more than the run allows. The call now goes back
  to `before`.
- *Suites.* `SuiteInv` sees the store one suite at a time: what the database says of
  it, and its own directories, as a crash may leave each. Outside a call the suite's
  version is found in its place, whatever is removed elsewhere (`Firm`, `Steady`);
  during one it may have been moved aside (`Aside`, `Changing`), and the new one arrives
  before the database names it (`Arrives`). A configure takes the first place that
  has the version of the record; that this place is firm (`Recoverable`), and
  what is already recovered too (`Recorded`), is why a configure loses no suite. Of the
  database, `BaseInv` says that at rest there is one that can be read (`Readable`) and, while
  a configure runs, one that is in its place (`Anchored`); that a torn backup stands beside a
  whole primary wherever a crash may fall (`Backed`); or else that the loss was
  conceded to every suite (`Conceded`). Memory is what it says (`LoadInv`), but for the
  commit that has just removed the only one (`Lost`). `Durable`
  follows from `Promised`: each database that may be found, with each directory that may
  be, gives a suite that was promised. The attempt found a case that `promised` did
  not have: a configure forgets a suite without its directory, the commit is not
  confirmed, and the same version is installed again. The old database then finds the new
  directory. `Matched` promises it from the moment the directory is in place.
- *Push.* `PushInv` has a part for each table. `CallInv` and `DiskInv` say what the call
  under way has written; `OwnersInv` counts the connections of a file and those the
  call will give it, and keeps them apart for two suites that were not found in a temporary
  file; `LeasesInv` says that the file, and what replaces it, still have the lease
  of each launch that runs undisturbed; `AlarmsInv`, that what a call leaves out of the
  alarms has a request. The alarms that are due become requests one after
  another: what that preserves (`Grown`) is shown by the least number of alarms for which it
  would fail, since induction over data is out of reach.
- *Translation.* `TranslationInv`: the queue has no text twice; requests share no text and
  are as many as `inFlight` says; the scheduled texts are those queued or, unless the
  service was stopped, requested. The last part is that what was drawn is what is
  scheduled and no prefetch: this is why the generation tells those who drew a text
  that it has come, and it maps the answers to the abstract service.
- *Loops.* `ExecutorInv` counts: while a job runs, the slots left, the helpers
  engaged in it and those that have completed are the helpers of the job. When all are
  counted none is engaged, so no item is in hand, and the return is a step of the
  abstract loop.
- *Token and code cache.* `QueueInv` says that a compiler that asks for the token holds
  `background_mutex_`: it is the only one, there is a task, and no stop was asked
  for. `CacheAccounted` compares a running total with a sum over entries. The sum
  is the cardinality of a set of places, one for each byte of each entry, so that an
  entry that gets or loses its code is a disjoint union, and no induction over data
  is needed. It needs that an entry with a compile pending has no code, or a result
  would count bytes on top of others.
- *Compositions.* A behaviour of `GuestSpec` is one of each of its parts, and so is one of
  `HostSpec` (the lemmas `EachIsItself`), so that what is proved of the parts carries
  over. `BackgroundWork` has one invariant for all, `BackgroundInv`: its parts
  share the token.
- *Events.* `starting` holds exactly while some thread is in the places from which the
  worker is started, one at a time, and never with `started`; a failure leaves both
  false and `workers` as it was. `TimersInv` ties entries to tasks:
  a queued entry's task is scheduled, not cancelled and owned by that timer, a
  fixed-delay task that runs has no entry, and a one-shot is completed from when
  it is taken, so that a later cancel() assures nothing. The owner is needed because
  `CancelTask` looks only into the timer that owns the task.

What is assumed of the constants is in the modules (`...Assumption`): that values
standing for "none", for a missing file or one cut short, differ from the others; that
bounds are natural numbers, and limits, sizes and a request's lifetime positive
ones; that fibers, texts, methods and MIDlets are finite sets; and that the machines
of `BackgroundWork` are within its bounds. The bounds themselves (recursion,
generations, opens, calls, faults) may have any value.

Every invariant and action property that a passing run checks is stated by a theorem.
Only model-checked are:

- the liveness properties `FreedMonitorIsTaken`, `ShutdownUnblocks`, `JoinersReturn`,
  `ShutdownEnds`, `WaitersLeave`, `PendingIsFlushed`, `RequestsLeave`, `EventsAreServed`,
  `EndsAreHeard` and `CompilesArrive`: they need fairness, and with it ENABLED, which is
  out of the prover's reach;
- for the same reason the fairness part of `ImplementsCooperativeFibers`,
  `ImplementsTextTranslations` and `ImplementsParallelLoop`; what they say of steps is
  proved (`FibersCooperate`, `TextsImplement`, `LoopsImplement`).

## 6. Not modelled

- Data: what bytecodes compute, class files, pixels, names, exception messages.
- In the scheduler: priorities, execution slices and frame pacing (a parked fiber
  with a deadline stands for pacing), the sets of runnable, blocked and sleeping
  threads that serve only statistics and snapshots, and the fallback to a host
  worker when a fiber or its carrier cannot be created. A worker may fail to start only
  for a host thread. That the creation of the carrier fails matters to others too:
  `ensure_fiber_carrier` sets its flag first (`Scheduler.cpp:545-558`), so a second start
  in between counts on a carrier that never comes, until a third start makes one.
- A few pairs of steps are merged where nothing can see between them: the state of
  a monitor and the `wake_hook_` call that follows its critical section; the two
  checks a fiber makes in one round of a join; in `ensure_fiber_carrier`, the flag and
  the creation of the carrier; in a launch, the insertion of the fiber and its enqueue.
- Requests for class initialization from host code outside the gate
  (`Machine::invoke_static` before it takes the gate).
- Several host threads that are not Java threads share the identifier 1. The
  models have one such thread.
- Natives' own handling of references between their arguments and their results: there
  are some hundreds. The model's natives hold their arguments and nothing else.
- A pumped callback that blocks on a monitor while the outer wait is under way: the
  models take a pump to be one step, or, in `ExecutionRoots`, a stack above the wait.
- What the JIT's code cache frees under native frames: see 4.2. The constructor and
  destructor of the executor, and a helper or compiler that cannot be created.
- In the event worker: volume, tones and loops of players, `scheduledExecutionTime`.
- In translation: the cache file, requests and answers, language codes, sizes and
  scripts; a batch may leave any text out.
- A power failure in the push registry: `write_atomic` does not synchronize the
  directory, so nothing could be promised.
- The verifier, class files and archives, the bindings and drawing change data and
  keep no state that a schedule could disturb. Connections depend on what the
  operating system does with a descriptor
  that is closed under a blocked call. The life cycle of applications, permissions
  and the Canvas queue are guarded by one mutex each. The iOS and web front ends
  call the same core through its C API.

## 7. Running

In this directory, `tlc -config MonitorMixed.cfg MCMonitorTable` checks a run and
`tlapm MonitorTableProofs.tla` a proof module. `PROJECT.json` lists the runs with
their properties, for each property a mutation of the model that the run
rejects (the operators marked "wrong" in the modules), and for each definition the
lines of source it models.
