---------------------------- MODULE MonitorTable ----------------------------
(***************************************************************************)
(* The monitors of Java objects: vm/MonitorTable.cpp, with the part of     *)
(* vm/Machine.cpp that drives it (enter_monitor, wait_on_object,           *)
(* notify_object, interrupt_java_thread, the execution gate and the        *)
(* clean-up of execute()) and the parking of fibers in vm/Scheduler.cpp.   *)
(*                                                                         *)
(* A Java thread is a host thread of its own, or, when it is in Fibers, a  *)
(* fiber: all fibers share one carrier thread.  Guest code runs only while *)
(* its thread holds the execution gate (Machine::execution_mutex_).  Each  *)
(* critical section of MonitorTable::mutex_ is one action.  A host thread  *)
(* checks its condition and falls asleep on the monitor's condition        *)
(* variable in one step; a fiber checks, unlocks, and parks in a later     *)
(* step.                                                                   *)
(***************************************************************************)
EXTENDS Naturals, Sequences

CONSTANTS
  Threads,       \* the Java threads
  Fibers,        \* those that run as fibers on the shared carrier
  Objects,       \* the objects whose monitors are used
  NoThread,      \* "no owner" (JavaThreadId 0)
  MaxRecursion,  \* numeric_limits<u32>::max() of Monitor::recursion
  CanvasBridge   \* canvas_bridge_ != nullptr: a timed wait pumps Canvas work

ASSUME ThreadsAssumption == NoThread \notin Threads /\ Fibers \subseteq Threads
ASSUME MaxRecursionAssumption == MaxRecursion \in Nat \ {0}
ASSUME CanvasBridgeAssumption == CanvasBridge \in BOOLEAN

VARIABLES
  gate,        \* the holder of execution_mutex_
  owner,       \* Monitor::owner
  recursion,   \* Monitor::recursion
  entryQueue,  \* Monitor::entry_queue
  waitSet,     \* Monitor::wait_set, as the threads of its WaitNodes
  notified,    \* WaitNode::notified of the node a thread waits on
  cancelled,   \* MonitorTable::cancelled_
  stopping,    \* JavaThread::stop_requested_, set for all by shutdown()
  interrupted, \* JavaThread::interrupted_
  pc,          \* where a thread is
  target,      \* the monitor it is blocked on
  saved,       \* saved_recursion of MonitorTable::wait
  deadline,    \* of a wait: none, pending or expired
  result,      \* what the last wait returned
  run,         \* FiberRunState of a fiber; of a host thread: running or parked
  held         \* history: the entries of each monitor the Java frames made

tableVars == <<owner, recursion, entryQueue, waitSet, notified, cancelled>>
threadVars == <<pc, target, saved, deadline, result>>
vars == <<gate, tableVars, stopping, interrupted, threadVars, run, held>>

PCs == {"idle", "resuming", "guest", "interrupting", "contended", "entering",
        "pumping", "waiting", "reacquiring"}
Queued == {"contended", "entering", "reacquiring"}
Runs == {"running", "runnable", "parking", "parked"}
Results == {"none", "notified", "timed_out", "interrupted", "cancelled"}

Waiters(o) == {waitSet[o][i] : i \in 1..Len(waitSet[o])}
Entrants(o) == {entryQueue[o][i] : i \in 1..Len(entryQueue[o])}

(***************************************************************************)
(* erase_thread: removes a thread from a queue.  enqueue_unique admits a   *)
(* thread once, so there is at most one occurrence to remove.              *)
(***************************************************************************)
Without(queue, t) ==
  IF \E i \in 1..Len(queue) : queue[i] = t
  THEN LET i == CHOOSE i \in 1..Len(queue) : queue[i] = t
       IN  SubSeq(queue, 1, i - 1) \o SubSeq(queue, i + 1, Len(queue))
  ELSE queue

EnqueueAlways(queue, t) == Append(queue, t) \* wrong: t may stand twice
EnqueueUnique(queue, t) ==
  IF \E i \in 1..Len(queue) : queue[i] = t THEN queue ELSE Append(queue, t)

\* The head of a freed monitor's queue, the only thread its release wakes.
FirstOf(queue) == IF queue = <<>> THEN {} ELSE {Head(queue)}

(***************************************************************************)
(* Waking.  Monitor::condition.notify_all() wakes the host threads asleep  *)
(* on the monitors in os; wake_hook_ re-queues a parked fiber, and does    *)
(* nothing lasting to one that is about to park: park_current_fiber        *)
(* overwrites the state enqueue_fiber wrote.                               *)
(***************************************************************************)
OnMonitor == {"entering", "waiting", "reacquiring"}

Woken(os, fs) ==
  [t \in Threads |->
     CASE run[t] = "parked" /\ t \in Fibers /\ t \in fs -> "runnable"
       [] run[t] = "parked" /\ t \notin Fibers /\ pc[t] \in OnMonitor
            /\ target[t] \in os -> "running"
       [] OTHER -> run[t]]

\* fiber_carrier_loop resumes one fiber; a host thread is always on its core.
OnCpu(t) == run[t] = "running"
CarrierFree == \A f \in Fibers : run[f] \notin {"running", "parking"}

Guest(t) == pc[t] = "guest" /\ OnCpu(t)

Init ==
  /\ gate = NoThread
  /\ owner = [o \in Objects |-> NoThread]
  /\ recursion = [o \in Objects |-> 0]
  /\ entryQueue = [o \in Objects |-> <<>>]
  /\ waitSet = [o \in Objects |-> <<>>]
  /\ notified = [t \in Threads |-> FALSE]
  /\ cancelled = FALSE
  /\ stopping = FALSE
  /\ interrupted = [t \in Threads |-> FALSE]
  /\ pc = [t \in Threads |-> "idle"]
  /\ target \in [Threads -> Objects]
  /\ \A t, u \in Threads : target[t] = target[u]
  /\ saved = [t \in Threads |-> 0]
  /\ deadline = [t \in Threads |-> "none"]
  /\ result = [t \in Threads |-> "none"]
  /\ run = [t \in Threads |-> IF t \in Fibers THEN "parked" ELSE "running"]
  /\ held = [t \in Threads |-> [o \in Objects |-> 0]]

-----------------------------------------------------------------------------
(***************************************************************************)
(* Running guest code.                                                     *)
(***************************************************************************)

\* Thread.start of a new Java thread; a fiber joins the runnable queue.
Start(t) ==
  /\ pc[t] = "idle" /\ ~stopping
  /\ pc' = [pc EXCEPT ![t] = "resuming"]
  /\ result' = [result EXCEPT ![t] = "none"]
  /\ interrupted' = [interrupted EXCEPT ![t] = FALSE]
  /\ run' = [run EXCEPT ![t] = IF t \in Fibers THEN "runnable" ELSE "running"]
  /\ UNCHANGED <<gate, tableVars, stopping, target, saved, deadline, held>>

\* execution_mutex_.lock() by execute() or resume_execution_after_blocking();
\* a wait that ended by interruption then consumes the interrupt, and its
\* locals (the WaitNode, saved_recursion) are gone.
Resume(t) ==
  /\ pc[t] = "resuming" /\ OnCpu(t) /\ gate = NoThread
  /\ gate' = t
  /\ pc' = [pc EXCEPT ![t] = "guest"]
  /\ interrupted' = [interrupted EXCEPT ![t] =
                       IF result[t] = "interrupted" THEN FALSE ELSE @]
  /\ result' = [result EXCEPT ![t] = "none"]
  /\ notified' = [notified EXCEPT ![t] = FALSE]
  /\ saved' = [saved EXCEPT ![t] = 0]
  /\ UNCHANGED <<owner, recursion, entryQueue, waitSet, cancelled, stopping,
                 target, deadline, run, held>>

\* cooperative_quantum and every blocking native: the gate is let go.
Yield(t) ==
  /\ Guest(t)
  /\ gate' = NoThread
  /\ pc' = [pc EXCEPT ![t] = "resuming"]
  /\ run' = [run EXCEPT ![t] = IF t \in Fibers THEN "runnable" ELSE @]
  /\ UNCHANGED <<tableVars, stopping, interrupted, target, saved, deadline,
                 result, held>>

\* fiber_carrier_loop takes a runnable fiber.
Dispatch(f) ==
  /\ f \in Fibers /\ run[f] = "runnable" /\ CarrierFree
  /\ run' = [run EXCEPT ![f] = "running"]
  /\ UNCHANGED <<gate, tableVars, stopping, interrupted, threadVars, held>>

\* park_current_fiber, after the check that found nothing to do; the carrier
\* re-queues it at once when its deadline has already passed.
Park(f) ==
  /\ f \in Fibers /\ run[f] = "parking"
  /\ run' = [run EXCEPT ![f] =
               IF deadline[f] = "expired" THEN "runnable" ELSE "parked"]
  /\ UNCHANGED <<gate, tableVars, stopping, interrupted, threadVars, held>>

(***************************************************************************)
(* release_all(t): the thread gives back every monitor it owns and leaves  *)
(* every queue and wait set.  Every condition is broadcast; the head of a  *)
(* monitor it owned is woken.                                              *)
(***************************************************************************)
ReleaseAll(t) ==
  /\ owner' = [o \in Objects |-> IF owner[o] = t THEN NoThread ELSE owner[o]]
  /\ recursion' = [o \in Objects |-> IF owner[o] = t THEN 0 ELSE recursion[o]]
  /\ entryQueue' = [o \in Objects |-> Without(entryQueue[o], t)]
  /\ waitSet' = [o \in Objects |-> Without(waitSet[o], t)]

\* The heads of the monitors t owned.
FreedHeads(t) ==
  UNION {FirstOf(entryQueue'[o]) : o \in {p \in Objects : owner[p] = t}}

NoReleaseWakes(t) == run \* wrong: release_all without its broadcast
ReleaseWakes(t) == Woken(Objects, FreedHeads(t))

\* The outermost invocation of t ends: the clean-up of execute().
Finish(t) ==
  /\ Guest(t)
  /\ ReleaseAll(t)
  /\ run' = LET woken == ReleaseWakes(t)
            IN  [woken EXCEPT ![t] = IF t \in Fibers THEN "parked" ELSE @]
  /\ gate' = NoThread
  /\ pc' = [pc EXCEPT ![t] = "idle"]
  /\ held' = [held EXCEPT ![t] = [o \in Objects |-> 0]]
  /\ UNCHANGED <<notified, cancelled, stopping, interrupted, target, saved,
                 deadline, result>>

-----------------------------------------------------------------------------
(***************************************************************************)
(* monitorenter.                                                           *)
(***************************************************************************)

\* Not a guard of the code: the bound of the history variable.
HistoryFits(t, o) == held[t][o] < MaxRecursion

CanBarge(t, o) == owner[o] = NoThread \* wrong: past the queue
\* MonitorTable::enter takes a free monitor nobody else is first in line for.
CanTake(t, o) == owner[o] = NoThread /\ FirstOf(entryQueue[o]) \subseteq {t}

Take(t, o) ==
  /\ owner' = [owner EXCEPT ![o] = t]
  /\ recursion' = [recursion EXCEPT ![o] = 1]
  /\ entryQueue' = [entryQueue EXCEPT ![o] = Without(@, t)]
  /\ held' = [held EXCEPT ![t][o] = @ + 1]

EnterFree(t, o) ==
  /\ Guest(t) /\ ~cancelled /\ CanTake(t, o) /\ HistoryFits(t, o)
  /\ Take(t, o)
  /\ UNCHANGED <<gate, waitSet, notified, cancelled, stopping, interrupted,
                 threadVars, run>>

Countable(o) == recursion[o] < MaxRecursion

\* At MaxRecursion enter() reports overflow and changes nothing.
EnterAgain(t, o) ==
  /\ Guest(t) /\ ~cancelled /\ owner[o] = t /\ Countable(o)
  /\ recursion' = [recursion EXCEPT ![o] = @ + 1]
  /\ held' = [held EXCEPT ![t][o] = @ + 1]
  /\ UNCHANGED <<gate, owner, entryQueue, waitSet, notified, cancelled,
                 stopping, interrupted, threadVars, run>>

\* would_block: the thread is in line before it lets the gate go.
EnterContended(t, o) ==
  /\ Guest(t) /\ ~cancelled /\ ~CanTake(t, o) /\ owner[o] # t
  /\ HistoryFits(t, o)
  /\ entryQueue' = [entryQueue EXCEPT ![o] = EnqueueUnique(@, t)]
  /\ pc' = [pc EXCEPT ![t] = "contended"]
  /\ target' = [target EXCEPT ![t] = o]
  /\ UNCHANGED <<gate, owner, recursion, waitSet, notified, cancelled,
                 stopping, interrupted, saved, deadline, result, run, held>>

(***************************************************************************)
(* Machine::enter_monitor: enter() again, then enter_blocking().  The      *)
(* second enter() cannot succeed either: a monitor is given up only by     *)
(* guest code, and t still has the gate.                                   *)
(***************************************************************************)
RetryCancelled(t) ==
  /\ pc[t] = "contended" /\ OnCpu(t) /\ cancelled
  /\ pc' = [pc EXCEPT ![t] = "guest"]
  /\ UNCHANGED <<gate, tableVars, stopping, interrupted, target, saved,
                 deadline, result, run, held>>

RetryBlocks(t) ==
  /\ pc[t] = "contended" /\ OnCpu(t) /\ ~cancelled /\ ~CanTake(t, target[t])
  /\ entryQueue' = [entryQueue EXCEPT ![target[t]] = EnqueueUnique(@, t)]
  /\ gate' = NoThread
  /\ pc' = [pc EXCEPT ![t] = "entering"]
  /\ UNCHANGED <<owner, recursion, waitSet, notified, cancelled, stopping,
                 interrupted, target, saved, deadline, result, run, held>>

\* ready() of enter_blocking and reacquire_ready() of wait.
IsNext(t) ==
  /\ owner[target[t]] = NoThread
  /\ FirstOf(entryQueue[target[t]]) = {t}

\* The end of enter_blocking; after_block() then wants the gate.
EnterBlocked(t) ==
  /\ pc[t] = "entering" /\ OnCpu(t) /\ ~cancelled /\ IsNext(t)
  /\ owner' = [owner EXCEPT ![target[t]] = t]
  /\ recursion' = [recursion EXCEPT ![target[t]] = 1]
  /\ entryQueue' = [entryQueue EXCEPT ![target[t]] = Tail(@)]
  /\ held' = [held EXCEPT ![t][target[t]] = @ + 1]
  /\ pc' = [pc EXCEPT ![t] = "resuming"]
  /\ UNCHANGED <<gate, waitSet, notified, cancelled, stopping, interrupted,
                 target, saved, deadline, result, run>>

\* A cancelled enter_blocking, or a cancelled reacquisition, fails.
EntryCancelled(t) ==
  /\ pc[t] \in {"entering", "reacquiring"} /\ OnCpu(t) /\ cancelled
  /\ pc' = [pc EXCEPT ![t] = "resuming"]
  /\ result' = [result EXCEPT ![t] = "cancelled"]
  /\ UNCHANGED <<gate, tableVars, stopping, interrupted, target, saved,
                 deadline, run, held>>

\* Nothing to do yet: a host thread sleeps on the condition, a fiber goes on
\* to park.
Sleep(t) ==
  /\ pc[t] \in {"entering", "reacquiring"} /\ OnCpu(t)
  /\ ~cancelled /\ ~IsNext(t)
  /\ run' = [run EXCEPT ![t] = IF t \in Fibers THEN "parking" ELSE "parked"]
  /\ UNCHANGED <<gate, tableVars, stopping, interrupted, threadVars, held>>

-----------------------------------------------------------------------------
(***************************************************************************)
(* monitorexit, and the return or unwinding of a synchronized method.  If  *)
(* the table does not have t as the owner, exit() throws                   *)
(* IllegalMonitorStateException and changes nothing.                       *)
(***************************************************************************)
ExitInner(t, o) ==
  /\ Guest(t) /\ held[t][o] > 0 /\ owner[o] = t /\ recursion[o] > 1
  /\ recursion' = [recursion EXCEPT ![o] = @ - 1]
  /\ held' = [held EXCEPT ![t][o] = @ - 1]
  /\ UNCHANGED <<gate, owner, entryQueue, waitSet, notified, cancelled,
                 stopping, interrupted, threadVars, run>>

ExitWakes(o) == Woken({o}, FirstOf(entryQueue[o]))

ExitLast(t, o) ==
  /\ Guest(t) /\ held[t][o] > 0 /\ owner[o] = t /\ recursion[o] = 1
  /\ owner' = [owner EXCEPT ![o] = NoThread]
  /\ recursion' = [recursion EXCEPT ![o] = 0]
  /\ held' = [held EXCEPT ![t][o] = @ - 1]
  /\ run' = ExitWakes(o)
  /\ UNCHANGED <<gate, entryQueue, waitSet, notified, cancelled, stopping,
                 interrupted, threadVars>>

ExitNotOwner(t, o) ==
  /\ Guest(t) /\ held[t][o] > 0 /\ owner[o] # t
  /\ held' = [held EXCEPT ![t][o] = @ - 1]
  /\ UNCHANGED <<gate, tableVars, stopping, interrupted, threadVars, run>>

-----------------------------------------------------------------------------
(***************************************************************************)
(* Object.wait, from the call to the release of the monitor and the gate.  *)
(* The condition is broadcast; no fiber is woken.                          *)
(***************************************************************************)
WaitFrees(t, o) == [owner EXCEPT ![o] = NoThread]

NoWaitWakes(o) == run \* wrong: the release in wait tells no one
WaitWakes(o) == Woken({o}, {})

Wait(t, o, timed) ==
  /\ Guest(t) /\ owner[o] = t /\ recursion[o] > 0
  /\ saved' = [saved EXCEPT ![t] = recursion[o]]
  /\ waitSet' = [waitSet EXCEPT ![o] = Append(@, t)]
  /\ notified' = [notified EXCEPT ![t] = FALSE]
  /\ owner' = WaitFrees(t, o)
  /\ recursion' = [recursion EXCEPT ![o] = 0]
  /\ run' = WaitWakes(o)
  /\ gate' = NoThread
  /\ target' = [target EXCEPT ![t] = o]
  /\ deadline' = [deadline EXCEPT ![t] = IF timed THEN "pending" ELSE "none"]
  /\ pc' = [pc EXCEPT ![t] =
              IF timed /\ CanvasBridge THEN "pumping" ELSE "waiting"]
  /\ UNCHANGED <<entryQueue, cancelled, stopping, interrupted, result, held>>

(***************************************************************************)
(* What notify_one and notify_all do once the caller is found to be the    *)
(* owner: the first node not yet notified, or every node.                  *)
(***************************************************************************)
Unnotified(o) == {i \in 1..Len(waitSet[o]) : ~notified[waitSet[o][i]]}

NotifyWakes(o, u) == Woken({o}, {u})

NotifyFirst(o) ==
  \E i \in Unnotified(o) :
    /\ \A j \in Unnotified(o) : i <= j
    /\ notified' = [notified EXCEPT ![waitSet[o][i]] = TRUE]
    /\ run' = NotifyWakes(o, waitSet[o][i])

NotifyEach(o) ==
  /\ waitSet[o] # <<>>
  /\ notified' = [u \in Threads |-> notified[u] \/ u \in Waiters(o)]
  /\ run' = Woken({o}, Waiters(o))

(***************************************************************************)
(* pump_blocking_wait_work(): the waiting thread takes the gate again and  *)
(* runs the Canvas callbacks that are due.  A callback is an invocation of *)
(* the same Java thread inside pump's own hold of the gate, so its end is  *)
(* not the outermost one and releases nothing.  Here a callback leaves     *)
(* monitors alone, or synchronizes on one that is free and notifies its    *)
(* waiters, of which its own thread may be one.                            *)
(***************************************************************************)
Pump(t) ==
  /\ pc[t] = "pumping" /\ OnCpu(t) /\ gate = NoThread
  /\ \/ UNCHANGED <<notified, run>>
     \/ \E o \in Objects : /\ ~cancelled /\ CanTake(t, o)
                           /\ NotifyFirst(o) \/ NotifyEach(o)
  /\ pc' = [pc EXCEPT ![t] = "waiting"]
  /\ UNCHANGED <<gate, owner, recursion, entryQueue, waitSet, cancelled,
                 stopping, interrupted, target, saved, deadline, result, held>>

MayLeaveAnyhow(t) == TRUE \* wrong: the predicate is not checked again
\* The predicate of MonitorTable::wait, with the callback of wait_on_object.
MayLeave(t) == cancelled \/ notified[t] \/ interrupted[t] \/ stopping

WaitSleeps(t) ==
  /\ pc[t] = "waiting" /\ OnCpu(t) /\ ~MayLeave(t) /\ deadline[t] # "expired"
  /\ run' = [run EXCEPT ![t] = IF t \in Fibers THEN "parking" ELSE "parked"]
  /\ UNCHANGED <<gate, tableVars, stopping, interrupted, threadVars, held>>

\* The deadline passes: wait_for returns, or the carrier re-queues the fiber.
DeadlinePasses(t) ==
  /\ deadline[t] = "pending"
  /\ deadline' = [deadline EXCEPT ![t] = "expired"]
  /\ run' = [run EXCEPT ![t] =
               IF @ # "parked" THEN @
               ELSE IF t \in Fibers THEN "runnable" ELSE "running"]
  /\ UNCHANGED <<gate, tableVars, stopping, interrupted, pc, target, saved,
                 result, held>>

WaitOutcome(t) ==
  IF interrupted[t] \/ stopping THEN "interrupted"
  ELSE IF notified[t] THEN "notified" ELSE "timed_out"

WithoutNode(t) == [waitSet EXCEPT ![target[t]] = Without(@, t)]

\* The wait is over: the node leaves the wait set and t joins the queue.
WaitEnds(t) ==
  /\ pc[t] = "waiting" /\ OnCpu(t) /\ ~cancelled
  /\ MayLeave(t) \/ deadline[t] = "expired"
  /\ result' = [result EXCEPT ![t] = WaitOutcome(t)]
  /\ waitSet' = WithoutNode(t)
  /\ entryQueue' = [entryQueue EXCEPT ![target[t]] = EnqueueUnique(@, t)]
  /\ deadline' = [deadline EXCEPT ![t] = "none"]
  /\ pc' = [pc EXCEPT ![t] = "reacquiring"]
  /\ UNCHANGED <<gate, owner, recursion, notified, cancelled, stopping,
                 interrupted, target, saved, run, held>>

WaitCancelled(t) ==
  /\ pc[t] = "waiting" /\ OnCpu(t) /\ cancelled
  /\ result' = [result EXCEPT ![t] = "cancelled"]
  /\ deadline' = [deadline EXCEPT ![t] = "none"]
  /\ pc' = [pc EXCEPT ![t] = "resuming"]
  /\ UNCHANGED <<gate, tableVars, stopping, interrupted, target, saved, run,
                 held>>

DepthOne(t) == 1 \* wrong: a wait always comes back at depth one
RestoredDepth(t) == saved[t]

Reacquire(t) ==
  /\ pc[t] = "reacquiring" /\ OnCpu(t) /\ ~cancelled /\ IsNext(t)
  /\ owner' = [owner EXCEPT ![target[t]] = t]
  /\ recursion' = [recursion EXCEPT ![target[t]] = RestoredDepth(t)]
  /\ entryQueue' = [entryQueue EXCEPT ![target[t]] = Tail(@)]
  /\ pc' = [pc EXCEPT ![t] = "resuming"]
  /\ UNCHANGED <<gate, waitSet, notified, cancelled, stopping, interrupted,
                 target, saved, deadline, result, run, held>>

-----------------------------------------------------------------------------
(***************************************************************************)
(* Object.notify and notifyAll, by the owner.                              *)
(***************************************************************************)
Notify(t, o) ==
  /\ Guest(t) /\ owner[o] = t
  /\ NotifyFirst(o)
  /\ UNCHANGED <<gate, owner, recursion, entryQueue, waitSet, cancelled,
                 stopping, interrupted, threadVars, held>>

NotifyAll(t, o) ==
  /\ Guest(t) /\ owner[o] = t
  /\ NotifyEach(o)
  /\ UNCHANGED <<gate, owner, recursion, entryQueue, waitSet, cancelled,
                 stopping, interrupted, threadVars, held>>

(***************************************************************************)
(* Thread.interrupt: the flag and the fiber first, then wake_all().        *)
(***************************************************************************)
Interrupt(t, u) ==
  /\ Guest(t) /\ pc[u] # "idle"
  /\ interrupted' = [interrupted EXCEPT ![u] = TRUE]
  /\ run' = Woken({}, {u})
  /\ pc' = [pc EXCEPT ![t] = "interrupting"]
  /\ UNCHANGED <<gate, tableVars, stopping, target, saved, deadline, result,
                 held>>

NoInterruptWakes == run \* wrong: without monitors_.wake_all()
InterruptWakes == Woken(Objects, {})

WakeAll(t) ==
  /\ pc[t] = "interrupting" /\ OnCpu(t)
  /\ run' = InterruptWakes
  /\ pc' = [pc EXCEPT ![t] = "guest"]
  /\ UNCHANGED <<gate, tableVars, stopping, interrupted, target, saved,
                 deadline, result, held>>

(***************************************************************************)
(* Scheduler::shutdown by a host thread: every worker is told to stop and  *)
(* every fiber is re-queued, then MonitorTable::clear() drops the table.   *)
(***************************************************************************)
StopAll ==
  /\ ~stopping
  /\ stopping' = TRUE
  /\ run' = Woken({}, {f \in Fibers : pc[f] # "idle"})
  /\ UNCHANGED <<gate, tableVars, interrupted, threadVars, held>>

NoClearWakes == run \* wrong: cancelled, and never told
ClearWakes ==
  Woken(Objects, UNION {Entrants(o) \cup Waiters(o) : o \in Objects})

Clear ==
  /\ stopping /\ ~cancelled
  /\ cancelled' = TRUE
  /\ owner' = [o \in Objects |-> NoThread]
  /\ recursion' = [o \in Objects |-> 0]
  /\ entryQueue' = [o \in Objects |-> <<>>]
  /\ waitSet' = [o \in Objects |-> <<>>]
  /\ run' = ClearWakes
  /\ UNCHANGED <<gate, notified, stopping, interrupted, threadVars, held>>

-----------------------------------------------------------------------------
GuestStep(t) ==
  \/ Start(t) \/ Yield(t) \/ Finish(t)
  \/ \E o \in Objects : EnterFree(t, o) \/ EnterAgain(t, o)
                          \/ EnterContended(t, o)
  \/ \E o \in Objects : ExitInner(t, o) \/ ExitLast(t, o) \/ ExitNotOwner(t, o)
  \/ \E o \in Objects, timed \in BOOLEAN : Wait(t, o, timed)
  \/ \E o \in Objects : Notify(t, o) \/ NotifyAll(t, o)
  \/ \E u \in Threads : Interrupt(t, u)

\* The steps the runtime takes without the guest program asking for them.
RuntimeStep(t) ==
  \/ RetryCancelled(t) \/ RetryBlocks(t)
  \/ EnterBlocked(t) \/ EntryCancelled(t) \/ Sleep(t)
  \/ WaitSleeps(t) \/ WaitEnds(t) \/ WaitCancelled(t)
  \/ Reacquire(t)
  \/ WakeAll(t) \/ Park(t)

Next ==
  \/ \E t \in Threads : GuestStep(t) \/ RuntimeStep(t) \/ Resume(t)
                          \/ Pump(t) \/ Dispatch(t) \/ DeadlinePasses(t)
  \/ StopAll \/ Clear

Spec == Init /\ [][Next]_vars

(***************************************************************************)
(* Fairness.  A host thread that can take a step of its own takes it, the  *)
(* carrier dispatches a runnable fiber and a deadline passes.  The gate is *)
(* a mutex that guest code gives up again and again (cooperative_quantum   *)
(* yields it), so a thread that wants it gets it: strong fairness.  A      *)
(* shutdown that has begun goes on.                                        *)
(***************************************************************************)
Fairness ==
  /\ \A t \in Threads :
       /\ WF_vars(RuntimeStep(t))
       /\ SF_vars(Resume(t))
       /\ SF_vars(Pump(t))
       /\ SF_vars(Dispatch(t))
       /\ WF_vars(DeadlinePasses(t))
       /\ SF_vars(Yield(t))
  /\ WF_vars(Clear)

FairSpec == Spec /\ Fairness

-----------------------------------------------------------------------------
TypeOK ==
  /\ gate \in Threads \cup {NoThread}
  /\ owner \in [Objects -> Threads \cup {NoThread}]
  /\ recursion \in [Objects -> 0..MaxRecursion]
  /\ entryQueue \in [Objects -> Seq(Threads)]
  /\ waitSet \in [Objects -> Seq(Threads)]
  /\ notified \in [Threads -> BOOLEAN]
  /\ cancelled \in BOOLEAN
  /\ stopping \in BOOLEAN
  /\ interrupted \in [Threads -> BOOLEAN]
  /\ pc \in [Threads -> PCs]
  /\ target \in [Threads -> Objects]
  /\ saved \in [Threads -> 0..MaxRecursion]
  /\ deadline \in [Threads -> {"none", "pending", "expired"}]
  /\ result \in [Threads -> Results]
  /\ run \in [Threads -> Runs]
  /\ held \in [Threads -> [Objects -> Nat]]

\* Between Object.wait's release of o and its return.
InWait(t, o) ==
  target[t] = o /\ pc[t] \in {"pumping", "waiting", "reacquiring"}

(***************************************************************************)
(* What the frames of a Java thread believe they hold is what the table    *)
(* says: entries and exits pair up over recursion, waits, retries of       *)
(* enter() and the end of the invocation, and a wait gives back exactly    *)
(* the depth it released.  Two threads are then never inside the same      *)
(* monitor.                                                                *)
(***************************************************************************)
FramesMatchTable ==
  ~cancelled =>
    \A t \in Threads, o \in Objects :
      IF InWait(t, o)
      THEN owner[o] # t /\ saved[t] = held[t][o] /\ held[t][o] > 0
      ELSE /\ held[t][o] > 0 <=> owner[o] = t
           /\ owner[o] = t => recursion[o] = held[t][o]

(***************************************************************************)
(* No ghost in a queue: a thread stands in an entry queue exactly while it *)
(* is entering or re-entering that monitor, once, and never while it owns  *)
(* it.  A ghost at the head would keep everyone else out for good.         *)
(***************************************************************************)
QueuesMatchThreads ==
  ~cancelled =>
    \A o \in Objects :
      /\ Entrants(o) = {t \in Threads : pc[t] \in Queued /\ target[t] = o}
      /\ \A i, j \in 1..Len(entryQueue[o]) :
            entryQueue[o][i] = entryQueue[o][j] => i = j
      /\ owner[o] \notin Entrants(o)

(***************************************************************************)
(* No host thread sleeps through its wake-up: one that is asleep on a      *)
(* monitor has nothing to do, or the broadcast that will wake it is still  *)
(* to come (interrupt_java_thread and shutdown set the flag first).        *)
(***************************************************************************)
NoSleepThroughWake ==
  \A t \in Threads \ Fibers :
    run[t] = "parked" =>
      /\ pc[t] \in OnMonitor /\ ~cancelled
      /\ pc[t] # "waiting" => ~IsNext(t)
      /\ pc[t] = "waiting" =>
           /\ ~notified[t] /\ deadline[t] # "expired"
           /\ interrupted[t] => \E u \in Threads : pc[u] = "interrupting"

(***************************************************************************)
(* Entry is first come, first served: a monitor with a queue goes to the   *)
(* head, and two threads that stay in the queue keep their order.          *)
(***************************************************************************)
HandedToHead ==
  [][\A o \in Objects :
       /\ owner[o] = NoThread /\ owner'[o] # NoThread /\ entryQueue[o] # <<>>
            => owner'[o] = Head(entryQueue[o])
       /\ \A i, j \in 1..Len(entryQueue[o]) :
            \A k, l \in 1..Len(entryQueue'[o]) :
              /\ i < j
              /\ entryQueue'[o][k] = entryQueue[o][i]
              /\ entryQueue'[o][l] = entryQueue[o][j]
              => k < l]_vars

(***************************************************************************)
(* A free monitor with a thread in line is taken ("Only the FIFO head can  *)
(* acquire a freshly released monitor", so that thread must be told).      *)
(***************************************************************************)
FreedMonitorIsTaken ==
  \A o \in Objects :
    (owner[o] = NoThread /\ entryQueue[o] # <<>>) ~>
      (owner[o] # NoThread \/ entryQueue[o] = <<>>)

\* What a thread, its wait and its alarm are to a Java program.
Phase ==
  [t \in Threads |-> CASE pc[t] \in {"pumping", "waiting"} -> "asleep"
                       [] pc[t] = "reacquiring" -> "returning"
                       [] OTHER -> "active"]
Signalled == [t \in Threads |-> notified[t] /\ Phase[t] = "asleep"]
Alarm == [t \in Threads |-> deadline[t] # "none" \/ interrupted[t] \/ stopping]

(***************************************************************************)
(* The table implements the monitors a Java program expects: exclusive,    *)
(* reentrant, given up whole by a wait and taken back whole before it      *)
(* returns, and no wait ends without a cause.                              *)
(***************************************************************************)
Abstract == INSTANCE ObjectMonitor WITH
  lock <- owner, depth <- held, phase <- Phase, at <- target,
  signalled <- Signalled, alarm <- Alarm, open <- ~cancelled

ImplementsObjectMonitor == Abstract!Spec

\* Shutdown gets every thread out of every monitor.
ShutdownUnblocks ==
  \A t \in Threads : cancelled ~> pc[t] \notin OnMonitor
=============================================================================
