----------------------------- MODULE JavaThreads -----------------------------
(***************************************************************************)
(* The life of a Java thread in vm/Scheduler.cpp: start, sleep, join,      *)
(* interrupt, the end of its run, and the shutdown of them all.  A thread  *)
(* is a fiber of FiberScheduler or a host thread; some host threads are    *)
(* native tasks, whose records are pruned once they have ended.            *)
(*                                                                         *)
(* Main is the record of Java thread 1, which shutdown does not stop; the  *)
(* shutdown itself runs on a host thread beside all these.  A critical     *)
(* section of JavaThread::mutex_ or Scheduler::mutex_ is one action.  The  *)
(* joining host thread holds its target's mutex from the check of its      *)
(* predicate until it sleeps, but the flags it checks are its own, under   *)
(* another mutex; so this check and this sleep are two actions.            *)
(***************************************************************************)
EXTENDS FiberScheduler

CONSTANTS
  Threads,      \* the Java threads
  Main,         \* the one whose identifier is 1
  Objects,      \* those that guest code holds a java.lang.Thread of
  NativeTasks,  \* those start_native_thread starts
  Program,      \* the calls made: "start", "sleep", "join", ..., "shutdown"
  NoThread,     \* nobody
  Host          \* the host thread that calls Machine::shutdown

ASSUME ThreadsAssumption ==
  /\ NoThread \notin Threads /\ Host \notin Threads
  /\ Fibers \cup NativeTasks \subseteq Threads \ {Main}
  /\ Objects \subseteq Threads
  /\ Fibers \cap NativeTasks = {}
ASSUME WakersAssumption ==
  Threads \cup {Host} \subseteq Wakers /\ {"sleeping", "joining"} \subseteq Reasons

VARIABLES
  gate,          \* the holder of Machine::execution_mutex_
  registered,    \* the threads in by_id_ and by_object_
  jstate,        \* JavaThread::state_
  started,       \* JavaThread::started_
  interrupted,   \* JavaThread::interrupted_
  stopRequested, \* JavaThread::stop_requested_
  pc,            \* where a thread is
  target,        \* the thread it starts, joins or interrupts
  timer,         \* its timeout: none, pending or expired
  outcome,       \* SchedulerWaitResult of its last sleep or join
  sd,            \* where shutdown is
  sdThreads      \* the threads its current loop has still to visit

flagVars == <<registered, jstate, started, interrupted, stopRequested>>
shutdownVars == <<sd, sdThreads>>
waitVars == <<target, timer, outcome>>
threadVars == <<gate, flagVars, pc, waitVars, shutdownVars>>
allVars == <<vars, threadVars>>

PCs == {"new", "claimed", "born", "resuming", "guest", "starting",
        "interrupting", "sleepCheck", "sleeping", "joinCheck", "dozing",
        "joinParks", "joining", "ending", "ended", "listing", "enqueuing",
        "done"}
JavaThreadStates == {"new", "runnable", "running", "sleeping", "joining",
                     "terminated"}

JInit ==
  /\ Init
  /\ gate = NoThread
  /\ registered = Threads
  /\ jstate = [t \in Threads |-> IF t = Main THEN "running" ELSE "new"]
  /\ started = [t \in Threads |-> t = Main]
  /\ interrupted = [t \in Threads |-> FALSE]
  /\ stopRequested = [t \in Threads |-> FALSE]
  /\ pc = [t \in Threads |-> IF t = Main THEN "resuming" ELSE "new"]
  /\ target = [t \in Threads |-> NoThread]
  /\ timer = [t \in Threads |-> "none"]
  /\ outcome = [t \in Threads |-> "none"]
  /\ sd = "idle"
  /\ sdThreads = {}

OnCpu(t) == t \in Fibers => resumed = t
Guest(t) == pc[t] = "guest" /\ OnCpu(t)
Calls(t, method) == Guest(t) /\ method \in Program

\* find_thread_locked
Found(u) == u \in registered \cap Objects

Move(t, place) == pc' = [pc EXCEPT ![t] = place]

\* JavaThread::mutex_ of u is held by a thread about to sleep on u.
Locked(u) == \E t \in Threads : pc[t] = "dozing" /\ target[t] = u

MainStops(t) == shuttingDown /\ t = Main \* wrong: the wrong way round
\* current_stop_requested: every thread but Main unwinds.
MustStop(t) == shuttingDown /\ t # Main

-----------------------------------------------------------------------------
(***************************************************************************)
(* condition_.notify_all() on the threads in us wakes the host threads     *)
(* asleep there: sleepers on their own condition, joiners on the target's. *)
(***************************************************************************)
Notified(us) ==
  [t \in Threads |->
     CASE t \notin Fibers /\ pc[t] = "sleeping" /\ t \in us -> "sleepCheck"
       [] t \notin Fibers /\ pc[t] = "joining" /\ target[t] \in us -> "joinCheck"
       [] OTHER -> pc[t]]

-----------------------------------------------------------------------------
(***************************************************************************)
(* Guest code and the execution gate.                                      *)
(***************************************************************************)
\* A host worker goes by its stop token, set some time after shutdown began.
Begin(t) ==
  /\ pc[t] = "born" /\ OnCpu(t)
  /\ \/ MustStop(t) /\ Move(t, "ending")
     \/ ~(t \in Fibers /\ MustStop(t)) /\ Move(t, "resuming")
  /\ jstate' = [jstate EXCEPT ![t] = "running"]
  /\ UNCHANGED <<vars, gate, registered, started, interrupted, stopRequested,
                 waitVars, shutdownVars>>

\* The call has returned: its target, timeout and result are gone.
TakeGate(t) ==
  /\ pc[t] = "resuming" /\ OnCpu(t) /\ gate = NoThread
  /\ gate' = t
  /\ Move(t, "guest")
  /\ jstate' = [jstate EXCEPT ![t] = "running"]
  /\ target' = [target EXCEPT ![t] = NoThread]
  /\ timer' = [timer EXCEPT ![t] = "none"]
  /\ outcome' = [outcome EXCEPT ![t] = "none"]
  /\ UNCHANGED <<vars, registered, started, interrupted, stopRequested,
                 shutdownVars>>

\* A fiber goes to the end of the queue, or parks to pace itself.
Yield(t) ==
  /\ Guest(t)
  /\ gate' = NoThread
  /\ jstate' = [jstate EXCEPT ![t] = "runnable"]
  /\ Move(t, "resuming")
  /\ \/ t \in Fibers /\ YieldFiber(t) /\ UNCHANGED timer
     \/ /\ t \in Fibers /\ ParkFiber(t, "runnable", "pending")
        /\ timer' = [timer EXCEPT ![t] = "pending"]
     \/ t \notin Fibers /\ UNCHANGED <<vars, timer>>
  /\ UNCHANGED <<registered, started, interrupted, stopRequested, target,
                 outcome, shutdownVars>>

\* run() returns, or the interpreter unwinds at its next safepoint.
Return(t) ==
  /\ Guest(t) /\ t # Main
  /\ gate' = NoThread
  /\ Move(t, "ending")
  /\ UNCHANGED <<vars, flagVars, waitVars, shutdownVars>>

-----------------------------------------------------------------------------
(***************************************************************************)
(* start_thread: under mutex_ the thread is claimed, unless shutdown has   *)
(* begun; its worker or fiber is started outside.                          *)
(***************************************************************************)
MayStart == ~shuttingDown

Start(t, u) ==
  /\ Calls(t, "start") /\ u \notin NativeTasks
  /\ MayStart /\ Found(u) /\ ~started[u]
  /\ started' = [started EXCEPT ![u] = TRUE]
  /\ jstate' = [jstate EXCEPT ![u] = "runnable"]
  /\ pc' = [pc EXCEPT ![t] = "starting", ![u] = "claimed"]
  /\ target' = [target EXCEPT ![t] = u]
  /\ UNCHANGED <<vars, gate, registered, interrupted, stopRequested, timer,
                 outcome, shutdownVars>>

StartCarrier(t) ==
  /\ pc[t] = "starting" /\ OnCpu(t) /\ target[t] \in Fibers
  /\ EnsureCarrier(target[t])
  /\ UNCHANGED threadVars

StartLaunch(t) ==
  /\ pc[t] = "starting" /\ OnCpu(t)
  /\ pc' = [pc EXCEPT ![t] = "guest", ![target[t]] = "born"]
  /\ target' = [target EXCEPT ![t] = NoThread]
  /\ \/ target[t] \in Fibers /\ Launch(target[t])
     \/ target[t] \notin Fibers /\ UNCHANGED vars
  /\ UNCHANGED <<gate, flagVars, timer, outcome, shutdownVars>>

\* The host has no thread to give; the Java thread may be started again.
StartFails(t) ==
  /\ pc[t] = "starting" /\ OnCpu(t) /\ target[t] \notin Fibers
  /\ started' = [started EXCEPT ![target[t]] = FALSE]
  /\ jstate' = [jstate EXCEPT ![target[t]] = "new"]
  /\ pc' = [pc EXCEPT ![t] = "guest", ![target[t]] = "new"]
  /\ target' = [target EXCEPT ![t] = NoThread]
  /\ UNCHANGED <<vars, gate, registered, interrupted, stopRequested, timer,
                 outcome, shutdownVars>>

\* start_native_thread prunes the records of the native tasks that ended.
Retired == {u \in NativeTasks : jstate[u] = "terminated"}

StartNative(u) ==
  /\ u \in NativeTasks /\ pc[u] = "new" /\ MayStart
  /\ registered' = registered \ Retired
  /\ started' = [started EXCEPT ![u] = TRUE]
  /\ jstate' = [jstate EXCEPT ![u] = "runnable"]
  /\ Move(u, "claimed")
  /\ UNCHANGED <<vars, gate, interrupted, stopRequested, waitVars,
                 shutdownVars>>

LaunchNative(u) ==
  /\ u \in NativeTasks /\ pc[u] = "claimed"
  /\ Move(u, "born")
  /\ UNCHANGED <<vars, gate, flagVars, waitVars, shutdownVars>>

-----------------------------------------------------------------------------
(***************************************************************************)
(* sleep_current.  A host thread checks and sleeps under its own mutex,    *)
(* which also protects the flags; a fiber parks once, without a check.     *)
(***************************************************************************)
ConsumeInterrupt(t) ==
  /\ Guest(t) /\ interrupted[t]
  /\ interrupted' = [interrupted EXCEPT ![t] = FALSE]
  /\ UNCHANGED <<vars, gate, registered, jstate, started, stopRequested, pc,
                 waitVars, shutdownVars>>

Sleep(t) ==
  /\ Calls(t, "sleep") /\ ~interrupted[t]
  /\ gate' = NoThread
  /\ jstate' = [jstate EXCEPT ![t] = "sleeping"]
  /\ timer' = [timer EXCEPT ![t] = "pending"]
  /\ Move(t, "sleepCheck")
  /\ UNCHANGED <<vars, registered, started, interrupted, stopRequested, target,
                 outcome, shutdownVars>>

Awakened(t) == interrupted[t] \/ stopRequested[t]

SleepBlocks(t) ==
  /\ pc[t] = "sleepCheck" /\ OnCpu(t)
  /\ Move(t, "sleeping")
  /\ \/ t \in Fibers /\ ParkFiber(t, "sleeping", timer[t])
     \/ t \notin Fibers /\ ~Awakened(t) /\ timer[t] # "expired" /\ UNCHANGED vars
  /\ UNCHANGED <<gate, flagVars, waitVars, shutdownVars>>

WakesForAll(t) == TRUE \* wrong: any wake-up ends the sleep
SleepIsOver(t) == Awakened(t) \/ timer[t] = "expired"

SleepEnds(t) ==
  /\ OnCpu(t)
  /\ \/ t \in Fibers /\ pc[t] = "sleeping"
     \/ t \notin Fibers /\ pc[t] = "sleepCheck" /\ SleepIsOver(t)
  /\ outcome' = [outcome EXCEPT ![t] =
                   IF interrupted[t] THEN "interrupted" ELSE "completed"]
  /\ interrupted' = [interrupted EXCEPT ![t] = FALSE]
  /\ Move(t, "resuming")
  /\ UNCHANGED <<vars, gate, registered, jstate, started, stopRequested, target,
                 timer, shutdownVars>>

-----------------------------------------------------------------------------
(***************************************************************************)
(* join_current.                                                           *)
(***************************************************************************)
Join(t, u, timed) ==
  /\ Calls(t, "join") /\ u # t /\ Found(u) /\ ~interrupted[t]
  /\ started[u] /\ jstate[u] # "terminated"
  /\ gate' = NoThread
  /\ jstate' = [jstate EXCEPT ![t] = "joining"]
  /\ target' = [target EXCEPT ![t] = u]
  /\ timed => "join_timed" \in Program
  /\ timer' = [timer EXCEPT ![t] = IF timed THEN "pending" ELSE "none"]
  /\ Move(t, "joinCheck")
  /\ UNCHANGED <<vars, registered, started, interrupted, stopRequested,
                 outcome, shutdownVars>>

JoinIsOver(t) ==
  jstate[target[t]] = "terminated" \/ Awakened(t) \/ timer[t] = "expired"

\* The target's mutex is taken; a fiber lets it go before it parks.
JoinBlocks(t) ==
  /\ pc[t] = "joinCheck" /\ OnCpu(t) /\ ~Locked(target[t])
  /\ ~JoinIsOver(t)
  /\ Move(t, IF t \in Fibers THEN "joinParks" ELSE "dozing")
  /\ UNCHANGED <<vars, gate, flagVars, waitVars, shutdownVars>>

Doze(t) ==
  /\ pc[t] = "dozing"
  /\ Move(t, "joining")
  /\ UNCHANGED <<vars, gate, flagVars, waitVars, shutdownVars>>

JoinParks(t) ==
  /\ pc[t] = "joinParks" /\ OnCpu(t)
  /\ ParkFiber(t, "joining", timer[t])
  /\ Move(t, "joining")
  /\ UNCHANGED <<gate, flagVars, waitVars, shutdownVars>>

JoinResumes(t) ==
  /\ t \in Fibers /\ pc[t] = "joining" /\ OnCpu(t)
  /\ Move(t, "joinCheck")
  /\ UNCHANGED <<vars, gate, flagVars, waitVars, shutdownVars>>

AlwaysCompleted(t) == "completed" \* wrong: as the untimed host join does
\* A host thread reports an interrupt first, a fiber the target's end; to a
\* fiber a stop is a timeout.
JoinOutcome(t) ==
  LET over == jstate[target[t]] = "terminated"
  IN  CASE t \in Fibers /\ over -> "completed"
        [] ~(t \in Fibers /\ over) /\ interrupted[t] -> "interrupted"
        [] t \notin Fibers /\ ~interrupted[t] /\ (over \/ stopRequested[t])
             -> "completed"
        [] OTHER -> "timed_out"

JoinEnds(t) ==
  /\ pc[t] = "joinCheck" /\ OnCpu(t) /\ ~Locked(target[t])
  /\ JoinIsOver(t)
  /\ outcome' = [outcome EXCEPT ![t] = JoinOutcome(t)]
  /\ interrupted' = [interrupted EXCEPT ![t] =
                       @ /\ JoinOutcome(t) # "interrupted"]
  /\ Move(t, "resuming")
  /\ UNCHANGED <<vars, gate, registered, jstate, started, stopRequested, target,
                 timer, shutdownVars>>

\* The timeout of a sleep or a join: wait_for returns, or the carrier
\* re-queues the fiber if it is parked.
TimerExpires(t) ==
  /\ timer[t] = "pending"
  /\ timer' = [timer EXCEPT ![t] = "expired"]
  /\ pc' = IF t \in Fibers THEN pc
           ELSE [pc EXCEPT ![t] = CASE @ = "sleeping" -> "sleepCheck"
                                    [] @ = "joining" -> "joinCheck"
                                    [] OTHER -> @]
  /\ \/ t \in Fibers /\ DeadlinePasses(t)
     \/ ~(t \in Fibers /\ fiberState[t] = "parked"
            /\ fiberDeadline[t] = "pending") /\ UNCHANGED vars
  /\ UNCHANGED <<gate, flagVars, target, outcome, shutdownVars>>

-----------------------------------------------------------------------------
(***************************************************************************)
(* interrupt: the flag under the thread's mutex, then every condition of   *)
(* the scheduler, since a joiner sleeps on its target's, then the fiber.   *)
(***************************************************************************)
Interrupt(t, u) ==
  /\ Calls(t, "interrupt") /\ Room /\ Found(u) /\ started[u] /\ ~Locked(u)
  /\ interrupted' = [interrupted EXCEPT ![u] = TRUE]
  /\ target' = [target EXCEPT ![t] = u]
  /\ Move(t, "interrupting")
  /\ UNCHANGED <<vars, gate, registered, jstate, started, stopRequested, timer,
                 outcome, shutdownVars>>

AllConditions(t) == Notified(registered)

WakeInterrupted(t) ==
  /\ pc[t] = "interrupting" /\ OnCpu(t)
  /\ pc' = [AllConditions(t) EXCEPT ![t] = "guest"]
  /\ target' = [target EXCEPT ![t] = NoThread]
  /\ \/ target[t] \in Live /\ Wake(target[t])
     \/ target[t] \notin Live /\ UNCHANGED vars
  /\ UNCHANGED <<gate, flagVars, timer, outcome, shutdownVars>>

-----------------------------------------------------------------------------
(***************************************************************************)
(* finish_thread: the state, the joiners on the condition, then the fibers *)
(* parked as joining, from a list.                                         *)
(***************************************************************************)
Terminate(t) ==
  /\ pc[t] = "ending" /\ OnCpu(t) /\ ~Locked(t)
  /\ jstate' = [jstate EXCEPT ![t] = "terminated"]
  /\ Move(t, "ended")
  /\ UNCHANGED <<vars, gate, registered, started, interrupted, stopRequested,
                 waitVars, shutdownVars>>

NoJoinersTold(t) == pc \* wrong: the end is not announced
JoinersTold(t) == Notified({t})

TellJoiners(t) ==
  /\ pc[t] = "ended" /\ OnCpu(t)
  /\ pc' = [JoinersTold(t) EXCEPT ![t] = "listing"]
  /\ UNCHANGED <<vars, gate, flagVars, waitVars, shutdownVars>>

ListJoiners(t) ==
  /\ pc[t] = "listing" /\ OnCpu(t)
  /\ ListParked(t, "joining")
  /\ Move(t, "enqueuing")
  /\ UNCHANGED <<gate, flagVars, waitVars, shutdownVars>>

WakeJoiner(t) ==
  /\ pc[t] = "enqueuing" /\ OnCpu(t)
  /\ \E f \in Fibers : WakeListed(t, f)
  /\ UNCHANGED threadVars

Exit(t) ==
  /\ pc[t] = "enqueuing" /\ OnCpu(t) /\ wakeList[t] = {}
  /\ Move(t, "done")
  /\ \/ t \in Fibers /\ FinishFiber(t)
     \/ t \notin Fibers /\ UNCHANGED vars
  /\ UNCHANGED <<gate, flagVars, waitVars, shutdownVars>>

-----------------------------------------------------------------------------
(***************************************************************************)
(* shutdown, on a host thread of its own: the flag and a list of the       *)
(* threads; each of them is told; the fibers are woken; the workers and at *)
(* last the carrier are joined.  A worker that has not been started yet is *)
(* not joinable.                                                           *)
(***************************************************************************)
StartedOnes == {u \in registered \ {Main} : pc[u] # "claimed"} \* wrong
ToStop == registered \ {Main}

ShutdownBegins ==
  /\ sd = "idle" /\ "shutdown" \in Program
  /\ BeginShutdown
  /\ sd' = "telling"
  /\ sdThreads' = ToStop
  /\ UNCHANGED <<gate, flagVars, pc, waitVars>>

TellStop(u) ==
  /\ sd = "telling" /\ u \in sdThreads /\ ~Locked(u)
  /\ sdThreads' = sdThreads \ {u}
  /\ stopRequested' = [stopRequested EXCEPT ![u] = TRUE]
  /\ interrupted' = [interrupted EXCEPT ![u] = TRUE]
  /\ pc' = Notified({u})
  /\ UNCHANGED <<vars, gate, registered, jstate, started, waitVars, sd>>

ListForShutdown ==
  /\ sd = "telling" /\ sdThreads = {}
  /\ ListAll(Host)
  /\ sd' = "waking"
  /\ UNCHANGED <<gate, flagVars, pc, waitVars, sdThreads>>

FibersWoken == \E f \in Fibers : WakeListed(Host, f)

WakeForShutdown ==
  /\ sd = "waking" /\ wakeList[Host] # {}
  /\ FibersWoken
  /\ UNCHANGED threadVars

ShutdownJoins ==
  /\ sd = "waking" /\ wakeList[Host] = {}
  /\ sd' = "joining"
  /\ sdThreads' = registered \ ({Main} \cup Fibers)
  /\ UNCHANGED <<vars, gate, flagVars, pc, waitVars>>

Joinable(u) == pc[u] \notin {"new", "claimed"}

JoinWorker(u) ==
  /\ sd = "joining" /\ u \in sdThreads
  /\ Joinable(u) => pc[u] = "done"
  /\ sdThreads' = sdThreads \ {u}
  /\ UNCHANGED <<vars, gate, flagVars, pc, waitVars, sd>>

RouseForShutdown ==
  /\ sd = "joining" /\ sdThreads = {}
  /\ RouseCarrier
  /\ UNCHANGED threadVars

ShutdownJoinsCarrier ==
  /\ sd = "joining" /\ sdThreads = {}
  /\ JoinCarrier
  /\ UNCHANGED threadVars

ShutdownReturns ==
  /\ sd = "joining" /\ sd' = "done"
  /\ ClearFibers
  /\ UNCHANGED <<gate, flagVars, pc, waitVars, sdThreads>>

Carrier ==
  /\ Resume \/ FindNothing
  /\ UNCHANGED threadVars

-----------------------------------------------------------------------------
GuestStep(t) ==
  \/ Return(t) \/ ConsumeInterrupt(t) \/ Sleep(t)
  \/ \E u \in Threads : Start(t, u) \/ Interrupt(t, u)
  \/ \E u \in Threads, timed \in BOOLEAN : Join(t, u, timed)

RuntimeStep(t) ==
  \/ Begin(t) \/ StartCarrier(t) \/ StartLaunch(t) \/ StartFails(t) \/ LaunchNative(t)
  \/ SleepBlocks(t) \/ SleepEnds(t)
  \/ JoinBlocks(t) \/ Doze(t) \/ JoinParks(t) \/ JoinResumes(t) \/ JoinEnds(t)
  \/ WakeInterrupted(t)
  \/ Terminate(t) \/ TellJoiners(t) \/ ListJoiners(t) \/ WakeJoiner(t)
  \/ Exit(t)

ShutdownStep ==
  \/ \E u \in Threads : TellStop(u) \/ JoinWorker(u)
  \/ ListForShutdown \/ WakeForShutdown \/ ShutdownJoins
  \/ RouseForShutdown \/ ShutdownJoinsCarrier \/ ShutdownReturns

JNext ==
  \/ \E t \in Threads : GuestStep(t) \/ RuntimeStep(t) \/ TakeGate(t)
                          \/ Yield(t) \/ TimerExpires(t) \/ StartNative(t)
  \/ Carrier \/ ShutdownBegins \/ ShutdownStep

JSpec == JInit /\ [][JNext]_allVars

(***************************************************************************)
(* Fairness.  Host threads and the carrier run, time passes, a shutdown    *)
(* that has begun goes on.  Guest code gives the gate up again and again   *)
(* and unwinds once it must; gate and mutexes come to all who want them. No*)
(* Java program is assumed to do anything else, in particular to return.   *)
(***************************************************************************)
JFairness ==
  /\ \A t \in Threads :
       /\ SF_allVars(RuntimeStep(t))
       /\ WF_allVars(TimerExpires(t))
       /\ SF_allVars(TakeGate(t))
       /\ SF_allVars(Yield(t))
       /\ SF_allVars(MustStop(t) /\ Return(t))
  /\ WF_allVars(Carrier)
  /\ SF_allVars(ShutdownStep)

-----------------------------------------------------------------------------
JTypeOK ==
  /\ TypeOK
  /\ gate \in Threads \cup {NoThread}
  /\ registered \subseteq Threads
  /\ jstate \in [Threads -> JavaThreadStates]
  /\ started \in [Threads -> BOOLEAN]
  /\ interrupted \in [Threads -> BOOLEAN]
  /\ stopRequested \in [Threads -> BOOLEAN]
  /\ pc \in [Threads -> PCs]
  /\ target \in [Threads -> Threads \cup {NoThread}]
  /\ timer \in [Threads -> {"none", "pending", "expired"}]
  /\ outcome \in [Threads -> {"none", "completed", "timed_out", "interrupted"}]
  /\ sd \in {"idle", "telling", "waking", "joining", "done"}
  /\ sdThreads \subseteq Threads

(***************************************************************************)
(* A sleep that completes has lasted its time, unless the thread is being  *)
(* stopped: nothing but the clock, an interrupt or a stop ends it, however *)
(* many other wake-ups arrive.                                             *)
(***************************************************************************)
SleepsLast ==
  \A t \in Threads :
    pc[t] = "resuming" /\ jstate[t] = "sleeping" /\ outcome[t] = "completed" =>
      timer[t] = "expired" \/ MustStop(t)

(***************************************************************************)
(* A join that reports completion is right: its target has terminated, or  *)
(* the joining thread itself is being stopped.                             *)
(***************************************************************************)
JoinsAreTrue ==
  \A t \in Threads :
    pc[t] = "resuming" /\ jstate[t] = "joining" /\ outcome[t] = "completed" =>
      jstate[target[t]] = "terminated" \/ MustStop(t)

(***************************************************************************)
(* Once shutdown has told the threads to stop, there is none that runs on  *)
(* and was not told: no start and no pruning lets one slip away.           *)
(***************************************************************************)
EveryoneTold ==
  sd \notin {"idle", "telling"} =>
    \A t \in Threads \ {Main} :
      started[t] /\ jstate[t] # "terminated" => stopRequested[t]

(***************************************************************************)
(* When shutdown returns, the workers have stopped: the caller "still has  *)
(* to execute destroyApp(true) after all MIDlet-owned workers have         *)
(* stopped".                                                               *)
(***************************************************************************)
WorkersStopped ==
  sd = "done" => \A t \in Threads \ {Main} : pc[t] \in {"new", "done"}

Blocked(t) == pc[t] \in {"sleeping", "dozing", "joinParks", "joining"}

\* A thread that joins a thread that has ended gets away.
JoinersReturn ==
  \A t \in Threads :
    (pc[t] = "joining" /\ jstate[target[t]] = "terminated") ~> ~Blocked(t)

\* An interrupted thread leaves its sleep or join at once, not when the sleep
\* or the target happens to end.
InterruptUnblocks ==
  \A t \in Threads : (Blocked(t) /\ interrupted[t]) ~> ~Blocked(t)

\* A shutdown that begins comes to its end.
ShutdownEnds == (sd # "idle") ~> (sd = "done")
=============================================================================
