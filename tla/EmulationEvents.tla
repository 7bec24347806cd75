--------------------------- MODULE EmulationEvents ---------------------------
(***************************************************************************)
(* The emulation event worker of a Machine: one thread that runs the       *)
(* callbacks of Display.callSerially, the due tasks of the timers and the  *)
(* polls and events of the media players, one of each a turn.  It is       *)
(* started by the first thread that needs it, sleeps when there is nothing *)
(* to do, and ends with the machine.                                       *)
(*                                                                         *)
(* It looks at its queues under their own mutexes, one after the other,    *)
(* and sleeps under a third.  A generation tells it of what was posted in  *)
(* between; only whether it has changed since the worker last looked at it *)
(* matters, and that is news.  All threads wait on one condition variable, *)
(* and every notification is to all.                                       *)
(*                                                                         *)
(* A critical section is one action.  TimerService posts inside its own,   *)
(* the others after theirs.                                                *)
(***************************************************************************)
EXTENDS TimerService, MediaEvents

CONSTANTS
  Threads,   \* the threads that make calls, those of the runtime included
  Makes,     \* the calls each of them makes
  Callbacks, \* the Runnables of callSerially
  MaxQueue,  \* kMaximumQueuedCallbacks
  MaxCalls,  \* a bound on the calls made
  MaxFaults  \* a bound on what goes wrong: a worker cannot be started, a
             \* callback or a task throws, a player is collected, its
             \* listeners cannot be told, an event cannot be queued

ASSUME MakesAssumption ==
  Makes \in [Threads -> SUBSET {"timer", "player", "callSerially", "coalesce", "pump"}]
ASSUME EventBoundsAssumption == {MaxQueue, MaxCalls, MaxFaults} \subseteq Nat

VARIABLES
  news,       \* emulation_event_generation_ # observed_generation
  starting,   \* emulation_event_worker_starting_
  started,    \* emulation_event_worker_started_
  workers,    \* how many workers were started
  worker,     \* where the worker is
  did,        \* its did_work
  delay,      \* what ends its wait: instants of the clock, and Deadline
  queue,      \* serial_callbacks_
  coalescing, \* serial_callback_coalescing_
  failure,    \* serial_callback_failure_
  pc,         \* where a thread is
  arg,        \* the timer, the player or the callback it brings, if any
  sd,         \* where Machine::shutdown is
  calls,
  faults

workerVars == <<worker, did, delay>>
startVars == <<starting, started, workers>>
serialVars == <<queue, coalescing, failure>>
threadVars == <<pc, arg>>
boundVars == <<calls, faults>>
vars == <<timerVars, mediaVars, news, startVars, workerVars, serialVars, threadVars, sd, boundVars>>

\* shutdown_started_
Stopping == sd # "none"

\* A machine that has just been made, or one whose application made its timers
\* and players: the worker was started for them and has not yet run.
Init ==
  \E made \in BOOLEAN :
    /\ TimersInit(IF made THEN "live" ELSE "unknown") /\ MediaInit(IF made THEN Players ELSE {})
    /\ news = made /\ starting = FALSE /\ started = made /\ workers = (IF made THEN 1 ELSE 0)
    /\ worker = (IF made THEN "top" ELSE "none") /\ did = FALSE /\ delay = {}
    /\ queue = <<>> /\ coalescing = FALSE /\ failure = FALSE
    /\ pc = [h \in Threads |-> "idle"] /\ arg = [h \in Threads |-> NoTimer]
    /\ sd = "none" /\ calls = 0 /\ faults = 0

\* notify_all of the condition variable the worker and the threads share, when
\* the threads ps go on as they do otherwise.
Roused(ps) == [h \in Threads |-> IF ps[h] = "asleep" THEN "ensure" ELSE ps[h]]
NotifyAll(ps) ==
  /\ worker' = IF worker = "asleep" THEN "awake" ELSE worker
  /\ pc' = Roused(ps)
  /\ UNCHANGED <<did, delay>>

\* wake_emulation_event_worker
Post(ps) == news' = TRUE /\ NotifyAll(ps)
-----------------------------------------------------------------------------
(* ensure_emulation_event_worker, and what follows it.                     *)

At(h, here) == pc[h] = here
Goto(h, there) == pc' = [pc EXCEPT ![h] = there]

\* wrong: a worker that is being started is passed over
Unwary(h) == ~Stopping /\ ~started
MayStart(h) == ~Stopping /\ ~started /\ ~starting

\* There is a worker.  A new timer needs no more; a callback is posted and
\* pumped, all else posted.
Onward(h) ==
  IF arg[h] \in Timers THEN "idle" ELSE IF arg[h] \in Callbacks THEN "post" ELSE "wake"
Goes(h) == Goto(h, Onward(h)) /\ arg' = [arg EXCEPT ![h] = NoTimer]

Ensure(h) ==
  /\ At(h, "ensure")
  /\ \/ MayStart(h) /\ starting' = TRUE /\ Goto(h, "create") /\ UNCHANGED arg
     \/ ~MayStart(h) /\ ~Stopping /\ starting /\ Goto(h, "asleep") /\ UNCHANGED <<starting, arg>>
     \/ ~Stopping /\ started /\ ~starting /\ Goes(h) /\ UNCHANGED starting
     \/ Stopping /\ Goto(h, "refused") /\ UNCHANGED <<starting, arg>>
  /\ UNCHANGED <<timerVars, mediaVars, news, started, workers, workerVars, serialVars, sd, boundVars>>

Fault == faults < MaxFaults /\ faults' = faults + 1

\* The scheduler starts no thread once it is shut down.
Create(h) ==
  /\ At(h, "create")
  /\ \/ /\ sd \notin {"joining", "done"}
        /\ workers' = workers + 1 /\ worker' = "top" /\ Goto(h, "created") /\ UNCHANGED faults
     \/ /\ IF sd \in {"joining", "done"} THEN UNCHANGED faults ELSE Fault
        /\ Goto(h, "failed") /\ UNCHANGED <<workers, worker>>
  /\ UNCHANGED <<timerVars, mediaVars, news, starting, started, did, delay, serialVars, arg, sd, calls>>

Finish(h) ==
  /\ At(h, "created") \/ At(h, "failed")
  /\ starting' = FALSE /\ started' = (started \/ At(h, "created"))
  /\ NotifyAll([pc EXCEPT ![h] = IF At(h, "created") THEN Onward(h) ELSE "refused"])
  /\ arg' = IF At(h, "created") THEN [arg EXCEPT ![h] = NoTimer] ELSE arg
  /\ UNCHANGED <<timerVars, mediaVars, news, workers, serialVars, sd, boundVars>>

\* There is none: the timer or the player is taken back; a callback stays.
Refused(h) ==
  /\ At(h, "refused") /\ Goto(h, "idle") /\ arg' = [arg EXCEPT ![h] = NoTimer]
  /\ IF arg[h] \in Timers THEN RemoveTimer(arg[h]) ELSE UNCHANGED timerVars
  /\ IF arg[h] \in Players THEN Unregister(arg[h]) ELSE UNCHANGED mediaVars
  /\ UNCHANGED <<news, startVars, workerVars, serialVars, sd, boundVars>>

Wakes(h) ==
  /\ At(h, "wake") \/ At(h, "post")
  /\ Post([pc EXCEPT ![h] = IF At(h, "post") THEN "pump" ELSE "idle"])
  /\ UNCHANGED <<timerVars, mediaVars, startVars, serialVars, arg, sd, boundVars>>
-----------------------------------------------------------------------------
(* The calls.                                                              *)

Called(h, c) == c \in Makes[h] /\ At(h, "idle") /\ calls < MaxCalls /\ calls' = calls + 1
Calls(h, c) == Called(h, c) /\ UNCHANGED faults

\* The timer or the player was returned to Java.
Known(S) == {x \in S : \A h \in Threads : arg[h] # x}

TimerCall(h) ==
  /\ Calls(h, "timer")
  /\ \/ \E tm \in Timers : AddTimer(tm) /\ arg' = [arg EXCEPT ![h] = tm]
     \/ /\ UNCHANGED arg
        /\ \/ \E tm \in Known(Timers), t \in Tasks, o \in Offsets, k \in Periods : Enter(tm, t, o, k)
           \/ \E tm \in Known(Timers) : CancelTimer(tm)
           \/ \E t \in Tasks : CancelTask(t)
  /\ IF arg' # arg THEN Goto(h, "ensure") /\ UNCHANGED <<news, workerVars>> ELSE Post(pc)
  /\ UNCHANGED <<mediaVars, startVars, serialVars, sd>>

PlayerCall(h) ==
  /\ Calls(h, "player")
  /\ \/ \E p \in Players : Register(p) /\ arg' = [arg EXCEPT ![h] = p] /\ Goto(h, "ensure")
     \/ /\ UNCHANGED arg
        /\ \/ \E p \in Known(Players) : (Play(p, TRUE) \/ Stop(p) \/ Look(p)) /\ Goto(h, "request")
           \/ \E p \in Known(Players) : Close(p) /\ Goto(h, "wake")
           \/ (Suspend \/ Resume) /\ UNCHANGED pc
  /\ UNCHANGED <<timerVars, news, startVars, workerVars, serialVars, sd>>

\* A player is started or stopped, its listeners cannot be told, and the call
\* ends there.
PlayerCallFails(h) ==
  /\ Called(h, "player") /\ Fault
  /\ \E p \in Known(Players) : Play(p, FALSE) \/ Stop(p)
  /\ UNCHANGED <<timerVars, news, startVars, workerVars, serialVars, threadVars, sd>>

Requests(h) ==
  /\ At(h, "request") /\ RequestPoll /\ Goto(h, IF mediaDown THEN "idle" ELSE "wake")
  /\ UNCHANGED <<timerVars, news, startVars, workerVars, serialVars, arg, sd, boundVars>>

InQueue(r) == \E i \in 1..Len(queue) : queue[i] = r

\* Display.callSerially: enqueue_serial_callback, then pump_serial_callbacks.
CallSerially(h, r) ==
  /\ Calls(h, "callSerially")
  /\ \/ coalescing /\ InQueue(r) /\ Goto(h, "pump") /\ UNCHANGED <<queue, arg>>
     \/ /\ ~(coalescing /\ InQueue(r)) /\ Len(queue) < MaxQueue
        /\ queue' = Append(queue, r) /\ Goto(h, "ensure") /\ arg' = [arg EXCEPT ![h] = r]
  /\ UNCHANGED <<timerVars, mediaVars, news, startVars, workerVars, coalescing, failure, sd>>

\* The first of each callback is kept.
Compacted(q) ==
  LET first(i) == \A j \in 1..(i - 1) : q[j] # q[i]
      n == Len(q)
      f[i \in 0..n] == IF i = 0 THEN <<>> ELSE IF first(i) THEN Append(f[i - 1], q[i]) ELSE f[i - 1]
  IN f[n]

\* set_serial_callback_coalescing: the application goes to the background, or
\* comes back.
Coalesce(h) ==
  /\ Calls(h, "coalesce") /\ coalescing' = ~coalescing
  /\ queue' = IF coalescing THEN queue ELSE Compacted(queue)
  /\ IF coalescing THEN Goto(h, "wake") ELSE UNCHANGED pc
  /\ UNCHANGED <<timerVars, mediaVars, news, startVars, workerVars, failure, arg, sd>>

\* pump_serial_callbacks: the end of callSerially, and what the runtime does
\* again and again.  It takes the failure of a callback, or sees to it that
\* those in the queue are run.
Pump(h) ==
  /\ At(h, "pump") \/ ("pump" \in Makes[h] /\ At(h, "idle") /\ (failure \/ (~coalescing /\ queue # <<>>)))
  /\ failure' = FALSE
  /\ \/ failure /\ Post([pc EXCEPT ![h] = "idle"])
     \/ /\ ~failure /\ UNCHANGED <<news, workerVars>>
        /\ Goto(h, IF coalescing \/ queue = <<>> THEN "idle" ELSE "ensure")
  /\ UNCHANGED <<timerVars, mediaVars, startVars, queue, coalescing, arg, sd, boundVars>>
-----------------------------------------------------------------------------
(* The worker.                                                             *)

\* wrong: the worker does not look whether it should end
Endless == FALSE
ToldToEnd == Stopping

In(here) == worker = here
Proceed(there, d) == worker' = there /\ did' = d /\ UNCHANGED delay
others == <<startVars, threadVars, sd, boundVars>>

\* The head of the loop, and dispatch_one_serial_callback.
Top ==
  /\ In("top")
  /\ \/ ToldToEnd /\ Proceed("ended", FALSE) /\ UNCHANGED queue
     \/ /\ ~ToldToEnd /\ (coalescing \/ queue = <<>> \/ failure)
        /\ Proceed("timers", FALSE) /\ UNCHANGED queue
     \/ /\ ~ToldToEnd /\ ~coalescing /\ queue # <<>> /\ ~failure
        /\ queue' = Tail(queue) /\ Proceed("callback", TRUE)
  /\ UNCHANGED <<timerVars, mediaVars, news, coalescing, failure, others>>

CallbackEnds ==
  /\ In("callback") /\ Proceed("timers", TRUE)
  /\ (UNCHANGED <<failure, faults>>) \/ (failure' = TRUE /\ Fault)
  /\ UNCHANGED <<timerVars, mediaVars, news, queue, coalescing, startVars, threadVars, sd, calls>>

DueTasks ==
  /\ In("timers")
  /\ \/ Take /\ Proceed("task", TRUE)
     \/ (timersDown \/ Due = {}) /\ UNCHANGED timerVars /\ Proceed("media", did)
  /\ UNCHANGED <<mediaVars, news, serialVars, others>>

TaskEnds ==
  /\ In("task") /\ Proceed("media", TRUE)
  /\ (RunReturns /\ UNCHANGED faults) \/ (RunFails /\ Fault)
  /\ UNCHANGED <<mediaVars, news, serialVars, startVars, threadVars, sd, calls>>

\* When something was done the worker begins again.
Around(d) == IF d THEN "top" ELSE "timerDelay"

PumpMedia ==
  /\ In("media")
  /\ \/ BeginPoll /\ Proceed("copy", did)
     \/ /\ ~ShouldPoll /\ UNCHANGED mediaVars
        /\ Proceed(IF pending # <<>> /\ ~mediaDown THEN "deliver" ELSE Around(did), did)
  /\ UNCHANGED <<timerVars, news, serialVars, others>>

PollOne(p) ==
  \/ /\ (PollPlayer(p, TRUE) /\ UNCHANGED faults) \/ (PollPlayer(p, FALSE) /\ Fault)
     /\ IF pending' = pending THEN UNCHANGED <<news, pc>> ELSE news' = TRUE /\ pc' = Roused(pc)
  \/ PollCollected(p) /\ news' = TRUE /\ pc' = Roused(pc) /\ Fault

Poll ==
  /\ \/ In("copy") /\ CopyPlayers /\ Proceed("poll", did) /\ UNCHANGED <<news, pc, faults>>
     \/ In("poll") /\ (\E p \in todo : PollOne(p)) /\ UNCHANGED workerVars
     \/ /\ In("poll") /\ EndPoll /\ UNCHANGED <<news, pc, faults>>
        /\ Proceed(IF pending # <<>> THEN "deliver" ELSE "top", TRUE)
  /\ UNCHANGED <<timerVars, startVars, serialVars, arg, sd, calls>>

DeliverEvent ==
  /\ \/ In("deliver") /\ Deliver /\ Proceed("listener", did) /\ UNCHANGED faults
     \/ In("deliver") /\ Drop /\ Fault /\ Proceed("top", TRUE)
     \/ /\ In("deliver") /\ (mediaDown \/ pending = <<>>) /\ UNCHANGED <<mediaVars, faults>>
        /\ Proceed(Around(did), did)
     \/ In("listener") /\ Delivered /\ Proceed("top", TRUE) /\ UNCHANGED faults
  /\ UNCHANGED <<timerVars, news, serialVars, startVars, threadVars, sd, calls>>

\* How long to sleep.  The deadline of the timers and that of the media are
\* both kept: the wait ends with the earlier one.
Delays ==
  /\ \/ In("timerDelay") /\ worker' = "mediaDelay" /\ delay' = NextDue
     \/ In("mediaDelay") /\ worker' = "check" /\ delay' = delay \cup NextMedia
  /\ UNCHANGED <<timerVars, mediaVars, did, news, serialVars, others>>

\* wrong: the generation is not looked at before the worker sleeps
Blind == FALSE
Newer == news

Check ==
  /\ In("check")
  /\ \/ Newer /\ worker' = "top" /\ news' = FALSE /\ delay' = {}
     \/ ~Newer /\ worker' = "asleep" /\ UNCHANGED <<news, delay>>
  /\ UNCHANGED <<timerVars, mediaVars, did, serialVars, others>>

Reached(d) == IF d = Deadline THEN pollDue ELSE now >= d

\* The wait ends by its time, or by a notification when there is a reason;
\* what was posted until then will be seen.
WakeUp ==
  /\ \/ /\ \/ (In("asleep") \/ In("awake")) /\ \E d \in delay : Reached(d)
           \/ In("awake") /\ (Stopping \/ news)
        /\ worker' = "top" /\ news' = FALSE /\ delay' = {}
     \/ In("awake") /\ ~Stopping /\ ~news /\ worker' = "asleep" /\ UNCHANGED <<news, delay>>
  /\ UNCHANGED <<timerVars, mediaVars, did, serialVars, others>>

Worker == Top \/ CallbackEnds \/ DueTasks \/ TaskEnds \/ PumpMedia \/ Poll \/ DeliverEvent
          \/ Delays \/ Check \/ WakeUp
-----------------------------------------------------------------------------
(* Machine::shutdown, the clock and the media.                             *)

\* The flag that tells the worker to end is set with the end of the media.  Each
\* part wakes the worker when it is down.  Then the scheduler is shut down, which joins the worker.

Shutdown ==
  /\ \/ sd = "none" /\ MediaShutdown /\ sd' = "timers" /\ Post(pc) /\ UNCHANGED timerVars
     \/ sd = "timers" /\ TimersShutdown /\ sd' = "joining" /\ Post(pc) /\ UNCHANGED mediaVars
     \/ /\ sd = "joining" /\ worker \in {"none", "ended"} /\ sd' = "done"
        /\ UNCHANGED <<timerVars, mediaVars, news, workerVars, pc>>
  /\ UNCHANGED <<startVars, serialVars, arg, boundVars>>

Clock ==
  /\ Tick
  /\ UNCHANGED <<mediaVars, news, startVars, workerVars, serialVars, threadVars, sd, boundVars>>

PollTime ==
  /\ PollDeadline
  /\ UNCHANGED <<timerVars, news, startVars, workerVars, serialVars, threadVars, sd, boundVars>>

MediaOver ==
  /\ \E p \in Players : MediaEnd(p)
  /\ UNCHANGED <<timerVars, news, startVars, workerVars, serialVars, threadVars, sd, boundVars>>

Continues(h) == (At(h, "pump") /\ Pump(h)) \/ Ensure(h) \/ Create(h) \/ Finish(h) \/ Refused(h) \/ Wakes(h) \/ Requests(h)

Next ==
  \/ \E h \in Threads :
       \/ Continues(h) \/ TimerCall(h) \/ PlayerCall(h) \/ PlayerCallFails(h) \/ Coalesce(h) \/ Pump(h)
       \/ \E r \in Callbacks : CallSerially(h, r)
  \/ Worker \/ Shutdown \/ Clock \/ PollTime \/ MediaOver

Spec == Init /\ [][Next]_vars

\* Threads go on, Java code returns, time passes, a shutdown that has begun goes
\* on, and a runtime in the foreground pumps.
FairSpec ==
  /\ Spec /\ WF_vars(Worker) /\ WF_vars(Clock) /\ WF_vars(PollTime)
  /\ WF_vars(Stopping /\ Shutdown)
  /\ WF_vars(\E h \in Threads : Pump(h))
  /\ WF_vars(\E h \in Threads : Continues(h))
-----------------------------------------------------------------------------
(* Properties.                                                             *)

\* Two threads that need the worker at the same time start one, and a failure
\* to start it does not let a second one in (Machine.cpp:5189-5198).
OneWorker == workers <= 1

\* A callback that is queued is run, unless the application is sent to the
\* background or an earlier one failed; and then when it comes back, or the
\* failure was taken.  A task that is due is taken, cancelled or dropped with its
\* timer.  The worker may have been about to sleep, whatever it was about to
\* wait for (Machine.cpp:5346-5358).
EventsAreServed ==
  /\ \A r \in Callbacks : InQueue(r) ~> (~InQueue(r) \/ coalescing \/ Stopping)
  /\ \A t \in Tasks : (\E e \in Due : e.task = t) ~> ~(\E e \in Due : e.task = t)

\* The listeners of a player hear of the end of its media, however it falls
\* among polls and requests, unless it was stopped, closed, suspended or looked
\* at since its start, or could not tell them of the start or of the end.
EndsAreHeard ==
  \A p \in Players : p \in over ~> (telling = p \/ p \in missed \/ mediaDown)

\* A shutdown ends, and every thread that waits for the worker to be started
\* is let go.
ShutdownEnds == Stopping ~> (sd = "done" /\ \A h \in Threads : pc[h] # "asleep")
=============================================================================
