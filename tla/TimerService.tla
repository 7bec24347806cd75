---------------------------- MODULE TimerService ----------------------------
(***************************************************************************)
(* java.util.Timer and TimerTask (vm/TimerService.cpp): the timers, their  *)
(* entries, and the flags of the tasks.  The service has no thread: the    *)
(* event worker takes a due entry under the mutex, calls run() without it, *)
(* and puts a fixed-delay entry back under it.  EmulationEvents composes   *)
(* these operations with that worker and with the threads that call them.  *)
(*                                                                         *)
(* An entry's period is a member of Periods: "once", "rate" or "delay",    *)
(* and every period that is not zero is Period.                            *)
(***************************************************************************)
EXTENDS Integers, FiniteSets

CONSTANTS
  Timers,
  Tasks,
  NoTimer,   \* no timer
  Periods,   \* the ways tasks are scheduled: once, rate, delay
  Period,    \* the period of those that repeat
  Offsets,   \* the delays after which they are to run first
  MaxTime    \* the last instant there is (one before the largest i64, which is never due)

ASSUME TimersAssumption ==
  /\ NoTimer \notin Timers
  /\ Periods \subseteq {"once", "rate", "delay"}
  /\ Period \in Nat \ {0} /\ MaxTime \in Nat /\ Offsets \subseteq 0..MaxTime

VARIABLES
  now,        \* current_time_millis
  timers,     \* unknown, live (in timers_) or cancelled
  entries,    \* TimerState::entries
  tasks,      \* TaskState
  sequence,   \* next_sequence_
  timersDown, \* TimerService::shutting_down_
  inFlight,   \* the timer and the entry whose run() is called, if any
  assured     \* the tasks that cancel() said will not run (again)

timerVars == <<now, timers, entries, tasks, sequence, timersDown, inFlight, assured>>

Entries == [task : Tasks, due : 0..MaxTime, period : Periods, seq : Nat]
TaskStates == [scheduled : BOOLEAN, cancelled : BOOLEAN, completed : BOOLEAN,
               owner : Timers \cup {NoTimer}]
Idle == [timer |-> NoTimer]

TimersInit(status) ==
  /\ now = 0
  /\ timers = [tm \in Timers |-> status] /\ entries = [tm \in Timers |-> {}]
  /\ tasks = [t \in Tasks |-> [scheduled |-> FALSE, cancelled |-> FALSE,
                               completed |-> FALSE, owner |-> NoTimer]]
  /\ sequence = 1 /\ timersDown = FALSE /\ inFlight = Idle /\ assured = {}

\* Time is let pass while an entry waits for it.
Tick ==
  /\ now < MaxTime /\ (\E tm \in Timers : \E e \in entries[tm] : e.due > now) /\ now' = now + 1
  /\ UNCHANGED <<timers, entries, tasks, sequence, timersDown, inFlight, assured>>
-----------------------------------------------------------------------------
(* The calls of Java threads.                                              *)

AddTimer(tm) ==
  /\ timers[tm] = "unknown" /\ ~timersDown
  /\ timers' = [timers EXCEPT ![tm] = "live"]
  /\ UNCHANGED <<now, entries, tasks, sequence, timersDown, inFlight, assured>>

\* The worker could not be started: the timer is taken out again.
RemoveTimer(tm) ==
  /\ timers' = [timers EXCEPT ![tm] = "unknown"]
  /\ entries' = [entries EXCEPT ![tm] = {}]
  /\ UNCHANGED <<now, tasks, sequence, timersDown, inFlight, assured>>

Schedulable(tm, t) ==
  /\ timers[tm] = "live" /\ ~timersDown
  /\ ~tasks[t].scheduled /\ ~tasks[t].cancelled /\ ~tasks[t].completed

Enter(tm, t, offset, period) ==
  /\ Schedulable(tm, t) /\ now + offset <= MaxTime
  /\ tasks' = [tasks EXCEPT ![t].scheduled = TRUE, ![t].owner = tm]
  /\ entries' = [entries EXCEPT ![tm] = @ \cup
       {[task |-> t, due |-> now + offset, period |-> period, seq |-> sequence]}]
  /\ sequence' = sequence + 1
  /\ UNCHANGED <<now, timers, timersDown, inFlight, assured>>

CancelTimer(tm) ==
  /\ timers[tm] # "unknown"
  /\ timers' = [timers EXCEPT ![tm] = "cancelled"]
  /\ entries' = [entries EXCEPT ![tm] = {}]
  /\ UNCHANGED <<now, tasks, sequence, timersDown, inFlight, assured>>

\* What cancel() answers: a run that was to come is prevented.
Prevented(t) == tasks[t].scheduled /\ ~tasks[t].cancelled /\ ~tasks[t].completed

CancelTask(t) ==
  /\ assured' = IF Prevented(t) THEN assured \cup {t} ELSE assured
  /\ tasks' = [tasks EXCEPT ![t].cancelled = TRUE]
  /\ entries' = [tm \in Timers |-> IF tm = tasks[t].owner
                                   THEN {e \in entries[tm] : e.task # t} ELSE entries[tm]]
  /\ UNCHANGED <<now, timers, sequence, timersDown, inFlight>>

TimersShutdown ==
  /\ timersDown' = TRUE
  /\ timers' = [tm \in Timers |-> IF timers[tm] = "unknown" THEN "unknown" ELSE "cancelled"]
  /\ entries' = [tm \in Timers |-> {}]
  /\ UNCHANGED <<now, tasks, sequence, inFlight, assured>>
-----------------------------------------------------------------------------
(* The calls of the event worker.                                          *)

Pending(tm) == {e \in entries[tm] : ~tasks[e.task].cancelled /\ ~tasks[e.task].completed}
Coming == UNION {Pending(tm) : tm \in {u \in Timers : timers[u] = "live"}}
Before(e, f) == e.due < f.due \/ (e.due = f.due /\ e.seq < f.seq)
Due == {e \in Coming : e.due <= now}

\* dispatch_one_due up to the call of run(): the first entry of a timer whose
\* first entry is due as early as any.  (Two timers that tie come in any order.)
Takes(tm, e) ==
  /\ timers[tm] = "live" /\ e \in Pending(tm)
  /\ \A f \in Pending(tm) \ {e} : Before(e, f)
  /\ \A f \in Coming : e.due <= f.due

\* A one-shot is done with when it is taken; so is a fixed-rate task whose next
\* instant cannot be represented.
Done(e) == e.period = "once" \/ (e.period = "rate" /\ e.due > MaxTime - Period)

Take ==
  /\ ~timersDown
  /\ \E tm \in Timers : \E e \in Due :
       /\ Takes(tm, e)
       /\ inFlight' = [timer |-> tm, entry |-> e]
       /\ tasks' = [tasks EXCEPT ![e.task].completed = @ \/ Done(e)]
       /\ entries' = [u \in Timers |-> IF timers[u] # "live" THEN entries[u] ELSE
            IF u # tm THEN Pending(u) ELSE (Pending(tm) \ {e}) \cup
              (IF e.period = "rate" /\ ~Done(e)
               THEN {[e EXCEPT !.due = @ + Period]} ELSE {})]
  /\ UNCHANGED <<now, timers, sequence, timersDown, assured>>

\* run() threw, or could not be called: the timer is cancelled.
RunFails ==
  /\ timers' = [timers EXCEPT ![inFlight.timer] = "cancelled"]
  /\ entries' = [entries EXCEPT ![inFlight.timer] = {}]
  /\ inFlight' = Idle
  /\ UNCHANGED <<now, tasks, sequence, timersDown, assured>>

\* wrong: the fixed-delay task is queued again whatever happened meanwhile
Regardless(tm, t) == TRUE
Repeats(tm, t) ==
  timers[tm] = "live" /\ ~tasks[t].cancelled /\ ~tasks[t].completed /\ ~timersDown

RunReturns ==
  LET its == inFlight.timer
      e == inFlight.entry
      again == e.period = "delay" /\ Repeats(its, e.task)
  IN /\ inFlight' = Idle
     /\ entries' = IF again /\ now <= MaxTime - Period
                   THEN [entries EXCEPT ![its] = @ \cup {[e EXCEPT !.due = now + Period]}]
                   ELSE entries
     /\ tasks' = IF again /\ now > MaxTime - Period
                 THEN [tasks EXCEPT ![e.task].completed = TRUE] ELSE tasks
     /\ UNCHANGED <<now, timers, sequence, timersDown, assured>>

\* time_until_next_event
NextDue == IF timersDown THEN {} ELSE {e.due : e \in {x \in Coming : \A f \in Coming : x.due <= f.due}}
-----------------------------------------------------------------------------
(* Properties.                                                             *)

TimersTypeOK ==
  /\ now \in 0..MaxTime /\ sequence \in Nat /\ timersDown \in BOOLEAN
  /\ timers \in [Timers -> {"unknown", "live", "cancelled"}]
  /\ entries \in [Timers -> SUBSET Entries]
  /\ tasks \in [Tasks -> TaskStates] /\ assured \subseteq Tasks
  /\ inFlight = Idle \/ (inFlight.timer \in Timers /\ inFlight.entry \in Entries)

\* A cancelled task does not run.  No entry of it, of a cancelled timer or of a
\* service that was shut down is queued, and a task is queued at most once,
\* however the calls fall between the two halves of a run
\* (TimerService.cpp:253-259).  And cancel() returns true only when it prevents a
\* run (TimerService.cpp:156-158): a one-shot task it says that of is not running
\* and never will be, although the worker may have taken it just before.
CancelledStaysCancelled ==
  /\ \A tm \in Timers : \A e \in entries[tm] :
       /\ timers[tm] = "live" /\ ~tasks[e.task].cancelled /\ ~timersDown
       /\ \A f \in entries[tm] : f.task = e.task => f = e
  /\ inFlight # Idle /\ inFlight.entry.period = "once"
       => inFlight.entry.task \notin assured
=============================================================================
