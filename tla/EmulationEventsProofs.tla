----------------------- MODULE EmulationEventsProofs -----------------------
(***************************************************************************)
(* Proofs about EmulationEvents and the timers in it, for any threads,     *)
(* timers, tasks, periods and bounds.                                      *)
(***************************************************************************)
EXTENDS EmulationEvents, TLAPS

-----------------------------------------------------------------------------
(***************************************************************************)
(* Tasks.  An entry is of a task its timer owns, and its only one; a task  *)
(* that runs has no other entry, unless it is repeated at a fixed rate; a  *)
(* one-shot is completed from when it is taken.                            *)
(***************************************************************************)
Queued ==
  \A tm \in Timers : \A e \in entries[tm] :
    /\ timers[tm] = "live" /\ ~timersDown
    /\ tasks[e.task].scheduled /\ ~tasks[e.task].cancelled
    /\ tasks[e.task].owner = tm
    /\ \A f \in entries[tm] : f.task = e.task => f = e

Running ==
  inFlight # Idle =>
    LET t == inFlight.entry.task
    IN  /\ tasks[t].scheduled /\ tasks[t].owner = inFlight.timer
        /\ inFlight.entry.period = "once" => tasks[t].completed /\ t \notin assured
        /\ inFlight.entry.period = "delay" =>
             \A e \in entries[inFlight.timer] : e.task # t

Assured == \A t \in assured : tasks[t].cancelled

TimersInv == TimersTypeOK /\ Queued /\ Running /\ Assured

(***************************************************************************)
(* The worker is started by one thread at a time: the one that has seen    *)
(* that nobody starts it.                                                  *)
(***************************************************************************)
Places == {"idle", "ensure", "asleep", "create", "created", "failed", "refused",
           "wake", "post", "pump", "request"}
Starting == {"create", "created", "failed"}

StartInv ==
  /\ pc \in [Threads -> Places] /\ starting \in BOOLEAN /\ started \in BOOLEAN
  /\ starting <=> \E h \in Threads : pc[h] \in Starting
  /\ \A h, k \in Threads : pc[h] \in Starting /\ pc[k] \in Starting => h = k
  /\ starting => ~started
  /\ workers = IF started \/ \E h \in Threads : pc[h] = "created" THEN 1 ELSE 0

EventsInv ==
  /\ TimersInv /\ StartInv
  /\ worker = "task" => inFlight # Idle

-----------------------------------------------------------------------------
(***************************************************************************)
(* The operations of the timers.                                           *)
(***************************************************************************)
LEMMA TimersStay == ASSUME TimersInv, UNCHANGED timerVars  PROVE TimersInv'
BY DEF TimersInv, TimersTypeOK, Queued, Running, Assured, timerVars, Pending

\* What an entry of a timer is, and the task of an entry.
LEMMA EntryIs ==
  ASSUME TimersInv, NEW tm \in Timers, NEW e \in entries[tm]
  PROVE  /\ e \in Entries /\ e.task \in Tasks /\ e.due \in 0..MaxTime /\ e.period \in Periods
         /\ timers[tm] = "live" /\ ~timersDown
         /\ tasks[e.task].scheduled /\ ~tasks[e.task].cancelled
         /\ tasks[e.task].owner = tm /\ e.task \notin assured
         /\ \A f \in entries[tm] : f.task = e.task => f = e
<1>1. entries[tm] \subseteq Entries
  BY DEF TimersInv, TimersTypeOK
<1> QED BY <1>1 DEF TimersInv, Queued, Assured, Entries

\* What runs, when something runs.
LEMMA FlightIs ==
  ASSUME TimersInv, inFlight # Idle
  PROVE  /\ inFlight.timer \in Timers /\ inFlight.entry \in Entries
         /\ inFlight.entry.task \in Tasks /\ inFlight.entry.period \in Periods
         /\ tasks[inFlight.entry.task].scheduled
         /\ tasks[inFlight.entry.task].owner = inFlight.timer
BY DEF TimersInv, TimersTypeOK, Running, Entries

\* Timers and what is in them go, and nothing else changes.
LEMMA EntriesGo ==
  ASSUME TimersInv, UNCHANGED <<now, tasks, sequence, assured>>,
         timersDown' \in BOOLEAN, inFlight' = inFlight \/ inFlight' = Idle,
         timers' \in [Timers -> {"unknown", "live", "cancelled"}],
         entries' \in [Timers -> SUBSET Entries],
         \A tm \in Timers : \/ entries'[tm] = {}
                            \/ /\ entries'[tm] = entries[tm] /\ timers'[tm] = timers[tm]
                               /\ timersDown' = timersDown
  PROVE  TimersInv'
<1>1. TimersTypeOK'
  BY DEF TimersInv, TimersTypeOK
<1>2. Queued'
  BY DEF TimersInv, Queued
<1>3. Running'
  <2>1. CASE inFlight' = Idle
    BY <2>1 DEF Running
  <2>2. CASE inFlight' = inFlight /\ inFlight # Idle
    <3>1. inFlight.timer \in Timers
      BY <2>2, FlightIs
    <3> QED BY <2>2, <3>1 DEF TimersInv, Running
  <2> QED BY <2>1, <2>2
<1> QED BY <1>1, <1>2, <1>3 DEF TimersInv, Assured

LEMMA AddTimerKeeps ==
  ASSUME TimersInv, NEW tm \in Timers, AddTimer(tm)  PROVE TimersInv'
<1>1. entries[tm] = {}
  BY EntryIs DEF AddTimer
<1>2. /\ timers' \in [Timers -> {"unknown", "live", "cancelled"}]
      /\ \A u \in Timers : u # tm => timers'[u] = timers[u]
      /\ UNCHANGED <<now, tasks, sequence, assured, entries, timersDown, inFlight>>
  BY DEF AddTimer, TimersInv, TimersTypeOK
<1>3. entries' \in [Timers -> SUBSET Entries] /\ timersDown' \in BOOLEAN
  BY <1>2 DEF TimersInv, TimersTypeOK
<1> QED BY <1>1, <1>2, <1>3, EntriesGo

LEMMA TimersGo ==
  ASSUME TimersInv, NEW tm \in Timers, 
         RemoveTimer(tm) \/ CancelTimer(tm) \/ TimersShutdown
         \/ (RunFails /\ tm = inFlight.timer)
  PROVE  TimersInv'
<1>1. UNCHANGED <<now, tasks, sequence, assured>> /\ timersDown' \in BOOLEAN
      /\ (inFlight' = inFlight \/ inFlight' = Idle)
  BY DEF RemoveTimer, CancelTimer, TimersShutdown, RunFails, TimersInv, TimersTypeOK
<1>2. CASE TimersShutdown
  BY <1>1, <1>2, EntriesGo DEF TimersShutdown, TimersInv, TimersTypeOK
<1>3. CASE RemoveTimer(tm) \/ CancelTimer(tm) \/ (RunFails /\ tm = inFlight.timer)
  <2>1. /\ timers' \in [Timers -> {"unknown", "live", "cancelled"}]
        /\ entries' \in [Timers -> SUBSET Entries] /\ entries'[tm] = {}
        /\ timersDown' = timersDown
        /\ \A u \in Timers : u # tm => timers'[u] = timers[u] /\ entries'[u] = entries[u]
    BY <1>3 DEF RemoveTimer, CancelTimer, RunFails, TimersInv, TimersTypeOK
  <2> QED BY <1>1, <2>1, EntriesGo
<1> QED BY <1>2, <1>3

LEMMA TickKeeps == ASSUME TimersInv, Tick  PROVE TimersInv'
<1>1. now' \in 0..MaxTime
  BY TimersAssumption DEF Tick, TimersInv, TimersTypeOK
<1>2. UNCHANGED <<timers, entries, tasks, sequence, timersDown, inFlight, assured>>
  BY DEF Tick
<1> QED BY <1>1, <1>2 DEF TimersInv, TimersTypeOK, Queued, Running, Assured

\* The task is new: no entry is of it, and it does not run.
LEMMA EnterKeeps ==
  ASSUME TimersInv, NEW tm \in Timers, NEW t \in Tasks, NEW offset \in Offsets,
         NEW period \in Periods, Enter(tm, t, offset, period)
  PROVE  TimersInv'
<1>1. /\ timers[tm] = "live" /\ ~timersDown
      /\ ~tasks[t].scheduled /\ ~tasks[t].cancelled /\ ~tasks[t].completed
      /\ now + offset \in 0..MaxTime
      /\ UNCHANGED <<now, timers, timersDown, inFlight, assured>>
  BY TimersAssumption DEF Enter, Schedulable, TimersInv, TimersTypeOK
<1>e. PICK new : new = [task |-> t, due |-> now + offset, period |-> period, seq |-> sequence]
  OBVIOUS
<1>2. new \in Entries /\ new.task = t /\ new.period = period
  BY <1>1, <1>e DEF Entries, TimersInv, TimersTypeOK
<1>3. /\ entries' \in [Timers -> SUBSET Entries] /\ entries'[tm] = entries[tm] \cup {new}
      /\ \A u \in Timers : u # tm => entries'[u] = entries[u]
  BY <1>2, <1>e DEF Enter, TimersInv, TimersTypeOK
<1>4. /\ tasks' \in [Tasks -> TaskStates]
      /\ tasks'[t].scheduled /\ tasks'[t].owner = tm
      /\ tasks'[t].cancelled = tasks[t].cancelled /\ tasks'[t].completed = tasks[t].completed
      /\ \A x \in Tasks : x # t => tasks'[x] = tasks[x]
  BY DEF Enter, TimersInv, TimersTypeOK, TaskStates
<1>5. sequence' \in Nat
  BY DEF Enter, TimersInv, TimersTypeOK
<1>6. TimersTypeOK'
  BY <1>1, <1>3, <1>4, <1>5 DEF TimersInv, TimersTypeOK
<1>7. \A u \in Timers : \A e \in entries[u] : e.task \in Tasks /\ e.task # t
  BY <1>1, EntryIs
<1>8. Queued'
  <2> SUFFICES ASSUME NEW u \in Timers, NEW e \in entries'[u]
      PROVE  /\ timers[u] = "live" /\ ~timersDown
             /\ tasks'[e.task].scheduled /\ ~tasks'[e.task].cancelled
             /\ tasks'[e.task].owner = u
             /\ \A f \in entries'[u] : f.task = e.task => f = e
    BY <1>1 DEF Queued
  <2>1. CASE e \in entries[u]
    <3>1. tasks'[e.task] = tasks[e.task]
      BY <2>1, <1>4, <1>7
    <3>2. \A f \in entries'[u] : f.task = e.task => f \in entries[u]
      BY <2>1, <1>2, <1>3, <1>7
    <3> QED BY <2>1, <3>1, <3>2, EntryIs
  <2>2. CASE u = tm /\ e = new
    <3>1. \A f \in entries'[u] : f.task = e.task => f = e
      BY <2>2, <1>2, <1>3, <1>7
    <3> QED BY <2>2, <3>1, <1>1, <1>2, <1>4
  <2> QED BY <2>1, <2>2, <1>3
<1>9. Running'
  <2> SUFFICES ASSUME inFlight # Idle  PROVE Running'
    BY <1>1 DEF Running
  <2>1. inFlight.entry.task # t /\ tasks'[inFlight.entry.task] = tasks[inFlight.entry.task]
        /\ inFlight.timer \in Timers
    BY <1>1, <1>4, FlightIs
  <2>2. ASSUME NEW e \in entries'[inFlight.timer], e.task = inFlight.entry.task
        PROVE  e \in entries[inFlight.timer]
    BY <2>1, <2>2, <1>2, <1>3
  <2> QED BY <2>1, <2>2, <1>1 DEF TimersInv, Running
<1>10. Assured'
  BY <1>1, <1>4 DEF TimersInv, TimersTypeOK, Assured
<1> QED BY <1>6, <1>8, <1>9, <1>10 DEF TimersInv

LEMMA CancelTaskKeeps ==
  ASSUME TimersInv, NEW t \in Tasks, CancelTask(t)  PROVE TimersInv'
<1>1. UNCHANGED <<now, timers, sequence, timersDown, inFlight>>
  BY DEF CancelTask
<1>2. /\ tasks' \in [Tasks -> TaskStates] /\ tasks'[t].cancelled
      /\ tasks'[t].scheduled = tasks[t].scheduled /\ tasks'[t].owner = tasks[t].owner
      /\ tasks'[t].completed = tasks[t].completed
      /\ \A x \in Tasks : x # t => tasks'[x] = tasks[x]
  BY DEF CancelTask, TimersInv, TimersTypeOK, TaskStates
<1>3. /\ entries' \in [Timers -> SUBSET Entries]
      /\ \A u \in Timers : entries'[u] \subseteq entries[u]
      /\ \A u \in Timers : \A e \in entries'[u] : u = tasks[t].owner => e.task # t
  BY DEF CancelTask, TimersInv, TimersTypeOK
<1>4. assured' \subseteq Tasks /\ assured' \subseteq assured \cup {t}
      /\ (tasks[t].completed => assured' = assured)
  BY DEF CancelTask, TimersInv, TimersTypeOK, Prevented
<1>5. TimersTypeOK'
  BY <1>1, <1>2, <1>3, <1>4 DEF TimersInv, TimersTypeOK
<1>6. Queued'
  <2> SUFFICES ASSUME NEW u \in Timers, NEW e \in entries'[u]
      PROVE  /\ timers[u] = "live" /\ ~timersDown
             /\ tasks'[e.task].scheduled /\ ~tasks'[e.task].cancelled
             /\ tasks'[e.task].owner = u
             /\ \A f \in entries'[u] : f.task = e.task => f = e
    BY <1>1 DEF Queued
  <2>1. e \in entries[u]
    BY <1>3
  <2>2. e.task \in Tasks /\ e.task # t
    BY <2>1, <1>3, EntryIs
  <2> QED BY <2>1, <2>2, <1>2, <1>3, EntryIs
<1>7. Running'
  <2> SUFFICES ASSUME inFlight # Idle  PROVE Running'
    BY <1>1 DEF Running
  <2> DEFINE x == inFlight.entry.task
  <2>1. x \in Tasks /\ inFlight.timer \in Timers
    BY FlightIs
  <2>2. /\ tasks'[x].scheduled = tasks[x].scheduled /\ tasks'[x].owner = tasks[x].owner
        /\ tasks'[x].completed = tasks[x].completed
    BY <2>1, <1>2
  <2>3. tasks[x].completed /\ x \notin assured => x \notin assured'
    BY <1>4
  <2> QED BY <2>1, <2>2, <2>3, <1>1, <1>3 DEF TimersInv, Running
<1>8. Assured'
  BY <1>2, <1>4 DEF TimersInv, TimersTypeOK, Assured
<1> QED BY <1>5, <1>6, <1>7, <1>8 DEF TimersInv

\* The entry that is taken is not of a cancelled task.  It is the only one of
\* the task; when it is put back it is the only one again.
LEMMA TakeKeeps ==
  ASSUME TimersInv, Take  PROVE TimersInv'
<1>1. PICK tm \in Timers, e \in Due :
       /\ Takes(tm, e)
       /\ inFlight' = [timer |-> tm, entry |-> e]
       /\ tasks' = [tasks EXCEPT ![e.task].completed = @ \/ Done(e)]
       /\ entries' = [u \in Timers |-> IF timers[u] # "live" THEN entries[u] ELSE
            IF u # tm THEN Pending(u) ELSE (Pending(tm) \ {e}) \cup
              (IF e.period = "rate" /\ ~Done(e)
               THEN {[e EXCEPT !.due = @ + Period]} ELSE {})]
  BY DEF Take
<1>2. UNCHANGED <<now, timers, sequence, timersDown, assured>>
  BY DEF Take
<1>e. PICK next : next = [e EXCEPT !.due = @ + Period]
  OBVIOUS
<1>3. e \in entries[tm] /\ timers[tm] = "live"
  BY <1>1 DEF Takes, Pending
<1>4. /\ e \in Entries /\ e.task \in Tasks /\ e.due \in 0..MaxTime
      /\ tasks[e.task].scheduled /\ ~tasks[e.task].cancelled
      /\ tasks[e.task].owner = tm /\ e.task \notin assured /\ ~timersDown
  BY <1>3, EntryIs
<1>5. /\ tasks' \in [Tasks -> TaskStates]
      /\ \A x \in Tasks : /\ tasks'[x].scheduled = tasks[x].scheduled
                          /\ tasks'[x].owner = tasks[x].owner
                          /\ tasks'[x].cancelled = tasks[x].cancelled
      /\ e.period = "once" => tasks'[e.task].completed
  BY <1>1, <1>4 DEF TimersInv, TimersTypeOK, TaskStates, Done
<1>6. e.period = "rate" /\ ~Done(e) => next \in Entries /\ next.task = e.task
  BY <1>4, <1>e, TimersAssumption DEF Entries, Done
<1>7. ASSUME NEW u \in Timers, NEW f \in entries'[u]
      PROVE  \/ f \in entries[u] /\ (u = tm => f # e)
             \/ u = tm /\ e.period = "rate" /\ ~Done(e) /\ f = next
  BY <1>1, <1>7, <1>e DEF Pending, Takes, TimersInv, TimersTypeOK
<1>8. ASSUME NEW u \in Timers, NEW f \in entries'[u], f \in entries[u], u = tm => f # e
      PROVE  f.task # e.task
  BY <1>3, <1>4, <1>8, EntryIs
<1>9. entries' \in [Timers -> SUBSET Entries]
  <2>1. \A u \in Timers : entries'[u] \subseteq Entries
    BY <1>6, <1>7 DEF TimersInv, TimersTypeOK
  <2> QED BY <1>1, <2>1
<1>10. TimersTypeOK'
  <2>1. inFlight'.timer \in Timers /\ inFlight'.entry \in Entries
    BY <1>1, <1>4
  <2> QED BY <1>2, <1>5, <1>9, <2>1 DEF TimersInv, TimersTypeOK
<1>11. Queued'
  <2> SUFFICES ASSUME NEW u \in Timers, NEW f \in entries'[u]
      PROVE  /\ timers[u] = "live" /\ ~timersDown
             /\ tasks'[f.task].scheduled /\ ~tasks'[f.task].cancelled
             /\ tasks'[f.task].owner = u
             /\ \A g \in entries'[u] : g.task = f.task => g = f
    BY <1>2 DEF Queued
  <2>1. CASE f \in entries[u] /\ (u = tm => f # e)
    <3>1. f.task # e.task /\ f.task \in Tasks
      BY <2>1, <1>8, EntryIs
    <3>2. ASSUME NEW g \in entries'[u], g.task = f.task  PROVE g \in entries[u]
      BY <3>1, <3>2, <1>6, <1>7
    <3> QED BY <2>1, <3>1, <3>2, <1>5, EntryIs
  <2>2. CASE u = tm /\ e.period = "rate" /\ ~Done(e) /\ f = next
    <3>1. f.task = e.task
      BY <2>2, <1>6
    <3>2. ASSUME NEW g \in entries'[u], g.task = f.task  PROVE g = f
      BY <2>2, <3>1, <3>2, <1>7, <1>8
    <3> QED BY <2>2, <3>1, <3>2, <1>3, <1>4, <1>5
  <2> QED BY <2>1, <2>2, <1>7
<1>12. Running'
  <2>1. inFlight'.timer = tm /\ inFlight'.entry = e
    BY <1>1
  <2>2. e.period = "delay" => \A f \in entries'[tm] : f.task # e.task
    BY <1>7, <1>8
  <2> QED BY <2>1, <2>2, <1>2, <1>4, <1>5 DEF Running
<1>13. Assured'
  BY <1>2, <1>5 DEF TimersInv, TimersTypeOK, Assured
<1> QED BY <1>10, <1>11, <1>12, <1>13 DEF TimersInv

\* A task that is queued again had no other entry, and is not cancelled.
LEMMA RunReturnsKeeps ==
  ASSUME TimersInv, inFlight # Idle, RunReturns  PROVE TimersInv'
<1>t. PICK tm : tm = inFlight.timer
  OBVIOUS
<1>e. PICK e : e = inFlight.entry
  OBVIOUS
<1>n. PICK next : next = [e EXCEPT !.due = now + Period]
  OBVIOUS
<1>1. inFlight' = Idle /\ UNCHANGED <<now, timers, sequence, timersDown, assured>>
  BY DEF RunReturns
<1>2. /\ tm \in Timers /\ e \in Entries /\ e.task \in Tasks
      /\ tasks[e.task].scheduled /\ tasks[e.task].owner = tm
  BY <1>t, <1>e, FlightIs
<1>3. Running'
  BY <1>1 DEF Running
<1>4. CASE e.period = "delay" /\ Repeats(tm, e.task) /\ now <= MaxTime - Period
  <2>1. /\ tasks' = tasks /\ entries' = [entries EXCEPT ![tm] = @ \cup {next}]
    BY <1>4, <1>t, <1>e, <1>n, TimersAssumption DEF RunReturns, TimersInv, TimersTypeOK
  <2>2. next \in Entries /\ next.task = e.task
    BY <1>2, <1>4, <1>n, TimersAssumption DEF TimersInv, TimersTypeOK, Entries
  <2>3. /\ entries' \in [Timers -> SUBSET Entries] /\ entries'[tm] = entries[tm] \cup {next}
        /\ \A u \in Timers : u # tm => entries'[u] = entries[u]
    BY <2>1, <2>2, <1>2 DEF TimersInv, TimersTypeOK
  <2>4. TimersTypeOK'
    BY <1>1, <2>1, <2>3 DEF TimersInv, TimersTypeOK
  <2>5. \A f \in entries[tm] : f.task # e.task
    BY <1>4, <1>t, <1>e DEF TimersInv, Running
  <2>6. timers[tm] = "live" /\ ~timersDown /\ ~tasks[e.task].cancelled
    BY <1>4 DEF Repeats
  <2>7. Queued'
    <3> SUFFICES ASSUME NEW u \in Timers, NEW f \in entries'[u]
        PROVE  /\ timers[u] = "live" /\ ~timersDown
               /\ tasks[f.task].scheduled /\ ~tasks[f.task].cancelled
               /\ tasks[f.task].owner = u
               /\ \A g \in entries'[u] : g.task = f.task => g = f
      BY <1>1, <2>1 DEF Queued
    <3>1. CASE f \in entries[u]
      <4>1. ASSUME NEW g \in entries'[u], g.task = f.task  PROVE g \in entries[u]
        BY <3>1, <4>1, <2>2, <2>3, <2>5
      <4> QED BY <3>1, <4>1, EntryIs
    <3>2. CASE u = tm /\ f = next
      BY <3>2, <2>2, <2>3, <2>5, <2>6, <1>2
    <3> QED BY <3>1, <3>2, <2>3
  <2> QED BY <1>1, <1>3, <2>1, <2>4, <2>7 DEF TimersInv, Assured
<1>5. CASE ~(e.period = "delay" /\ Repeats(tm, e.task) /\ now <= MaxTime - Period)
  <2>1. /\ entries' = entries /\ tasks' \in [Tasks -> TaskStates]
        /\ \A x \in Tasks : /\ tasks'[x].scheduled = tasks[x].scheduled
                            /\ tasks'[x].owner = tasks[x].owner
                            /\ tasks'[x].cancelled = tasks[x].cancelled
    <3>1. entries' = entries
      BY <1>5, <1>t, <1>e DEF RunReturns
    <3>2. tasks' = tasks \/ tasks' = [tasks EXCEPT ![e.task].completed = TRUE]
      BY <1>e DEF RunReturns
    <3>3. tasks \in [Tasks -> TaskStates] /\ e.task \in Tasks
      BY <1>2 DEF TimersInv, TimersTypeOK
    <3>4. CASE tasks' = tasks
      BY <3>1, <3>3, <3>4
    <3>5. CASE tasks' = [tasks EXCEPT ![e.task].completed = TRUE]
      BY <3>1, <3>3, <3>5 DEF TaskStates
    <3> QED BY <3>2, <3>4, <3>5
  <2>2. TimersTypeOK'
    BY <1>1, <2>1 DEF TimersInv, TimersTypeOK
  <2>3. Queued'
    <3> SUFFICES ASSUME NEW u \in Timers, NEW f \in entries[u]
        PROVE  /\ timers[u] = "live" /\ ~timersDown
               /\ tasks'[f.task].scheduled /\ ~tasks'[f.task].cancelled
               /\ tasks'[f.task].owner = u
               /\ \A g \in entries[u] : g.task = f.task => g = f
      BY <1>1, <2>1 DEF Queued
    <3> QED BY <2>1, EntryIs
  <2>4. Assured'
    BY <1>1, <2>1 DEF TimersInv, TimersTypeOK, Assured
  <2> QED BY <1>3, <2>2, <2>3, <2>4 DEF TimersInv
<1> QED BY <1>4, <1>5
-----------------------------------------------------------------------------
(***************************************************************************)
(* The start of the worker.                                                *)
(***************************************************************************)

\* No thread enters or leaves the places from which the worker is started.
LEMMA StartStays ==
  ASSUME StartInv, pc' \in [Threads -> Places], UNCHANGED startVars,
         \A h \in Threads : pc[h] = pc'[h] \/ (pc[h] \notin Starting /\ pc'[h] \notin Starting)
  PROVE  StartInv'
<1>1. \A h \in Threads : /\ pc'[h] \in Starting <=> pc[h] \in Starting
                         /\ pc'[h] = "created" <=> pc[h] = "created"
  BY DEF Starting
<1> QED BY <1>1 DEF StartInv, startVars

\* A thread goes on from a place from which the worker is not started to another.
LEMMA GotoKeeps ==
  ASSUME StartInv, UNCHANGED startVars, NEW h \in Threads, NEW there \in Places \ Starting,
         pc[h] \notin Starting, Goto(h, there)
  PROVE  StartInv'
<1>1. pc' \in [Threads -> Places]
      /\ pc'[h] = there /\ \A k \in Threads : k # h => pc'[k] = pc[k]
  BY DEF StartInv, Goto
<1> QED BY <1>1, StartStays

LEMMA PlacesAre ==
  /\ {"idle", "ensure", "asleep", "refused", "wake", "post", "pump", "request"} \subseteq Places
  /\ Starting = {"create", "created", "failed"} /\ Starting \subseteq Places
  /\ \A x \in {"idle", "ensure", "asleep", "refused", "wake", "post", "pump", "request"} :
        x \in Places \ Starting
BY DEF Places, Starting

\* A notification lets threads go that sleep, and so does one of a thread that
\* goes on.
LEMMA RousedKeeps ==
  ASSUME StartInv, UNCHANGED startVars, pc' = Roused(pc)  PROVE StartInv'
<1>1. pc' \in [Threads -> Places]
      /\ \A k \in Threads : pc'[k] = pc[k] \/ (pc[k] = "asleep" /\ pc'[k] = "ensure")
  BY PlacesAre DEF StartInv, Roused
<1> QED BY <1>1, StartStays DEF Starting

LEMMA RousedGoKeeps ==
  ASSUME StartInv, UNCHANGED startVars, NEW h \in Threads, NEW there \in Places \ Starting,
         pc[h] \notin Starting, pc' = Roused([pc EXCEPT ![h] = there])
  PROVE  StartInv'
<1>1. pc' \in [Threads -> Places] /\ pc'[h] \in {there, "ensure"}
      /\ \A k \in Threads : k # h => pc'[k] = pc[k] \/ (pc[k] = "asleep" /\ pc'[k] = "ensure")
  BY PlacesAre DEF StartInv, Roused
<1> QED BY <1>1, PlacesAre, StartStays DEF Starting

LEMMA EnsureKeeps ==
  ASSUME StartInv, NEW h \in Threads, Ensure(h)  PROVE StartInv'
<1>1. pc[h] = "ensure" /\ pc[h] \notin Starting /\ UNCHANGED <<started, workers>>
  BY DEF Ensure, At, Starting
<1>2. CASE MayStart(h) /\ starting' = TRUE /\ Goto(h, "create")
  <2>1. /\ pc' \in [Threads -> Places] /\ pc'[h] = "create"
        /\ \A k \in Threads : k # h => pc'[k] = pc[k]
    BY <1>2, PlacesAre DEF StartInv, Goto
  <2>2. ~starting /\ ~started /\ (\A k \in Threads : pc[k] \notin Starting)
    BY <1>2 DEF StartInv, MayStart
  <2>3. \A k \in Threads : pc'[k] \in Starting <=> k = h
    BY <2>1, <2>2 DEF Starting
  <2>4. \A k \in Threads : pc'[k] # "created" /\ pc[k] # "created"
    BY <2>1, <2>2, <2>3 DEF Starting
  <2> QED BY <1>1, <1>2, <2>1, <2>2, <2>3, <2>4 DEF StartInv
<1>3. CASE UNCHANGED starting /\ \E x \in {"asleep", "refused", "idle", "post", "wake"} : Goto(h, x)
  BY <1>1, <1>3, PlacesAre, GotoKeeps DEF startVars
<1> QED BY <1>2, <1>3 DEF Ensure, Goes, Onward

LEMMA CreateKeeps ==
  ASSUME StartInv, NEW h \in Threads, Create(h)  PROVE StartInv'
<1>1. pc[h] = "create" /\ pc[h] \in Starting /\ UNCHANGED <<starting, started>>
  BY DEF Create, At, Starting
<1>2. starting /\ ~started /\ workers = 0
      /\ \A k \in Threads : k # h => pc[k] \notin Starting /\ pc[k] # "created"
  BY <1>1 DEF StartInv, Starting
<1>3. PICK x \in {"created", "failed"} :
        Goto(h, x) /\ workers' = IF x = "created" THEN workers + 1 ELSE workers
  BY DEF Create
<1>4. /\ pc' \in [Threads -> Places] /\ pc'[h] = x
      /\ \A k \in Threads : k # h => pc'[k] = pc[k]
  BY <1>3, PlacesAre DEF StartInv, Goto, Starting
<1>5. \A k \in Threads : pc'[k] \in Starting <=> k = h
  BY <1>2, <1>4 DEF Starting
<1>6. workers' = IF started' \/ \E k \in Threads : pc'[k] = "created" THEN 1 ELSE 0
  BY <1>1, <1>2, <1>3, <1>4
<1> QED BY <1>1, <1>2, <1>4, <1>5, <1>6 DEF StartInv

LEMMA FinishKeeps ==
  ASSUME StartInv, NEW h \in Threads, Finish(h)  PROVE StartInv'
<1>1. pc[h] \in {"created", "failed"} /\ pc[h] \in Starting /\ workers' = workers
      /\ starting' = FALSE /\ started' = (started \/ pc[h] = "created")
  BY DEF Finish, At, Starting
<1>2. starting /\ ~started /\ workers = (IF pc[h] = "created" THEN 1 ELSE 0)
      /\ \A k \in Threads : k # h => pc[k] \notin Starting /\ pc[k] # "created"
  BY <1>1 DEF StartInv, Starting
<1>3. PICK x \in {"idle", "post", "wake", "refused"} : pc' = Roused([pc EXCEPT ![h] = x])
  BY DEF Finish, NotifyAll, Onward
<1>4. /\ pc' \in [Threads -> Places] /\ pc'[h] = x
      /\ \A k \in Threads : k # h => pc'[k] = pc[k] \/ (pc[k] = "asleep" /\ pc'[k] = "ensure")
  BY <1>3, PlacesAre DEF StartInv, Roused
<1>5. \A k \in Threads : pc'[k] \notin Starting /\ pc'[k] # "created"
  BY <1>2, <1>4 DEF Starting
<1>6. started' \in BOOLEAN /\ workers' = IF started' THEN 1 ELSE 0
  BY <1>1, <1>2
<1> QED BY <1>1, <1>4, <1>5, <1>6 DEF StartInv
-----------------------------------------------------------------------------
(***************************************************************************)
(* The steps.                                                              *)
(***************************************************************************)
LEMMA InitIsSound == Init => EventsInv
<1> SUFFICES ASSUME Init  PROVE EventsInv
  OBVIOUS
<1>1. PICK made \in BOOLEAN :
        /\ TimersInit(IF made THEN "live" ELSE "unknown")
        /\ starting = FALSE /\ started = made /\ workers = (IF made THEN 1 ELSE 0)
        /\ worker = (IF made THEN "top" ELSE "none")
        /\ pc = [h \in Threads |-> "idle"]
  BY DEF Init
<1>2. /\ now = 0 /\ sequence = 1 /\ timersDown = FALSE /\ inFlight = Idle /\ assured = {}
      /\ \A tm \in Timers : timers[tm] \in {"unknown", "live", "cancelled"} /\ entries[tm] = {}
      /\ timers \in [Timers -> {"unknown", "live", "cancelled"}]
      /\ entries \in [Timers -> SUBSET Entries]
  BY <1>1 DEF TimersInit
<1>3. tasks \in [Tasks -> TaskStates]
  BY <1>1 DEF TimersInit, TaskStates
<1>4. TimersInv
  <2>1. now \in 0..MaxTime
    BY <1>2, TimersAssumption
  <2>2. TimersTypeOK
    BY <1>2, <1>3, <2>1 DEF TimersTypeOK
  <2>3. Queued /\ Running /\ Assured
    BY <1>2 DEF Queued, Running, Assured
  <2> QED BY <2>2, <2>3 DEF TimersInv
<1>5. StartInv
  BY <1>1, PlacesAre DEF StartInv, Starting
<1>6. worker # "task"
  BY <1>1
<1> QED BY <1>4, <1>5, <1>6 DEF EventsInv

\* The timers are kept sound by every step.
LEMMA TimersStep ==
  ASSUME TimersInv, worker = "task" => inFlight # Idle, [Next]_vars  PROVE TimersInv'
<1>1. CASE UNCHANGED timerVars
  BY <1>1, TimersStay
<1>2. ASSUME NEW h \in Threads, Refused(h)  PROVE TimersInv'
  <2>1. CASE arg[h] \in Timers /\ RemoveTimer(arg[h])
    BY <2>1, TimersGo
  <2> QED BY <1>1, <1>2, <2>1 DEF Refused
<1>3. ASSUME NEW h \in Threads, TimerCall(h)  PROVE TimersInv'
  <2>1. \/ \E tm \in Timers : AddTimer(tm)
        \/ \E tm \in Timers, t \in Tasks, o \in Offsets, k \in Periods : Enter(tm, t, o, k)
        \/ \E tm \in Timers : CancelTimer(tm)
        \/ \E t \in Tasks : CancelTask(t)
    BY <1>3 DEF TimerCall, Known
  <2> QED BY <2>1, AddTimerKeeps, EnterKeeps, TimersGo, CancelTaskKeeps
<1>4. CASE DueTasks
  BY <1>1, <1>4, TakeKeeps DEF DueTasks
<1>5. CASE TaskEnds
  <2>1. inFlight # Idle /\ inFlight.timer \in Timers
    BY <1>5, FlightIs DEF TaskEnds, In
  <2>2. CASE RunReturns
    BY <2>1, <2>2, RunReturnsKeeps
  <2>3. CASE RunFails
    BY <2>1, <2>3, TimersGo
  <2> QED BY <1>5, <2>2, <2>3 DEF TaskEnds
<1>6. CASE Shutdown
  <2>1. CASE TimersShutdown
    <3>1. CASE Timers = {}
      BY <2>1, <3>1 DEF TimersShutdown, TimersInv, TimersTypeOK, Queued, Running, Assured
    <3>2. CASE Timers # {}
      <4>1. PICK tm \in Timers : TRUE
        BY <3>2
      <4> QED BY <2>1, <4>1, TimersGo
    <3> QED BY <3>1, <3>2
  <2> QED BY <1>1, <1>6, <2>1 DEF Shutdown
<1>7. CASE Clock
  BY <1>7, TickKeeps DEF Clock
<1>8. CASE Worker /\ ~DueTasks /\ ~TaskEnds
  BY <1>1, <1>8 DEF Worker, Top, CallbackEnds, PumpMedia, Poll, DeliverEvent, Delays, Check, WakeUp
<1>9. CASE PollTime \/ MediaOver \/ UNCHANGED vars
  BY <1>1, <1>9 DEF PollTime, MediaOver, vars
<1>10. ASSUME NEW h \in Threads,
          \/ Ensure(h) \/ Create(h) \/ Finish(h) \/ Wakes(h) \/ Requests(h)
          \/ PlayerCall(h) \/ PlayerCallFails(h) \/ Coalesce(h) \/ Pump(h)
          \/ \E r \in Callbacks : CallSerially(h, r)
       PROVE TimersInv'
  <2>1. UNCHANGED timerVars
    BY <1>10 DEF Ensure, Create, Finish, Wakes, Requests, PlayerCall, PlayerCallFails, Coalesce, Pump, CallSerially
  <2> QED BY <1>1, <2>1
<1> QED BY <1>2, <1>3, <1>4, <1>5, <1>6, <1>7, <1>8, <1>9, <1>10 DEF Next, Continues

\* The worker calls a task only when it has taken it.
LEMMA TaskStep ==
  ASSUME worker = "task" => inFlight # Idle, TimersInv, [Next]_vars
  PROVE  (worker = "task" => inFlight # Idle)'
<1>1. CASE inFlight' = inFlight /\ worker' \in {worker, "top", "awake"}
  BY <1>1
<1>2. CASE DueTasks
  <2>1. CASE Take
    <3>1. \E tm \in Timers : inFlight'.timer = tm
      BY <2>1 DEF Take
    <3> QED BY <3>1, TimersAssumption DEF Idle
  <2>2. CASE worker' = "media"
    BY <2>2
  <2> QED BY <1>2, <2>1, <2>2 DEF DueTasks, Proceed
<1>3. CASE Worker /\ ~DueTasks
  BY <1>3 DEF Worker, Top, CallbackEnds, TaskEnds, PumpMedia, Poll, DeliverEvent, Delays, Check, WakeUp,
       Proceed, Around, In, workerVars, timerVars
<1>4. CASE Shutdown \/ Clock \/ PollTime \/ MediaOver \/ UNCHANGED vars
  BY <1>1, <1>4 DEF Shutdown, Clock, PollTime, MediaOver, vars, Post, NotifyAll, TimersShutdown, Tick,
       workerVars, timerVars
<1>5. ASSUME NEW h \in Threads, Continues(h)  PROVE inFlight' = inFlight /\ worker' \in {worker, "top", "awake"}
  BY <1>5 DEF Continues, Ensure, Create, Finish, Refused, Wakes, Requests, Pump, RemoveTimer,
       Post, NotifyAll, workerVars, timerVars
<1>6. ASSUME NEW h \in Threads,
          \/ TimerCall(h) \/ PlayerCall(h) \/ PlayerCallFails(h) \/ Coalesce(h) \/ Pump(h)
          \/ \E r \in Callbacks : CallSerially(h, r)
      PROVE  inFlight' = inFlight /\ worker' \in {worker, "top", "awake"}
  BY <1>6 DEF TimerCall, PlayerCall, PlayerCallFails, Coalesce, Pump, CallSerially, AddTimer, Enter,
       CancelTimer, CancelTask,
       Post, NotifyAll, workerVars, timerVars
<1> QED BY <1>1, <1>2, <1>3, <1>4, <1>5, <1>6 DEF Next

\* One thread at a time is kept by every step.
LEMMA StartStep ==
  ASSUME StartInv, [Next]_vars  PROVE StartInv'
<1>1. CASE UNCHANGED <<pc, startVars>>
  BY <1>1, StartStays DEF StartInv, startVars
<1>2. CASE UNCHANGED startVars /\ pc' = Roused(pc)
  BY <1>2, RousedKeeps
<1>3. ASSUME NEW h \in Threads, UNCHANGED startVars, pc[h] \notin Starting,
             \E x \in {"idle", "ensure", "wake", "post", "pump", "request"} :
               Goto(h, x) \/ pc' = Roused([pc EXCEPT ![h] = x])
      PROVE  StartInv'
  BY <1>3, PlacesAre, GotoKeeps, RousedGoKeeps
<1>4. ASSUME NEW h \in Threads, Continues(h)  PROVE StartInv'
  <2>1. CASE Ensure(h) \/ Create(h) \/ Finish(h)
    BY <2>1, EnsureKeeps, CreateKeeps, FinishKeeps
  <2>2. CASE Refused(h) \/ Wakes(h) \/ Requests(h) \/ Pump(h)
    BY <1>3, <2>2 DEF Refused, Wakes, Requests, Pump, At, Starting, Post, NotifyAll
  <2> QED BY <1>4, <2>1, <2>2 DEF Continues
<1>5. ASSUME NEW h \in Threads,
          \/ TimerCall(h) \/ PlayerCall(h) \/ PlayerCallFails(h) \/ Coalesce(h) \/ Pump(h)
          \/ \E r \in Callbacks : CallSerially(h, r)
      PROVE  StartInv'
  <2>1. pc[h] \notin Starting /\ UNCHANGED startVars
    BY <1>5 DEF TimerCall, PlayerCall, PlayerCallFails, Coalesce, Pump, CallSerially,
         Calls, Called, At, Starting
  <2>2. \/ UNCHANGED pc \/ pc' = Roused(pc)
        \/ \E x \in {"idle", "ensure", "wake", "post", "pump", "request"} :
             Goto(h, x) \/ pc' = Roused([pc EXCEPT ![h] = x])
    BY <1>5 DEF TimerCall, PlayerCall, PlayerCallFails, Coalesce, Pump, CallSerially, Post, NotifyAll, threadVars
  <2> QED BY <1>1, <1>2, <1>3, <2>1, <2>2
<1>6. CASE Worker
  <2>1. UNCHANGED startVars /\ (UNCHANGED pc \/ pc' = Roused(pc))
    BY <1>6 DEF Worker, Top, CallbackEnds, DueTasks, TaskEnds, PumpMedia, Poll, PollOne, DeliverEvent,
         Delays, Check, WakeUp, others, threadVars
  <2> QED BY <1>1, <1>2, <2>1
<1>7. CASE Shutdown \/ Clock \/ PollTime \/ MediaOver \/ UNCHANGED vars
  <2>1. UNCHANGED startVars /\ (UNCHANGED pc \/ pc' = Roused(pc))
    BY <1>7 DEF Shutdown, Clock, PollTime, MediaOver, vars, threadVars, Post, NotifyAll
  <2> QED BY <1>1, <1>2, <2>1
<1> QED BY <1>4, <1>5, <1>6, <1>7 DEF Next

LEMMA EventsInductive == Spec => []EventsInv
<1>1. EventsInv /\ [Next]_vars => EventsInv'
  BY TimersStep, TaskStep, StartStep DEF EventsInv
<1> QED BY InitIsSound, <1>1, PTL DEF Spec

\* However many threads need the event worker at the same time, and whatever
\* goes wrong when it is started, it is started once.
THEOREM OneWorkerOnly == Spec => []OneWorker
<1>1. EventsInv => OneWorker
  BY DEF EventsInv, StartInv, OneWorker
<1> QED BY EventsInductive, <1>1, PTL

\* For any timers, tasks and threads: no entry of a cancelled task or timer is
\* queued, no task is queued twice, and a one-shot task of which cancel() says
\* that it is prevented is not running.
THEOREM CancelledStays == Spec => []CancelledStaysCancelled
<1>1. EventsInv => CancelledStaysCancelled
  BY DEF EventsInv, TimersInv, Queued, Running, CancelledStaysCancelled
<1> QED BY EventsInductive, <1>1, PTL

\* The variables of the timers keep their types.
THEOREM TimersAreTyped == Spec => []TimersTypeOK
<1>1. EventsInv => TimersTypeOK
  BY DEF EventsInv, TimersInv
<1> QED BY EventsInductive, <1>1, PTL
=============================================================================
