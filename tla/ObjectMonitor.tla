---------------------------- MODULE ObjectMonitor ----------------------------
(***************************************************************************)
(* What a Java program may expect of the monitors of its objects, without  *)
(* queues, conditions, parking or the execution gate: the lock is          *)
(* reentrant and exclusive, wait gives it up and takes it back at the same *)
(* depth, and only a notification, a deadline or an interruption ends a    *)
(* wait.  MonitorTable implements it.                                      *)
(***************************************************************************)
EXTENDS Naturals

CONSTANTS Threads, Objects, NoThread

VARIABLES
  lock,      \* the thread inside each monitor
  depth,     \* how often each thread has entered each monitor
  phase,     \* active, asleep in a wait, or returning from one
  at,        \* the monitor of that wait
  signalled, \* whether a notification has reached a sleeping thread
  alarm,     \* whether its deadline may pass, or it has been interrupted
  open       \* FALSE once the runtime shuts down; nothing is promised then

vars == <<lock, depth, phase, at, signalled, alarm, open>>

Init ==
  /\ lock = [o \in Objects |-> NoThread]
  /\ depth = [t \in Threads |-> [o \in Objects |-> 0]]
  /\ phase = [t \in Threads |-> "active"]
  /\ at \in [Threads -> Objects]
  /\ signalled = [t \in Threads |-> FALSE]
  /\ alarm \in [Threads -> BOOLEAN]
  /\ open = TRUE

Acquire(t, o) ==
  /\ phase[t] = "active" /\ lock[o] \in {NoThread, t}
  /\ lock' = [lock EXCEPT ![o] = t]
  /\ depth' = [depth EXCEPT ![t][o] = @ + 1]
  /\ UNCHANGED <<phase, signalled, open>>

Release(t, o) ==
  /\ phase[t] = "active" /\ lock[o] = t
  /\ depth' = [depth EXCEPT ![t][o] = @ - 1]
  /\ lock' = [lock EXCEPT ![o] = IF depth[t][o] = 1 THEN NoThread ELSE t]
  /\ UNCHANGED <<phase, signalled, open>>

\* The outermost frame is gone: so is everything it held.
Unwind(t) ==
  /\ phase[t] = "active"
  /\ lock' = [o \in Objects |-> IF lock[o] = t THEN NoThread ELSE lock[o]]
  /\ depth' = [depth EXCEPT ![t] = [o \in Objects |-> 0]]
  /\ UNCHANGED <<phase, signalled, open>>

Sleep(t, o) ==
  /\ phase[t] = "active" /\ lock[o] = t
  /\ lock' = [lock EXCEPT ![o] = NoThread]
  /\ phase' = [phase EXCEPT ![t] = "asleep"]
  /\ at' = [at EXCEPT ![t] = o]
  /\ UNCHANGED <<depth, signalled, open>>

Sleepers(o) ==
  {u \in Threads : phase[u] = "asleep" /\ at[u] = o /\ ~signalled[u]}

\* notify reaches one sleeper, notifyAll each of them.  A sleeper may be lent
\* to a callback of the user interface, which enters a free monitor, notifies
\* and leaves.
Signal(t, o) ==
  /\ \/ phase[t] = "active" /\ lock[o] = t
     \/ phase[t] = "asleep" /\ lock[o] = NoThread
  /\ \E chosen \in {Sleepers(o)} \cup {{u} : u \in Sleepers(o)} :
       signalled' = [u \in Threads |-> signalled[u] \/ u \in chosen]
  /\ UNCHANGED <<lock, depth, phase, open>>

Wake(t) ==
  /\ phase[t] = "asleep" /\ (signalled[t] \/ alarm[t])
  /\ phase' = [phase EXCEPT ![t] = "returning"]
  /\ signalled' = [signalled EXCEPT ![t] = FALSE]
  /\ UNCHANGED <<lock, depth, open>>

Return(t) ==
  /\ phase[t] = "returning" /\ lock[at[t]] = NoThread
  /\ lock' = [lock EXCEPT ![at[t]] = t]
  /\ phase' = [phase EXCEPT ![t] = "active"]
  /\ UNCHANGED <<depth, signalled, open>>

\* Deadlines and interruptions come and go on their own; a thread that is
\* about to contend for a monitor may note which one.
Environment == UNCHANGED <<lock, depth, phase, signalled, open>>

KeepsPlace == \A t \in Threads : phase[t] # "active" => at'[t] = at[t]

Close == open /\ ~open'
Closed == ~open /\ ~open'

Next ==
  \/ KeepsPlace /\ \/ \E t \in Threads, o \in Objects :
                        Acquire(t, o) \/ Release(t, o) \/ Sleep(t, o)
                          \/ Signal(t, o)
                   \/ \E t \in Threads : Unwind(t) \/ Wake(t) \/ Return(t)
                   \/ Environment
  \/ Close \/ Closed

Spec == Init /\ [][Next]_vars
=============================================================================
