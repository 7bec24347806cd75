--------------------------- MODULE FiberScheduler ---------------------------
(***************************************************************************)
(* The fibers of vm/Scheduler.cpp: Java threads that share one carrier     *)
(* thread.  fiber_controls_ says what each fiber does, and                 *)
(* fiber_runnable_queue_ is a queue of identifiers that may be stale: a    *)
(* fiber that parks does not take its entry out, and the carrier skips the *)
(* entries of fibers that are not runnable any more.                       *)
(*                                                                         *)
(* Each critical section of fiber_mutex_ is one action.  A fiber parks     *)
(* when it likes; host threads wake fibers one by one, or all the fibers   *)
(* parked for one reason, which takes a list first and enqueues later.     *)
(***************************************************************************)
EXTENDS Naturals, Sequences, FiniteSets

CONSTANTS
  Fibers,     \* the Java threads that run as fibers
  NoFiber,    \* nothing on the carrier
  Wakers,     \* the threads that wake fibers
  Reasons,    \* the JavaThreadState values a fiber waits with
  MaxQueue    \* bound: no waker adds to a queue as long as this

ASSUME FibersAssumption == IsFiniteSet(Fibers) /\ NoFiber \notin Fibers
ASSUME MaxQueueAssumption == MaxQueue \in Nat

VARIABLES
  fiberState,     \* FiberControl::state; absent or starting while there is none
  parkState,      \* FiberControl::park_state
  fiberDeadline,  \* FiberControl::deadline: none, pending or expired
  queued,         \* FiberControl::queued
  runnableQueue,  \* fiber_runnable_queue_
  resumed,        \* the fiber on the carrier
  carrier,        \* its thread: off, scanning, asleep on fiber_condition_, or
                  \* ended and not joined
  wakeList,       \* per waker, the fibers it has listed and not yet enqueued
  carrierStarted, \* fiber_carrier_started_
  shutdown        \* how far shutdown() is: idle, begun, joined or over

controlVars == <<fiberState, parkState, fiberDeadline, queued, runnableQueue>>
fiberVars == <<controlVars, resumed, carrier>>
startVars == <<carrierStarted, shutdown>>
vars == <<fiberVars, wakeList, startVars>>

FiberStates == {"absent", "starting", "runnable", "running", "parked",
                "finished"}

\* shutting_down_
shuttingDown == shutdown # "idle"

Init ==
  /\ fiberState = [f \in Fibers |-> "absent"]
  /\ parkState = [f \in Fibers |-> "runnable"]
  /\ fiberDeadline = [f \in Fibers |-> "none"]
  /\ queued = [f \in Fibers |-> FALSE]
  /\ runnableQueue = <<>>
  /\ resumed = NoFiber
  /\ carrier = "off"
  /\ wakeList = [w \in Wakers |-> {}]
  /\ carrierStarted = FALSE
  /\ shutdown = "idle"

\* The fibers that have a control which is not finished.
Live == {f \in Fibers : fiberState[f] \notin {"absent", "starting", "finished"}}

\* fiber_condition_.notify: the carrier looks again.
Roused == IF carrier = "asleep" THEN "scanning" ELSE carrier

-----------------------------------------------------------------------------
(***************************************************************************)
(* enqueue_fiber(f): also when f is running, or still on its way to park.  *)
(***************************************************************************)
Pushed(f) == IF queued[f] THEN runnableQueue ELSE Append(runnableQueue, f)

Unroused == carrier \* wrong: enqueue_fiber without its notify_one
EnqueueRouses == Roused

EnqueueFiber(f) ==
  /\ f \in Live
  /\ fiberState' = [fiberState EXCEPT ![f] = "runnable"]
  /\ fiberDeadline' = [fiberDeadline EXCEPT ![f] = "none"]
  /\ runnableQueue' = Pushed(f)
  /\ queued' = [queued EXCEPT ![f] = TRUE]
  /\ carrier' = EnqueueRouses
  /\ UNCHANGED parkState

Wake(f) ==
  /\ EnqueueFiber(f)
  /\ UNCHANGED <<resumed, wakeList, startVars>>

\* wake_fibers(reason) lists the fibers parked for that reason ...
ListParked(w, reason) ==
  /\ wakeList[w] = {}
  /\ wakeList' = [wakeList EXCEPT ![w] =
        {f \in Fibers : fiberState[f] = "parked" /\ parkState[f] = reason}]
  /\ UNCHANGED <<fiberVars, startVars>>

\* ... as wake_all_fibers_for_shutdown lists all the live ones ...
ListAll(w) ==
  /\ wakeList[w] = {}
  /\ wakeList' = [wakeList EXCEPT ![w] = Live]
  /\ UNCHANGED <<fiberVars, startVars>>

\* ... and enqueues them one after another, whatever they do by then.
WakeListed(w, f) ==
  /\ f \in wakeList[w]
  /\ wakeList' = [wakeList EXCEPT ![w] = @ \ {f}]
  /\ \/ EnqueueFiber(f) /\ UNCHANGED <<resumed, startVars>>
     \/ f \notin Live /\ UNCHANGED <<fiberVars, startVars>>

(***************************************************************************)
(* The end of start_thread, when the thread is claimed and mutex_ is free  *)
(* again.  ensure_fiber_carrier starts the carrier unless its flag says    *)
(* there is one; start() refuses a second thread (then the Java thread     *)
(* gets a worker of its own and is no fiber).  A shutdown may come before, *)
(* between and after.                                                      *)
(***************************************************************************)
EnsureCarrier(f) ==
  /\ fiberState[f] = "absent"
  /\ fiberState' = [fiberState EXCEPT ![f] = "starting"]
  /\ \/ carrierStarted /\ UNCHANGED carrier
     \/ ~carrierStarted /\ carrier = "off" /\ carrier' = "scanning"
  /\ carrierStarted' = TRUE
  /\ UNCHANGED <<parkState, fiberDeadline, queued, runnableQueue, resumed,
                 wakeList, shutdown>>

\* fiber_controls_ gets the fiber, which is enqueued, carrier or no carrier.
Launch(f) ==
  /\ fiberState[f] = "starting"
  /\ fiberState' = [fiberState EXCEPT ![f] = "runnable"]
  /\ runnableQueue' = Pushed(f)
  /\ queued' = [queued EXCEPT ![f] = TRUE]
  /\ carrier' = EnqueueRouses
  /\ UNCHANGED <<parkState, fiberDeadline, resumed, wakeList, startVars>>

-----------------------------------------------------------------------------
(***************************************************************************)
(* The running fiber.  park_current_fiber writes its control and leaves    *)
(* what is in the queue there; yield_current_fiber enqueues it; at the end *)
(* of its task the carrier marks it finished.  When its control has been   *)
(* erased it cannot park, and does not come back from a yield.             *)
(***************************************************************************)
ParkFiber(f, reason, deadline) ==
  /\ resumed = f /\ f \in Live
  /\ fiberState' = [fiberState EXCEPT ![f] = "parked"]
  /\ parkState' = [parkState EXCEPT ![f] = reason]
  /\ fiberDeadline' = [fiberDeadline EXCEPT ![f] = deadline]
  /\ queued' = [queued EXCEPT ![f] = FALSE]
  /\ resumed' = NoFiber
  /\ UNCHANGED <<runnableQueue, carrier, wakeList, startVars>>

YieldFiber(f) ==
  /\ resumed = f
  /\ \/ EnqueueFiber(f)
     \/ f \notin Live /\ UNCHANGED <<controlVars, carrier>>
  /\ resumed' = NoFiber
  /\ UNCHANGED <<wakeList, startVars>>

FinishFiber(f) ==
  /\ resumed = f
  /\ fiberState' = [fiberState EXCEPT ![f] = "finished"]
  /\ fiberDeadline' = [fiberDeadline EXCEPT ![f] = "none"]
  /\ queued' = [queued EXCEPT ![f] = FALSE]
  /\ resumed' = NoFiber
  /\ UNCHANGED <<parkState, runnableQueue, carrier, wakeList, startVars>>

-----------------------------------------------------------------------------
(***************************************************************************)
(* fiber_carrier_loop.  One pass under fiber_mutex_ enqueues the parked    *)
(* fibers whose deadline has passed, in the order of an unordered map, and *)
(* pops entries until one belongs to a runnable fiber.                     *)
(***************************************************************************)
Expired == {f \in Fibers : fiberState[f] = "parked"
                             /\ fiberDeadline[f] = "expired"}

Orders(S) == {q \in [1..Cardinality(S) -> S] :
                \A f \in S : \E i \in DOMAIN q : q[i] = f}

\* wrong: an entry is taken whatever the fiber does now
AnyEntry(f) == f \in Live
Resumable(f) == fiberState[f] = "runnable" \/ f \in Expired

NonePopped(q, n) == {} \* wrong: the entry goes and queued stays set
Popped(q, n) == {q[i] : i \in 1..n}

Resume ==
  /\ carrier = "scanning" /\ resumed = NoFiber
  /\ \E order \in Orders(Expired) :
       LET q == runnableQueue \o order
       IN  \E n \in 1..Len(q) :
             /\ Resumable(q[n])
             /\ \A i \in 1..(n - 1) : ~Resumable(q[i])
             /\ resumed' = q[n]
             /\ fiberState' = [f \in Fibers |->
                  CASE f = q[n] -> "running"
                    [] f # q[n] /\ f \in Expired -> "runnable"
                    [] OTHER -> fiberState[f]]
             /\ queued' = [f \in Fibers |->
                  (queued[f] \/ f \in Expired) /\ f \notin Popped(q, n)]
             /\ runnableQueue' = SubSeq(q, n + 1, Len(q))
  /\ fiberDeadline' = [f \in Fibers |->
       IF f \in Expired THEN "none" ELSE fiberDeadline[f]]
  /\ UNCHANGED <<parkState, carrier, wakeList, startVars>>

MayLeave == shuttingDown /\ Live = {}

\* Nothing to run: the carrier sleeps, until the earliest deadline if there
\* is one, or ends.
FindNothing ==
  /\ carrier = "scanning" /\ resumed = NoFiber
  /\ Expired = {}
  /\ \A i \in 1..Len(runnableQueue) : ~Resumable(runnableQueue[i])
  /\ runnableQueue' = <<>>
  /\ queued' = [f \in Fibers |->
       queued[f] /\ f \notin Popped(runnableQueue, Len(runnableQueue))]
  /\ carrier' = IF MayLeave THEN "ended" ELSE "asleep"
  /\ UNCHANGED <<fiberState, parkState, fiberDeadline, resumed, wakeList,
                 startVars>>

\* The clock reaches the deadline of a parked fiber.
DeadlinePasses(f) ==
  /\ fiberState[f] = "parked" /\ fiberDeadline[f] = "pending"
  /\ fiberDeadline' = [fiberDeadline EXCEPT ![f] = "expired"]
  /\ carrier' = Roused
  /\ UNCHANGED <<fiberState, parkState, queued, runnableQueue, resumed,
                 wakeList, startVars>>

\* shutdown() sets its flag, then wakes every fiber and the carrier ...
BeginShutdown ==
  /\ shutdown = "idle" /\ shutdown' = "begun"
  /\ UNCHANGED <<fiberVars, wakeList, carrierStarted>>

RouseCarrier ==
  /\ shuttingDown /\ carrier = "asleep"
  /\ carrier' = Roused
  /\ UNCHANGED <<controlVars, resumed, wakeList, startVars>>

\* ... joins the carrier, if there is one by then ...
JoinCarrier ==
  /\ shutdown = "begun" /\ shutdown' = "joined"
  /\ carrier \in {"off", "ended"} /\ carrier' = "off"
  /\ UNCHANGED <<controlVars, resumed, wakeList, carrierStarted>>

\* ... and erases the controls and the queue, whatever has come since.
ClearFibers ==
  /\ shutdown = "joined" /\ shutdown' = "over"
  /\ fiberState' = [f \in Fibers |->
       IF f \in Live THEN "finished" ELSE fiberState[f]]
  /\ fiberDeadline' = [f \in Fibers |-> "none"]
  /\ queued' = [f \in Fibers |-> FALSE]
  /\ runnableQueue' = <<>>
  /\ carrierStarted' = FALSE
  /\ UNCHANGED <<parkState, resumed, carrier, wakeList>>

-----------------------------------------------------------------------------
Room == Len(runnableQueue) < MaxQueue

Leave(f) ==
  \/ \E reason \in Reasons, deadline \in {"none", "pending"} :
       ParkFiber(f, reason, deadline)
  \/ YieldFiber(f) \/ FinishFiber(f)

Wakeup(w) ==
  \/ \E reason \in Reasons : ListParked(w, reason)
  \/ ListAll(w)
  \/ \E f \in Fibers : WakeListed(w, f) /\ Room
  \/ \E f \in Fibers : Wake(f) /\ Room

Next ==
  \/ \E f \in Fibers : EnsureCarrier(f) \/ Launch(f) \/ Leave(f) \/ DeadlinePasses(f)
  \/ \E w \in Wakers : Wakeup(w)
  \/ Resume \/ FindNothing
  \/ BeginShutdown \/ RouseCarrier \/ JoinCarrier \/ ClearFibers

Spec == Init /\ [][Next]_vars

\* The carrier thread runs, time passes, and a Java thread gives the carrier
\* up now and then: cooperative_quantum makes every loop of guest code do so.
Fairness ==
  /\ WF_vars(Resume) /\ WF_vars(FindNothing) /\ WF_vars(RouseCarrier)
  /\ \A f \in Fibers : WF_vars(Leave(f)) /\ WF_vars(DeadlinePasses(f))

FairSpec == Spec /\ Fairness

-----------------------------------------------------------------------------
TypeOK ==
  /\ fiberState \in [Fibers -> FiberStates]
  /\ parkState \in [Fibers -> Reasons \cup {"runnable"}]
  /\ fiberDeadline \in [Fibers -> {"none", "pending", "expired"}]
  /\ queued \in [Fibers -> BOOLEAN]
  /\ runnableQueue \in Seq(Fibers)
  /\ resumed \in Fibers \cup {NoFiber}
  /\ carrier \in {"off", "scanning", "asleep", "ended"}
  /\ wakeList \in [Wakers -> SUBSET Fibers]
  /\ carrierStarted \in BOOLEAN
  /\ shutdown \in {"idle", "begun", "joined", "over"}

InQueue(f) == \E i \in 1..Len(runnableQueue) : runnableQueue[i] = f

(***************************************************************************)
(* The queue may hold stale and repeated entries, but never too few: a     *)
(* fiber that is to run has an entry, and so has one whose flag says so,   *)
(* which keeps enqueue_fiber from adding another.                          *)
(***************************************************************************)
RunnableInQueue ==
  \A f \in Fibers :
    /\ fiberState[f] = "runnable" => InQueue(f)
    /\ queued[f] => InQueue(f)

(***************************************************************************)
(* The carrier never sleeps while there is something to run; a fiber whose *)
(* deadline passed counts.  Without a carrier there is no fiber, unless a  *)
(* shutdown has begun: a thread claimed before it may be launched when the *)
(* carrier has gone.  Even then no fiber is left behind running or parked. *)
(***************************************************************************)
CarrierAwake ==
  /\ carrier = "asleep" =>
       resumed = NoFiber /\ \A f \in Fibers : ~Resumable(f)
  /\ carrier \in {"off", "ended"} =>
       /\ resumed = NoFiber
       /\ \A f \in Live : fiberState[f] = "runnable"
       /\ Live # {} => shuttingDown

Status(f) ==
  CASE resumed = f -> "running"
    [] resumed # f /\ Resumable(f) -> "ready"
    [] resumed # f /\ ~Resumable(f) /\ fiberState[f] = "parked" -> "blocked"
    [] resumed # f /\ fiberState[f] = "starting" -> "absent"
    [] OTHER -> fiberState[f]

(***************************************************************************)
(* Fibers live one at a time on the carrier, and one that is woken, or has *)
(* run out of time, gets its turn as long as there is a carrier: the queue *)
(* is first come, first served and the stale entries run out.  The carrier *)
(* goes in a shutdown, when no fiber lives.                                *)
(***************************************************************************)
Abstract == INSTANCE CooperativeFibers WITH
  status <- [f \in Fibers |-> Status(f)],
  open <- carrier \notin {"off", "ended"},
  stopping <- shuttingDown

ImplementsCooperativeFibers == Abstract!FairSpec
=============================================================================
