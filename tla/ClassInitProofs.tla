-------------------------- MODULE ClassInitProofs --------------------------
(***************************************************************************)
(* Proofs about FiberScheduler, for any finite set of fibers, any threads  *)
(* that wake them and any length of the queue.                             *)
(*                                                                         *)
(* CarrierAwake needs RunnableInQueue: the carrier sleeps after it has     *)
(* seen every entry, so a fiber without one would be slept past.  It also  *)
(* needs that the fiber on the carrier is not parked, though it may be     *)
(* runnable already, woken while it still runs, or erased by a shutdown;   *)
(* and that until a shutdown no fiber is started without a carrier.        *)
(*                                                                         *)
(* Proofs about ClassInit, for any threads, host threads or fibers, and    *)
(* any classes with any supers.                                            *)
(*                                                                         *)
(* Only three steps touch the tables of classes and the calls of           *)
(* ensure_initialized: Claim, FindReady and Finish.  That Finish disowns   *)
(* exactly the class whose call it ends needs that a thread is never twice *)
(* inside the same class; that a class is not initialized again needs that *)
(* the owned ones are neither initialized nor erroneous.  The others are   *)
(* steps of the scheduler, or leave it alone, so what is proved of the     *)
(* scheduler holds here too.                                               *)
(***************************************************************************)
EXTENDS ClassInit, FiniteSetTheorems, TLAPS

ResumedIsLive ==
  resumed # NoFiber => fiberState[resumed] \in {"running", "runnable", "finished"}

NoneWithoutCarrier ==
  carrier \in {"off", "ended"} /\ ~shuttingDown =>
    /\ carrier = "off" /\ ~carrierStarted
    /\ \A f \in Fibers : fiberState[f] = "absent"

QueueInv ==
  TypeOK /\ RunnableInQueue /\ ResumedIsLive /\ CarrierAwake /\ NoneWithoutCarrier

\* Next without the bound on the length of the queue, which only keeps the
\* runs finite.
AnyWakeup(w) ==
  \/ \E reason \in Reasons : ListParked(w, reason)
  \/ ListAll(w)
  \/ \E f \in Fibers : WakeListed(w, f) \/ Wake(f)

AnyNext ==
  \/ \E f \in Fibers : EnsureCarrier(f) \/ Launch(f) \/ Leave(f) \/ DeadlinePasses(f)
  \/ \E w \in Wakers : AnyWakeup(w)
  \/ Resume \/ FindNothing
  \/ BeginShutdown \/ RouseCarrier \/ JoinCarrier \/ ClearFibers

LEMMA ExpiredFinite ==
  ASSUME TypeOK
  PROVE  Expired \subseteq Fibers /\ Cardinality(Expired) \in Nat
<1>1. Expired \subseteq Fibers
  BY DEF Expired
<1>2. IsFiniteSet(Expired)
  BY <1>1, FS_Subset, FibersAssumption
<1>3. QED
  BY <1>1, <1>2, FS_CardinalityType

\* An order of a set of fibers is a sequence with an entry for each of them.
LEMMA OrdersAreSequences ==
  ASSUME NEW S, S \subseteq Fibers, Cardinality(S) \in Nat, NEW q \in Orders(S)
  PROVE  /\ q \in Seq(Fibers)
         /\ \A f \in S : \E i \in 1..Len(q) : q[i] = f
<1>1. q \in [1..Cardinality(S) -> Fibers]
  BY DEF Orders
<1>2. q \in Seq(Fibers)
  BY <1>1
<1>3. DOMAIN q = 1..Len(q)
  BY <1>2
<1>4. QED
  BY <1>2, <1>3 DEF Orders

\* What is added at the end of the queue leaves the older entries in place.
LEMMA PushedEntries ==
  ASSUME TypeOK, RunnableInQueue, NEW f \in Fibers
  PROVE  /\ Pushed(f) \in Seq(Fibers)
         /\ \E i \in 1..Len(Pushed(f)) : Pushed(f)[i] = f
         /\ \A g \in Fibers : InQueue(g) =>
              \E i \in 1..Len(Pushed(f)) : Pushed(f)[i] = g
<1>1. CASE queued[f]
  BY <1>1 DEF TypeOK, RunnableInQueue, InQueue, Pushed
<1>2. CASE ~queued[f]
  <2> DEFINE q == Append(runnableQueue, f)
  <2>1. Pushed(f) = q
    BY <1>2 DEF Pushed
  <2>2. /\ q \in Seq(Fibers) /\ Len(q) = Len(runnableQueue) + 1
        /\ q[Len(q)] = f /\ Len(runnableQueue) \in Nat
        /\ \A i \in 1..Len(runnableQueue) : q[i] = runnableQueue[i]
    BY DEF TypeOK
  <2>3. \E i \in 1..Len(q) : q[i] = f
    BY <2>2
  <2>4. ASSUME NEW g \in Fibers, InQueue(g)
        PROVE  \E i \in 1..Len(q) : q[i] = g
    <3>1. PICK i \in 1..Len(runnableQueue) : runnableQueue[i] = g
      BY <2>4 DEF InQueue
    <3>2. i \in 1..Len(q) /\ q[i] = g
      BY <3>1, <2>2
    <3>3. QED
      BY <3>2
  <2>5. QED
    BY <2>1, <2>2, <2>3, <2>4
<1>3. QED
  BY <1>1, <1>2

\* enqueue_fiber keeps the queue right, whoever calls it.
LEMMA EnqueueKeepsQueue ==
  ASSUME TypeOK, RunnableInQueue, NEW f \in Fibers, EnqueueFiber(f)
  PROVE  /\ fiberState' \in [Fibers -> FiberStates]
         /\ fiberDeadline' \in [Fibers -> {"none", "pending", "expired"}]
         /\ queued' \in [Fibers -> BOOLEAN]
         /\ runnableQueue' \in Seq(Fibers)
         /\ carrier' \in {"off", "scanning", "ended"}
         /\ carrier' # "scanning" => carrier' = carrier
         /\ RunnableInQueue'
<1>1. /\ fiberState' = [fiberState EXCEPT ![f] = "runnable"]
      /\ fiberDeadline' = [fiberDeadline EXCEPT ![f] = "none"]
      /\ runnableQueue' = Pushed(f)
      /\ queued' = [queued EXCEPT ![f] = TRUE]
      /\ carrier' = Roused
  BY DEF EnqueueFiber, EnqueueRouses
<1>2. /\ fiberState' \in [Fibers -> FiberStates]
      /\ fiberDeadline' \in [Fibers -> {"none", "pending", "expired"}]
      /\ queued' \in [Fibers -> BOOLEAN]
      /\ carrier' \in {"off", "scanning", "ended"}
      /\ carrier' # "scanning" => carrier' = carrier
  BY <1>1 DEF TypeOK, FiberStates, Roused
<1>3. \A g \in Fibers : g = f \/ InQueue(g) => InQueue(g)'
  BY <1>1, PushedEntries DEF InQueue
<1>4. \A g \in Fibers : g # f =>
        fiberState'[g] = fiberState[g] /\ queued'[g] = queued[g]
  BY <1>1 DEF TypeOK
<1>5. RunnableInQueue'
  BY <1>3, <1>4 DEF RunnableInQueue
<1>6. QED
  BY <1>1, <1>2, <1>5, PushedEntries

LEMMA InitQueueInv == Init => QueueInv
<1> SUFFICES ASSUME Init PROVE QueueInv
  OBVIOUS
<1>1. TypeOK
  <2>1. /\ fiberState \in [Fibers -> FiberStates]
        /\ parkState \in [Fibers -> Reasons \cup {"runnable"}]
        /\ fiberDeadline \in [Fibers -> {"none", "pending", "expired"}]
        /\ queued \in [Fibers -> BOOLEAN]
    BY DEF Init, FiberStates
  <2>2. runnableQueue \in Seq(Fibers)
    BY DEF Init
  <2>3. /\ resumed \in Fibers \cup {NoFiber}
        /\ carrier \in {"off", "scanning", "asleep", "ended"}
        /\ wakeList \in [Wakers -> SUBSET Fibers]
        /\ carrierStarted \in BOOLEAN
        /\ shutdown \in {"idle", "begun", "joined", "over"}
    BY DEF Init
  <2>4. QED
    BY <2>1, <2>2, <2>3 DEF TypeOK
<1>2. RunnableInQueue /\ ResumedIsLive /\ CarrierAwake /\ NoneWithoutCarrier
  BY DEF Init, RunnableInQueue, ResumedIsLive, CarrierAwake, Live,
         NoneWithoutCarrier
<1>3. QED
  BY <1>1, <1>2 DEF QueueInv

\* A step that enqueues a fiber and leaves the carrier's own variable alone.
LEMMA WakeKeepsQueueInv ==
  ASSUME QueueInv, NEW f \in Fibers, EnqueueFiber(f),
         resumed' = resumed, UNCHANGED startVars,
         wakeList' \in [Wakers -> SUBSET Fibers]
  PROVE  QueueInv'
<1>1. /\ parkState' = parkState /\ f \in Live
      /\ fiberState' = [fiberState EXCEPT ![f] = "runnable"]
      /\ UNCHANGED <<carrierStarted, shutdown>> /\ shuttingDown' = shuttingDown
  BY DEF EnqueueFiber, startVars, shuttingDown
<1>2. TypeOK' /\ RunnableInQueue'
  BY <1>1, EnqueueKeepsQueue DEF QueueInv, TypeOK
<1>3. ResumedIsLive'
  BY <1>1 DEF QueueInv, ResumedIsLive, TypeOK
<1>4. carrier' # "asleep" /\ (carrier' # "scanning" => carrier' = carrier)
  BY EnqueueKeepsQueue DEF QueueInv
<1>5. \A g \in Fibers : (g \in Live)' <=> g \in Live
  BY <1>1 DEF Live, QueueInv, TypeOK
<1>6. CarrierAwake'
  BY <1>1, <1>4, <1>5 DEF CarrierAwake, QueueInv, TypeOK, Live
<1>7. NoneWithoutCarrier'
  BY <1>1, <1>4 DEF NoneWithoutCarrier, QueueInv, TypeOK, Live
<1>8. QED
  BY <1>2, <1>3, <1>6, <1>7 DEF QueueInv

\* Whoever is on the carrier, the carrier is there and not asleep.
LEMMA CarrierRuns ==
  ASSUME QueueInv, NEW f \in Fibers, resumed = f
  PROVE  carrier = "scanning" /\ f # NoFiber
BY FibersAssumption DEF QueueInv, CarrierAwake, TypeOK

LEMMA YieldKeepsQueueInv ==
  ASSUME QueueInv, NEW f \in Fibers, YieldFiber(f)
  PROVE  QueueInv'
<1>1. /\ resumed' = NoFiber /\ parkState' = parkState
      /\ UNCHANGED <<wakeList, carrierStarted, shutdown>>
  BY DEF YieldFiber, EnqueueFiber, startVars, controlVars
<1>2. carrier = "scanning" /\ carrier' = "scanning"
  <2>1. carrier = "scanning"
    BY CarrierRuns DEF YieldFiber
  <2>2. QED
    BY <2>1 DEF YieldFiber, EnqueueFiber, EnqueueRouses, Roused
<1>3. TypeOK' /\ RunnableInQueue'
  <2>1. CASE EnqueueFiber(f)
    BY <1>1, <2>1, EnqueueKeepsQueue DEF QueueInv, TypeOK
  <2>2. CASE UNCHANGED <<controlVars, carrier>>
    BY <1>1, <2>2 DEF QueueInv, TypeOK, RunnableInQueue, InQueue, controlVars
  <2>3. QED
    BY <2>1, <2>2 DEF YieldFiber
<1>4. QED
  BY <1>1, <1>2, <1>3
     DEF QueueInv, ResumedIsLive, CarrierAwake, NoneWithoutCarrier

LEMMA EnsureKeepsQueueInv ==
  ASSUME QueueInv, NEW f \in Fibers, EnsureCarrier(f)
  PROVE  QueueInv'
<1>1. /\ fiberState[f] = "absent"
      /\ fiberState' = [fiberState EXCEPT ![f] = "starting"]
      /\ \/ carrier' = carrier /\ carrierStarted
         \/ carrier = "off" /\ carrier' = "scanning"
      /\ carrierStarted' \in BOOLEAN
      /\ UNCHANGED <<parkState, fiberDeadline, queued, runnableQueue, resumed,
                     wakeList, shutdown>>
  <2>1. carrierStarted' \in BOOLEAN
    BY DEF EnsureCarrier
  <2>2. \/ carrier' = carrier /\ carrierStarted
        \/ carrier = "off" /\ carrier' = "scanning"
    BY DEF EnsureCarrier
  <2>3. QED
    BY <2>1, <2>2 DEF EnsureCarrier
<1>2. TypeOK'
  BY <1>1 DEF QueueInv, TypeOK, FiberStates
<1>3. RunnableInQueue'
  BY <1>1 DEF RunnableInQueue, InQueue, QueueInv, TypeOK
<1>4. ResumedIsLive'
  BY <1>1 DEF QueueInv, ResumedIsLive, TypeOK
<1>5. \A g \in Fibers : /\ (g \in Live)' <=> g \in Live
                        /\ g \in Live => fiberState'[g] = fiberState[g]
  BY <1>1 DEF Live, QueueInv, TypeOK
<1>6. \A g \in Fibers : Resumable(g)' <=> Resumable(g)
  BY <1>1 DEF Resumable, Expired, QueueInv, TypeOK
<1>7. shuttingDown' = shuttingDown
  BY <1>1 DEF shuttingDown
<1>8. Live \subseteq Fibers /\ Live' \subseteq Fibers
  BY DEF Live
<1>9. CarrierAwake'
  BY <1>1, <1>5, <1>6, <1>7, <1>8 DEF CarrierAwake, QueueInv
<1>10. NoneWithoutCarrier'
  BY <1>1, <1>7 DEF NoneWithoutCarrier, QueueInv
<1>11. QED
  BY <1>2, <1>3, <1>4, <1>9, <1>10 DEF QueueInv

\* A fiber launched without a carrier is runnable, and a shutdown has begun.
LEMMA LaunchKeepsQueueInv ==
  ASSUME QueueInv, NEW f \in Fibers, Launch(f)
  PROVE  QueueInv'
<1>1. /\ fiberState[f] = "starting"
      /\ fiberState' = [fiberState EXCEPT ![f] = "runnable"]
      /\ runnableQueue' = Pushed(f)
      /\ queued' = [queued EXCEPT ![f] = TRUE]
      /\ carrier' \in {"off", "scanning", "ended"}
      /\ carrier' # "scanning" => carrier' = carrier
      /\ UNCHANGED <<parkState, fiberDeadline, resumed, wakeList,
                     carrierStarted, shutdown>>
      /\ shuttingDown' = shuttingDown
  BY DEF Launch, EnqueueRouses, Roused, QueueInv, TypeOK, startVars, shuttingDown
<1>2. TypeOK'
  BY <1>1, PushedEntries DEF QueueInv, TypeOK, FiberStates
<1>3. \A g \in Fibers : g = f \/ InQueue(g) => InQueue(g)'
  <2>1. runnableQueue' = Pushed(f)
    BY <1>1
  <2>2. QED
    BY <2>1, PushedEntries DEF InQueue, QueueInv
<1>4. RunnableInQueue'
  BY <1>1, <1>3 DEF RunnableInQueue, QueueInv, TypeOK
<1>5. ResumedIsLive'
  BY <1>1 DEF QueueInv, ResumedIsLive, TypeOK
<1>6. carrier' # "scanning" => shuttingDown
  BY <1>1 DEF QueueInv, NoneWithoutCarrier
<1>7. CarrierAwake'
  BY <1>1, <1>6 DEF QueueInv, CarrierAwake, Live, TypeOK
<1>8. NoneWithoutCarrier'
  BY <1>1, <1>6 DEF NoneWithoutCarrier
<1>9. QED
  BY <1>2, <1>4, <1>5, <1>7, <1>8 DEF QueueInv

\* The fiber on the carrier gives it up without asking for it again.
LEMMA LeaveKeepsQueueInv ==
  ASSUME QueueInv, NEW f \in Fibers,
         \/ \E reason \in Reasons, deadline \in {"none", "pending"} :
              ParkFiber(f, reason, deadline)
         \/ FinishFiber(f)
  PROVE  QueueInv'
<1>1. PICK s \in {"parked", "finished"} :
        fiberState' = [fiberState EXCEPT ![f] = s]
  BY DEF ParkFiber, FinishFiber
<1>2. /\ resumed = f /\ resumed' = NoFiber
      /\ queued' = [queued EXCEPT ![f] = FALSE]
      /\ UNCHANGED <<runnableQueue, carrier, wakeList, carrierStarted, shutdown>>
  BY DEF ParkFiber, FinishFiber, startVars
<1>3. /\ parkState' \in [Fibers -> Reasons \cup {"runnable"}]
      /\ fiberDeadline' \in [Fibers -> {"none", "pending", "expired"}]
  <2>1. CASE FinishFiber(f)
    BY <2>1 DEF FinishFiber, QueueInv, TypeOK
  <2>2. ASSUME NEW reason \in Reasons, NEW deadline \in {"none", "pending"},
               ParkFiber(f, reason, deadline)
        PROVE  <1>3!1 /\ <1>3!2
    BY <2>2 DEF ParkFiber, QueueInv, TypeOK
  <2>3. QED
    BY <2>1, <2>2
<1>4. TypeOK'
  BY <1>1, <1>2, <1>3 DEF QueueInv, TypeOK, FiberStates
<1>5. RunnableInQueue'
  BY <1>1, <1>2 DEF QueueInv, TypeOK, RunnableInQueue, InQueue
<1>6. ResumedIsLive'
  BY <1>2 DEF ResumedIsLive
<1>7. CarrierAwake' /\ NoneWithoutCarrier'
  <2>1. carrier' = "scanning"
    BY <1>2, CarrierRuns
  <2>2. QED
    BY <2>1 DEF CarrierAwake, NoneWithoutCarrier
<1>8. QED
  BY <1>4, <1>5, <1>6, <1>7 DEF QueueInv

LEMMA DeadlineKeepsQueueInv ==
  ASSUME QueueInv, NEW f \in Fibers, DeadlinePasses(f)
  PROVE  QueueInv'
<1>1. /\ fiberDeadline' = [fiberDeadline EXCEPT ![f] = "expired"]
      /\ carrier' # "asleep"
      /\ carrier' \in {"off", "scanning", "ended"}
      /\ carrier' # "scanning" => carrier' = carrier
      /\ UNCHANGED <<fiberState, parkState, queued, runnableQueue, resumed,
                     wakeList, carrierStarted, shutdown>>
  BY DEF DeadlinePasses, Roused, QueueInv, TypeOK, startVars
<1>2. TypeOK' /\ RunnableInQueue' /\ ResumedIsLive'
  BY <1>1 DEF QueueInv, TypeOK, RunnableInQueue, InQueue, ResumedIsLive
<1>3. CarrierAwake' /\ NoneWithoutCarrier'
  BY <1>1 DEF QueueInv, CarrierAwake, NoneWithoutCarrier, Live, shuttingDown
<1>4. QED
  BY <1>2, <1>3 DEF QueueInv

\* A step of the wakers' lists, the shutdown or the carrier alone.
LEMMA QuietStepKeepsQueueInv ==
  ASSUME QueueInv, UNCHANGED <<controlVars, resumed, carrierStarted>>,
         wakeList' \in [Wakers -> SUBSET Fibers],
         shutdown' \in {"idle", "begun", "joined", "over"},
         shuttingDown => shuttingDown',
         \/ carrier' = carrier \/ carrier' = "scanning"
         \/ carrier \in {"off", "ended"} /\ carrier' = "off"
  PROVE  QueueInv'
<1>1. UNCHANGED <<fiberState, parkState, fiberDeadline, queued,
                  runnableQueue, resumed, carrierStarted>>
  BY DEF controlVars
<1>2. TypeOK' /\ RunnableInQueue' /\ ResumedIsLive'
  BY <1>1 DEF QueueInv, TypeOK, RunnableInQueue, InQueue, ResumedIsLive
<1>3. CarrierAwake'
  BY <1>1 DEF QueueInv, CarrierAwake, Live, Resumable, Expired
<1>4. NoneWithoutCarrier'
  BY <1>1 DEF QueueInv, NoneWithoutCarrier
<1>5. QED
  BY <1>2, <1>3, <1>4 DEF QueueInv

\* Nobody is left in the queue: those who had a control are finished.
LEMMA ClearKeepsQueueInv ==
  ASSUME QueueInv, ClearFibers
  PROVE  QueueInv'
<1>1. /\ fiberState' = [f \in Fibers |->
           IF f \in Live THEN "finished" ELSE fiberState[f]]
      /\ fiberDeadline' = [f \in Fibers |-> "none"]
      /\ queued' = [f \in Fibers |-> FALSE]
      /\ runnableQueue' = <<>> /\ carrierStarted' = FALSE
      /\ shutdown' = "over" /\ shutdown = "joined"
      /\ UNCHANGED <<parkState, resumed, carrier, wakeList>>
  BY DEF ClearFibers
<1>2. TypeOK'
  <2>1. fiberState' \in [Fibers -> FiberStates]
    BY <1>1 DEF QueueInv, TypeOK, FiberStates
  <2>2. /\ fiberDeadline' \in [Fibers -> {"none", "pending", "expired"}]
        /\ queued' \in [Fibers -> BOOLEAN]
        /\ runnableQueue' \in Seq(Fibers)
    BY <1>1
  <2>3. QED
    BY <1>1, <2>1, <2>2 DEF QueueInv, TypeOK
<1>3. \A f \in Fibers : fiberState'[f] \in {"absent", "starting", "finished"}
  BY <1>1 DEF Live
<1>4. RunnableInQueue'
  BY <1>1, <1>3 DEF RunnableInQueue
<1>5. ResumedIsLive'
  BY <1>1 DEF QueueInv, ResumedIsLive, TypeOK, Live
<1>6. CarrierAwake'
  BY <1>1, <1>3 DEF QueueInv, CarrierAwake, Live, Resumable, Expired
<1>7. NoneWithoutCarrier'
  BY <1>1 DEF NoneWithoutCarrier, shuttingDown
<1>8. QED
  BY <1>2, <1>4, <1>5, <1>6, <1>7 DEF QueueInv

-----------------------------------------------------------------------------
\* The carrier sleeps or ends after it has popped every entry: each fiber
\* with one turned out not to be runnable, and there are no others.
LEMMA FindNothingKeepsQueueInv ==
  ASSUME QueueInv, FindNothing
  PROVE  QueueInv'
<1>1. /\ carrier = "scanning" /\ resumed = NoFiber /\ Expired = {}
      /\ \A i \in 1..Len(runnableQueue) : ~Resumable(runnableQueue[i])
      /\ runnableQueue' = <<>>
      /\ queued' = [f \in Fibers |->
           queued[f] /\ f \notin Popped(runnableQueue, Len(runnableQueue))]
      /\ carrier' = IF MayLeave THEN "ended" ELSE "asleep"
      /\ UNCHANGED <<fiberState, parkState, fiberDeadline, resumed, wakeList,
                     carrierStarted, shutdown>>
  BY DEF FindNothing, startVars
<1>2. TypeOK'
  BY <1>1 DEF QueueInv, TypeOK
<1>3. \A f \in Fibers : ~Resumable(f)
  BY <1>1 DEF QueueInv, RunnableInQueue, InQueue, Resumable
<1>4. \A f \in Fibers : ~queued'[f]
  BY <1>1 DEF QueueInv, RunnableInQueue, InQueue, Popped
<1>5. RunnableInQueue'
  BY <1>1, <1>3, <1>4 DEF RunnableInQueue, Resumable
<1>6. \A f \in Fibers : Resumable(f)' = Resumable(f)
  BY <1>1 DEF Resumable, Expired
<1>7. CarrierAwake' /\ NoneWithoutCarrier'
  BY <1>1, <1>3, <1>6
     DEF CarrierAwake, NoneWithoutCarrier, MayLeave, Live, shuttingDown
<1>8. QED
  BY <1>1, <1>2, <1>5, <1>7 DEF QueueInv, ResumedIsLive

\* What is left of a sequence after its first n entries.
LEMMA RestOfQueue ==
  ASSUME NEW q \in Seq(Fibers), NEW n \in 1..Len(q)
  PROVE  /\ SubSeq(q, n + 1, Len(q)) \in Seq(Fibers)
         /\ \A i \in 1..Len(q) : i > n =>
              \E k \in 1..Len(SubSeq(q, n + 1, Len(q))) :
                SubSeq(q, n + 1, Len(q))[k] = q[i]
<1>1. /\ SubSeq(q, n + 1, Len(q)) \in Seq(Fibers)
      /\ Len(SubSeq(q, n + 1, Len(q))) = Len(q) - n
      /\ \A k \in 1..(Len(q) - n) : SubSeq(q, n + 1, Len(q))[k] = q[n + k]
  OBVIOUS
<1>2. ASSUME NEW i \in 1..Len(q), i > n
      PROVE  i - n \in 1..(Len(q) - n) /\ n + (i - n) = i
  BY <1>2
<1>3. QED
  BY <1>1, <1>2

\* Resume, for one order of the expired fibers and one entry of the queue.
Taken(q, n) ==
  /\ Resumable(q[n])
  /\ \A i \in 1..(n - 1) : ~Resumable(q[i])
  /\ resumed' = q[n]
  /\ fiberState' = [f \in Fibers |->
       CASE f = q[n] -> "running"
         [] f # q[n] /\ f \in Expired -> "runnable"
         [] OTHER -> fiberState[f]]
  /\ queued' = [f \in Fibers |->
       (queued[f] \/ f \in Expired) /\ f \notin Popped(q, n)]
  /\ runnableQueue' = SubSeq(q, n + 1, Len(q))

\* The entry the carrier takes is one of a sequence that holds the whole
\* queue and the fibers whose deadline has passed.
LEMMA ResumeTakes ==
  ASSUME QueueInv, Resume
  PROVE  \E q \in Seq(Fibers), n \in Nat :
           /\ n \in 1..Len(q) /\ Taken(q, n)
           /\ \A f \in Fibers : InQueue(f) \/ f \in Expired =>
                \E i \in 1..Len(q) : q[i] = f
<1>0. PICK order \in Orders(Expired) :
        \E n \in 1..Len(runnableQueue \o order) :
          Taken(runnableQueue \o order, n)
  BY DEF Resume, Taken
<1> DEFINE q == runnableQueue \o order
<1>1. PICK n \in 1..Len(q) : Taken(q, n)
  BY <1>0
<1>2. order \in Seq(Fibers) /\ \A f \in Expired : \E i \in 1..Len(order) : order[i] = f
  BY ExpiredFinite, OrdersAreSequences DEF QueueInv
<1>3. /\ q \in Seq(Fibers) /\ n \in 1..Len(q)
      /\ \A i \in 1..Len(runnableQueue) : i \in 1..Len(q) /\ q[i] = runnableQueue[i]
      /\ \A j \in 1..Len(order) :
           Len(runnableQueue) + j \in 1..Len(q)
           /\ q[Len(runnableQueue) + j] = order[j]
  BY <1>2 DEF QueueInv, TypeOK
<1>4. \A f \in Fibers : InQueue(f) \/ f \in Expired =>
        \E i \in 1..Len(q) : q[i] = f
  <2>1. ASSUME NEW f \in Fibers, InQueue(f)
        PROVE  \E i \in 1..Len(q) : q[i] = f
    BY <2>1, <1>3 DEF InQueue
  <2>2. ASSUME NEW f \in Expired
        PROVE  \E i \in 1..Len(q) : q[i] = f
    <3>1. PICK j \in 1..Len(order) : order[j] = f
      BY <1>2
    <3>2. QED
      BY <3>1, <1>3
  <2>3. QED
    BY <2>1, <2>2
<1>5. n \in Nat /\ n \in 1..Len(q) /\ q \in Seq(Fibers)
  BY <1>3
<1> HIDE DEF q
<1>6. QED
  BY <1>1, <1>4, <1>5

\* The carrier takes the first entry that can run; the entries before it
\* are of fibers that cannot, so the others that can have one behind it.
LEMMA ResumeKeepsQueueInv ==
  ASSUME QueueInv, Resume
  PROVE  QueueInv'
<1>1. PICK q \in Seq(Fibers), n \in Nat :
        /\ n \in 1..Len(q) /\ Taken(q, n)
        /\ \A f \in Fibers : InQueue(f) \/ f \in Expired =>
             \E i \in 1..Len(q) : q[i] = f
  BY ResumeTakes
<1>2. /\ carrier' = "scanning"
      /\ fiberDeadline' = [f \in Fibers |->
           IF f \in Expired THEN "none" ELSE fiberDeadline[f]]
      /\ UNCHANGED <<parkState, wakeList, carrierStarted, shutdown>>
  BY DEF Resume, startVars
<1>4. /\ Resumable(q[n])
      /\ \A i \in 1..(n - 1) : ~Resumable(q[i])
      /\ resumed' = q[n]
      /\ fiberState' = [f \in Fibers |->
           CASE f = q[n] -> "running"
             [] f # q[n] /\ f \in Expired -> "runnable"
             [] OTHER -> fiberState[f]]
      /\ queued' = [f \in Fibers |->
           (queued[f] \/ f \in Expired) /\ f \notin Popped(q, n)]
      /\ runnableQueue' = SubSeq(q, n + 1, Len(q))
  BY <1>1 DEF Taken
<1>3. n \in 1..Len(q)
  BY <1>1
<1>5. /\ runnableQueue' \in Seq(Fibers)
      /\ \A i \in 1..Len(q) : i > n =>
           \E k \in 1..Len(runnableQueue') : runnableQueue'[k] = q[i]
  BY <1>3, <1>4, RestOfQueue
<1>6. q[n] \in Fibers
  BY <1>3
<1>7. TypeOK'
  <2>1. /\ fiberState' \in [Fibers -> FiberStates]
        /\ fiberDeadline' \in [Fibers -> {"none", "pending", "expired"}]
    BY <1>2, <1>4 DEF QueueInv, TypeOK, FiberStates
  <2>2. queued' \in [Fibers -> BOOLEAN]
    BY <1>4
  <2>3. QED
    BY <1>2, <1>4, <1>5, <1>6, <2>1, <2>2 DEF QueueInv, TypeOK
<1>8. \A f \in Fibers : fiberState'[f] = "runnable" => InQueue(f)'
  <2> SUFFICES ASSUME NEW f \in Fibers, fiberState'[f] = "runnable"
               PROVE  InQueue(f)'
    OBVIOUS
  <2>1. f # q[n] /\ (f \in Expired \/ fiberState[f] = "runnable")
    BY <1>4
  <2>2. Resumable(f)
    BY <2>1 DEF Resumable
  <2>3. PICK i \in 1..Len(q) : q[i] = f
    BY <2>1, <1>1 DEF QueueInv, RunnableInQueue
  <2>4. i > n
    BY <1>1, <1>4, <2>1, <2>2, <2>3
  <2>5. QED
    BY <1>5, <2>3, <2>4 DEF InQueue
<1>9. \A f \in Fibers : queued'[f] => InQueue(f)'
  <2> SUFFICES ASSUME NEW f \in Fibers, queued'[f]
               PROVE  InQueue(f)'
    OBVIOUS
  <2>1. (queued[f] \/ f \in Expired) /\ f \notin Popped(q, n)
    BY <1>4
  <2>2. PICK i \in 1..Len(q) : q[i] = f
    BY <2>1, <1>1 DEF QueueInv, RunnableInQueue
  <2>3. i > n
    BY <1>1, <2>1, <2>2 DEF Popped
  <2>4. QED
    BY <1>5, <2>2, <2>3 DEF InQueue
<1>10. ResumedIsLive' /\ CarrierAwake' /\ NoneWithoutCarrier'
  BY <1>2, <1>4, <1>6 DEF ResumedIsLive, CarrierAwake, NoneWithoutCarrier
<1>11. QED
  BY <1>7, <1>8, <1>9, <1>10 DEF QueueInv, RunnableInQueue

-----------------------------------------------------------------------------
LEMMA WakeupKeepsQueueInv ==
  ASSUME QueueInv, NEW w \in Wakers, AnyWakeup(w)
  PROVE  QueueInv'
<1>1. ASSUME NEW reason \in Reasons, ListParked(w, reason)
      PROVE  QueueInv'
  <2>1. /\ UNCHANGED <<controlVars, resumed, carrier, carrierStarted, shutdown>>
        /\ wakeList' \in [Wakers -> SUBSET Fibers]
    BY <1>1 DEF ListParked, fiberVars, startVars, QueueInv, TypeOK
  <2>2. QED
    BY <2>1, QuietStepKeepsQueueInv DEF QueueInv, TypeOK, shuttingDown
<1>2. CASE ListAll(w)
  <2>1. /\ UNCHANGED <<controlVars, resumed, carrier, carrierStarted, shutdown>>
        /\ wakeList' \in [Wakers -> SUBSET Fibers]
    BY <1>2 DEF ListAll, Live, fiberVars, startVars, QueueInv, TypeOK
  <2>2. QED
    BY <2>1, QuietStepKeepsQueueInv DEF QueueInv, TypeOK, shuttingDown
<1>3. ASSUME NEW f \in Fibers, WakeListed(w, f)
      PROVE  QueueInv'
  <2>1. wakeList' \in [Wakers -> SUBSET Fibers]
    BY <1>3 DEF WakeListed, QueueInv, TypeOK
  <2>2. CASE EnqueueFiber(f) /\ UNCHANGED <<resumed, startVars>>
    BY <2>1, <2>2, WakeKeepsQueueInv
  <2>3. CASE UNCHANGED <<fiberVars, startVars>>
    BY <2>1, <2>3, QuietStepKeepsQueueInv
       DEF fiberVars, startVars, shuttingDown, QueueInv, TypeOK
  <2>4. QED
    BY <1>3, <2>2, <2>3 DEF WakeListed
<1>4. ASSUME NEW f \in Fibers, Wake(f)
      PROVE  QueueInv'
  BY <1>4, WakeKeepsQueueInv DEF Wake, QueueInv, TypeOK
<1>5. QED
  BY <1>1, <1>2, <1>3, <1>4 DEF AnyWakeup

LEMMA NextKeepsQueueInv == QueueInv /\ [AnyNext]_vars => QueueInv'
<1> SUFFICES ASSUME QueueInv, [AnyNext]_vars PROVE QueueInv'
  OBVIOUS
<1>1. ASSUME NEW f \in Fibers, EnsureCarrier(f) \/ Launch(f) PROVE QueueInv'
  BY <1>1, EnsureKeepsQueueInv, LaunchKeepsQueueInv
<1>2. ASSUME NEW f \in Fibers, Leave(f) PROVE QueueInv'
  BY <1>2, LeaveKeepsQueueInv, YieldKeepsQueueInv DEF Leave
<1>3. ASSUME NEW f \in Fibers, DeadlinePasses(f) PROVE QueueInv'
  BY <1>3, DeadlineKeepsQueueInv
<1>4. ASSUME NEW w \in Wakers, AnyWakeup(w) PROVE QueueInv'
  BY <1>4, WakeupKeepsQueueInv
<1>5. CASE Resume
  BY <1>5, ResumeKeepsQueueInv
<1>6. CASE FindNothing
  BY <1>6, FindNothingKeepsQueueInv
<1>7. CASE BeginShutdown \/ RouseCarrier \/ JoinCarrier
  BY <1>7, QuietStepKeepsQueueInv
     DEF BeginShutdown, RouseCarrier, JoinCarrier, Roused, fiberVars, startVars,
         shuttingDown, QueueInv, TypeOK
<1>8. CASE ClearFibers
  BY <1>8, ClearKeepsQueueInv
<1>9. CASE UNCHANGED vars
  BY <1>9, QuietStepKeepsQueueInv
     DEF vars, fiberVars, startVars, shuttingDown, QueueInv, TypeOK
<1>10. QED
  BY <1>1, <1>2, <1>3, <1>4, <1>5, <1>6, <1>7, <1>8, <1>9 DEF AnyNext

LEMMA NextIsAnyNext == [Next]_vars => [AnyNext]_vars
BY DEF Next, AnyNext, Wakeup, AnyWakeup

-----------------------------------------------------------------------------
\* TypeOK, and the shape of the carrier's queue, in every behaviour of
\* enqueue_fiber, park_current_fiber and fiber_carrier_loop.
THEOREM QueueCorrect == Spec => []QueueInv
<1>1. QueueInv /\ [Next]_vars => QueueInv'
  BY NextKeepsQueueInv, NextIsAnyNext
<1>2. QED
  BY <1>1, InitQueueInv, PTL DEF Spec

\* No fiber that is to run is missing from fiber_runnable_queue_, and no
\* queued flag stands without an entry.
THEOREM RunnableIsQueued == Spec => []RunnableInQueue
<1>1. QueueInv => RunnableInQueue
  BY DEF QueueInv
<1>2. QED
  BY <1>1, QueueCorrect, PTL

\* fiber_carrier_loop never waits on fiber_condition_ while a fiber can run.
\* It is missing only before there is a fiber, or when a shutdown has begun;
\* then no fiber is left running or parked, though one may be launched late.
THEOREM CarrierNeverOversleeps == Spec => []CarrierAwake
<1>1. QueueInv => CarrierAwake
  BY DEF QueueInv
<1>2. QED
  BY <1>1, QueueCorrect, PTL
-----------------------------------------------------------------------------
(***************************************************************************)
(* CooperativeFibers.  Its running fiber is the one on the carrier, so the *)
(* step that wakes the running fiber is a stutter; that a wake-up finds no *)
(* other fiber running needs RunningIsResumed.                             *)
(***************************************************************************)
RunningIsResumed ==
  \A f \in Fibers : fiberState[f] = "running" => resumed = f

FiberInv == QueueInv /\ RunningIsResumed

LEMMA RunningStaysResumed ==
  ASSUME FiberInv, [AnyNext]_vars
  PROVE  RunningIsResumed'
<1> USE DEF FiberInv, QueueInv, TypeOK, RunningIsResumed
<1>1. ASSUME NEW f \in Fibers, EnqueueFiber(f), resumed' = resumed \/ resumed = f
      PROVE  RunningIsResumed'
  BY <1>1 DEF EnqueueFiber
<1>2. ASSUME NEW f \in Fibers, EnsureCarrier(f) \/ Launch(f)
      PROVE  RunningIsResumed'
  BY <1>2 DEF EnsureCarrier, Launch
<1>3. ASSUME NEW f \in Fibers, Leave(f) PROVE RunningIsResumed'
  BY <1>1, <1>3, FibersAssumption
     DEF Leave, ParkFiber, YieldFiber, FinishFiber, Live, controlVars
<1>4. ASSUME NEW f \in Fibers, DeadlinePasses(f) PROVE RunningIsResumed'
  BY <1>4 DEF DeadlinePasses
<1>5. ASSUME NEW w \in Wakers, AnyWakeup(w) PROVE RunningIsResumed'
  BY <1>1, <1>5 DEF AnyWakeup, ListParked, ListAll, WakeListed, Wake, fiberVars,
                    controlVars
<1>6. CASE Resume
  <2>1. /\ resumed = NoFiber
        /\ \A f \in Fibers : fiberState'[f] = "running" =>
             resumed' = f \/ fiberState[f] = "running"
    BY <1>6 DEF Resume
  <2>2. QED
    BY <2>1, FibersAssumption
<1>7. CASE \/ FindNothing \/ BeginShutdown \/ RouseCarrier \/ JoinCarrier
          \/ ClearFibers \/ UNCHANGED vars
  BY <1>7 DEF FindNothing, BeginShutdown, RouseCarrier, JoinCarrier, ClearFibers,
              Live, vars, fiberVars, controlVars
<1>8. QED
  BY <1>2, <1>3, <1>4, <1>5, <1>6, <1>7 DEF AnyNext

\* What a fiber does for CooperativeFibers depends on its own control and on
\* who is on the carrier.
StatusMeans(f) ==
  /\ Status(f) = "running" <=> resumed = f
  /\ Status(f) = "ready" <=> resumed # f /\ Resumable(f)
  /\ Status(f) = "blocked" <=>
       resumed # f /\ fiberState[f] = "parked" /\ fiberDeadline[f] # "expired"
  /\ Status(f) = "absent" <=> fiberState[f] \in {"absent", "starting"}
  /\ Status(f) = "finished" <=> resumed # f /\ fiberState[f] = "finished"
  /\ Status(f) \in {"running", "ready", "blocked", "absent", "finished"}

LEMMA StatusOf == FiberInv => \A f \in Fibers : StatusMeans(f)
<1> SUFFICES ASSUME FiberInv, NEW f \in Fibers
             PROVE  StatusMeans(f)
  OBVIOUS
<1> USE DEF StatusMeans
<1>1. fiberState[f] \in FiberStates /\ (fiberState[f] = "running" => resumed = f)
  BY DEF FiberInv, QueueInv, TypeOK, RunningIsResumed
<1>2. resumed = f => fiberState[f] \in {"running", "runnable", "finished"}
  BY FibersAssumption DEF FiberInv, QueueInv, ResumedIsLive
<1>3. Resumable(f) <=>
        fiberState[f] = "runnable"
          \/ (fiberState[f] = "parked" /\ fiberDeadline[f] = "expired")
  BY DEF Resumable, Expired
<1>4. CASE resumed = f
  BY <1>1, <1>2, <1>4 DEF Status, FiberStates
<1>5. CASE resumed # f /\ Resumable(f)
  BY <1>1, <1>3, <1>5 DEF Status, FiberStates
<1>6. CASE resumed # f /\ ~Resumable(f) /\ fiberState[f] = "parked"
  BY <1>1, <1>3, <1>6 DEF Status, FiberStates
<1>7. CASE resumed # f /\ ~Resumable(f) /\ fiberState[f] # "parked"
  BY <1>1, <1>3, <1>7 DEF Status, FiberStates
<1>8. QED
  BY <1>4, <1>5, <1>6, <1>7

Opened == carrier \notin {"off", "ended"}

\* The steps of CooperativeFibers a single fiber takes, and the stutters.
LEMMA OneFiberSteps ==
  ASSUME NEW f \in Fibers, Opened' = Opened, shuttingDown' = shuttingDown,
         \A g \in Fibers \ {f} : Status(g)' = Status(g),
         \/ Status(f)' = Status(f)
         \/ Status(f) = "absent" /\ Status(f)' = "ready" /\ (Opened \/ shuttingDown)
         \/ Status(f) = "ready" /\ Status(f)' = "running" /\ Opened
              /\ \A g \in Fibers : Status(g) # "running"
         \/ Status(f) = "blocked" /\ Status(f)' = "ready"
         \/ Status(f) = "running" /\ Status(f)' \in {"ready", "blocked", "finished"}
  PROVE  [Abstract!Next]_(Abstract!schedulerVars)
<1> DEFINE st == [g \in Fibers |-> Status(g)]
<1>1. st' = [st EXCEPT ![f] = Status(f)']
  OBVIOUS
<1>2. Abstract!Become(f, Status(f)')
  BY <1>1 DEF Abstract!Become, Opened
<1>3. CASE Status(f)' = Status(f)
  BY <1>3 DEF Opened, Abstract!schedulerVars
<1>4. CASE Status(f) = "absent" /\ Status(f)' = "ready" /\ (Opened \/ shuttingDown)
  BY <1>2, <1>4 DEF Abstract!Next, Abstract!Arrive, Opened
<1>5. CASE Status(f) = "ready" /\ Status(f)' = "running" /\ Opened
             /\ \A g \in Fibers : Status(g) # "running"
  BY <1>2, <1>5 DEF Abstract!Next, Abstract!Run, Abstract!NoneRuns, Opened
<1>6. CASE Status(f) = "blocked" /\ Status(f)' = "ready"
  BY <1>2, <1>6 DEF Abstract!Next, Abstract!Unblock
<1>7. CASE Status(f) = "running" /\ Status(f)' \in {"ready", "blocked", "finished"}
  BY <1>2, <1>7 DEF Abstract!Next, Abstract!GiveUp
<1>8. QED
  BY <1>3, <1>4, <1>5, <1>6, <1>7

\* Those that leave the fibers alone: the scheduler opens, stops or closes.
LEMMA SchedulerSteps ==
  ASSUME \A g \in Fibers : Status(g)' = Status(g),
         \/ Opened' = Opened /\ shuttingDown' = shuttingDown
         \/ ~Opened /\ Opened' /\ shuttingDown' = shuttingDown
         \/ Opened' = Opened /\ ~shuttingDown /\ shuttingDown'
         \/ /\ Opened /\ ~Opened' /\ shuttingDown /\ shuttingDown'
            /\ \A g \in Fibers : Status(g) \in {"absent", "finished"}
  PROVE  [Abstract!Next]_(Abstract!schedulerVars)
<1>1. [g \in Fibers |-> Status(g)]' = [g \in Fibers |-> Status(g)]
  OBVIOUS
<1>2. CASE Opened' = Opened /\ shuttingDown' = shuttingDown
  BY <1>1, <1>2 DEF Abstract!schedulerVars, Opened
<1>3. CASE ~Opened /\ Opened' /\ shuttingDown' = shuttingDown
  BY <1>1, <1>3 DEF Abstract!Next, Abstract!Open, Opened
<1>4. CASE Opened' = Opened /\ ~shuttingDown /\ shuttingDown'
  BY <1>1, <1>4 DEF Abstract!Next, Abstract!Stop, Opened, shuttingDown
<1>5. CASE /\ Opened /\ ~Opened' /\ shuttingDown /\ shuttingDown'
           /\ \A g \in Fibers : Status(g) \in {"absent", "finished"}
  BY <1>1, <1>5 DEF Abstract!Next, Abstract!Close, Abstract!NoneLives, Opened,
                    shuttingDown
<1>6. QED
  BY <1>2, <1>3, <1>4, <1>5

LEMMA StepsAreAbstract ==
  ASSUME FiberInv, FiberInv', [AnyNext]_vars,
         \A f \in Fibers : StatusMeans(f), \A f \in Fibers : StatusMeans(f)'
  PROVE  [Abstract!Next]_(Abstract!schedulerVars)
<1> DEFINE Goal == [Abstract!Next]_(Abstract!schedulerVars)
           Alike(g) == /\ fiberState'[g] = fiberState[g]
                       /\ fiberDeadline'[g] = fiberDeadline[g]
                       /\ resumed' = g <=> resumed = g
<1>0. ASSUME NEW g \in Fibers, Alike(g) PROVE Status(g)' = Status(g)
  BY <1>0 DEF Status, Resumable, Expired
<1> HIDE DEF Goal
<1>1. ASSUME NEW f \in Fibers, EnqueueFiber(f), resumed' = resumed,
             UNCHANGED startVars
      PROVE  Goal
  <2>0. Opened' = Opened /\ shuttingDown' = shuttingDown
    BY <1>1 DEF EnqueueFiber, EnqueueRouses, Roused, Opened, startVars, shuttingDown
  <2>1. \A g \in Fibers \ {f} : Status(g)' = Status(g)
    BY <1>0, <1>1 DEF EnqueueFiber, FiberInv, QueueInv, TypeOK
  <2>2. CASE resumed = f
    <3>1. Status(f) = "running" /\ Status(f)' = "running"
      BY <1>1, <2>2 DEF StatusMeans
    <3>2. QED
      BY <2>0, <2>1, <3>1, OneFiberSteps DEF Goal
  <2>3. CASE resumed # f
    <3>1. fiberState'[f] = "runnable"
      BY <1>1 DEF EnqueueFiber, FiberInv, QueueInv, TypeOK
    <3>2. Status(f)' = "ready"
      BY <1>1, <2>3, <3>1 DEF StatusMeans, Resumable
    <3>3. fiberState[f] \notin {"absent", "starting", "finished"}
      BY <1>1 DEF EnqueueFiber, Live
    <3>4. Status(f) = "ready" \/ Status(f) = "blocked"
      BY <2>3, <3>3 DEF StatusMeans
    <3>5. QED
      BY <2>0, <2>1, <3>2, <3>4, OneFiberSteps DEF Goal
  <2>4. QED
    BY <2>2, <2>3
<1>2. ASSUME NEW f \in Fibers, Launch(f) PROVE Goal
  <2>0. Opened' = Opened /\ shuttingDown' = shuttingDown
    BY <1>2 DEF Launch, EnqueueRouses, Roused, Opened, startVars, shuttingDown
  <2>1. /\ fiberState[f] = "starting" /\ fiberState'[f] = "runnable"
        /\ resumed' = resumed
        /\ \A g \in Fibers \ {f} : Status(g)' = Status(g)
    BY <1>0, <1>2 DEF Launch, FiberInv, QueueInv, TypeOK
  <2>2. resumed # f
    BY <2>1, FibersAssumption DEF FiberInv, QueueInv, ResumedIsLive
  <2>3. Status(f) = "absent" /\ Status(f)' = "ready"
    BY <2>1, <2>2 DEF StatusMeans, Resumable
  <2>4. Opened \/ shuttingDown
    BY <2>1 DEF FiberInv, QueueInv, NoneWithoutCarrier, Opened
  <2>5. QED
    BY <2>0, <2>1, <2>3, <2>4, OneFiberSteps DEF Goal
<1>3. ASSUME NEW f \in Fibers, Leave(f) PROVE Goal
  <2>0. Opened' = Opened /\ shuttingDown' = shuttingDown
    BY <1>3 DEF Leave, ParkFiber, YieldFiber, EnqueueFiber, EnqueueRouses,
                Roused, FinishFiber, Opened, startVars, shuttingDown
  <2>1. /\ resumed = f /\ resumed' = NoFiber
        /\ \A g \in Fibers \ {f} : fiberState'[g] = fiberState[g]
                                     /\ fiberDeadline'[g] = fiberDeadline[g]
        /\ \/ fiberState'[f] \in {"runnable", "finished"}
           \/ fiberState'[f] = "parked" /\ fiberDeadline'[f] # "expired"
    <3>1. CASE YieldFiber(f) /\ f \notin Live /\ UNCHANGED <<controlVars, carrier>>
      <4>1. fiberState[f] = "finished"
        BY <3>1, FibersAssumption
           DEF YieldFiber, Live, FiberInv, QueueInv, ResumedIsLive
      <4>2. QED
        BY <3>1, <4>1 DEF YieldFiber, controlVars
    <3>2. CASE YieldFiber(f) /\ EnqueueFiber(f)
      BY <3>2 DEF YieldFiber, EnqueueFiber, FiberInv, QueueInv, TypeOK
    <3>3. CASE ~YieldFiber(f)
      BY <1>3, <3>3 DEF Leave, ParkFiber, FinishFiber, FiberInv, QueueInv, TypeOK
    <3>4. QED
      BY <3>1, <3>2, <3>3 DEF YieldFiber
  <2>2. \A g \in Fibers \ {f} : Status(g)' = Status(g)
    BY <1>0, <2>1, FibersAssumption
  <2>3. Status(f) = "running" /\ Status(f)' \in {"ready", "blocked", "finished"}
    BY <2>1, FibersAssumption DEF StatusMeans, Resumable
  <2>4. QED
    BY <2>0, <2>2, <2>3, OneFiberSteps DEF Goal
<1>4. ASSUME NEW f \in Fibers, DeadlinePasses(f) PROVE Goal
  <2>0. Opened' = Opened /\ shuttingDown' = shuttingDown
    BY <1>4 DEF DeadlinePasses, Roused, Opened, startVars, shuttingDown
  <2>1. /\ fiberState[f] = "parked" /\ fiberDeadline[f] = "pending"
        /\ fiberState' = fiberState /\ fiberDeadline'[f] = "expired"
        /\ resumed' = resumed
        /\ \A g \in Fibers \ {f} : Status(g)' = Status(g)
    BY <1>0, <1>4 DEF DeadlinePasses, FiberInv, QueueInv, TypeOK
  <2>2. resumed # f
    BY <2>1, FibersAssumption DEF FiberInv, QueueInv, ResumedIsLive
  <2>3. Status(f) = "blocked" /\ Status(f)' = "ready"
    BY <2>1, <2>2 DEF StatusMeans, Resumable, Expired
  <2>4. QED
    BY <2>0, <2>1, <2>3, OneFiberSteps DEF Goal
<1>5. ASSUME UNCHANGED <<fiberState, fiberDeadline, resumed>>
      PROVE  \A g \in Fibers : Status(g)' = Status(g)
  BY <1>0, <1>5
<1>6. ASSUME NEW f \in Fibers, EnsureCarrier(f) PROVE Goal
  <2>1. \A g \in Fibers : Status(g)' = Status(g)
    <3>1. /\ fiberState[f] = "absent" /\ fiberState'[f] = "starting"
          /\ \A g \in Fibers \ {f} : fiberState'[g] = fiberState[g]
          /\ fiberDeadline' = fiberDeadline /\ resumed' = resumed
      BY <1>6 DEF EnsureCarrier, FiberInv, QueueInv, TypeOK
    <3>2. \A g \in Fibers \ {f} : Status(g)' = Status(g)
      BY <1>0, <3>1
    <3>3. Status(f) = "absent" /\ Status(f)' = "absent"
      BY <3>1 DEF StatusMeans
    <3>4. QED
      BY <3>2, <3>3
  <2>2. shuttingDown' = shuttingDown /\ (Opened' = Opened \/ (~Opened /\ Opened'))
    BY <1>6 DEF EnsureCarrier, Opened, shuttingDown
  <2>3. QED
    BY <2>1, <2>2, SchedulerSteps DEF Goal
<1>7. ASSUME NEW w \in Wakers, AnyWakeup(w) PROVE Goal
  <2>1. ASSUME UNCHANGED <<fiberVars, startVars>> PROVE Goal
    <3>1. /\ UNCHANGED <<fiberState, fiberDeadline, resumed>>
          /\ Opened' = Opened /\ shuttingDown' = shuttingDown
      BY <2>1 DEF fiberVars, controlVars, startVars, Opened, shuttingDown
    <3>2. QED
      BY <1>5, <3>1, SchedulerSteps DEF Goal
  <2>2. QED
    BY <1>1, <1>7, <2>1 DEF AnyWakeup, ListParked, ListAll, WakeListed, Wake
<1>8. CASE Resume
  <2>0. Opened /\ Opened' /\ shuttingDown' = shuttingDown
    BY <1>8 DEF Resume, Opened, startVars, shuttingDown
  <2>1. PICK h \in Fibers :
          /\ resumed = NoFiber /\ resumed' = h /\ Resumable(h)
          /\ \A g \in Fibers \ {h} :
               fiberState'[g] = IF g \in Expired THEN "runnable" ELSE fiberState[g]
          /\ \A g \in Fibers : fiberDeadline'[g] =
               IF g \in Expired THEN "none" ELSE fiberDeadline[g]
    <3>1. PICK q \in Seq(Fibers), n \in Nat : n \in 1..Len(q) /\ Taken(q, n)
      BY <1>8, ResumeTakes DEF FiberInv
    <3>2. q[n] \in Fibers
      BY <3>1
    <3>3. QED
      BY <1>8, <3>1, <3>2 DEF Resume, Taken
  <2>2. \A g \in Fibers : resumed # g
    BY <2>1, FibersAssumption
  <2>3. ASSUME NEW g \in Fibers \ {h} PROVE Status(g)' = Status(g)
    <3>1. CASE g \in Expired
      BY <2>1, <2>2, <3>1 DEF StatusMeans, Resumable
    <3>2. CASE g \notin Expired
      BY <1>0, <2>1, <2>2, <3>2
    <3>3. QED
      BY <3>1, <3>2
  <2>4. /\ Status(h) = "ready" /\ Status(h)' = "running"
        /\ \A g \in Fibers : Status(g) # "running"
    BY <2>1, <2>2 DEF StatusMeans
  <2>5. QED
    BY <2>0, <2>3, <2>4, OneFiberSteps DEF Goal
<1>9. CASE FindNothing
  <2>1. /\ UNCHANGED <<fiberState, fiberDeadline, resumed>>
        /\ carrier = "scanning" /\ resumed = NoFiber
        /\ shuttingDown' = shuttingDown
        /\ \/ carrier' = "asleep"
           \/ carrier' = "ended" /\ shuttingDown /\ Live = {}
    <3>1. /\ UNCHANGED <<fiberState, fiberDeadline, resumed, shutdown>>
          /\ carrier = "scanning" /\ resumed = NoFiber
          /\ carrier' = IF MayLeave THEN "ended" ELSE "asleep"
      BY <1>9 DEF FindNothing, startVars
    <3>2. shuttingDown' = shuttingDown
      BY <3>1 DEF shuttingDown
    <3>3. carrier' = "asleep" \/ (carrier' = "ended" /\ MayLeave)
      BY <3>1
    <3>4. QED
      BY <3>1, <3>2, <3>3 DEF MayLeave
  <2>2. CASE carrier' = "asleep"
    BY <1>5, <2>1, <2>2, SchedulerSteps DEF Opened, Goal
  <2>3. CASE carrier' = "ended" /\ shuttingDown /\ Live = {}
    <3>1. \A g \in Fibers : Status(g) \in {"absent", "finished"}
      BY <2>1, <2>3, FibersAssumption DEF Live, StatusMeans
    <3>2. QED
      BY <1>5, <2>1, <2>3, <3>1, SchedulerSteps DEF Opened, Goal
  <2>4. QED
    BY <2>1, <2>2, <2>3
<1>10. CASE BeginShutdown \/ RouseCarrier \/ JoinCarrier \/ UNCHANGED vars
  <2>1. /\ UNCHANGED <<fiberState, fiberDeadline, resumed>>
        /\ Opened' = Opened
        /\ shuttingDown' = shuttingDown \/ (~shuttingDown /\ shuttingDown')
    BY <1>10 DEF BeginShutdown, RouseCarrier, JoinCarrier, Roused, vars, fiberVars,
                 controlVars, startVars, Opened, shuttingDown
  <2>2. QED
    BY <1>5, <2>1, SchedulerSteps DEF Goal
<1>11. CASE ClearFibers
  <2>1. /\ shutdown = "joined" /\ shutdown' = "over"
        /\ UNCHANGED <<resumed, carrier>>
        /\ \A g \in Fibers : fiberState'[g] =
              IF g \in Live THEN "finished" ELSE fiberState[g]
    BY <1>11 DEF ClearFibers
  <2>2. ASSUME NEW g \in Fibers
        PROVE  Status(g)' = IF Status(g) \in {"ready", "blocked"}
                            THEN "finished" ELSE Status(g)
    <3>1. CASE resumed = g
      BY <2>1, <3>1 DEF StatusMeans
    <3>2. CASE resumed # g /\ g \in Live
      <4>1. Status(g) \in {"ready", "blocked"}
        BY <3>2 DEF StatusMeans, Live
      <4>2. Status(g)' = "finished"
        BY <2>1, <3>2 DEF StatusMeans
      <4>3. QED
        BY <4>1, <4>2
    <3>3. CASE resumed # g /\ g \notin Live
      BY <2>1, <3>3 DEF StatusMeans, Live, Resumable, Expired
    <3>4. QED
      BY <3>1, <3>2, <3>3
  <2> DEFINE st == [g \in Fibers |-> Status(g)]
  <2>3. st' = [g \in Fibers |->
          IF st[g] \in {"ready", "blocked"} THEN "finished" ELSE st[g]]
    BY <2>2
  <2>4. Abstract!Drop
    BY <2>1, <2>3 DEF Abstract!Drop, shuttingDown
  <2>5. QED
    BY <2>4 DEF Goal, Abstract!Next
<1>12. QED
  BY <1>2, <1>3, <1>4, <1>6, <1>7, <1>8, <1>9, <1>10, <1>11 DEF AnyNext, Goal

LEMMA InitIsAbstract == Init => FiberInv /\ Abstract!Init
<1> SUFFICES ASSUME Init PROVE FiberInv /\ Abstract!Init
  OBVIOUS
<1>1. \A f \in Fibers : Status(f) = "absent"
  BY FibersAssumption DEF Init, Status, Resumable, Expired
<1>2. Abstract!Init
  BY <1>1 DEF Abstract!Init, Init, shuttingDown
<1>3. FiberInv
  BY InitQueueInv DEF FiberInv, RunningIsResumed, Init
<1>4. QED
  BY <1>2, <1>3

LEMMA StepsCooperate ==
  FiberInv /\ [AnyNext]_vars =>
    FiberInv' /\ [Abstract!Next]_(Abstract!schedulerVars)
<1>1. FiberInv /\ [AnyNext]_vars => FiberInv'
  BY NextKeepsQueueInv, RunningStaysResumed DEF FiberInv
<1>2. (FiberInv => \A f \in Fibers : StatusMeans(f))'
  BY StatusOf, PTL
<1>3. QED
  BY <1>1, <1>2, StatusOf, StepsAreAbstract

\* fiber_carrier_loop and its wakers implement cooperative fibers: one runs
\* at a time, only it can give the carrier up, it is resumed only when it has
\* been woken, or its deadline has passed, since, and the carrier goes only
\* in a shutdown, when no fiber lives.
THEOREM FibersCooperate == Spec => Abstract!Spec
BY InitIsAbstract, StepsCooperate, NextIsAnyNext, PTL DEF Spec, Abstract!Spec

-----------------------------------------------------------------------------
(***************************************************************************)
(* Classes and their initializers.                                         *)
(***************************************************************************)

Frames == [class : Classes, supers : Seq(Classes)]

ClassesIn(s) == {s[i].class : i \in DOMAIN s}

NoneTwice(s) == \A i, j \in DOMAIN s : i # j => s[i].class # s[j].class

TablesInv ==
  /\ frames \in [Threads -> Seq(Frames)]
  /\ initializing \in [Classes -> Threads \cup {NoThread}]
  /\ OwnersInitialize
  /\ \A t \in Threads : NoneTwice(frames[t])
  /\ \A t \in Threads : ClassesOf(t) \cap (initialized \cup erroneous) = {}

AskedOK == asked \in [Threads -> Classes \cup {NoClass}]

InitInv == TablesInv /\ AskedOK

LEMMA ClassesOfIsClassesIn == \A t : ClassesOf(t) = ClassesIn(frames[t])
BY DEF ClassesOf, ClassesIn

\* A call more.
LEMMA PushFrame ==
  ASSUME NEW s \in Seq(Frames), NEW x \in Frames
  PROVE  /\ <<x>> \o s \in Seq(Frames)
         /\ ClassesIn(<<x>> \o s) = ClassesIn(s) \cup {x.class}
         /\ NoneTwice(s) /\ x.class \notin ClassesIn(s) => NoneTwice(<<x>> \o s)
<1> DEFINE p == <<x>> \o s
<1>1. /\ p \in Seq(Frames) /\ DOMAIN p = 1..(Len(s) + 1) /\ Len(s) \in Nat
      /\ DOMAIN s = 1..Len(s) /\ p[1] = x
      /\ \A i \in 2..(Len(s) + 1) : p[i] = s[i - 1]
  OBVIOUS
<1> HIDE DEF p
<1>2. \A i \in DOMAIN p : i = 1 \/ (i - 1 \in DOMAIN s /\ p[i] = s[i - 1])
  BY <1>1
<1>3. \A i \in DOMAIN s : i + 1 \in DOMAIN p /\ p[i + 1] = s[i]
  <2> SUFFICES ASSUME NEW i \in DOMAIN s
               PROVE  i + 1 \in DOMAIN p /\ p[i + 1] = s[i]
    OBVIOUS
  <2>1. i + 1 \in 2..(Len(s) + 1) /\ (i + 1) - 1 = i
    BY <1>1
  <2>2. QED
    BY <1>1, <2>1
<1>4. ClassesIn(p) = ClassesIn(s) \cup {x.class}
  <2>1. ClassesIn(p) \subseteq ClassesIn(s) \cup {x.class}
    BY <1>1, <1>2 DEF ClassesIn
  <2>2. ClassesIn(s) \subseteq ClassesIn(p)
    BY <1>3 DEF ClassesIn
  <2>3. x.class \in ClassesIn(p)
    BY <1>1 DEF ClassesIn
  <2>4. QED
    BY <2>1, <2>2, <2>3
<1>5. ASSUME NoneTwice(s), x.class \notin ClassesIn(s)
      PROVE  NoneTwice(p)
  <2> SUFFICES ASSUME NEW i \in DOMAIN p, NEW j \in DOMAIN p, i # j
               PROVE  p[i].class # p[j].class
    BY DEF NoneTwice
  <2>1. CASE i = 1
    BY <1>1, <1>2, <1>5, <2>1 DEF ClassesIn
  <2>2. CASE j = 1
    BY <1>1, <1>2, <1>5, <2>2 DEF ClassesIn
  <2>3. CASE i # 1 /\ j # 1
    <3>1. i - 1 \in DOMAIN s /\ j - 1 \in DOMAIN s /\ i - 1 # j - 1
      BY <1>1, <1>2, <2>3
    <3>2. QED
      BY <1>2, <1>5, <2>3, <3>1 DEF NoneTwice
  <2>4. QED
    BY <2>1, <2>2, <2>3
<1>6. QED
  BY <1>1, <1>4, <1>5 DEF p

\* A call less.
LEMMA PopFrame ==
  ASSUME NEW s \in Seq(Frames), s # <<>>, NoneTwice(s)
  PROVE  /\ Head(s) \in Frames /\ Tail(s) \in Seq(Frames)
         /\ Head(s).class \in ClassesIn(s)
         /\ ClassesIn(Tail(s)) = ClassesIn(s) \ {Head(s).class}
         /\ NoneTwice(Tail(s))
<1> DEFINE r == Tail(s)
<1>1. /\ r \in Seq(Frames) /\ Head(s) \in Frames /\ Head(s) = s[1]
      /\ Len(s) \in Nat /\ Len(s) > 0 /\ DOMAIN s = 1..Len(s)
      /\ DOMAIN r = 1..(Len(s) - 1)
      /\ \A i \in 1..(Len(s) - 1) : r[i] = s[i + 1]
  OBVIOUS
<1> HIDE DEF r
<1>2. \A i \in DOMAIN r : i + 1 \in DOMAIN s /\ i + 1 # 1 /\ r[i] = s[i + 1]
  BY <1>1
<1>3. \A i \in DOMAIN s : i # 1 => i - 1 \in DOMAIN r /\ r[i - 1] = s[i]
  <2> SUFFICES ASSUME NEW i \in DOMAIN s, i # 1
               PROVE  i - 1 \in DOMAIN r /\ r[i - 1] = s[i]
    OBVIOUS
  <2>1. i - 1 \in 1..(Len(s) - 1) /\ (i - 1) + 1 = i
    BY <1>1
  <2>2. QED
    BY <1>1, <2>1
<1>4. 1 \in DOMAIN s
  BY <1>1
<1>5. ClassesIn(r) = ClassesIn(s) \ {s[1].class}
  <2>1. ClassesIn(r) \subseteq ClassesIn(s) \ {s[1].class}
    BY <1>2, <1>4 DEF ClassesIn, NoneTwice
  <2>2. ClassesIn(s) \ {s[1].class} \subseteq ClassesIn(r)
    BY <1>3 DEF ClassesIn
  <2>3. QED
    BY <2>1, <2>2
<1>6. NoneTwice(r)
  <2> SUFFICES ASSUME NEW i \in DOMAIN r, NEW j \in DOMAIN r, i # j
               PROVE  r[i].class # r[j].class
    BY DEF NoneTwice
  <2>1. i + 1 # j + 1
    BY <1>1
  <2>2. QED
    BY <1>2, <2>1 DEF NoneTwice
<1>7. QED
  BY <1>1, <1>4, <1>5, <1>6 DEF r, ClassesIn

-----------------------------------------------------------------------------
LEMMA InitTables == CInit => TablesInv
<1> SUFFICES ASSUME CInit PROVE TablesInv
  OBVIOUS
<1>1. /\ frames = [t \in Threads |-> <<>>]
      /\ initializing = [c \in Classes |-> NoThread]
  BY DEF CInit
<1>2. /\ frames \in [Threads -> Seq(Frames)]
      /\ initializing \in [Classes -> Threads \cup {NoThread}]
  BY <1>1
<1>3. \A t \in Threads : ClassesOf(t) = {} /\ NoneTwice(frames[t])
  BY <1>1 DEF ClassesOf, NoneTwice
<1>4. OwnersInitialize
  BY <1>1, <1>3, ThreadsAssumption DEF OwnersInitialize
<1>5. QED
  BY <1>2, <1>3, <1>4 DEF TablesInv

\* FindReady: what is left of the supers does not matter here.
LEMMA FindReadyKeepsTables ==
  ASSUME TablesInv, NEW t \in Threads, NEW c, FindReady(t, c)
  PROVE  /\ TablesInv'
         /\ UNCHANGED <<initialized, erroneous>>
<1>1. UNCHANGED <<initialized, erroneous, initializing>>
  BY DEF FindReady, classVars
<1>2. \/ frames' = frames
      \/ /\ frames[t] # <<>> /\ Top(t).supers # <<>>
         /\ frames' = [frames EXCEPT ![t] = SuperDone(frames[t])]
  <2>1. frames' = [frames EXCEPT ![t] =
          IF Busy(t) /\ Top(t).supers # <<>>
          THEN SuperDone(frames[t]) ELSE frames[t]]
    BY DEF FindReady
  <2>2. CASE Busy(t) /\ Top(t).supers # <<>>
    BY <2>1, <2>2 DEF Busy
  <2>3. CASE ~(Busy(t) /\ Top(t).supers # <<>>)
    <3>1. frames' = [frames EXCEPT ![t] = frames[t]]
      BY <2>1, <2>3
    <3>2. QED
      BY <3>1 DEF TablesInv
  <2>4. QED
    BY <2>2, <2>3
<1>3. CASE frames' = frames
  BY <1>1, <1>3 DEF TablesInv, OwnersInitialize, ClassesOf
<1>4. ASSUME frames[t] # <<>>, Top(t).supers # <<>>,
             frames' = [frames EXCEPT ![t] = SuperDone(frames[t])]
      PROVE  TablesInv'
  <2> DEFINE s == frames[t]
             x == [class |-> Head(s).class, supers |-> Tail(Head(s).supers)]
  <2>1. s \in Seq(Frames) /\ NoneTwice(s) /\ s # <<>>
    BY <1>4 DEF TablesInv
  <2>2. x \in Frames /\ x.class = Head(s).class
    <3>1. Head(s) \in Frames
      BY <2>1, PopFrame
    <3>2. Head(s).supers \in Seq(Classes) /\ Head(s).supers # <<>>
      BY <1>4, <3>1 DEF Frames, Top
    <3>3. Tail(Head(s).supers) \in Seq(Classes)
      BY <3>2
    <3>4. QED
      BY <3>1, <3>3 DEF Frames, Top
  <2> HIDE DEF x
  <2>3. /\ <<x>> \o Tail(s) \in Seq(Frames)
        /\ ClassesIn(<<x>> \o Tail(s)) = ClassesIn(s)
        /\ NoneTwice(<<x>> \o Tail(s))
    <3>1. /\ Tail(s) \in Seq(Frames) /\ NoneTwice(Tail(s))
          /\ Head(s).class \in ClassesIn(s)
          /\ ClassesIn(Tail(s)) = ClassesIn(s) \ {Head(s).class}
      BY <2>1, PopFrame
    <3>2. /\ <<x>> \o Tail(s) \in Seq(Frames)
          /\ ClassesIn(<<x>> \o Tail(s)) = ClassesIn(Tail(s)) \cup {x.class}
          /\ x.class \notin ClassesIn(Tail(s)) => NoneTwice(<<x>> \o Tail(s))
      BY <2>2, <3>1, PushFrame
    <3>3. QED
      BY <2>2, <3>1, <3>2
  <2>4. frames' = [frames EXCEPT ![t] = <<x>> \o Tail(s)]
    BY <1>4 DEF x, SuperDone
  <2> HIDE DEF s
  <2>5. frames' \in [Threads -> Seq(Frames)]
    BY <2>3, <2>4 DEF TablesInv
  <2>6. \A u \in Threads : ClassesIn(frames'[u]) = ClassesIn(frames[u])
                             /\ NoneTwice(frames'[u])
    BY <2>3, <2>4 DEF TablesInv, s
  <2>7. \A u \in Threads : ClassesOf(u)' = ClassesOf(u)
    BY <2>6 DEF ClassesOf, ClassesIn
  <2>8. QED
    BY <1>1, <2>5, <2>6, <2>7 DEF TablesInv, OwnersInitialize
<1>5. QED
  BY <1>1, <1>2, <1>3, <1>4

\* Claim: nobody was inside the class, and it was neither initialized nor
\* erroneous.
LEMMA ClaimKeepsTables ==
  ASSUME TablesInv, NEW t \in Threads, NEW c \in Classes, Claim(t, c)
  PROVE  /\ TablesInv'
         /\ UNCHANGED <<initialized, erroneous>>
<1> DEFINE x == [class |-> c, supers |-> Supers[c]]
<1>1. /\ c \notin initialized /\ c \notin erroneous
      /\ initializing[c] = NoThread
      /\ initializing' = [initializing EXCEPT ![c] = t]
      /\ frames' = [frames EXCEPT ![t] = <<x>> \o frames[t]]
      /\ UNCHANGED <<initialized, erroneous>>
  BY DEF Claim, Claimable, IsReady, TablesInv
<1>2. x \in Frames /\ x.class = c
  BY ClassesAssumption DEF Frames
<1>3. \A u \in Threads : c \notin ClassesOf(u)
  BY <1>1, ThreadsAssumption DEF TablesInv, OwnersInitialize
<1>4. /\ <<x>> \o frames[t] \in Seq(Frames)
      /\ ClassesIn(<<x>> \o frames[t]) = ClassesIn(frames[t]) \cup {c}
      /\ NoneTwice(<<x>> \o frames[t])
  BY <1>2, <1>3, PushFrame, ClassesOfIsClassesIn DEF TablesInv
<1> HIDE DEF x
<1>5. /\ frames' \in [Threads -> Seq(Frames)]
      /\ initializing' \in [Classes -> Threads \cup {NoThread}]
      /\ \A u \in Threads : NoneTwice(frames'[u])
  BY <1>1, <1>4 DEF TablesInv
<1>6. \A u \in Threads : ClassesIn(frames'[u]) =
        IF u = t THEN ClassesIn(frames[u]) \cup {c} ELSE ClassesIn(frames[u])
  BY <1>1, <1>4 DEF TablesInv
<1>7. \A u \in Threads : ClassesOf(u)' =
        IF u = t THEN ClassesOf(u) \cup {c} ELSE ClassesOf(u)
  BY <1>6 DEF ClassesOf, ClassesIn
<1>8. OwnersInitialize'
  <2> SUFFICES ASSUME NEW u \in Threads, NEW d \in Classes
               PROVE  initializing'[d] = u <=> d \in ClassesOf(u)'
    BY DEF OwnersInitialize
  <2>1. CASE d = c
    BY <1>1, <1>3, <1>7, <2>1 DEF TablesInv
  <2>2. CASE d # c
    BY <1>1, <1>7, <2>2 DEF TablesInv, OwnersInitialize
  <2>3. QED
    BY <2>1, <2>2
<1>9. \A u \in Threads : ClassesOf(u)' \cap (initialized \cup erroneous)' = {}
  BY <1>1, <1>7 DEF TablesInv
<1>10. QED
  BY <1>1, <1>5, <1>8, <1>9 DEF TablesInv

\* Finish: the thread leaves the class, and nobody else was in it.
LEMMA FinishKeepsTables ==
  ASSUME TablesInv, NEW t \in Threads, NEW outcome, NEW next,
         Finish(t, outcome, next)
  PROVE  /\ TablesInv'
         /\ initialized \subseteq initialized' /\ erroneous \subseteq erroneous'
<1> DEFINE c == Head(frames[t]).class
<1>1. /\ frames[t] # <<>>
      /\ initializing' = [initializing EXCEPT ![c] = NoThread]
      /\ frames' = [frames EXCEPT ![t] = Tail(frames[t])]
      /\ initialized \subseteq initialized' /\ initialized' \subseteq initialized \cup {c}
      /\ erroneous \subseteq erroneous' /\ erroneous' \subseteq erroneous \cup {c}
  BY DEF Finish, Top, Busy, Disowned, TablesInv
<1>2. /\ Head(frames[t]) \in Frames /\ Tail(frames[t]) \in Seq(Frames)
      /\ c \in ClassesIn(frames[t])
      /\ ClassesIn(Tail(frames[t])) = ClassesIn(frames[t]) \ {c}
      /\ NoneTwice(Tail(frames[t]))
  BY <1>1, PopFrame DEF TablesInv
<1>3. c \in Classes
  BY <1>2 DEF Frames
<1> HIDE DEF c
<1>4. initializing[c] = t /\ \A u \in Threads \ {t} : c \notin ClassesOf(u)
  BY <1>2, <1>3, ClassesOfIsClassesIn DEF TablesInv, OwnersInitialize
<1>5. /\ frames' \in [Threads -> Seq(Frames)]
      /\ initializing' \in [Classes -> Threads \cup {NoThread}]
      /\ \A u \in Threads : NoneTwice(frames'[u])
  BY <1>1, <1>2 DEF TablesInv
<1>6. \A u \in Threads : ClassesIn(frames'[u]) =
        IF u = t THEN ClassesIn(frames[u]) \ {c} ELSE ClassesIn(frames[u])
  BY <1>1, <1>2 DEF TablesInv
<1>7. \A u \in Threads : ClassesOf(u)' = ClassesOf(u) \ {c}
  <2>1. \A u \in Threads : ClassesOf(u)' =
          IF u = t THEN ClassesOf(u) \ {c} ELSE ClassesOf(u)
    BY <1>6 DEF ClassesOf, ClassesIn
  <2>2. QED
    BY <1>4, <2>1
<1>8. OwnersInitialize'
  <2> SUFFICES ASSUME NEW u \in Threads, NEW d \in Classes
               PROVE  initializing'[d] = u <=> d \in ClassesOf(u)'
    BY DEF OwnersInitialize
  <2>1. CASE d = c
    BY <1>1, <1>7, <2>1, ThreadsAssumption DEF TablesInv
  <2>2. CASE d # c
    BY <1>1, <1>7, <2>2 DEF TablesInv, OwnersInitialize
  <2>3. QED
    BY <2>1, <2>2
<1>9. \A u \in Threads : ClassesOf(u)' \cap (initialized \cup erroneous)' = {}
  BY <1>1, <1>7 DEF TablesInv
<1>10. QED
  BY <1>1, <1>5, <1>8, <1>9 DEF TablesInv

-----------------------------------------------------------------------------
\* What a thread asks for is a class: its own request, the one it waited
\* for, or the next super of the class it is about to initialize.
LEMMA RequestsAreClasses ==
  ASSUME InitInv, NEW t \in Threads, At(t, "guest")
  PROVE  Requests(t) \subseteq Classes
<1>1. CASE asked[t] # NoClass
  BY <1>1 DEF Requests, InitInv, AskedOK
<1>2. CASE asked[t] = NoClass /\ InCode(t)
  BY <1>2 DEF Requests
<1>3. CASE asked[t] = NoClass /\ ~InCode(t)
  <2>1. frames[t] # <<>> /\ Top(t).supers # <<>>
    BY <1>3 DEF InCode, Busy
  <2>2. frames[t] \in Seq(Frames)
    BY DEF InitInv, TablesInv
  <2>3. Top(t) \in Frames
    BY <2>1, <2>2 DEF Top
  <2>4. Top(t).supers \in Seq(Classes)
    BY <2>3 DEF Frames
  <2>5. Head(Top(t).supers) \in Classes
    BY <2>1, <2>4
  <2>6. QED
    BY <1>3, <2>5 DEF Requests
<1>4. QED
  BY <1>1, <1>2, <1>3

\* Every step is one of the three, or touches neither tables nor calls.
LEMMA StepsOfTables ==
  ASSUME InitInv, [CNext]_allVars
  PROVE  /\ AskedOK'
         /\ \/ UNCHANGED <<classVars, frames>>
            \/ \E t \in Threads, c \in Classes : Claim(t, c)
            \/ \E t \in Threads : \E c : FindReady(t, c)
            \/ \E t \in Threads : \E outcome, next : Finish(t, outcome, next)
<1> DEFINE Steps ==
      AskedOK' /\
      (\/ UNCHANGED <<classVars, frames>>
       \/ \E t \in Threads, c \in Classes : Claim(t, c)
       \/ \E t \in Threads : \E c : FindReady(t, c)
       \/ \E t \in Threads : \E outcome, next : Finish(t, outcome, next))
<1>1. ASSUME NEW t \in Threads,
             FallAsleep(t) \/ Park(t) \/ Awake(t) \/ CheckReady(t)
               \/ Announce(t) \/ WakeWaiter(t) \/ Announced(t) \/ Ends(t)
      PROVE  Steps
  BY <1>1 DEF FallAsleep, Park, Awake, CheckReady, Announce, WakeWaiter,
              Announced, Ends, threadVars, InitInv, AskedOK
<1>2. ASSUME NEW t \in Threads, RollsBack(t) \/ ClinitReturns(t) \/ ClinitThrows(t)
      PROVE  Steps
  BY <1>2 DEF RollsBack, ClinitReturns, ClinitThrows, Finish, InitInv, AskedOK
<1>3. ASSUME NEW t \in Threads, Unwinds(t)
      PROVE  Steps
  BY <1>3 DEF Unwinds, Finish, InitInv, AskedOK
<1>4. ASSUME NEW t \in Threads, Fails(t) \/ Resumes(t) \/ Yields(t)
      PROVE  Steps
  BY <1>4 DEF Fails, Resumes, Yields, InitInv, AskedOK
<1>5. ASSUME NEW t \in Threads, EnsureInitialized(t)
      PROVE  Steps
  <2>1. PICK c \in Requests(t) :
          FindReady(t, c) \/ FindErroneous(t, c) \/ Claim(t, c) \/ AwaitOwner(t, c)
    BY <1>5 DEF EnsureInitialized
  <2>2. c \in Classes
    BY <1>5, <2>1, RequestsAreClasses DEF EnsureInitialized
  <2>3. CASE FindErroneous(t, c) \/ AwaitOwner(t, c)
    BY <2>2, <2>3 DEF FindErroneous, AwaitOwner, InitInv, AskedOK
  <2>4. CASE FindReady(t, c)
    BY <2>4 DEF FindReady, InitInv, AskedOK
  <2>5. CASE Claim(t, c)
    BY <2>2, <2>5 DEF Claim, InitInv, AskedOK
  <2>6. QED
    BY <2>1, <2>3, <2>4, <2>5
<1>6. ASSUME NEW f \in Fibers, Start(f) \/ StartFiber(f) \/ Begins(f)
      PROVE  Steps
  BY <1>6 DEF Start, StartFiber, Begins, InitInv, AskedOK
<1>7. CASE Carrier \/ ShutdownStarts \/ ShutdownStep
  BY <1>7 DEF Carrier, ShutdownStarts, ShutdownStep, ShutdownNotifies,
              ShutdownStops, ShutdownLists, ShutdownWakes, ShutdownJoins,
              ShutdownClears, threadVars,
              InitInv, AskedOK
<1>8. CASE UNCHANGED allVars
  BY <1>8 DEF allVars, threadVars, InitInv, AskedOK
<1>9. QED
  BY <1>1, <1>2, <1>3, <1>4, <1>5, <1>6, <1>7, <1>8
     DEF CNext, RuntimeStep, CodeStep

LEMMA NextKeepsInitInv ==
  ASSUME InitInv, [CNext]_allVars
  PROVE  /\ InitInv'
         /\ initialized \subseteq initialized' /\ erroneous \subseteq erroneous'
<1> DEFINE Goal ==
      TablesInv' /\ initialized \subseteq initialized' /\ erroneous \subseteq erroneous'
<1>1. ASSUME UNCHANGED <<classVars, frames>> PROVE Goal
  <2>1. UNCHANGED <<initialized, erroneous, initializing, frames>>
    BY <1>1 DEF classVars
  <2>2. \A t : ClassesOf(t)' = ClassesOf(t)
    BY <2>1 DEF ClassesOf
  <2>3. QED
    BY <2>1, <2>2 DEF InitInv, TablesInv, OwnersInitialize
<1>2. ASSUME NEW t \in Threads, NEW c \in Classes, Claim(t, c) PROVE Goal
  BY <1>2, ClaimKeepsTables DEF InitInv
<1>3. ASSUME NEW t \in Threads, NEW c, FindReady(t, c) PROVE Goal
  BY <1>3, FindReadyKeepsTables DEF InitInv
<1>4. ASSUME NEW t \in Threads, NEW outcome, NEW next, Finish(t, outcome, next)
      PROVE  Goal
  BY <1>4, FinishKeepsTables DEF InitInv
<1> HIDE DEF Goal
<1>5. AskedOK' /\ Goal
  BY <1>1, <1>2, <1>3, <1>4, StepsOfTables
<1>6. QED
  BY <1>5 DEF InitInv, Goal

LEMMA InvHolds == CSpec => []InitInv
<1>1. CInit => InitInv
  <2> SUFFICES ASSUME CInit PROVE InitInv
    OBVIOUS
  <2>1. TablesInv
    BY InitTables
  <2>2. asked = [t \in Threads |-> NoClass]
    BY DEF CInit
  <2>3. AskedOK
    BY <2>2 DEF AskedOK
  <2>4. QED
    BY <2>1, <2>3 DEF InitInv
<1>2. InitInv /\ [CNext]_allVars => InitInv'
  BY NextKeepsInitInv
<1>3. QED
  BY <1>1, <1>2, PTL DEF CSpec

\* initializing_class_owners_ names for each class the thread that is inside
\* its initialization, and nobody otherwise, however initializers end.
THEOREM OwnersCorrect == CSpec => []OwnersInitialize
<1>1. InitInv => OwnersInitialize
  BY DEF InitInv, TablesInv
<1>2. QED
  BY <1>1, InvHolds, PTL

\* ensure_initialized runs each initializer on one thread at a time, and
\* never again once the class is initialized or erroneous.
THEOREM OnceCorrect == CSpec => InitializedOnce
<1>1. InitInv /\ InitInv' /\ [CNext]_allVars =>
        [/\ initialized \subseteq initialized' /\ erroneous \subseteq erroneous'
         /\ \A t \in Threads : \A c \in ClassesOf(t)' :
              c \notin (initialized \cup erroneous)'
                /\ \A u \in Threads \ {t} : c \notin ClassesOf(u)']_allVars
  <2> SUFFICES ASSUME InitInv, InitInv', [CNext]_allVars
               PROVE  /\ initialized \subseteq initialized' /\ erroneous \subseteq erroneous'
                      /\ \A t \in Threads : \A c \in ClassesOf(t)' :
                           c \notin (initialized \cup erroneous)'
                             /\ \A u \in Threads \ {t} : c \notin ClassesOf(u)'
    OBVIOUS
  <2>1. initialized \subseteq initialized' /\ erroneous \subseteq erroneous'
    BY NextKeepsInitInv
  <2>2. ASSUME NEW t \in Threads, NEW c \in ClassesOf(t)'
        PROVE  c \in Classes /\ initializing'[c] = t
    <3>1. PICK i \in DOMAIN frames'[t] : c = frames'[t][i].class
      BY <2>2 DEF ClassesOf
    <3>2. frames'[t] \in Seq(Frames)
      BY DEF InitInv, TablesInv
    <3>3. frames'[t][i] \in Frames
      BY <3>1, <3>2
    <3>4. c \in Classes
      BY <3>1, <3>3 DEF Frames
    <3>5. QED
      BY <2>2, <3>4 DEF InitInv, TablesInv, OwnersInitialize
  <2>3. ASSUME NEW t \in Threads, NEW c \in ClassesOf(t)'
        PROVE  c \notin (initialized \cup erroneous)'
                 /\ \A u \in Threads \ {t} : c \notin ClassesOf(u)'
    BY <2>2, <2>3 DEF InitInv, TablesInv
  <2>4. QED
    BY <2>1, <2>3
<1>2. QED
  BY <1>1, InvHolds, PTL DEF CSpec, InitializedOnce

-----------------------------------------------------------------------------
(***************************************************************************)
(* The fibers below ensure_initialized.                                    *)
(***************************************************************************)
LEMMA ClassStepsAreFiberSteps ==
  ASSUME FiberInv, [CNext]_allVars
  PROVE  [AnyNext]_vars
<1>1. Host \in Wakers /\ \A t \in Threads : t \in Wakers
  BY WakersAssumption
<1>2. ASSUME NEW t \in Threads, Park(t) PROVE AnyNext
  <2>1. ParkFiber(t, "waiting", "none") /\ t \in Fibers
    BY <1>2, ThreadsAssumption DEF Park, ParkFiber, FiberInv, QueueInv, TypeOK
  <2>2. QED
    BY <2>1, WakersAssumption DEF AnyNext, Leave
<1>3. ASSUME NEW t \in Threads, Announce(t) \/ WakeWaiter(t) PROVE AnyNext
  BY <1>1, <1>3, WakersAssumption DEF Announce, WakeWaiter, AnyNext, AnyWakeup
<1>4. ASSUME NEW t \in Threads, Ends(t) \/ Yields(t) PROVE [AnyNext]_vars
  BY <1>4 DEF Ends, Yields, AnyNext, Leave
<1>5. ASSUME NEW t \in Threads,
             FallAsleep(t) \/ Awake(t) \/ CheckReady(t) \/ Announced(t)
               \/ RollsBack(t) \/ ClinitReturns(t) \/ ClinitThrows(t)
               \/ Unwinds(t) \/ Fails(t) \/ Resumes(t)
      PROVE  UNCHANGED vars
  BY <1>5 DEF FallAsleep, Awake, CheckReady, Announced, RollsBack,
              ClinitReturns, ClinitThrows, Unwinds, Finish, Fails, Resumes
<1>6. ASSUME NEW t \in Threads, EnsureInitialized(t) PROVE UNCHANGED vars
  BY <1>6 DEF EnsureInitialized, FindReady, FindErroneous, Claim, AwaitOwner
<1>7. ASSUME NEW f \in Fibers, Start(f) \/ StartFiber(f) \/ Begins(f)
      PROVE  [AnyNext]_vars
  BY <1>7 DEF Start, StartFiber, Begins, AnyNext, Leave
<1>8. CASE Carrier
  BY <1>8 DEF Carrier, AnyNext
<1>9. CASE ShutdownStarts \/ ShutdownStep
  BY <1>1, <1>9 DEF ShutdownStarts, ShutdownStep, ShutdownNotifies,
     ShutdownStops, ShutdownLists, ShutdownWakes, ShutdownJoins, ShutdownClears,
     AnyNext, AnyWakeup
<1>10. CASE UNCHANGED allVars
  BY <1>10 DEF allVars
<1>11. QED
  BY <1>2, <1>3, <1>4, <1>5, <1>6, <1>7, <1>8, <1>9, <1>10
     DEF CNext, RuntimeStep, CodeStep

\* The fibers that wait for classes, yield, end and are woken by
\* finish_initialization and Machine::shutdown are cooperative fibers: once a
\* wake-up has reached the scheduler, the carrier does not sleep past it.
THEOREM InitializersCooperate ==
  CSpec => Abstract!Spec /\ [](RunnableInQueue /\ CarrierAwake)
<1>1. CInit => Init
  BY DEF CInit
<1>2. FiberInv => RunnableInQueue /\ CarrierAwake
  BY DEF FiberInv, QueueInv
<1>3. FiberInv /\ [CNext]_allVars => [AnyNext]_vars
  BY ClassStepsAreFiberSteps
<1>4. QED
  BY <1>1, <1>2, <1>3, InitIsAbstract, StepsCooperate, PTL
     DEF CSpec, Abstract!Spec
=============================================================================
