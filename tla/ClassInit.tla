------------------------------ MODULE ClassInit ------------------------------
(***************************************************************************)
(* Machine::ensure_initialized: which thread runs the initializer of a     *)
(* class, who waits for it, and what becomes of the class.                 *)
(*                                                                         *)
(* Threads run under the execution gate; the tables of classes are under   *)
(* class_initialization_mutex_ besides.  A thread that finds the class     *)
(* owned by another gives the gate up and waits: a host thread on the      *)
(* condition, which lets the mutex go as it falls asleep; a fiber lets the *)
(* mutex go, and then parks.  Machine::shutdown notifies the condition     *)
(* without the mutex, so falling asleep is a step of its own.              *)
(***************************************************************************)
EXTENDS FiberScheduler

CONSTANTS
  Threads,  \* the Java threads; those not in Fibers are host threads
  Main,     \* the one shutdown does not stop
  Host,     \* the thread that calls Machine::shutdown
  NoThread, \* nobody
  Classes,  \* the classes and interfaces that guest code names
  Supers,   \* for each, those that must be initialized before it, in order
  NoClass   \* no class

ASSUME ThreadsAssumption ==
  /\ Fibers \subseteq Threads \ {Main}
  /\ NoThread \notin Threads /\ NoFiber \notin Threads
ASSUME ClassesAssumption == Supers \in [Classes -> Seq(Classes)]
ASSUME WakersAssumption ==
  Threads \cup {Host} \subseteq Wakers /\ Reasons = {"waiting"}

VARIABLES
  gate,         \* the holder of execution_mutex_
  initialized,  \* initialized_classes_
  erroneous,    \* erroneous_classes_
  initializing, \* initializing_class_owners_: the owner of each class
  frames,       \* per thread, the calls of ensure_initialized it is inside
  pc,           \* where a thread is
  asked,        \* the class it waits for
  after,        \* how it goes on once it has announced the end of a class
  sd            \* where Machine::shutdown is: idle, notify, stop, list, wake

classVars == <<initialized, erroneous, initializing>>
threadVars == <<gate, frames, pc, asked, after>>
allVars == <<vars, classVars, threadVars, sd>>

PCs == {"new", "claimed", "born", "guest", "throwing", "failing", "finished",
        "announcing", "enqueuing", "dozing", "parking", "waiting", "checking", "resuming",
        "ended"}

CInit ==
  /\ Init
  /\ gate = NoThread
  /\ initialized = {} /\ erroneous = {}
  /\ initializing = [c \in Classes |-> NoThread]
  /\ frames = [t \in Threads |-> <<>>]
  /\ pc = [t \in Threads |-> IF t \in Fibers THEN "new" ELSE "resuming"]
  /\ asked = [t \in Threads |-> NoClass]
  /\ after = [t \in Threads |-> "guest"]
  /\ sd = "idle"

OnCpu(t) == t \in Fibers => resumed = t
At(t, place) == pc[t] = place /\ OnCpu(t)
Move(t, place) == pc' = [pc EXCEPT ![t] = place]

\* class_initialization_mutex_ is held by a host thread that falls asleep.
MutexFree == \A t \in Threads : pc[t] # "dozing"

\* current_stop_requested
MustStop(t) == shuttingDown /\ t # Main

Busy(t) == frames[t] # <<>>
Top(t) == Head(frames[t])
\* Guest code runs: outside, or in <clinit> when all the supers are done.
InCode(t) ==
  At(t, "guest") /\ asked[t] = NoClass /\ (Busy(t) => Top(t).supers = <<>>)

-----------------------------------------------------------------------------
(***************************************************************************)
(* One round of the loop in ensure_initialized(c), by t.                   *)
(***************************************************************************)
Requests(t) ==
  IF asked[t] # NoClass THEN {asked[t]}
  ELSE IF InCode(t) THEN Classes ELSE {Head(Top(t).supers)}

IsReady(t, c) == c \in initialized \/ initializing[c] = t

SuperDone(calls) ==
  <<[class |-> Head(calls).class, supers |-> Tail(Head(calls).supers)]>>
    \o Tail(calls)

\* The caller goes on: the next super, or its own code.
FindReady(t, c) ==
  /\ IsReady(t, c)
  /\ frames' = [frames EXCEPT ![t] =
       IF Busy(t) /\ Top(t).supers # <<>> THEN SuperDone(@) ELSE @]
  /\ asked' = [asked EXCEPT ![t] = NoClass]
  /\ UNCHANGED <<vars, classVars, gate, pc, after, sd>>

FindErroneous(t, c) ==
  /\ ~IsReady(t, c) /\ c \in erroneous
  /\ asked' = [asked EXCEPT ![t] = NoClass]
  /\ Move(t, "throwing")
  /\ UNCHANGED <<vars, classVars, gate, frames, after, sd>>

\* wrong: a class whose initializer has thrown is tried again
Retryable(t, c) == ~IsReady(t, c) /\ initializing[c] = NoThread
Claimable(t, c) ==
  ~IsReady(t, c) /\ c \notin erroneous /\ initializing[c] = NoThread

Claim(t, c) ==
  /\ Claimable(t, c)
  /\ initializing' = [initializing EXCEPT ![c] = t]
  /\ frames' = [frames EXCEPT ![t] =
                  <<[class |-> c, supers |-> Supers[c]]>> \o @]
  /\ asked' = [asked EXCEPT ![t] = NoClass]
  /\ UNCHANGED <<vars, initialized, erroneous, gate, pc, after, sd>>

Blocks(t) == IF t \in Fibers THEN "parking" ELSE "dozing"

Ready(c) ==
  sd # "idle" \/ c \in initialized \cup erroneous \/ initializing[c] = NoThread

\* The gate goes; the predicate is false, or the wait ends at once.
AwaitOwner(t, c) ==
  /\ ~IsReady(t, c) /\ c \notin erroneous /\ initializing[c] # NoThread
  /\ gate' = NoThread
  /\ asked' = [asked EXCEPT ![t] = c]
  /\ Move(t, IF Ready(c) THEN "resuming" ELSE Blocks(t))
  /\ UNCHANGED <<vars, classVars, frames, after, sd>>

EnsureInitialized(t) ==
  /\ At(t, "guest") /\ MutexFree
  /\ \E c \in Requests(t) :
       FindReady(t, c) \/ FindErroneous(t, c) \/ Claim(t, c) \/ AwaitOwner(t, c)

FallAsleep(t) ==
  /\ pc[t] = "dozing"
  /\ Move(t, "waiting")
  /\ UNCHANGED <<vars, classVars, gate, frames, asked, after, sd>>

Park(t) ==
  /\ At(t, "parking")
  /\ ParkFiber(t, "waiting", "none")
  /\ Move(t, "waiting")
  /\ UNCHANGED <<classVars, gate, frames, asked, after, sd>>

Awake(t) ==
  /\ t \in Fibers /\ At(t, "waiting")
  /\ Move(t, "checking")
  /\ UNCHANGED <<vars, classVars, gate, frames, asked, after, sd>>

CheckReady(t) ==
  /\ At(t, "checking") /\ MutexFree
  /\ Move(t, IF Ready(asked[t]) THEN "resuming" ELSE Blocks(t))
  /\ UNCHANGED <<vars, classVars, gate, frames, asked, after, sd>>

\* The gate comes back; during a shutdown the request is given up.
Resumes(t) ==
  /\ At(t, "resuming") /\ gate = NoThread
  /\ gate' = t
  /\ \/ asked[t] # NoClass /\ sd # "idle" /\ Move(t, "failing")
          /\ asked' = [asked EXCEPT ![t] = NoClass]
     \/ (asked[t] = NoClass \/ sd = "idle") /\ Move(t, "guest") /\ UNCHANGED asked
  /\ UNCHANGED <<vars, classVars, frames, after, sd>>

-----------------------------------------------------------------------------
(***************************************************************************)
(* finish_initialization: the tables, then the condition and the fibers.   *)
(***************************************************************************)
KeptOwner(c) == initializing \* wrong: a failure leaves the class owned
Disowned(c) == [initializing EXCEPT ![c] = NoThread]

Finish(t, outcome, next) ==
  LET c == Top(t).class
  IN  /\ Busy(t) /\ MutexFree
      /\ initializing' = Disowned(c)
      /\ initialized' = initialized \cup (IF outcome = "initialized" THEN {c} ELSE {})
      /\ erroneous' = erroneous \cup (IF outcome = "erroneous" THEN {c} ELSE {})
      /\ frames' = [frames EXCEPT ![t] = Tail(@)]
      /\ after' = [after EXCEPT ![t] = next]
      /\ Move(t, "announcing")
      /\ UNCHANGED <<vars, gate, asked, sd>>

Notified ==
  [t \in Threads |->
     IF t \notin Fibers /\ pc[t] = "waiting" THEN "checking" ELSE pc[t]]

NoNotify == pc \* wrong: the condition is not notified
EndNotifies == Notified

Announce(t) ==
  /\ pc[t] = "announcing" /\ OnCpu(t)
  /\ ListParked(t, "waiting")
  /\ pc' = [EndNotifies EXCEPT ![t] = "enqueuing"]
  /\ UNCHANGED <<classVars, gate, frames, asked, after, sd>>

WakeWaiter(t) ==
  /\ At(t, "enqueuing")
  /\ \E f \in Fibers : WakeListed(t, f)
  /\ UNCHANGED <<classVars, threadVars, sd>>

Announced(t) ==
  /\ At(t, "enqueuing") /\ wakeList[t] = {}
  /\ Move(t, after[t])
  /\ UNCHANGED <<vars, classVars, gate, frames, asked, after, sd>>

-----------------------------------------------------------------------------
(***************************************************************************)
(* <clinit> ends: normally, with a throwable, or because the VM fails or   *)
(* stops.  The throwable of a super, or of another class the code uses,    *)
(* breaks the class too unless the code catches it; a failure takes back   *)
(* every initialization the thread is inside.                              *)
(***************************************************************************)
ClinitReturns(t) == InCode(t) /\ Finish(t, "initialized", "guest")

ClinitThrows(t) == InCode(t) /\ Finish(t, "erroneous", "throwing")

Unwinds(t) ==
  /\ At(t, "throwing")
  /\ \/ Finish(t, "erroneous", "throwing")
     \/ /\ Busy(t) => Top(t).supers = <<>>
        /\ Move(t, "guest")
        /\ UNCHANGED <<vars, classVars, gate, frames, asked, after, sd>>

Fails(t) ==
  /\ At(t, "guest") /\ asked[t] = NoClass
  /\ Move(t, "failing")
  /\ UNCHANGED <<vars, classVars, gate, frames, asked, after, sd>>

RollsBack(t) == At(t, "failing") /\ Finish(t, "none", "failing")

Ends(t) ==
  /\ At(t, "failing") /\ ~Busy(t)
  /\ gate' = NoThread
  /\ Move(t, "ended")
  /\ \/ t \in Fibers /\ FinishFiber(t)
     \/ t \notin Fibers /\ UNCHANGED vars
  /\ UNCHANGED <<classVars, frames, asked, after, sd>>

Yields(t) ==
  /\ InCode(t)
  /\ gate' = NoThread
  /\ Move(t, "resuming")
  /\ \/ t \in Fibers /\ YieldFiber(t)
     \/ t \notin Fibers /\ UNCHANGED vars
  /\ UNCHANGED <<classVars, frames, asked, after, sd>>

\* start_thread: the claim, and the launch outside mutex_, shutdown or not.
Start(f) ==
  /\ pc[f] = "new" /\ ~shuttingDown
  /\ Move(f, "claimed")
  /\ UNCHANGED <<vars, classVars, gate, frames, asked, after, sd>>

StartFiber(f) ==
  /\ pc[f] = "claimed"
  /\ \/ EnsureCarrier(f) /\ UNCHANGED pc
     \/ Launch(f) /\ Move(f, "born")
  /\ UNCHANGED <<classVars, gate, frames, asked, after, sd>>

\* A fiber that is resumed after the stop request runs nothing.
Begins(f) ==
  /\ At(f, "born")
  /\ \/ MustStop(f) /\ FinishFiber(f) /\ Move(f, "ended")
     \/ ~MustStop(f) /\ UNCHANGED vars /\ Move(f, "resuming")
  /\ UNCHANGED <<classVars, gate, frames, asked, after, sd>>

Carrier == (Resume \/ FindNothing) /\ UNCHANGED <<classVars, threadVars, sd>>

-----------------------------------------------------------------------------
(***************************************************************************)
(* Machine::shutdown: the flag, the condition without its mutex, then the  *)
(* scheduler, which stops the threads and wakes the fibers.                *)
(***************************************************************************)
ShutdownStarts ==
  /\ sd = "idle" /\ sd' = "notify"
  /\ UNCHANGED <<vars, classVars, threadVars>>

ShutdownNotifies ==
  /\ sd = "notify" /\ sd' = "stop"
  /\ pc' = Notified
  /\ UNCHANGED <<vars, classVars, gate, frames, asked, after>>

ShutdownStops ==
  /\ sd = "stop" /\ sd' = "list"
  /\ BeginShutdown
  /\ UNCHANGED <<classVars, threadVars>>

ShutdownLists ==
  /\ sd = "list" /\ sd' = "wake"
  /\ ListAll(Host)
  /\ UNCHANGED <<classVars, threadVars>>

ShutdownWakes ==
  /\ \/ \E f \in Fibers : WakeListed(Host, f)
     \/ sd = "wake" /\ wakeList[Host] = {} /\ RouseCarrier
  /\ UNCHANGED <<classVars, threadVars, sd>>

\* The host workers are joined, then the carrier.
ShutdownJoins ==
  /\ sd = "wake" /\ wakeList[Host] = {}
  /\ \A t \in Threads \ (Fibers \cup {Main}) : pc[t] = "ended"
  /\ JoinCarrier
  /\ UNCHANGED <<classVars, threadVars, sd>>

ShutdownClears == ClearFibers /\ UNCHANGED <<classVars, threadVars, sd>>

ShutdownStep ==
  \/ ShutdownNotifies \/ ShutdownStops \/ ShutdownLists \/ ShutdownWakes
  \/ ShutdownJoins \/ ShutdownClears

-----------------------------------------------------------------------------
RuntimeStep(t) ==
  \/ FallAsleep(t) \/ Park(t) \/ Awake(t) \/ CheckReady(t)
  \/ Announce(t) \/ WakeWaiter(t) \/ Announced(t)
  \/ RollsBack(t) \/ Ends(t)

CodeStep(t) ==
  EnsureInitialized(t) \/ ClinitReturns(t) \/ ClinitThrows(t) \/ Unwinds(t)
    \/ Fails(t)

CNext ==
  \/ \E t \in Threads : RuntimeStep(t) \/ CodeStep(t) \/ Resumes(t) \/ Yields(t)
  \/ \E f \in Fibers : Start(f) \/ StartFiber(f) \/ Begins(f)
  \/ Carrier \/ ShutdownStarts \/ ShutdownStep

CSpec == CInit /\ [][CNext]_allVars

(***************************************************************************)
(* Fairness.  Threads run and get the mutex and the gate; an initializer   *)
(* that is not waiting comes to an end, and other code gives the gate up;  *)
(* code that must stop fails at its next safepoint.                        *)
(***************************************************************************)
Goes(t) ==
  \/ RuntimeStep(t) \/ Resumes(t) \/ Unwinds(t)
  \/ ~InCode(t) /\ EnsureInitialized(t)

CFairness ==
  /\ \A t \in Threads :
       /\ SF_allVars(Goes(t))
       /\ SF_allVars(Busy(t) /\ ClinitReturns(t))
       /\ SF_allVars(~Busy(t) /\ Yields(t))
       /\ SF_allVars(MustStop(t) /\ Fails(t))
  /\ WF_allVars(Carrier) /\ WF_allVars(ShutdownStep)

CFairSpec == CSpec /\ CFairness

-----------------------------------------------------------------------------
CTypeOK ==
  /\ TypeOK
  /\ gate \in Threads \cup {NoThread}
  /\ initialized \subseteq Classes /\ erroneous \subseteq Classes
  /\ initializing \in [Classes -> Threads \cup {NoThread}]
  /\ frames \in [Threads -> Seq([class : Classes, supers : Seq(Classes)])]
  /\ pc \in [Threads -> PCs]
  /\ asked \in [Threads -> Classes \cup {NoClass}]
  /\ after \in [Threads -> {"guest", "throwing", "failing"}]
  /\ sd \in {"idle", "notify", "stop", "list", "wake"}

ClassesOf(t) == {frames[t][i].class : i \in DOMAIN frames[t]}

(***************************************************************************)
(* A class is owned by the thread that is inside its initialization, and   *)
(* by nobody else: no end of an initializer, thrown, failed or cancelled,  *)
(* leaves a class behind that every other thread would wait for.           *)
(***************************************************************************)
OwnersInitialize ==
  \A t \in Threads, c \in Classes :
    initializing[c] = t <=> c \in ClassesOf(t)

\* The initializer of a class runs on one thread at a time, and never again
\* once the class is initialized or erroneous, which it stays.
InitializedOnce ==
  [][/\ initialized \subseteq initialized' /\ erroneous \subseteq erroneous'
     /\ \A t \in Threads : \A c \in ClassesOf(t)' :
          c \notin (initialized \cup erroneous)'
            /\ \A u \in Threads \ {t} : c \notin ClassesOf(u)']_allVars

Waiting(t) == asked[t] # NoClass /\ pc[t] \in {"dozing", "parking", "waiting"}
HostThreads == Threads \ Fibers

\* A host thread that waits for a class leaves when its owner, a host thread or
\* a fiber, is done with it.  (A fiber may miss the notification: it lets the
\* mutex go before it parks, Machine.cpp:7103.)
WaitersLeave ==
  \A t \in HostThreads :
    (Waiting(t) /\ initializing[asked[t]] = NoThread) ~> ~Waiting(t)
=============================================================================
