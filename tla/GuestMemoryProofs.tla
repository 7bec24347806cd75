-------------------------- MODULE GuestMemoryProofs --------------------------
(***************************************************************************)
(* Proofs about JavaThreads, for any Java threads: host threads, fibers    *)
(* and native tasks; about Heap, for any size, generation limit and cache; *)
(* and about ExecutionRoots, for any threads, objects and height of a      *)
(* stack.                                                                  *)
(***************************************************************************)
EXTENDS GuestMemory, TLAPS, FiniteSetTheorems, SequenceTheorems

-----------------------------------------------------------------------------
(***************************************************************************)
(* JavaThreads.  All three results rest on the life of a record.  Only a   *)
(* thread that is over is terminated, and stays so, also when its record   *)
(* is pruned; only one that was never started, or whose host thread could  *)
(* not be made, can be started, and only before the shutdown.              *)
(***************************************************************************)

Over(t) == pc[t] \in {"ended", "listing", "enqueuing", "done"}

Types ==
  /\ jstate \in [Threads -> JavaThreadStates]
  /\ started \in [Threads -> BOOLEAN]
  /\ stopRequested \in [Threads -> BOOLEAN]
  /\ interrupted \in [Threads -> BOOLEAN]
  /\ pc \in [Threads -> PCs]
  /\ target \in [Threads -> Threads \cup {NoThread}]
  /\ timer \in [Threads -> {"none", "pending", "expired"}]
  /\ outcome \in [Threads -> {"none", "completed", "timed_out", "interrupted"}]

Life(t) ==
  /\ jstate[t] = "terminated" <=> Over(t)
  /\ ~started[t] => pc[t] = "new"
  /\ t \notin registered => Over(t)
  /\ pc[t] = "starting" => /\ target[t] \in Threads \ NativeTasks
                           /\ pc[target[t]] = "claimed"
  /\ pc[t] \in {"sleepCheck", "sleeping"} => jstate[t] = "sleeping"
  /\ pc[t] \in {"joinCheck", "dozing", "joinParks", "joining"} =>
       jstate[t] = "joining"
  /\ pc[t] \in {"guest", "starting", "interrupting"} => jstate[t] = "running"
  /\ jstate[t] = "joining" => target[t] \in Threads

OneStarter ==
  \A t, u \in Threads :
    pc[t] = "starting" /\ pc[u] = "starting" /\ target[t] = target[u] => t = u

ToldOrListed(t) ==
  started[t] /\ jstate[t] # "terminated" =>
    stopRequested[t] \/ (sd = "telling" /\ t \in sdThreads)

Stopping ==
  /\ shuttingDown = (sd # "idle") /\ Main \notin sdThreads
  /\ \A t \in Threads : stopRequested[t] => MustStop(t)
  /\ sd # "idle" => \A t \in Threads \ {Main} : ToldOrListed(t)

JoinIsTrue(t) ==
  pc[t] = "resuming" /\ jstate[t] = "joining" /\ outcome[t] = "completed" =>
    jstate[target[t]] = "terminated" \/ MustStop(t)

HostSleepLasts(t) ==
  t \notin Fibers /\ pc[t] = "resuming" /\ jstate[t] = "sleeping"
    /\ outcome[t] = "completed" => timer[t] = "expired" \/ MustStop(t)

ThreadInv ==
  /\ Types
  /\ \A t \in Threads : Life(t) /\ JoinIsTrue(t) /\ HostSleepLasts(t)
  /\ OneStarter
  /\ Stopping

-----------------------------------------------------------------------------
\* What a notification does to a thread that does nothing itself.
Stirred(t) ==
  \/ pc'[t] = pc[t]
  \/ pc[t] = "sleeping" /\ pc'[t] = "sleepCheck"
  \/ pc[t] = "joining" /\ pc'[t] = "joinCheck"

\* Steps in which t alone does something, other than start or be started.
Acts(t) ==
  /\ Types'
  /\ \A u \in Threads \ {t} :
       /\ Stirred(u)
       /\ jstate'[u] = jstate[u] /\ target'[u] = target[u]
       /\ outcome'[u] = outcome[u] /\ timer'[u] = timer[u]
  /\ UNCHANGED <<registered, started, stopRequested, sd, sdThreads, shuttingDown>>
  /\ pc[t] \notin {"new", "claimed", "starting"}
  /\ pc'[t] \notin {"new", "claimed", "starting"}
  /\ Over(t) => Over(t)'
  /\ jstate'[t] = "terminated" <=> Over(t)'
  /\ pc'[t] \in {"sleepCheck", "sleeping"} => jstate'[t] = "sleeping"
  /\ pc'[t] \in {"joinCheck", "dozing", "joinParks", "joining"} =>
       jstate'[t] = "joining"
  /\ pc'[t] \in {"guest", "interrupting"} => jstate'[t] = "running"
  /\ jstate'[t] = "joining" => target'[t] \in Threads
  /\ JoinIsTrue(t)' /\ HostSleepLasts(t)'

LEMMA ActsKeepsThreadInv ==
  ASSUME ThreadInv, NEW t \in Threads, Acts(t)
  PROVE  ThreadInv'
<1>1. ASSUME NEW u \in Threads PROVE Over(u) => Over(u)'
  BY DEF Acts, Stirred, Over
<1>2. ASSUME NEW u \in Threads
      PROVE  jstate'[u] = "terminated" <=> Over(u)'
  BY DEF Acts, Stirred, Over, ThreadInv, Life
<1>3. ASSUME NEW u \in Threads, jstate[u] = "terminated"
      PROVE  jstate'[u] = "terminated"
  BY <1>1, <1>2, <1>3 DEF ThreadInv, Life
<1>4. ASSUME NEW u \in Threads
      PROVE  /\ pc'[u] = "claimed" <=> pc[u] = "claimed"
             /\ pc'[u] = "starting" <=> pc[u] = "starting"
             /\ pc'[u] = "new" <=> pc[u] = "new"
             /\ pc'[u] = "starting" => target'[u] = target[u]
  BY DEF Acts, Stirred
<1>5. \A u \in Threads : MustStop(u)' = MustStop(u)
  BY DEF Acts, MustStop
<1>6. ASSUME NEW u \in Threads PROVE Life(u)'
  <2>1. ~started'[u] => pc'[u] = "new"
    BY <1>4 DEF Acts, ThreadInv, Life
  <2>2. u \notin registered' => Over(u)'
    BY <1>1 DEF Acts, ThreadInv, Life
  <2>3. pc'[u] = "starting" => /\ target'[u] \in Threads \ NativeTasks
                               /\ pc'[target'[u]] = "claimed"
    BY <1>4 DEF ThreadInv, Life
  <2>4. /\ pc'[u] \in {"sleepCheck", "sleeping"} => jstate'[u] = "sleeping"
        /\ pc'[u] \in {"joinCheck", "dozing", "joinParks", "joining"} =>
             jstate'[u] = "joining"
    BY DEF Acts, Stirred, ThreadInv, Life
  <2>5. /\ pc'[u] \in {"guest", "starting", "interrupting"} => jstate'[u] = "running"
        /\ jstate'[u] = "joining" => target'[u] \in Threads
    BY DEF Acts, Stirred, ThreadInv, Life
  <2>6. QED
    BY <1>2, <2>1, <2>2, <2>3, <2>4, <2>5 DEF Life
<1>7. ASSUME NEW u \in Threads PROVE JoinIsTrue(u)' /\ HostSleepLasts(u)'
  <2>1. CASE u = t
    BY <2>1 DEF Acts
  <2>2. CASE u # t
    <3>1. /\ pc'[u] = "resuming" => pc[u] = "resuming"
          /\ jstate'[u] = jstate[u] /\ target'[u] = target[u]
          /\ outcome'[u] = outcome[u] /\ timer'[u] = timer[u]
      BY <2>2 DEF Acts, Stirred
    <3>2. HostSleepLasts(u)'
      BY <1>5, <3>1 DEF ThreadInv, HostSleepLasts
    <3>3. JoinIsTrue(u)'
      <4>1. CASE target[u] \in Threads
        BY <1>3, <1>5, <3>1, <4>1 DEF ThreadInv, JoinIsTrue
      <4>2. CASE jstate[u] # "joining"
        BY <3>1, <4>2 DEF JoinIsTrue
      <4>3. QED
        BY <4>1, <4>2 DEF ThreadInv, Life
    <3>4. QED
      BY <3>2, <3>3
  <2>3. QED
    BY <2>1, <2>2
<1>8. OneStarter'
  BY <1>4 DEF ThreadInv, OneStarter
<1>9. Stopping'
  BY <1>3, <1>5 DEF Acts, ThreadInv, Stopping, ToldOrListed
<1>10. QED
  BY <1>6, <1>7, <1>8, <1>9 DEF Acts, ThreadInv

\* Steps in which no thread does anything itself: time, the carrier, and the
\* notifications of the shutdown.
Quiet ==
  /\ Types'
  /\ \A u \in Threads :
       /\ Stirred(u)
       /\ timer'[u] = timer[u] \/ timer'[u] = "expired"
  /\ UNCHANGED <<registered, started, jstate, target, outcome, shuttingDown>>

LEMMA QuietKeepsLives ==
  ASSUME ThreadInv, Quiet
  PROVE  /\ Types'
         /\ \A t \in Threads : Life(t)' /\ JoinIsTrue(t)' /\ HostSleepLasts(t)'
         /\ OneStarter'
<1>1. ASSUME NEW u \in Threads
      PROVE  /\ Over(u)' <=> Over(u)
             /\ pc'[u] = "claimed" <=> pc[u] = "claimed"
             /\ pc'[u] = "starting" <=> pc[u] = "starting"
             /\ pc'[u] = "resuming" <=> pc[u] = "resuming"
             /\ pc'[u] = "new" <=> pc[u] = "new"
             /\ pc'[u] \in {"guest", "starting", "interrupting"} =>
                  pc[u] \in {"guest", "starting", "interrupting"}
             /\ pc'[u] \in {"sleepCheck", "sleeping"} =>
                  pc[u] \in {"sleepCheck", "sleeping"}
             /\ pc'[u] \in {"joinCheck", "dozing", "joinParks", "joining"} =>
                  pc[u] \in {"joinCheck", "dozing", "joinParks", "joining"}
  BY DEF Quiet, Stirred, Over
<1>2. ASSUME NEW u \in Threads PROVE Life(u)'
  BY <1>1 DEF Quiet, ThreadInv, Life
<1>3. ASSUME NEW u \in Threads PROVE JoinIsTrue(u)' /\ HostSleepLasts(u)'
  BY <1>1 DEF Quiet, ThreadInv, JoinIsTrue, HostSleepLasts, MustStop
<1>4. OneStarter'
  BY <1>1 DEF Quiet, ThreadInv, OneStarter
<1>5. QED
  BY <1>2, <1>3, <1>4 DEF Quiet

LEMMA QuietKeepsThreadInv ==
  ASSUME ThreadInv, Quiet, UNCHANGED <<stopRequested, sd, sdThreads>>
  PROVE  ThreadInv'
<1>1. Stopping'
  BY DEF Quiet, ThreadInv, Stopping, ToldOrListed, MustStop
<1>2. QED
  BY <1>1, QuietKeepsLives DEF ThreadInv

\* notify_all on the conditions of some threads.
LEMMA NotifiedStirs ==
  ASSUME ThreadInv, NEW us
  PROVE  /\ Notified(us) \in [Threads -> PCs]
         /\ \A u \in Threads :
              \/ Notified(us)[u] = pc[u]
              \/ pc[u] = "sleeping" /\ Notified(us)[u] = "sleepCheck"
              \/ pc[u] = "joining" /\ Notified(us)[u] = "joinCheck"
BY DEF ThreadInv, Types, Notified, PCs

\* Of what the fibers' module keeps, these proofs need only the flag.
LEMMA FiberStepsKeepFlag ==
  /\ \A f : EnsureCarrier(f) \/ Launch(f) \/ YieldFiber(f) \/ FinishFiber(f)
             \/ DeadlinePasses(f) \/ Wake(f) => shuttingDown' = shuttingDown
  /\ \A f, reason, deadline :
       ParkFiber(f, reason, deadline) => shuttingDown' = shuttingDown
  /\ \A w, reason : ListParked(w, reason) => shuttingDown' = shuttingDown
  /\ \A w, f : WakeListed(w, f) => shuttingDown' = shuttingDown
  /\ \A w : ListAll(w) => shuttingDown' = shuttingDown
  /\ Resume \/ FindNothing \/ RouseCarrier \/ JoinCarrier \/ ClearFibers =>
       shuttingDown' = shuttingDown
  /\ UNCHANGED vars => shuttingDown' = shuttingDown
<1>1. shutdown' = shutdown => shuttingDown' = shuttingDown
  BY DEF shuttingDown
<1>2. JoinCarrier \/ ClearFibers => shuttingDown' = shuttingDown
  BY DEF JoinCarrier, ClearFibers, shuttingDown
<1>3. Resume \/ FindNothing \/ RouseCarrier => shutdown' = shutdown
  BY DEF Resume, FindNothing, RouseCarrier, startVars
<1>4. \A f : EnsureCarrier(f) \/ Launch(f) \/ YieldFiber(f) \/ FinishFiber(f)
                \/ DeadlinePasses(f) \/ Wake(f) => shutdown' = shutdown
  BY DEF EnsureCarrier, Launch, YieldFiber, FinishFiber, DeadlinePasses, Wake, startVars
<1>5. \A f, reason, deadline : ParkFiber(f, reason, deadline) => shutdown' = shutdown
  BY DEF ParkFiber, startVars
<1>6. /\ \A w, reason : ListParked(w, reason) => shutdown' = shutdown
      /\ \A w, f : WakeListed(w, f) => shutdown' = shutdown
      /\ \A w : ListAll(w) => shutdown' = shutdown
  BY DEF ListParked, WakeListed, ListAll, startVars
<1>7. UNCHANGED vars => shutdown' = shutdown
  BY DEF vars, startVars
<1> QED BY <1>1, <1>2, <1>3, <1>4, <1>5, <1>6, <1>7

-----------------------------------------------------------------------------
(***************************************************************************)
(* The steps of a thread that is neither starting another nor ending.      *)
(***************************************************************************)
LEMMA BeginKeeps ==
  ASSUME ThreadInv, NEW t \in Threads, Begin(t)
  PROVE  ThreadInv'
<1>1. Acts(t)
  BY FiberStepsKeepFlag DEF Begin, Move, Acts, ThreadInv, Types, Life, Over, Stirred,
     JoinIsTrue, HostSleepLasts, waitVars, shutdownVars, PCs, JavaThreadStates
<1>2. QED
  BY <1>1, ActsKeepsThreadInv

LEMMA TakeGateKeeps ==
  ASSUME ThreadInv, NEW t \in Threads, TakeGate(t)
  PROVE  ThreadInv'
<1>1. Acts(t)
  BY FiberStepsKeepFlag DEF TakeGate, Move, Acts, ThreadInv, Types, Life, Over, Stirred,
     JoinIsTrue, HostSleepLasts, waitVars, shutdownVars, PCs, JavaThreadStates
<1>2. QED
  BY <1>1, ActsKeepsThreadInv

LEMMA YieldKeeps ==
  ASSUME ThreadInv, NEW t \in Threads, Yield(t)
  PROVE  ThreadInv'
<1>1. shuttingDown' = shuttingDown
  BY FiberStepsKeepFlag DEF Yield
<1>2. Acts(t)
  BY <1>1 DEF Yield, Guest, Move, Acts, ThreadInv, Types, Life, Over, Stirred,
     JoinIsTrue, HostSleepLasts, waitVars, shutdownVars, PCs, JavaThreadStates
<1>3. QED
  BY <1>2, ActsKeepsThreadInv

LEMMA ReturnKeeps ==
  ASSUME ThreadInv, NEW t \in Threads, Return(t)
  PROVE  ThreadInv'
<1>1. shuttingDown' = shuttingDown
  BY FiberStepsKeepFlag DEF Return
<1>2. Acts(t)
  BY <1>1 DEF Return, Guest, Move, Acts, ThreadInv, Types, Life,
     Over, Stirred, JoinIsTrue, HostSleepLasts, flagVars, waitVars, shutdownVars,
     PCs, JavaThreadStates
<1>3. QED
  BY <1>2, ActsKeepsThreadInv

LEMMA ConsumeInterruptKeeps ==
  ASSUME ThreadInv, NEW t \in Threads, ConsumeInterrupt(t)
  PROVE  ThreadInv'
<1>1. shuttingDown' = shuttingDown
  BY FiberStepsKeepFlag DEF ConsumeInterrupt
<1>2. Acts(t)
  BY <1>1 DEF ConsumeInterrupt, Guest, Acts, ThreadInv, Types, Life,
     Over, Stirred, JoinIsTrue, HostSleepLasts, flagVars, waitVars, shutdownVars,
     PCs, JavaThreadStates
<1>3. QED
  BY <1>2, ActsKeepsThreadInv

LEMMA SleepKeeps ==
  ASSUME ThreadInv, NEW t \in Threads, Sleep(t) \/ SleepBlocks(t)
  PROVE  ThreadInv'
<1>1. shuttingDown' = shuttingDown
  BY FiberStepsKeepFlag DEF Sleep, SleepBlocks
<1>2. Acts(t)
  BY <1>1 DEF Sleep, SleepBlocks, Calls, Guest, Move, Acts, ThreadInv, Types, Life,
     Over, Stirred, JoinIsTrue, HostSleepLasts, flagVars, waitVars, shutdownVars,
     PCs, JavaThreadStates
<1>3. QED
  BY <1>2, ActsKeepsThreadInv

\* A host thread's sleep that completes ran out of time or was stopped.
LEMMA SleepEndsKeeps ==
  ASSUME ThreadInv, NEW t \in Threads, SleepEnds(t)
  PROVE  ThreadInv'
<1>1. shuttingDown' = shuttingDown
  BY FiberStepsKeepFlag DEF SleepEnds
<1>2. /\ pc[t] \in {"sleepCheck", "sleeping"} /\ pc' = [pc EXCEPT ![t] = "resuming"]
      /\ outcome' = [outcome EXCEPT ![t] =
           IF interrupted[t] THEN "interrupted" ELSE "completed"]
      /\ interrupted' = [interrupted EXCEPT ![t] = FALSE]
      /\ UNCHANGED <<registered, jstate, started, stopRequested, target, timer,
                     sd, sdThreads>>
  BY DEF SleepEnds, Move, shutdownVars
<1>3. jstate[t] = "sleeping"
  BY <1>2 DEF ThreadInv, Life
<1>4. HostSleepLasts(t)'
  BY <1>1, <1>2 DEF SleepEnds, SleepIsOver, Awakened, HostSleepLasts, MustStop,
     ThreadInv, Types, Stopping
<1>5. Acts(t)
  BY <1>1, <1>2, <1>3, <1>4 DEF Acts, ThreadInv, Types, Life, Over, Stirred,
     JoinIsTrue, PCs
<1>6. QED
  BY <1>5, ActsKeepsThreadInv

LEMMA JoinKeeps ==
  ASSUME ThreadInv, NEW t \in Threads, NEW u \in Threads,
         NEW timed \in BOOLEAN, Join(t, u, timed)
  PROVE  ThreadInv'
<1>1. shuttingDown' = shuttingDown
  BY FiberStepsKeepFlag DEF Join
<1>2. Acts(t)
  BY <1>1 DEF Join, Calls, Guest, Move, Acts, ThreadInv, Types, Life,
     Over, Stirred, JoinIsTrue, HostSleepLasts, flagVars, waitVars, shutdownVars,
     PCs, JavaThreadStates
<1>3. QED
  BY <1>2, ActsKeepsThreadInv

LEMMA JoinWaitsKeep ==
  ASSUME ThreadInv, NEW t \in Threads, JoinBlocks(t) \/ Doze(t) \/ JoinParks(t) \/ JoinResumes(t)
  PROVE  ThreadInv'
<1>1. shuttingDown' = shuttingDown
  BY FiberStepsKeepFlag DEF JoinBlocks, Doze, JoinParks, JoinResumes
<1>2. Acts(t)
  BY <1>1 DEF JoinBlocks, Doze, JoinParks, JoinResumes, Move, Acts, ThreadInv, Types, Life,
     Over, Stirred, JoinIsTrue, HostSleepLasts, flagVars, waitVars, shutdownVars,
     PCs, JavaThreadStates
<1>3. QED
  BY <1>2, ActsKeepsThreadInv

\* What a join reports as the end of its target is that, or a stop.
LEMMA JoinEndsKeeps ==
  ASSUME ThreadInv, NEW t \in Threads, JoinEnds(t)
  PROVE  ThreadInv'
<1>1. shuttingDown' = shuttingDown
  BY FiberStepsKeepFlag DEF JoinEnds
<1>2. /\ pc[t] = "joinCheck" /\ pc' = [pc EXCEPT ![t] = "resuming"]
      /\ outcome' = [outcome EXCEPT ![t] = JoinOutcome(t)]
      /\ interrupted' = [interrupted EXCEPT ![t] =
           interrupted[t] /\ JoinOutcome(t) # "interrupted"]
      /\ UNCHANGED <<registered, jstate, started, stopRequested, target, timer,
                     sd, sdThreads>>
  BY DEF JoinEnds, Move, shutdownVars
<1>3. /\ JoinOutcome(t) \in {"completed", "timed_out", "interrupted"}
      /\ JoinOutcome(t) = "completed" =>
           jstate[target[t]] = "terminated" \/ stopRequested[t]
  BY DEF JoinOutcome
<1>4. JoinIsTrue(t)'
  BY <1>1, <1>2, <1>3 DEF JoinIsTrue, MustStop, ThreadInv, Types, Stopping
<1>5. jstate[t] = "joining"
  BY <1>2 DEF ThreadInv, Life
<1>6. Acts(t)
  BY <1>1, <1>2, <1>3, <1>4, <1>5 DEF Acts, ThreadInv, Types, Life, Over, Stirred,
     HostSleepLasts, PCs
<1>7. QED
  BY <1>6, ActsKeepsThreadInv

LEMMA InterruptKeeps ==
  ASSUME ThreadInv, NEW t \in Threads, NEW u \in Threads, Interrupt(t, u)
  PROVE  ThreadInv'
<1>1. shuttingDown' = shuttingDown
  BY FiberStepsKeepFlag DEF Interrupt
<1>2. Acts(t)
  BY <1>1 DEF Interrupt, Calls, Guest, Move, Acts, ThreadInv, Types, Life,
     Over, Stirred, JoinIsTrue, HostSleepLasts, flagVars, waitVars, shutdownVars,
     PCs, JavaThreadStates
<1>3. QED
  BY <1>2, ActsKeepsThreadInv

-----------------------------------------------------------------------------
(***************************************************************************)
(* The steps that notify, the end of a thread, and the steps of none.      *)
(***************************************************************************)
LEMMA WakeInterruptedKeeps ==
  ASSUME ThreadInv, NEW t \in Threads, WakeInterrupted(t)
  PROVE  ThreadInv'
<1>1. shuttingDown' = shuttingDown
  BY FiberStepsKeepFlag DEF WakeInterrupted
<1> DEFINE n == Notified(registered)
<1>2. /\ n \in [Threads -> PCs]
      /\ \A u \in Threads :
           \/ n[u] = pc[u]
           \/ pc[u] = "sleeping" /\ n[u] = "sleepCheck"
           \/ pc[u] = "joining" /\ n[u] = "joinCheck"
  BY NotifiedStirs
<1>3. pc' = [n EXCEPT ![t] = "guest"]
  BY DEF WakeInterrupted, AllConditions
<1> HIDE DEF n
<1>4. /\ pc' \in [Threads -> PCs] /\ pc'[t] = "guest"
      /\ \A u \in Threads \ {t} : Stirred(u)
  BY <1>2, <1>3 DEF Stirred, PCs
<1>5. Acts(t)
  BY <1>1, <1>4 DEF WakeInterrupted, Acts, ThreadInv, Types, Life, Over, JoinIsTrue,
     HostSleepLasts, flagVars, waitVars, shutdownVars
<1>6. QED
  BY <1>5, ActsKeepsThreadInv

LEMMA TellJoinersKeeps ==
  ASSUME ThreadInv, NEW t \in Threads, TellJoiners(t)
  PROVE  ThreadInv'
<1>1. shuttingDown' = shuttingDown
  BY FiberStepsKeepFlag DEF TellJoiners
<1> DEFINE n == Notified({t})
<1>2. /\ n \in [Threads -> PCs]
      /\ \A u \in Threads :
           \/ n[u] = pc[u]
           \/ pc[u] = "sleeping" /\ n[u] = "sleepCheck"
           \/ pc[u] = "joining" /\ n[u] = "joinCheck"
  BY NotifiedStirs
<1>3. pc' = [n EXCEPT ![t] = "listing"]
  BY DEF TellJoiners, JoinersTold
<1> HIDE DEF n
<1>4. /\ pc' \in [Threads -> PCs] /\ pc'[t] = "listing"
      /\ \A u \in Threads \ {t} : Stirred(u)
  BY <1>2, <1>3 DEF Stirred, PCs
<1>5. Acts(t)
  BY <1>1, <1>4 DEF TellJoiners, Acts, ThreadInv, Types, Life, Over, JoinIsTrue,
     HostSleepLasts, flagVars, waitVars, shutdownVars
<1>6. QED
  BY <1>5, ActsKeepsThreadInv

LEMMA EndKeeps ==
  ASSUME ThreadInv, NEW t \in Threads, Terminate(t) \/ ListJoiners(t) \/ Exit(t)
  PROVE  ThreadInv'
<1>1. shuttingDown' = shuttingDown
  BY FiberStepsKeepFlag DEF Terminate, ListJoiners, Exit
<1>2. Acts(t)
  BY <1>1 DEF Terminate, ListJoiners, Exit, Move, Acts, ThreadInv, Types, Life,
     Over, Stirred, JoinIsTrue, HostSleepLasts, flagVars, waitVars, shutdownVars,
     PCs, JavaThreadStates
<1>3. QED
  BY <1>2, ActsKeepsThreadInv

LEMMA TimerExpiresKeeps ==
  ASSUME ThreadInv, NEW t \in Threads, TimerExpires(t)
  PROVE  ThreadInv'
<1>1. shuttingDown' = shuttingDown
  BY FiberStepsKeepFlag DEF TimerExpires
<1>2. /\ timer' = [timer EXCEPT ![t] = "expired"]
      /\ pc' = IF t \in Fibers THEN pc
               ELSE [pc EXCEPT ![t] = CASE pc[t] = "sleeping" -> "sleepCheck"
                                        [] pc[t] = "joining" -> "joinCheck"
                                        [] OTHER -> pc[t]]
      /\ UNCHANGED <<flagVars, target, outcome, sd, sdThreads>>
  BY DEF TimerExpires, shutdownVars
<1>3. pc' \in [Threads -> PCs] /\ \A u \in Threads : Stirred(u)
  BY <1>2 DEF ThreadInv, Types, Stirred, PCs
<1>4. Quiet /\ UNCHANGED <<stopRequested, sd, sdThreads>>
  BY <1>1, <1>2, <1>3 DEF Quiet, ThreadInv, Types, flagVars
<1>5. QED
  BY <1>4, QuietKeepsThreadInv

\* The fibers' module alone does something.
LEMMA FiberStepKeeps ==
  ASSUME ThreadInv, UNCHANGED threadVars, shuttingDown' = shuttingDown
  PROVE  ThreadInv'
<1>1. Quiet /\ UNCHANGED <<stopRequested, sd, sdThreads>>
  BY DEF Quiet, Stirred, ThreadInv, Types, threadVars, flagVars, waitVars,
         shutdownVars
<1>2. QED
  BY <1>1, QuietKeepsThreadInv

-----------------------------------------------------------------------------
(***************************************************************************)
(* Shutdown.  ToStop has everyone who matters: whose record is pruned has  *)
(* terminated, and who starts later is refused.                            *)
(***************************************************************************)
LEMMA ShutdownBeginsKeeps ==
  ASSUME ThreadInv, ShutdownBegins
  PROVE  ThreadInv'
<1>0. shuttingDown' = TRUE
  BY DEF ShutdownBegins, BeginShutdown, shuttingDown
<1>1. /\ sd = "idle" /\ sd' = "telling" /\ sdThreads' = registered \ {Main}
      /\ shuttingDown' = TRUE
      /\ UNCHANGED <<registered, jstate, started, interrupted, stopRequested, pc,
                     target, timer, outcome>>
  BY <1>0 DEF ShutdownBegins, ToStop, flagVars, waitVars
<1>2. \A t \in Threads : MustStop(t) => MustStop(t)'
  BY <1>1 DEF MustStop
<1>3. \A t \in Threads : Life(t)' /\ JoinIsTrue(t)' /\ HostSleepLasts(t)'
  BY <1>1, <1>2 DEF ThreadInv, Life, Over, JoinIsTrue, HostSleepLasts
<1>4. \A t \in Threads \ {Main} : ToldOrListed(t)'
  BY <1>1 DEF ThreadInv, Life, ToldOrListed
<1>5. Stopping'
  BY <1>1, <1>2, <1>4 DEF ThreadInv, Stopping
<1>6. Types' /\ OneStarter'
  BY <1>1 DEF ThreadInv, Types, OneStarter
<1>7. QED
  BY <1>3, <1>5, <1>6 DEF ThreadInv

LEMMA TellStopKeeps ==
  ASSUME ThreadInv, NEW u \in Threads, TellStop(u)
  PROVE  ThreadInv'
<1>1. /\ sd = "telling" /\ u \in sdThreads
      /\ sdThreads' = sdThreads \ {u}
      /\ stopRequested' = [stopRequested EXCEPT ![u] = TRUE]
      /\ interrupted' = [interrupted EXCEPT ![u] = TRUE]
      /\ pc' = Notified({u})
      /\ UNCHANGED <<shuttingDown, registered, jstate, started, target, timer,
                     outcome, sd>>
  BY FiberStepsKeepFlag DEF TellStop, waitVars
<1>2. pc' \in [Threads -> PCs] /\ \A t \in Threads : Stirred(t)
  BY <1>1, NotifiedStirs DEF Stirred
<1>3. Quiet
  BY <1>1, <1>2 DEF Quiet, ThreadInv, Types
<1>4. Stopping'
  BY <1>1 DEF ThreadInv, Types, Stopping, ToldOrListed, MustStop
<1>5. QED
  BY <1>3, <1>4, QuietKeepsLives DEF ThreadInv

\* Once everyone is told, sd moves on.
LEMMA ShutdownGoesOn ==
  ASSUME ThreadInv, UNCHANGED <<gate, flagVars, pc, waitVars, shuttingDown>>,
         \/ sd # "idle" /\ sd' # "idle"
         \/ sd' = sd,
         Main \notin sdThreads',
         \/ sd = "telling" => sdThreads = {}
         \/ sd' = sd /\ sdThreads' = sdThreads
  PROVE  ThreadInv'
<1>1. Quiet
  BY DEF Quiet, Stirred, ThreadInv, Types, flagVars, waitVars
<1>2. Stopping'
  BY DEF ThreadInv, Stopping, ToldOrListed, MustStop, flagVars
<1>3. QED
  BY <1>1, <1>2, QuietKeepsLives DEF ThreadInv

LEMMA ShutdownStepKeeps ==
  ASSUME ThreadInv, ShutdownStep
  PROVE  ThreadInv'
<1>1. ASSUME NEW u \in Threads, TellStop(u) PROVE ThreadInv'
  BY <1>1, TellStopKeeps
<1>2. ASSUME NEW u \in Threads, JoinWorker(u) PROVE ThreadInv'
  <2>1. /\ UNCHANGED <<gate, flagVars, pc, waitVars, shuttingDown>>
        /\ sd = "joining" /\ sd' = sd /\ sdThreads' = sdThreads \ {u}
    BY <1>2, FiberStepsKeepFlag DEF JoinWorker
  <2>2. QED
    BY <2>1, ShutdownGoesOn DEF ThreadInv, Stopping
<1>3. CASE ListForShutdown
  <2>1. /\ UNCHANGED <<gate, flagVars, pc, waitVars, shuttingDown>>
        /\ sd = "telling" /\ sd' = "waking" /\ sdThreads = {} /\ sdThreads' = {}
    BY <1>3, FiberStepsKeepFlag DEF ListForShutdown
  <2>2. QED
    BY <2>1, ShutdownGoesOn
<1>4. CASE WakeForShutdown
  BY <1>4, FiberStepKeeps, FiberStepsKeepFlag DEF WakeForShutdown, FibersWoken
<1>5. CASE ShutdownJoins
  <2>1. /\ UNCHANGED <<gate, flagVars, pc, waitVars, shuttingDown>>
        /\ sd = "waking" /\ sd' = "joining" /\ Main \notin sdThreads'
    BY <1>5, FiberStepsKeepFlag DEF ShutdownJoins
  <2>2. QED
    BY <2>1, ShutdownGoesOn
<1>6. CASE RouseForShutdown
  BY <1>6, FiberStepKeeps, FiberStepsKeepFlag DEF RouseForShutdown
<1>7. CASE ShutdownReturns
  <2>1. /\ UNCHANGED <<gate, flagVars, pc, waitVars, shuttingDown>>
        /\ sd = "joining" /\ sd' = "done" /\ sdThreads' = sdThreads
    BY <1>7, FiberStepsKeepFlag DEF ShutdownReturns
  <2>2. QED
    BY <2>1, ShutdownGoesOn DEF ThreadInv, Stopping
<1>8. CASE ShutdownJoinsCarrier
  BY <1>8, FiberStepKeeps, FiberStepsKeepFlag DEF ShutdownJoinsCarrier
<1>9. QED
  BY <1>1, <1>2, <1>3, <1>4, <1>5, <1>6, <1>7, <1>8 DEF ShutdownStep

-----------------------------------------------------------------------------
(***************************************************************************)
(* The starts.  The thread that is started was new: it is neither starting *)
(* anyone nor over.                                                        *)
(***************************************************************************)
\* u is claimed, by t or by nobody's guest code.
LEMMA ClaimedKeeps ==
  ASSUME ThreadInv, NEW u \in Threads, pc[u] = "new", ~shuttingDown,
         started' = [started EXCEPT ![u] = TRUE],
         jstate' = [jstate EXCEPT ![u] = "runnable"],
         \A v \in Threads : v \notin registered' =>
           v \notin registered \/ jstate[v] = "terminated",
         UNCHANGED <<shuttingDown, interrupted, stopRequested, timer, outcome,
                     sd, sdThreads>>,
         \/ /\ pc' = [pc EXCEPT ![u] = "claimed"] /\ target' = target
         \/ /\ u \notin NativeTasks
            /\ \E t \in Threads :
                 /\ pc[t] = "guest"
                 /\ pc' = [pc EXCEPT ![t] = "starting", ![u] = "claimed"]
                 /\ target' = [target EXCEPT ![t] = u]
  PROVE  ThreadInv'
<1>1. /\ pc' \in [Threads -> PCs] /\ target' \in [Threads -> Threads \cup {NoThread}]
      /\ pc'[u] = "claimed"
      /\ \A v \in Threads \ {u} :
           \/ pc'[v] = pc[v] /\ target'[v] = target[v]
           \/ /\ pc[v] = "guest" /\ pc'[v] = "starting" /\ target'[v] = u
              /\ u \notin NativeTasks
      /\ \A v, w \in Threads \ {u} :
           pc[v] = "guest" /\ pc'[v] = "starting"
             /\ pc[w] = "guest" /\ pc'[w] = "starting" => v = w
      /\ pc'[u] = "claimed"
  BY DEF ThreadInv, Types, PCs
<1>2. Types'
  BY <1>1 DEF ThreadInv, Types, JavaThreadStates
<1>3. \A v \in Threads : pc[v] = "starting" => target[v] # u
  BY DEF ThreadInv, Life
<1>4. ASSUME NEW v \in Threads PROVE Over(v)' <=> Over(v)
  BY <1>1 DEF Over
<1>5. jstate[u] # "terminated"
  BY DEF ThreadInv, Life, Over
<1>6. ASSUME NEW v \in Threads PROVE Life(v)'
  <2>1. CASE v = u
    BY <1>1, <1>4, <1>5, <2>1 DEF ThreadInv, Types, Life, Over
  <2>2. CASE v # u
    <3>1. /\ jstate'[v] = jstate[v] /\ started'[v] = started[v]
      BY <2>2 DEF ThreadInv, Types
    <3>2. v \notin registered' => Over(v)'
      BY <1>4 DEF ThreadInv, Life
    <3>3. pc'[v] = "starting" => target'[v] \in Threads \ NativeTasks
                                   /\ pc'[target'[v]] = "claimed"
      BY <1>1, <1>3, <2>2 DEF ThreadInv, Life
    <3>4. QED
      BY <1>1, <1>4, <2>2, <3>1, <3>2, <3>3 DEF ThreadInv, Life
  <2>3. QED
    BY <2>1, <2>2
<1>7. ASSUME NEW v \in Threads PROVE JoinIsTrue(v)' /\ HostSleepLasts(v)'
  <2>1. CASE pc'[v] # "resuming"
    BY <2>1 DEF JoinIsTrue, HostSleepLasts
  <2>2. CASE pc'[v] = "resuming"
    <3>1. v # u /\ pc[v] = "resuming" /\ target'[v] = target[v]
          /\ jstate'[v] = jstate[v]
      BY <1>1, <2>2 DEF ThreadInv, Types
    <3>2. jstate[v] = "joining" => target[v] \in Threads
      BY DEF ThreadInv, Life
    <3>3. QED
      BY <1>5, <3>1, <3>2 DEF ThreadInv, Types, JoinIsTrue, HostSleepLasts, MustStop
  <2>3. QED
    BY <2>1, <2>2
<1>8. OneStarter'
  BY <1>1, <1>3 DEF ThreadInv, OneStarter
<1>9. Stopping'
  BY DEF ThreadInv, Stopping, MustStop
<1>10. QED
  BY <1>2, <1>6, <1>7, <1>8, <1>9 DEF ThreadInv

\* u is claimed no longer: it runs, or goes back to where it was.
LEMMA UnclaimedKeeps ==
  ASSUME ThreadInv, NEW u \in Threads, pc[u] = "claimed",
         \/ /\ pc'[u] = "born" /\ started' = started /\ jstate' = jstate
         \/ /\ pc'[u] = "new" /\ started' = [started EXCEPT ![u] = FALSE]
            /\ jstate' = [jstate EXCEPT ![u] = "new"],
         pc' \in [Threads -> PCs], target' \in [Threads -> Threads \cup {NoThread}],
         target'[u] = target[u],
         \A v \in Threads \ {u} :
           \/ pc'[v] = pc[v] /\ target'[v] = target[v]
                /\ (pc[v] = "starting" => target[v] # u)
           \/ pc[v] = "starting" /\ pc'[v] = "guest",
         UNCHANGED <<shuttingDown, registered, interrupted, stopRequested, timer,
                     outcome, sd, sdThreads>>
  PROVE  ThreadInv'
<1>1. Types'
  BY DEF ThreadInv, Types, JavaThreadStates
<1>2. ASSUME NEW v \in Threads PROVE Over(v)' <=> Over(v)
  BY DEF Over
<1>3. jstate[u] # "terminated" /\ started[u]
  BY DEF ThreadInv, Life, Over
<1>4. \A v \in Threads \ {u} : jstate'[v] = jstate[v] /\ started'[v] = started[v]
  BY DEF ThreadInv, Types
<1>5. ASSUME NEW v \in Threads PROVE Life(v)'
  <2>1. CASE v = u
    <3>1. jstate'[u] # "terminated" /\ ~Over(u)'
      BY <1>2, <1>3 DEF ThreadInv, Types, Over
    <3>2. u \in registered' /\ (~started'[u] => pc'[u] = "new")
      BY <1>3, <3>1 DEF ThreadInv, Life, Over
    <3>3. jstate'[u] = "joining" => target'[u] \in Threads
      <4>1. CASE jstate' = jstate
        <5>1. jstate[u] # "joining" \/ target[u] \in Threads
          BY DEF ThreadInv, Life
        <5>2. QED
          BY <4>1, <5>1
      <4>2. QED
        BY <4>1 DEF ThreadInv, Types
    <3>4. QED
      BY <2>1, <3>1, <3>2, <3>3 DEF Life
  <2>2. CASE v # u /\ pc'[v] = pc[v] /\ target'[v] = target[v]
               /\ (pc[v] = "starting" => target[v] # u)
    <3>1. pc'[v] = "starting" => target'[v] \in Threads \ NativeTasks
                                   /\ pc'[target'[v]] = "claimed"
      BY <2>2 DEF ThreadInv, Life
    <3>2. QED
      BY <1>2, <1>4, <2>2, <3>1 DEF ThreadInv, Life
  <2>3. CASE v # u /\ pc[v] = "starting" /\ pc'[v] = "guest"
    BY <1>2, <1>4, <2>3 DEF ThreadInv, Life
  <2>4. QED
    BY <2>1, <2>2, <2>3
<1>6. ASSUME NEW v \in Threads PROVE JoinIsTrue(v)' /\ HostSleepLasts(v)'
  <2>1. CASE pc'[v] # "resuming"
    BY <2>1 DEF JoinIsTrue, HostSleepLasts
  <2>2. CASE pc'[v] = "resuming"
    <3>1. /\ v # u /\ pc[v] = "resuming" /\ target'[v] = target[v]
          /\ jstate'[v] = jstate[v]
      BY <1>4, <2>2
    <3>2. jstate[v] = "joining" => target[v] \in Threads
      BY DEF ThreadInv, Life
    <3>3. QED
      BY <1>3, <1>4, <3>1, <3>2
         DEF ThreadInv, JoinIsTrue, HostSleepLasts, MustStop
  <2>3. QED
    BY <2>1, <2>2
<1>7. OneStarter'
  BY DEF ThreadInv, OneStarter
<1>8. Stopping'
  BY <1>3, <1>4 DEF ThreadInv, Stopping, ToldOrListed, MustStop
<1>9. QED
  BY <1>1, <1>5, <1>6, <1>7, <1>8 DEF ThreadInv

LEMMA StartKeeps ==
  ASSUME ThreadInv, NEW t \in Threads, NEW u \in Threads, Start(t, u)
  PROVE  ThreadInv'
<1>1. shuttingDown' = shuttingDown
  BY FiberStepsKeepFlag DEF Start
<1>2. pc[u] = "new"
  BY DEF Start, ThreadInv, Life
<1>3. /\ pc[t] = "guest" /\ u \notin NativeTasks /\ ~shuttingDown
      /\ started' = [started EXCEPT ![u] = TRUE]
      /\ jstate' = [jstate EXCEPT ![u] = "runnable"]
      /\ pc' = [pc EXCEPT ![t] = "starting", ![u] = "claimed"]
      /\ target' = [target EXCEPT ![t] = u]
      /\ UNCHANGED <<registered, interrupted, stopRequested, timer, outcome, sd,
                     sdThreads>>
  BY DEF Start, Calls, Guest, MayStart, shutdownVars
<1>4. QED
  BY <1>1, <1>2, <1>3, ClaimedKeeps

LEMMA StartNativeKeeps ==
  ASSUME ThreadInv, NEW u \in Threads, StartNative(u)
  PROVE  ThreadInv'
<1>1. shuttingDown' = shuttingDown
  BY FiberStepsKeepFlag DEF StartNative
<1>2. /\ pc[u] = "new" /\ ~shuttingDown
      /\ started' = [started EXCEPT ![u] = TRUE]
      /\ jstate' = [jstate EXCEPT ![u] = "runnable"]
      /\ pc' = [pc EXCEPT ![u] = "claimed"] /\ target' = target
      /\ UNCHANGED <<interrupted, stopRequested, timer, outcome, sd, sdThreads>>
  BY DEF StartNative, MayStart, Move, waitVars, shutdownVars
<1>3. \A v \in Threads : v \notin registered' =>
        v \notin registered \/ jstate[v] = "terminated"
  BY DEF StartNative, Retired
<1>4. QED
  BY <1>1, <1>2, <1>3, ClaimedKeeps

LEMMA StartLaunchKeeps ==
  ASSUME ThreadInv, NEW t \in Threads, StartLaunch(t) \/ StartFails(t)
  PROVE  ThreadInv'
<1> DEFINE u == target[t]
<1>1. shuttingDown' = shuttingDown
  BY FiberStepsKeepFlag DEF StartLaunch, StartFails
<1>2. pc[t] = "starting" /\ u \in Threads /\ pc[u] = "claimed" /\ u # t
  BY DEF StartLaunch, StartFails, ThreadInv, Life
<1>3. /\ target' = [target EXCEPT ![t] = NoThread]
      /\ UNCHANGED <<registered, interrupted, stopRequested, timer, outcome, sd,
                     sdThreads>>
      /\ \/ /\ pc' = [pc EXCEPT ![t] = "guest", ![u] = "born"]
            /\ started' = started /\ jstate' = jstate
         \/ /\ pc' = [pc EXCEPT ![t] = "guest", ![u] = "new"]
            /\ started' = [started EXCEPT ![u] = FALSE]
            /\ jstate' = [jstate EXCEPT ![u] = "new"]
  BY DEF StartLaunch, StartFails, flagVars, shutdownVars
<1> HIDE DEF u
<1>4. \A v \in Threads \ {t} : pc[v] = "starting" => target[v] # u
  BY <1>2 DEF ThreadInv, OneStarter, u
<1>5. \A v \in Threads \ {u} :
        \/ pc'[v] = pc[v] /\ target'[v] = target[v]
             /\ (pc[v] = "starting" => target[v] # u)
        \/ pc[v] = "starting" /\ pc'[v] = "guest"
  BY <1>2, <1>3, <1>4 DEF ThreadInv, Types
<1>6. /\ pc' \in [Threads -> PCs]
      /\ target' \in [Threads -> Threads \cup {NoThread}]
  BY <1>3 DEF ThreadInv, Types, PCs
<1>7. \/ pc'[u] = "born" /\ started' = started /\ jstate' = jstate
      \/ /\ pc'[u] = "new" /\ started' = [started EXCEPT ![u] = FALSE]
         /\ jstate' = [jstate EXCEPT ![u] = "new"]
  BY <1>2, <1>3 DEF ThreadInv, Types
<1>8. target'[u] = target[u]
  BY <1>2, <1>3 DEF ThreadInv, Types
<1>9. QED
  BY <1>1, <1>2, <1>3, <1>8, <1>5, <1>6, <1>7, UnclaimedKeeps

LEMMA LaunchNativeKeeps ==
  ASSUME ThreadInv, NEW u \in Threads, LaunchNative(u)
  PROVE  ThreadInv'
<1>1. shuttingDown' = shuttingDown
  BY FiberStepsKeepFlag DEF LaunchNative
<1>2. /\ u \in NativeTasks /\ pc[u] = "claimed"
      /\ pc' = [pc EXCEPT ![u] = "born"]
      /\ UNCHANGED <<registered, jstate, started, interrupted, stopRequested,
                     target, timer, outcome, sd, sdThreads>>
  BY DEF LaunchNative, Move, flagVars, waitVars, shutdownVars
<1>3. /\ pc'[u] = "born" /\ pc' \in [Threads -> PCs]
      /\ target' \in [Threads -> Threads \cup {NoThread}]
      /\ \A v \in Threads \ {u} : pc'[v] = pc[v] /\ target'[v] = target[v]
                                    /\ (pc[v] = "starting" => target[v] # u)
  BY <1>2 DEF ThreadInv, Types, Life, PCs
<1>4. QED
  BY <1>1, <1>2, <1>3, UnclaimedKeeps

-----------------------------------------------------------------------------
LEMMA InitThreadInv == JInit => ThreadInv
<1> SUFFICES ASSUME JInit PROVE ThreadInv
  OBVIOUS
<1>1. /\ registered = Threads
      /\ jstate = [t \in Threads |-> IF t = Main THEN "running" ELSE "new"]
      /\ started = [t \in Threads |-> t = Main]
      /\ interrupted = [t \in Threads |-> FALSE]
      /\ stopRequested = [t \in Threads |-> FALSE]
      /\ pc = [t \in Threads |-> IF t = Main THEN "resuming" ELSE "new"]
      /\ target = [t \in Threads |-> NoThread]
      /\ timer = [t \in Threads |-> "none"]
      /\ outcome = [t \in Threads |-> "none"]
      /\ sd = "idle" /\ sdThreads = {} /\ shuttingDown = FALSE
  BY DEF JInit, Init, shuttingDown
<1>2. Types
  BY <1>1 DEF Types, JavaThreadStates, PCs
<1>3. ASSUME NEW t \in Threads PROVE Life(t) /\ JoinIsTrue(t) /\ HostSleepLasts(t)
  BY <1>1 DEF Life, Over, JoinIsTrue, HostSleepLasts
<1>4. OneStarter /\ Stopping
  BY <1>1 DEF OneStarter, Stopping
<1>5. QED
  BY <1>2, <1>3, <1>4 DEF ThreadInv

LEMMA NextKeepsThreadInv == ThreadInv /\ [JNext]_allVars => ThreadInv'
<1> SUFFICES ASSUME ThreadInv, [JNext]_allVars PROVE ThreadInv'
  OBVIOUS
<1>1. ASSUME NEW t \in Threads, GuestStep(t) PROVE ThreadInv'
  BY <1>1, ReturnKeeps, ConsumeInterruptKeeps, SleepKeeps, StartKeeps,
     InterruptKeeps, JoinKeeps DEF GuestStep
<1>2. ASSUME NEW t \in Threads, RuntimeStep(t) PROVE ThreadInv'
  <2>1. CASE Begin(t) \/ StartLaunch(t) \/ StartFails(t) \/ LaunchNative(t)
    BY <2>1, BeginKeeps, StartLaunchKeeps, LaunchNativeKeeps
  <2>2. CASE SleepBlocks(t) \/ SleepEnds(t)
    BY <2>2, SleepKeeps, SleepEndsKeeps
  <2>3. CASE JoinBlocks(t) \/ Doze(t) \/ JoinParks(t) \/ JoinResumes(t) \/ JoinEnds(t)
    BY <2>3, JoinWaitsKeep, JoinEndsKeeps
  <2>4. CASE WakeInterrupted(t) \/ TellJoiners(t)
    BY <2>4, WakeInterruptedKeeps, TellJoinersKeeps
  <2>5. CASE Terminate(t) \/ ListJoiners(t) \/ Exit(t)
    BY <2>5, EndKeeps
  <2>6. CASE WakeJoiner(t) \/ StartCarrier(t)
    BY <2>6, FiberStepKeeps, FiberStepsKeepFlag DEF WakeJoiner, StartCarrier
  <2>7. QED
    BY <1>2, <2>1, <2>2, <2>3, <2>4, <2>5, <2>6 DEF RuntimeStep
<1>3. ASSUME NEW t \in Threads,
             TakeGate(t) \/ Yield(t) \/ TimerExpires(t) \/ StartNative(t)
      PROVE  ThreadInv'
  BY <1>3, TakeGateKeeps, YieldKeeps, TimerExpiresKeeps, StartNativeKeeps
<1>4. CASE Carrier
  BY <1>4, FiberStepKeeps, FiberStepsKeepFlag DEF Carrier
<1>5. CASE ShutdownBegins \/ ShutdownStep
  BY <1>5, ShutdownBeginsKeeps, ShutdownStepKeeps
<1>6. CASE UNCHANGED allVars
  BY <1>6, FiberStepKeeps, FiberStepsKeepFlag DEF allVars
<1>7. QED
  BY <1>1, <1>2, <1>3, <1>4, <1>5, <1>6 DEF JNext

LEMMA LivesAreRight == JSpec => []ThreadInv
<1>1. QED
  BY InitThreadInv, NextKeepsThreadInv, PTL DEF JSpec

-----------------------------------------------------------------------------
\* join_current reports the end of a thread only when finish_thread has
\* marked it terminated, or the joiner must stop itself.
THEOREM JoinsCorrect == JSpec => []JoinsAreTrue
<1>1. ThreadInv => JoinsAreTrue
  BY DEF ThreadInv, JoinIsTrue, JoinsAreTrue
<1>2. QED
  BY <1>1, LivesAreRight, PTL

\* No start, failed start, pruning or end that runs beside Scheduler::shutdown
\* lets a Java thread slip past the loop that requests stops.
THEOREM StopReachesEveryone == JSpec => []EveryoneTold
<1>1. ThreadInv => EveryoneTold
  BY DEF ThreadInv, Stopping, ToldOrListed, EveryoneTold
<1>2. QED
  BY <1>1, LivesAreRight, PTL

\* sleep_current of a host thread does not return early: whatever notifies
\* its condition, it completes only after its time, or to stop.
THEOREM HostSleepsLast ==
  ASSUME Fibers = {}
  PROVE  JSpec => []SleepsLast
<1>1. ThreadInv => SleepsLast
  BY DEF ThreadInv, HostSleepLasts, SleepsLast
<1>2. QED
  BY <1>1, LivesAreRight, PTL

-----------------------------------------------------------------------------
(***************************************************************************)
(* Heap.                                                                   *)
(***************************************************************************)
Slot == [occupied : BOOLEAN, generation : 1..MaxGeneration,
         kind : {"strong", "weak"}, link : Refs \cup {Null}, marked : BOOLEAN]

\* Slots are numbered, and a reference is a number with a generation.
LEMMA Slots ==
  ASSUME HeapTypeOK
  PROVE  /\ Len(heapSlots) \in Nat /\ Len(heapSlots) <= MaximumObjects
         /\ MaximumObjects \in Nat
         /\ DOMAIN heapSlots = 1..Len(heapSlots)
         /\ heapSlots \in [1..Len(heapSlots) -> Slot]
         /\ \A i \in 1..Len(heapSlots) : heapSlots[i] \in Slot
<1>1. heapSlots \in Seq(Slot)
  BY DEF HeapTypeOK, Slot
<1> QED
  BY <1>1, LenProperties, ElementOfSeq, HeapAssumption DEF HeapTypeOK

LEMMA RefPair ==
  ASSUME NEW r \in Refs
  PROVE  /\ r[1] \in 1..MaximumObjects /\ r[2] \in 1..MaxGeneration
         /\ r = <<r[1], r[2]>> /\ r # Null
BY NullAssumption DEF Refs

\* A reference resolves exactly if its object exists.
LEMMA ResolvesIsExisting ==
  ASSUME HeapTypeOK
  PROVE  /\ Existing \subseteq Refs
         /\ \A r \in Refs : Resolves(r) <=> r \in Existing
         /\ \A r \in Refs : Resolves(r) => r[1] \in Occupied /\ Named(r[1]) = r
         /\ \A i \in Occupied : Named(i) \in Existing /\ Named(i)[1] = i
<1>1. /\ DOMAIN heapSlots = 1..Len(heapSlots) /\ Len(heapSlots) \in Nat
      /\ Len(heapSlots) <= MaximumObjects /\ MaximumObjects \in Nat
      /\ \A i \in 1..Len(heapSlots) : heapSlots[i].generation \in 1..MaxGeneration
  BY Slots DEF Slot
<1>2. ASSUME NEW i \in Occupied
      PROVE  /\ Named(i) \in Refs /\ Named(i)[1] = i /\ Resolves(Named(i))
             /\ Named(i) \in Existing
  BY <1>1 DEF Named, Occupied, Refs, Resolves, Existing
<1>3. ASSUME NEW r \in Refs, Resolves(r)
      PROVE  r[1] \in Occupied /\ Named(r[1]) = r
  BY <1>1, <1>3, RefPair DEF Resolves, Occupied, Named
<1> QED
  BY <1>2, <1>3 DEF Existing

-----------------------------------------------------------------------------
(***************************************************************************)
(* The invariant: every reference anybody keeps resolves, and the free     *)
(* slots are empty and listed once.                                        *)
(***************************************************************************)
FreeList ==
  /\ \A k \in 1..Len(freeSlots) : freeSlots[k] \in 1..Len(heapSlots)
                                    /\ ~heapSlots[freeSlots[k]].occupied
  /\ \A k, l \in 1..Len(freeSlots) : freeSlots[k] = freeSlots[l] => k = l

LinksResolve ==
  \A i \in Occupied : heapSlots[i].link # Null => Resolves(heapSlots[i].link)

CacheResolves ==
  \A line \in 0..CacheSize - 1 : slotCache[line] # Null => Resolves(slotCache[line])

RootsResolve == \A r \in held \cup images : Resolves(r)

(***************************************************************************)
(* While a collection is on, the marked objects and the pending ones hold  *)
(* the roots and, but for the pending, what they refer to; and whoever     *)
(* holds the roots and is closed under reference holds all of them.        *)
(***************************************************************************)
Marked(r) == heapSlots[r[1]].marked

Covered ==
  /\ \A r \in held : r \in pending \/ Marked(r)
  /\ \A i \in Occupied :
       heapSlots[i].marked /\ heapSlots[i].kind = "strong" /\ heapSlots[i].link # Null
         => heapSlots[i].link \in pending \/ Marked(heapSlots[i].link)

Least ==
  \A S \in SUBSET Existing :
    Promised!Closed(S) =>
      pending \subseteq S /\ \A i \in Occupied : heapSlots[i].marked => Named(i) \in S

MarkInv ==
  collecting => /\ \A r \in pending : Resolves(r)
                /\ \A line \in 0..CacheSize - 1 : slotCache[line] = Null
                /\ Covered /\ Least

HeapInv ==
  HeapTypeOK /\ FreeList /\ LinksResolve /\ CacheResolves /\ RootsResolve /\ MarkInv

-----------------------------------------------------------------------------
(***************************************************************************)
(* The program.                                                            *)
(***************************************************************************)

\* Objects come and go with the bit and the generation of a slot, only.
LEMMA SameObjects ==
  ASSUME HeapTypeOK, HeapTypeOK', Len(heapSlots') = Len(heapSlots),
         \A j \in 1..Len(heapSlots) :
           /\ heapSlots'[j].occupied = heapSlots[j].occupied
           /\ heapSlots'[j].generation = heapSlots[j].generation
  PROVE  /\ Occupied' = Occupied /\ Existing' = Existing
         /\ \A r \in Refs : Resolves(r)' <=> Resolves(r)
         /\ \A j \in Occupied : Named(j)' = Named(j)
<1>1. DOMAIN heapSlots = 1..Len(heapSlots)
  BY Slots
<1>2. (HeapTypeOK => DOMAIN heapSlots = 1..Len(heapSlots))'
  BY Slots, PTL
<1>3. Occupied' = Occupied
  BY <1>1, <1>2 DEF Occupied
<1>4. \A j \in Occupied : Named(j)' = Named(j)
  BY <1>1 DEF Occupied, Named
<1>5. ASSUME NEW r \in Refs PROVE Resolves(r)' <=> Resolves(r)
  <2>1. r[1] <= Len(heapSlots) => r[1] \in 1..Len(heapSlots)
    BY RefPair, Slots, HeapAssumption
  <2> QED
    BY <2>1 DEF Resolves
<1> QED
  BY <1>3, <1>4, <1>5 DEF Existing

\* What resolves in the fast way resolves.
LEMMA FastIsRight ==
  ASSUME HeapInv, NEW r \in Refs, ResolvesFast(r)
  PROVE  Resolves(r) /\ Line(r) \in 0..CacheSize - 1
<1>1. r[1] \in Nat /\ CacheSize \in Nat \ {0} /\ r # Null
  BY RefPair, HeapAssumption
<1>2. r[1] % CacheSize \in 0..CacheSize - 1
  BY <1>1
<1> QED
  BY <1>1, <1>2 DEF ResolvesFast, Line, HeapInv, CacheResolves

LEMMA Remembered ==
  ASSUME HeapInv, NEW r \in Refs, Resolves(r), Remember(r)
  PROVE  /\ slotCache' \in [0..CacheSize - 1 -> Refs \cup {Null}]
         /\ \A line \in 0..CacheSize - 1 :
              slotCache'[line] # Null => slotCache'[line] \in Refs /\ Resolves(slotCache'[line])
BY DEF Remember, HeapInv, HeapTypeOK, CacheResolves

\* Storing a reference, strong or weak.
LEMMA StoreStep ==
  ASSUME HeapInv, NEW r \in held, NEW v \in held \cup {Null},
         StoreField(r, v) \/ StoreReferent(r, v)
  PROVE  HeapInv' /\ Promised!Store
<1>t. HeapTypeOK /\ FreeList /\ LinksResolve /\ CacheResolves /\ RootsResolve
  BY DEF HeapInv
<1>r. /\ r \in Refs /\ Resolves(r) /\ r[1] \in Occupied /\ Named(r[1]) = r
      /\ r[1] \in 1..Len(heapSlots) /\ r \in Existing
  <2>1. r \in Refs /\ Resolves(r)
    BY <1>t DEF HeapTypeOK, RootsResolve
  <2> QED
    BY <1>t, <2>1, ResolvesIsExisting, Slots DEF Occupied
<1>v. v \in Refs \cup {Null} /\ (v # Null => Resolves(v))
  BY <1>t DEF HeapTypeOK, RootsResolve
<1> DEFINE relinked == [heapSlots[r[1]] EXCEPT !.link = v]
<1>1. /\ heapSlots' = [heapSlots EXCEPT ![r[1]] = relinked]
      /\ UNCHANGED <<freeSlots, pending, collecting, images, held>> /\ ~collecting
      /\ slotCache' = slotCache \/ Remember(r)
  BY DEF StoreField, StoreReferent
<1>2. /\ relinked \in Slot /\ relinked.link = v
      /\ relinked.occupied = heapSlots[r[1]].occupied
      /\ relinked.generation = heapSlots[r[1]].generation
      /\ relinked.kind = heapSlots[r[1]].kind
  <2>1. heapSlots[r[1]] \in Slot
    BY <1>t, <1>r, Slots
  <2> QED
    BY <2>1, <1>v DEF Slot
<1> HIDE DEF relinked
<1>3. /\ heapSlots' \in Seq(Slot) /\ Len(heapSlots') = Len(heapSlots)
      /\ \A j \in 1..Len(heapSlots) :
           heapSlots'[j] = IF j = r[1] THEN relinked ELSE heapSlots[j]
  <2>1. heapSlots \in Seq(Slot)
    BY <1>t DEF HeapTypeOK, Slot
  <2> QED
    BY <1>1, <1>2, <1>r, <2>1, ExceptSeq
<1>c. /\ slotCache' \in [0..CacheSize - 1 -> Refs \cup {Null}]
      /\ \A line \in 0..CacheSize - 1 :
           slotCache'[line] # Null => slotCache'[line] \in Refs /\ Resolves(slotCache'[line])
  BY <1>1, <1>t, <1>r, Remembered DEF HeapTypeOK, CacheResolves
<1>4. HeapTypeOK'
  BY <1>1, <1>3, <1>c, <1>t DEF HeapTypeOK, Slot
<1>5. /\ Occupied' = Occupied /\ Existing' = Existing
      /\ \A q \in Refs : Resolves(q)' <=> Resolves(q)
  BY <1>t, <1>4, <1>3, <1>2, SameObjects
<1>6. FreeList'
  BY <1>1, <1>2, <1>3, <1>t DEF FreeList
<1>7. LinksResolve'
  <2> SUFFICES ASSUME NEW i \in Occupied, heapSlots'[i].link # Null
               PROVE  Resolves(heapSlots[i].link)'
    BY <1>5 DEF LinksResolve
  <2>1. i \in 1..Len(heapSlots) /\ heapSlots[i] \in Slot
    BY <1>t, Slots DEF Occupied
  <2>2. CASE i = r[1]
    BY <2>1, <2>2, <1>2, <1>3, <1>5, <1>v
  <2>3. CASE i # r[1]
    <3>1. heapSlots[i].link \in Refs /\ Resolves(heapSlots[i].link)
      BY <2>1, <2>3, <1>3, <1>t DEF LinksResolve, Slot
    <3> QED
      BY <2>1, <2>3, <3>1, <1>3, <1>5
  <2> QED
    BY <2>2, <2>3
<1>8. CacheResolves'
  BY <1>c, <1>5 DEF CacheResolves
<1>9. RootsResolve'
  BY <1>1, <1>5, <1>t DEF RootsResolve, HeapTypeOK
<1>10. HeapInv'
  BY <1>1, <1>4, <1>6, <1>7, <1>8, <1>9 DEF HeapInv, MarkInv
<1>11. Promised!Store
  <2>1. \A q \in Existing : q[1] \in 1..Len(heapSlots) /\ (q[1] = r[1] => q = r)
    BY <1>t, <1>r, ResolvesIsExisting, Slots DEF Occupied
  <2>2. Kind' = Kind
    BY <1>2, <1>3, <1>5, <2>1 DEF Kind
  <2>3. Link' = [Link EXCEPT ![r] = v]
    BY <1>2, <1>3, <1>5, <1>r, <2>1 DEF Link
  <2> QED
    BY <2>2, <2>3, <1>1, <1>5 DEF Promised!Store
<1> QED
  BY <1>10, <1>11

\* Reading a reference, dropping one, making an image: the objects stay.
LEMMA ReadStep ==
  ASSUME HeapInv, NEW r \in held,
         LoadField(r) \/ LoadReferent(r) \/ Forget(r) \/ Draw(r)
  PROVE  HeapInv' /\ (Promised!Next \/ UNCHANGED Promised!vars)
<1>t. HeapTypeOK /\ FreeList /\ LinksResolve /\ CacheResolves /\ RootsResolve
  BY DEF HeapInv
<1>r. r \in Refs /\ Resolves(r) /\ r[1] \in Occupied /\ r \in Existing
  <2>1. r \in Refs /\ Resolves(r)
    BY <1>t DEF HeapTypeOK, RootsResolve
  <2> QED
    BY <1>t, <2>1, ResolvesIsExisting
<1>l. /\ heapSlots[r[1]].link \in Refs \cup {Null}
      /\ heapSlots[r[1]].link # Null => Resolves(heapSlots[r[1]].link)
      /\ Link[r] = heapSlots[r[1]].link
  <2>1. heapSlots[r[1]] \in Slot
    BY <1>t, <1>r, Slots DEF Occupied
  <2> QED
    BY <1>t, <1>r, <2>1 DEF LinksResolve, Slot, Link
<1>1. /\ UNCHANGED <<heapSlots, freeSlots, pending, collecting>> /\ ~collecting
      /\ slotCache' = slotCache \/ Remember(r)
  BY DEF LoadField, LoadReferent, Forget, Draw
<1>c. /\ slotCache' \in [0..CacheSize - 1 -> Refs \cup {Null}]
      /\ \A line \in 0..CacheSize - 1 :
           slotCache'[line] # Null => slotCache'[line] \in Refs /\ Resolves(slotCache'[line])
  BY <1>1, <1>t, <1>r, Remembered DEF HeapTypeOK, CacheResolves
<1>h. /\ held' \subseteq held \cup ({heapSlots[r[1]].link} \ {Null})
      /\ images' \subseteq images \cup {r}
  BY DEF LoadField, LoadReferent, Forget, Draw
<1>4. HeapTypeOK'
  BY <1>1, <1>c, <1>h, <1>l, <1>r, <1>t DEF HeapTypeOK
<1>5. /\ Occupied' = Occupied /\ Existing' = Existing /\ Kind' = Kind /\ Link' = Link
      /\ \A q \in Refs : Resolves(q)' <=> Resolves(q)
  <2>1. Existing' = Existing
    BY <1>1 DEF Existing, Occupied, Named
  <2> QED
    BY <1>1, <2>1 DEF Occupied, Kind, Link, Resolves
<1>6. FreeList'
  BY <1>1, <1>t DEF FreeList
<1>7. LinksResolve'
  BY <1>1, <1>t DEF LinksResolve, Resolves, Occupied
<1>8. CacheResolves'
  BY <1>c, <1>5 DEF CacheResolves
<1>9. RootsResolve'
  <2>1. \A q \in held' \cup images' : q \in Refs /\ Resolves(q)
    BY <1>h, <1>l, <1>r, <1>t DEF RootsResolve, HeapTypeOK
  <2> QED
    BY <2>1, <1>5 DEF RootsResolve
<1>10. HeapInv'
  BY <1>1, <1>4, <1>6, <1>7, <1>8, <1>9 DEF HeapInv, MarkInv
<1>11. CASE LoadField(r) \/ LoadReferent(r)
  <2>1. /\ held' = held \cup ({Link[r]} \ {Null}) /\ images' = images
    BY <1>11, <1>l DEF LoadField, LoadReferent
  <2>2. CASE Link[r] = Null
    BY <2>1, <2>2, <1>5, <1>10 DEF Promised!vars
  <2>3. CASE Link[r] # Null
    BY <2>1, <2>3, <1>5, <1>10 DEF Promised!Load, Promised!Next
  <2> QED
    BY <2>2, <2>3
<1>12. CASE Forget(r)
  BY <1>12, <1>5, <1>10 DEF Forget, Promised!Forget, Promised!Next
<1>13. CASE Draw(r)
  BY <1>13, <1>5, <1>10 DEF Draw, Promised!Draw, Promised!Next
<1> QED
  BY <1>10, <1>11, <1>12, <1>13

\* pop_back
LEMMA FrontOf ==
  ASSUME NEW S, NEW q \in Seq(S), q # <<>>
  PROVE  LET front == SubSeq(q, 1, Len(q) - 1)
         IN  /\ front \in Seq(S) /\ Len(front) = Len(q) - 1
             /\ \A j \in 1..Len(q) - 1 : front[j] = q[j]
<1>1. Len(q) \in Nat \ {0}
  BY EmptySeq
<1>2. \A j \in 1..Len(q) - 1 : q[j] \in S
  BY <1>1, ElementOfSeq
<1> DEFINE n == Len(q) - 1
<1>3. n \in Nat /\ \A j \in 1..n : q[j] \in S
  BY <1>1, <1>2
<1> HIDE DEF n
<1>4. SubSeq(q, 1, n) \in Seq(S) /\ Len(SubSeq(q, 1, n)) = n
      /\ \A j \in 1..n : SubSeq(q, 1, n)[j] = q[j]
  BY <1>3
<1> QED
  BY <1>4 DEF n

\* A new object, in the slot freed last or in a new one.
LEMMA NewStep ==
  ASSUME HeapInv, NEW k \in {"strong", "weak"}, NewObject(k)
  PROVE  HeapInv' /\ Promised!Allocate
<1>t. HeapTypeOK /\ FreeList /\ LinksResolve /\ CacheResolves /\ RootsResolve
  BY DEF HeapInv
<1> DEFINE n == Len(heapSlots)
           reused == freeSlots # <<>>
<1>i. PICK i : i = IF reused THEN freeSlots[Len(freeSlots)] ELSE n + 1
  OBVIOUS
<1>g. PICK g : g = IF reused THEN heapSlots[i].generation ELSE 1
  OBVIOUS
<1> DEFINE object == [occupied |-> TRUE, generation |-> g, kind |-> k,
                      link |-> Null, marked |-> FALSE]
<1>s. /\ n \in Nat /\ n <= MaximumObjects /\ MaximumObjects \in Nat
      /\ DOMAIN heapSlots = 1..n /\ heapSlots \in Seq(Slot)
      /\ \A j \in 1..n : heapSlots[j] \in Slot
      /\ freeSlots \in Seq(1..MaximumObjects) /\ Len(freeSlots) \in Nat
      /\ freeSlots # <<>> => Len(freeSlots) \in 1..Len(freeSlots)
      /\ MaxGeneration \in Nat \ {0}
  <2>1. heapSlots \in Seq(Slot) /\ freeSlots \in Seq(1..MaximumObjects)
    BY <1>t DEF HeapTypeOK, Slot
  <2>2. freeSlots # <<>> => Len(freeSlots) \in Nat \ {0}
    BY <2>1, EmptySeq
  <2> QED
    BY <1>t, <2>1, <2>2, Slots, LenProperties, HeapAssumption
<1>1. /\ ~collecting /\ HasRoom
      /\ heapSlots' = (IF reused THEN [heapSlots EXCEPT ![i] = object]
                                 ELSE Append(heapSlots, object))
      /\ freeSlots' = (IF reused THEN SubSeq(freeSlots, 1, Len(freeSlots) - 1) ELSE freeSlots)
      /\ held' = held \cup {<<i, g>>}
      /\ UNCHANGED <<slotCache, pending, collecting, images>>
  BY <1>i, <1>g DEF NewObject
<1>2. /\ i \in 1..MaximumObjects /\ i \notin Occupied /\ g \in 1..MaxGeneration
      /\ reused => i \in 1..n
      /\ <<i, g>> \in Refs /\ object \in Slot
  <2>1. CASE reused
    <3>1. i \in 1..n /\ ~heapSlots[i].occupied
      BY <2>1, <1>i, <1>s, <1>t DEF FreeList
    <3>2. g \in 1..MaxGeneration
      BY <2>1, <3>1, <1>g, <1>s DEF Slot
    <3> QED
      BY <2>1, <3>1, <3>2, <1>s DEF Occupied, Refs, Slot
  <2>2. CASE ~reused
    <3>1. i = n + 1 /\ g = 1 /\ n < MaximumObjects
      BY <2>2, <1>i, <1>g, <1>1 DEF HasRoom
    <3>2. i \in 1..MaximumObjects /\ g \in 1..MaxGeneration /\ i \notin 1..n
      BY <3>1, <1>s
    <3> QED
      BY <2>2, <3>2, <1>s DEF Occupied, Refs, Slot
  <2> QED
    BY <2>1, <2>2
<1>o. object.occupied /\ object.generation = g /\ object.kind = k /\ object.link = Null
  OBVIOUS
<1> HIDE DEF object
<1>3. /\ heapSlots' \in Seq(Slot) /\ Len(heapSlots') = (IF reused THEN n ELSE n + 1)
      /\ DOMAIN heapSlots' = (1..n) \cup {i}
      /\ heapSlots'[i] = object
      /\ \A j \in 1..n : j # i => heapSlots'[j] = heapSlots[j]
  <2>1. CASE reused
    <3>1. heapSlots' = [heapSlots EXCEPT ![i] = object] /\ i \in 1..n
      BY <2>1, <1>1, <1>2
    <3> HIDE DEF n
    <3>2. heapSlots' \in Seq(Slot) /\ Len(heapSlots') = n
      BY <3>1, <1>2, <1>s, ExceptSeq DEF n
    <3> QED
      BY <2>1, <3>1, <3>2, <1>s
  <2>2. CASE ~reused
    <3>1. heapSlots' = Append(heapSlots, object) /\ i = n + 1
      BY <2>2, <1>i, <1>1
    <3>2. heapSlots' \in Seq(Slot) /\ Len(heapSlots') = n + 1
      BY <3>1, <1>2, <1>s
    <3>3. DOMAIN heapSlots' = 1..n + 1
      BY <3>2, LenProperties
    <3> QED
      BY <2>2, <3>1, <3>2, <3>3, <1>2, <1>s
  <2> QED
    BY <2>1, <2>2
<1>f. /\ freeSlots' \in Seq(1..MaximumObjects)
      /\ Len(freeSlots') \in Nat /\ Len(freeSlots') <= Len(freeSlots)
      /\ \A j \in 1..Len(freeSlots') : freeSlots'[j] = freeSlots[j] /\ freeSlots[j] # i
  <2>1. CASE reused
    <3>1. \A j \in 1..Len(freeSlots) - 1 : /\ freeSlots[j] \in 1..MaximumObjects
                                           /\ j \in 1..Len(freeSlots) /\ j # Len(freeSlots)
      BY <1>s, ElementOfSeq
    <3>2. /\ freeSlots' \in Seq(1..MaximumObjects) /\ Len(freeSlots') = Len(freeSlots) - 1
          /\ \A j \in 1..Len(freeSlots) - 1 : freeSlots'[j] = freeSlots[j]
      BY <2>1, <1>1, <1>s, FrontOf
    <3>3. i = freeSlots[Len(freeSlots)] /\ Len(freeSlots) \in 1..Len(freeSlots)
      BY <2>1, <1>i, <1>s
    <3>4. \A j \in 1..Len(freeSlots) - 1 : freeSlots[j] # i
      BY <3>1, <3>3, <1>t DEF FreeList
    <3> QED
      BY <3>2, <3>4, <1>s
  <2>2. CASE ~reused
    <3>1. \A j \in 1..Len(freeSlots) : FALSE
      BY <2>2, <1>s
    <3> QED
      BY <2>2, <3>1, <1>1, <1>s
  <2> QED
    BY <2>1, <2>2
<1> HIDE DEF reused
<1>4. HeapTypeOK'
  <2>1. Len(heapSlots') <= MaximumObjects
    BY <1>3, <1>s, <1>2, <1>1 DEF HasRoom, reused
  <2> QED
    BY <1>1, <1>2, <1>3, <1>f, <2>1, <1>t DEF HeapTypeOK, Slot
<1>5. /\ Occupied' = Occupied \cup {i} /\ \A j \in Occupied : j # i /\ j \in 1..n
      /\ Existing' = Existing \cup {<<i, g>>} /\ <<i, g>> \notin Existing
      /\ \A r \in Refs : Resolves(r) => Resolves(r)'
      /\ Resolves(<<i, g>>)'
  <2>1. Occupied' = Occupied \cup {i} /\ \A j \in Occupied : j # i /\ j \in 1..n
    BY <1>3, <1>o, <1>2, <1>s DEF Occupied
  <2>2. Named(i)' = <<i, g>> /\ \A j \in Occupied : Named(j)' = Named(j)
    BY <2>1, <1>3, <1>o DEF Named
  <2>3. Existing' = Existing \cup {<<i, g>>}
    BY <2>1, <2>2 DEF Existing
  <2>4. <<i, g>> \notin Existing
    BY <2>1 DEF Existing, Named
  <2>5. (HeapTypeOK => \A r \in Refs : Resolves(r) <=> r \in Existing)'
    BY ResolvesIsExisting, PTL
  <2> QED
    BY <2>1, <2>3, <2>4, <2>5, <1>2, <1>4, <1>t, ResolvesIsExisting
<1>6. FreeList'
  <2>1. Len(heapSlots') \in Nat /\ n <= Len(heapSlots')
    BY <1>3, <1>s
  <2>2. ASSUME NEW j \in 1..Len(freeSlots')
        PROVE  /\ j \in 1..Len(freeSlots)
               /\ freeSlots'[j] \in 1..n /\ freeSlots'[j] # i
               /\ ~heapSlots'[freeSlots'[j]].occupied
    <3>1. j \in 1..Len(freeSlots) /\ freeSlots'[j] = freeSlots[j] /\ freeSlots[j] # i
      BY <1>f, <1>s
    <3>2. freeSlots[j] \in 1..n /\ ~heapSlots[freeSlots[j]].occupied
      BY <3>1, <1>t DEF FreeList
    <3> QED
      BY <3>1, <3>2, <1>3
  <2> QED
    BY <2>1, <2>2, <1>f, <1>t, <1>s DEF FreeList
<1>7. LinksResolve'
  <2> SUFFICES ASSUME NEW j \in Occupied', heapSlots'[j].link # Null
               PROVE  Resolves(heapSlots[j].link)'
    BY DEF LinksResolve
  <2>1. j \in Occupied /\ heapSlots'[j] = heapSlots[j]
    BY <1>5, <1>3, <1>o
  <2>2. heapSlots[j].link \in Refs /\ Resolves(heapSlots[j].link)
    BY <2>1, <1>5, <1>s, <1>t DEF LinksResolve, Slot
  <2> QED
    BY <2>1, <2>2, <1>5
<1>8. CacheResolves'
  BY <1>1, <1>5, <1>t DEF CacheResolves, HeapTypeOK
<1>9. RootsResolve'
  BY <1>1, <1>5, <1>t DEF RootsResolve, HeapTypeOK
<1>10. HeapInv'
  BY <1>1, <1>4, <1>6, <1>7, <1>8, <1>9 DEF HeapInv, MarkInv
<1>11. Promised!Allocate
  <2>1. /\ \A r \in Existing : r \in Existing' /\ r # <<i, g>> /\ r[1] \in 1..n /\ r[1] # i
        /\ <<i, g>>[1] = i
    BY <1>5, <1>t, ResolvesIsExisting
  <2>2. Kind' = [r \in Existing' |-> IF r = <<i, g>> THEN k ELSE Kind[r]]
    BY <2>1, <1>3, <1>5, <1>o DEF Kind
  <2>3. Link' = [r \in Existing' |-> IF r = <<i, g>> THEN Null ELSE Link[r]]
    BY <2>1, <1>3, <1>5, <1>o DEF Link
  <2> QED
    BY <2>2, <2>3, <1>1, <1>2, <1>5 DEF Promised!Allocate
<1> QED
  BY <1>10, <1>11

-----------------------------------------------------------------------------
(***************************************************************************)
(* The collector.                                                          *)
(***************************************************************************)

\* Marking is invisible: a step that changes no more than marks.
LEMMA MarksAreInvisible ==
  ASSUME HeapInv, Len(heapSlots') = Len(heapSlots), heapSlots' \in Seq(Slot),
         \A j \in 1..Len(heapSlots) :
           /\ heapSlots'[j].occupied = heapSlots[j].occupied
           /\ heapSlots'[j].generation = heapSlots[j].generation
           /\ heapSlots'[j].kind = heapSlots[j].kind
           /\ heapSlots'[j].link = heapSlots[j].link,
         UNCHANGED <<freeSlots, images, held>>,
         slotCache' \in {slotCache, ClearedCache},
         pending' \subseteq Refs, collecting' = TRUE
  PROVE  /\ HeapTypeOK' /\ FreeList' /\ LinksResolve' /\ CacheResolves' /\ RootsResolve'
         /\ Occupied' = Occupied /\ Existing' = Existing /\ Kind' = Kind /\ Link' = Link
         /\ \A r \in Refs : Resolves(r)' <=> Resolves(r)
         /\ \A j \in Occupied : Named(j)' = Named(j)
<1>t. HeapTypeOK /\ FreeList /\ LinksResolve /\ CacheResolves /\ RootsResolve
  BY DEF HeapInv
<1>c. /\ slotCache' \in [0..CacheSize - 1 -> Refs \cup {Null}]
      /\ \A line \in 0..CacheSize - 1 : slotCache'[line] \in {slotCache[line], Null}
  BY <1>t DEF ClearedCache, HeapTypeOK
<1>4. HeapTypeOK'
  BY <1>t, <1>c DEF HeapTypeOK, Slot
<1>5. /\ Occupied' = Occupied /\ Existing' = Existing
      /\ \A r \in Refs : Resolves(r)' <=> Resolves(r)
      /\ \A j \in Occupied : Named(j)' = Named(j)
  BY <1>t, <1>4, SameObjects
<1>o. \A r \in Existing : r[1] \in 1..Len(heapSlots)
  BY <1>t, ResolvesIsExisting, Slots DEF Occupied
<1>6. Kind' = Kind /\ Link' = Link
  BY <1>5, <1>o DEF Kind, Link
<1>7. FreeList'
  BY <1>t DEF FreeList
<1>8. LinksResolve'
  <2> SUFFICES ASSUME NEW j \in Occupied, heapSlots'[j].link # Null
               PROVE  Resolves(heapSlots[j].link)'
    BY <1>5 DEF LinksResolve
  <2>1. j \in 1..Len(heapSlots) /\ heapSlots[j].link \in Refs \cup {Null}
    BY <1>t, Slots DEF Occupied, Slot
  <2>2. heapSlots[j].link \in Refs /\ Resolves(heapSlots[j].link)
    BY <2>1, <1>t DEF LinksResolve
  <2> QED
    BY <2>1, <2>2, <1>5
<1>9. CacheResolves'
  BY <1>c, <1>5, <1>t DEF CacheResolves, HeapTypeOK
<1>10. RootsResolve'
  BY <1>5, <1>t DEF RootsResolve, HeapTypeOK
<1> QED
  BY <1>4, <1>5, <1>6, <1>7, <1>8, <1>9, <1>10

LEMMA BeginStep ==
  ASSUME HeapInv, BeginCollection
  PROVE  HeapInv' /\ UNCHANGED Promised!vars
<1>t. HeapTypeOK
  BY DEF HeapInv
<1>1. /\ slotCache' = ClearedCache /\ pending' = held /\ collecting'
      /\ UNCHANGED <<freeSlots, images, held>>
      /\ heapSlots' = [i \in DOMAIN heapSlots |->
                         [heapSlots[i] EXCEPT
                            !.marked = IF heapSlots[i].occupied THEN FALSE ELSE @]]
  BY DEF BeginCollection
<1>2. /\ Len(heapSlots) \in Nat /\ DOMAIN heapSlots = 1..Len(heapSlots)
      /\ \A j \in 1..Len(heapSlots) : heapSlots[j] \in Slot
  BY <1>t, Slots
<1>3. \A j \in 1..Len(heapSlots) :
        /\ heapSlots'[j] \in Slot
        /\ heapSlots'[j].occupied = heapSlots[j].occupied
        /\ heapSlots'[j].generation = heapSlots[j].generation
        /\ heapSlots'[j].kind = heapSlots[j].kind
        /\ heapSlots'[j].link = heapSlots[j].link
        /\ heapSlots[j].occupied => heapSlots'[j].marked = FALSE
  BY <1>1, <1>2 DEF Slot
<1>4. heapSlots' \in Seq(Slot) /\ Len(heapSlots') = Len(heapSlots)
  <2>1. heapSlots' \in [1..Len(heapSlots) -> Slot]
    BY <1>1, <1>2, <1>3
  <2> QED
    BY <2>1, <1>2
<1>5. /\ HeapTypeOK' /\ FreeList' /\ LinksResolve' /\ CacheResolves' /\ RootsResolve'
      /\ Occupied' = Occupied /\ Existing' = Existing /\ Kind' = Kind /\ Link' = Link
      /\ \A r \in Refs : Resolves(r)' <=> Resolves(r)
  BY <1>1, <1>3, <1>4, <1>t, MarksAreInvisible DEF HeapTypeOK
<1>6. \A j \in Occupied : heapSlots'[j].marked = FALSE
  BY <1>2, <1>3 DEF Occupied
<1>7. MarkInv'
  <2>1. \A r \in held : Resolves(r)'
    BY <1>5, <1>t DEF HeapInv, RootsResolve, HeapTypeOK
  <2>2. \A line \in 0..CacheSize - 1 : slotCache'[line] = Null
    BY <1>1, <1>t DEF ClearedCache, HeapTypeOK
  <2>3. Covered'
    BY <1>1, <1>5, <1>6 DEF Covered
  <2>4. Least'
    BY <1>1, <1>5, <1>6 DEF Least, Promised!Closed
  <2> QED
    BY <1>1, <2>1, <2>2, <2>3, <2>4 DEF MarkInv
<1> QED
  BY <1>1, <1>5, <1>7 DEF HeapInv, Promised!vars

LEMMA MarkStep ==
  ASSUME HeapInv, Mark
  PROVE  HeapInv' /\ UNCHANGED Promised!vars
<1>t. HeapTypeOK /\ LinksResolve /\ Covered /\ Least
      /\ (\A q \in pending : Resolves(q)) /\ pending \subseteq Refs /\ held \subseteq Refs
      /\ \A line \in 0..CacheSize - 1 : slotCache[line] = Null
  BY DEF HeapInv, MarkInv, Mark, HeapTypeOK
<1>p. PICK r \in pending :
        LET fresh == Resolves(r) /\ ~heapSlots[r[1]].marked
        IN  /\ heapSlots' = IF fresh THEN [heapSlots EXCEPT ![r[1]].marked = TRUE] ELSE heapSlots
            /\ pending' = (pending \ {r}) \cup (IF fresh THEN Traced(heapSlots[r[1]]) ELSE {})
  <2>1. (CHOOSE r \in pending : TRUE) \in pending
    BY DEF Mark
  <2> QED
    BY <2>1 DEF Mark
<1>f. collecting /\ UNCHANGED <<freeSlots, slotCache, collecting, images, held>>
  BY DEF Mark
<1>s. /\ Len(heapSlots) \in Nat /\ DOMAIN heapSlots = 1..Len(heapSlots)
      /\ heapSlots \in Seq(Slot)
      /\ \A j \in 1..Len(heapSlots) : heapSlots[j] \in Slot
  BY <1>t, Slots DEF HeapTypeOK, Slot
<1> DEFINE i == r[1]
<1>r. /\ r \in Refs /\ Resolves(r) /\ i \in Occupied /\ i \in 1..Len(heapSlots)
      /\ Named(i) = r /\ r \in Existing /\ heapSlots[i] \in Slot
  BY <1>t, <1>s, ResolvesIsExisting DEF Occupied
<1> DEFINE object == heapSlots[i]
           traced == IF object.marked THEN {} ELSE Traced(object)
<1>1. /\ \A j \in 1..Len(heapSlots) :
           /\ heapSlots'[j].occupied = heapSlots[j].occupied
           /\ heapSlots'[j].generation = heapSlots[j].generation
           /\ heapSlots'[j].kind = heapSlots[j].kind
           /\ heapSlots'[j].link = heapSlots[j].link
           /\ heapSlots'[j].marked = (heapSlots[j].marked \/ j = i)
      /\ heapSlots' \in Seq(Slot) /\ Len(heapSlots') = Len(heapSlots)
      /\ pending' = (pending \ {r}) \cup traced
  <2>1. CASE object.marked
    <3>1. heapSlots' = heapSlots /\ pending' = pending \ {r}
      BY <2>1, <1>p
    <3> QED
      BY <2>1, <3>1, <1>s, <1>r DEF Slot
  <2>2. CASE ~object.marked
    <3> DEFINE marked == [object EXCEPT !.marked = TRUE]
    <3>1. /\ heapSlots' = [heapSlots EXCEPT ![i] = marked]
          /\ pending' = (pending \ {r}) \cup traced
      BY <2>2, <1>p, <1>r
    <3>2. /\ marked \in Slot /\ marked.occupied = object.occupied
          /\ marked.generation = object.generation /\ marked.kind = object.kind
          /\ marked.link = object.link /\ marked.marked = TRUE
      BY <1>r DEF Slot
    <3> HIDE DEF marked, i
    <3>3. /\ heapSlots' \in Seq(Slot) /\ Len(heapSlots') = Len(heapSlots)
          /\ \A j \in 1..Len(heapSlots) :
               heapSlots'[j] = IF j = i THEN marked ELSE heapSlots[j]
      BY <3>1, <3>2, <1>r, <1>s, ExceptSeq
    <3> QED
      BY <2>2, <3>1, <3>2, <3>3, <1>s DEF Slot
  <2> QED
    BY <2>1, <2>2
<1>2. traced \subseteq {object.link} \ {Null} /\ traced \subseteq Refs
      /\ \A q \in traced : Resolves(q)
  BY <1>r, <1>t DEF Traced, LinksResolve, Slot
<1>3. pending' \subseteq Refs /\ \A q \in pending' : Resolves(q)
  BY <1>1, <1>2, <1>t
<1>4. /\ HeapTypeOK' /\ FreeList' /\ LinksResolve' /\ CacheResolves' /\ RootsResolve'
      /\ Occupied' = Occupied /\ Existing' = Existing /\ Kind' = Kind /\ Link' = Link
      /\ \A q \in Refs : Resolves(q)' <=> Resolves(q)
      /\ \A j \in Occupied : Named(j)' = Named(j)
  BY <1>1, <1>3, <1>f, <1>t, MarksAreInvisible
<1>5. \A q \in Refs : (q \in pending \/ heapSlots[q[1]].marked) /\ q[1] \in Occupied
        => q \in pending' \/ heapSlots'[q[1]].marked
  <2>1. \A j \in Occupied : j \in 1..Len(heapSlots)
    BY <1>s DEF Occupied
  <2> QED
    BY <2>1, <1>1, <1>r
<1>6. Covered'
  <2>1. ASSUME NEW q \in held PROVE q \in pending' \/ heapSlots'[q[1]].marked
    <3>1. q \in Refs /\ q[1] \in Occupied
      BY <1>t, ResolvesIsExisting DEF HeapInv, RootsResolve
    <3> QED
      BY <3>1, <1>5, <1>t DEF Covered, Marked
  <2>2. ASSUME NEW j \in Occupied, heapSlots'[j].marked, heapSlots'[j].kind = "strong",
               heapSlots'[j].link # Null
        PROVE  heapSlots'[j].link \in pending' \/ heapSlots'[heapSlots'[j].link[1]].marked
    <3>1. /\ j \in 1..Len(heapSlots) /\ heapSlots[j].kind = "strong"
          /\ heapSlots[j].link # Null /\ heapSlots[j].link \in Refs
          /\ heapSlots'[j].link = heapSlots[j].link
          /\ heapSlots[j].link[1] \in Occupied
      <4>1. j \in 1..Len(heapSlots)
        BY <1>s DEF Occupied
      <4>2. heapSlots[j].link # Null /\ heapSlots[j].link \in Refs /\ heapSlots[j].kind = "strong"
        BY <4>1, <2>2, <1>1, <1>s DEF Slot
      <4> QED
        BY <4>1, <4>2, <1>1, <1>t, ResolvesIsExisting DEF LinksResolve
    <3>2. CASE heapSlots[j].marked
      BY <3>1, <3>2, <1>5, <1>t DEF Covered, Marked
    <3>3. CASE ~heapSlots[j].marked
      <4>1. j = i /\ heapSlots[j].link \in traced
        BY <3>1, <3>3, <2>2, <1>1 DEF Traced
      <4> QED
        BY <4>1, <3>1, <1>1
    <3> QED
      BY <3>2, <3>3
  <2> QED
    BY <2>1, <2>2, <1>4, <1>f DEF Covered, Marked
<1>7. Least'
  <2> SUFFICES ASSUME NEW S \in SUBSET Existing, Promised!Closed(S)
               PROVE  /\ pending' \subseteq S
                      /\ \A j \in Occupied : heapSlots'[j].marked => Named(j) \in S
    BY <1>4, <1>f DEF Least, Promised!Closed
  <2>1. pending \subseteq S /\ \A j \in Occupied : heapSlots[j].marked => Named(j) \in S
    BY <1>t DEF Least
  <2>2. ASSUME NEW q \in traced PROVE q \in S
    <3>1. r \in S /\ Kind[r] = object.kind /\ Link[r] = object.link
      BY <2>1, <1>r DEF Kind, Link
    <3>2. object.kind = "strong" /\ q = object.link /\ q # Null
      BY DEF Traced
    <3> QED
      BY <3>1, <3>2 DEF Promised!Closed
  <2>3. \A j \in Occupied : heapSlots'[j].marked => heapSlots[j].marked \/ j = i
    BY <1>1, <1>s DEF Occupied
  <2> QED
    BY <2>1, <2>2, <2>3, <1>1, <1>r
<1>8. MarkInv'
  BY <1>3, <1>4, <1>6, <1>7, <1>f, <1>t DEF MarkInv
<1> QED
  BY <1>4, <1>8, <1>f DEF HeapInv, Promised!vars

\* The slots to be emptied, from below, each once.
LEMMA AscendingIsASeq ==
  ASSUME HeapTypeOK, NEW q \in Ascending(Unmarked)
  PROVE  /\ q \in Seq(1..MaximumObjects) /\ Len(q) \in Nat
         /\ \A k \in 1..Len(q) : q[k] \in Unmarked
         /\ \A k, l \in 1..Len(q) : q[k] = q[l] => k = l
<1>1. Unmarked \subseteq 1..Len(heapSlots) /\ Len(heapSlots) \in Nat
      /\ 1..Len(heapSlots) \subseteq 1..MaximumObjects
  BY Slots DEF Unmarked, Occupied
<1>2. Cardinality(Unmarked) \in Nat
  <2>1. IsFiniteSet(1..Len(heapSlots))
    BY <1>1, FS_Interval
  <2> QED
    BY <1>1, <2>1, FS_Subset, FS_CardinalityType
<1>3. PICK T \in SUBSET Nat, m \in Nat : T = Unmarked /\ m = Cardinality(Unmarked)
  BY <1>1, <1>2
<1>4. q \in [1..m -> T] /\ \A k, l \in 1..m : k < l => q[k] < q[l]
  BY <1>3 DEF Ascending
<1>5. /\ q \in Seq(Unmarked) /\ Len(q) \in Nat
      /\ \A k \in 1..Len(q) : q[k] \in Unmarked
      /\ \A k, l \in 1..Len(q) : q[k] = q[l] => k = l
  <2>1. q \in Seq(T) /\ Len(q) = m
    BY <1>4
  <2>2. \A k \in 1..m : q[k] \in T /\ q[k] \in Nat
    BY <1>4
  <2>3. ASSUME NEW k \in 1..m, NEW l \in 1..m, q[k] = q[l] PROVE k = l
    <3>1. q[k] \in Nat /\ q[l] \in Nat
      BY <2>2
    <3>2. ~(k < l) /\ ~(l < k)
      BY <3>1, <1>4, <2>3
    <3> QED
      BY <3>2
  <2> QED
    BY <2>1, <2>2, <2>3, <1>3
<1>6. q \in Seq(1..MaximumObjects)
  BY <1>1, <1>5, SeqMonotonic
<1> QED
  BY <1>5, <1>6

\* The end of a collection: what is left is the marked objects, which are the
\* least set that holds the roots and is closed under reference.
LEMMA FinishStep ==
  ASSUME HeapInv, FinishCollection
  PROVE  HeapInv' /\ Promised!Collect
<1>t. /\ HeapTypeOK /\ FreeList /\ LinksResolve /\ RootsResolve /\ Covered /\ Least
      /\ pending = {} /\ held \subseteq Refs /\ images \subseteq Refs
      /\ slotCache \in [0..CacheSize - 1 -> Refs \cup {Null}]
      /\ \A line \in 0..CacheSize - 1 : slotCache[line] = Null
  BY DEF HeapInv, MarkInv, FinishCollection, HeapTypeOK
<1>f. collecting' = FALSE /\ UNCHANGED <<pending, held>>
  BY DEF FinishCollection
<1>s. /\ Len(heapSlots) \in Nat /\ DOMAIN heapSlots = 1..Len(heapSlots)
      /\ Len(heapSlots) <= MaximumObjects /\ heapSlots \in Seq(Slot)
      /\ \A j \in 1..Len(heapSlots) : heapSlots[j] \in Slot
  BY <1>t, Slots DEF HeapTypeOK, Slot
<1>g. \A g \in 1..MaxGeneration : NextGeneration(g) \in 1..MaxGeneration
  BY HeapAssumption DEF NextGeneration
<1>1. /\ heapSlots' \in Seq(Slot) /\ Len(heapSlots') = Len(heapSlots)
      /\ \A j \in Unmarked : j \in 1..Len(heapSlots) /\ ~heapSlots'[j].occupied
      /\ \A j \in 1..Len(heapSlots) \ Unmarked :
           /\ heapSlots'[j].occupied = heapSlots[j].occupied
           /\ heapSlots'[j].generation = heapSlots[j].generation
           /\ heapSlots'[j].kind = heapSlots[j].kind
           /\ heapSlots'[j].link = IF Survives(heapSlots[j]) THEN heapSlots[j].link ELSE Null
  <2> DEFINE next(j) == IF j \in Unmarked THEN Emptied(heapSlots[j])
                        ELSE [heapSlots[j] EXCEPT
                                !.link = IF Survives(heapSlots[j]) THEN @ ELSE Null]
  <2>1. heapSlots' = [j \in 1..Len(heapSlots) |-> next(j)]
    BY <1>s DEF FinishCollection
  <2>2. ASSUME NEW j \in 1..Len(heapSlots), j \in Unmarked
        PROVE  next(j) \in Slot /\ ~next(j).occupied
    <3>1. next(j) = Emptied(heapSlots[j])
      BY <2>2
    <3> HIDE DEF next
    <3> QED
      BY <3>1, <1>s, <1>g DEF Emptied, Slot
  <2>3. ASSUME NEW j \in 1..Len(heapSlots) \ Unmarked
        PROVE  /\ next(j) \in Slot
               /\ next(j).occupied = heapSlots[j].occupied
               /\ next(j).generation = heapSlots[j].generation
               /\ next(j).kind = heapSlots[j].kind
               /\ next(j).link = IF Survives(heapSlots[j]) THEN heapSlots[j].link ELSE Null
    <3>1. next(j) = [heapSlots[j] EXCEPT !.link = IF Survives(heapSlots[j]) THEN @ ELSE Null]
      OBVIOUS
    <3> HIDE DEF next
    <3>2. heapSlots[j] \in Slot
      BY <1>s
    <3> QED
      BY <3>1, <3>2 DEF Slot
  <2> HIDE DEF next
  <2>4. heapSlots' \in [1..Len(heapSlots) -> Slot]
    BY <2>1, <2>2, <2>3
  <2>5. heapSlots' \in Seq(Slot) /\ Len(heapSlots') = Len(heapSlots)
    BY <2>4, <1>s
  <2>6. Unmarked \subseteq 1..Len(heapSlots)
    BY <1>s DEF Unmarked, Occupied
  <2> QED
    BY <2>1, <2>2, <2>3, <2>5, <2>6
<1>2. /\ \A j \in Occupied' : /\ j \in Occupied /\ j \notin Unmarked /\ heapSlots[j].marked
                              /\ j \in 1..Len(heapSlots) /\ Named(j)' = Named(j)
      /\ \A j \in Occupied : heapSlots[j].marked => j \in Occupied'
  <2>1. DOMAIN heapSlots' = 1..Len(heapSlots)
    BY <1>1, LenProperties
  <2> QED
    BY <2>1, <1>1, <1>s DEF Occupied, Unmarked, Named
<1>p. PICK q \in Ascending(Unmarked) : freeSlots' = freeSlots \o q
  BY DEF FinishCollection
<1>q. /\ q \in Seq(1..MaximumObjects) /\ Len(q) \in Nat
      /\ \A k \in 1..Len(q) : q[k] \in Unmarked
      /\ \A k, l \in 1..Len(q) : q[k] = q[l] => k = l
  BY <1>t, AscendingIsASeq
<1>h. /\ freeSlots \in Seq(1..MaximumObjects) /\ Len(freeSlots) \in Nat
      /\ freeSlots' \in Seq(1..MaximumObjects) /\ Len(freeSlots') = Len(freeSlots) + Len(q)
      /\ \A k \in 1..Len(freeSlots) + Len(q) :
           freeSlots'[k] = IF k <= Len(freeSlots) THEN freeSlots[k] ELSE q[k - Len(freeSlots)]
  <2>1. freeSlots \in Seq(1..MaximumObjects)
    BY <1>t DEF HeapTypeOK
  <2> QED
    BY <2>1, <1>p, <1>q, ConcatProperties, LenProperties
<1>c. /\ slotCache' \in [0..CacheSize - 1 -> Refs \cup {Null}]
      /\ \A r \in images' : r \in images /\ Resolves(r)'
      /\ \A r \in images : Resolves(r)' => r \in images'
      /\ \A line \in 0..CacheSize - 1 : slotCache'[line] # Null => slotCache'[line] \in images'
  <2>1. \A r \in images : Line(r) \in 0..CacheSize - 1 /\ r # Null
    BY <1>t, RefPair, HeapAssumption DEF Line
  <2>2. Prune /\ DOMAIN slotCache = 0..CacheSize - 1
    BY <1>t DEF FinishCollection
  <2>3. images' = {r \in images : Resolves(r)'}
    BY <2>1, <2>2, <1>t DEF Prune
  <2>4. slotCache' \in [0..CacheSize - 1 -> Refs \cup {Null}]
    BY <2>2 DEF Prune
  <2>5. ASSUME NEW line \in 0..CacheSize - 1, slotCache'[line] # Null
        PROVE  slotCache'[line] \in images'
    <3>1. LET asked == {r \in images' : Line(r) = line}
          IN  slotCache'[line] \in IF asked = {} THEN {slotCache[line]} ELSE asked
      BY <2>2 DEF Prune
    <3> QED
      BY <3>1, <2>5, <1>t
  <2> QED
    BY <2>3, <2>4, <2>5
<1>3. HeapTypeOK'
  BY <1>1, <1>h, <1>c, <1>f, <1>s, <1>t DEF HeapTypeOK, Slot
<1>e. /\ Existing' \subseteq Existing
      /\ \A r \in Refs : Resolves(r)' <=> r \in Existing'
      /\ \A r \in Existing' : /\ r \in Refs /\ r[1] \in Occupied /\ r[1] \notin Unmarked
                              /\ r[1] \in 1..Len(heapSlots)
      /\ \A r \in Refs : Resolves(r) /\ Marked(r) => r \in Existing'
  <2>1. (HeapTypeOK => /\ Existing \subseteq Refs
                       /\ \A r \in Refs : Resolves(r) <=> r \in Existing
                       /\ \A r \in Refs : Resolves(r) => r[1] \in Occupied /\ Named(r[1]) = r
                       /\ \A i \in Occupied : Named(i) \in Existing /\ Named(i)[1] = i)'
    BY ResolvesIsExisting, PTL
  <2>2. ASSUME NEW r \in Refs, Resolves(r), Marked(r) PROVE r \in Existing'
    <3>1. r[1] \in Occupied' /\ Named(r[1]) = r
      BY <2>2, <1>2, <1>t, ResolvesIsExisting DEF Marked
    <3>2. Named(r[1])' = r
      BY <3>1, <1>2
    <3> QED
      BY <3>1, <3>2, <2>1, <1>3
  <2>3. ASSUME NEW r \in Existing'
        PROVE  /\ r \in Refs /\ r[1] \in Occupied' /\ Named(r[1])' = r
    BY <2>1, <1>3
  <2>4. ASSUME NEW r \in Existing' PROVE r \in Existing
    BY <2>3, <1>2, <1>t, ResolvesIsExisting
  <2> QED
    BY <2>1, <2>2, <2>3, <2>4, <1>2, <1>3
<1>r. \A r \in held : r \in Existing'
  BY <1>e, <1>t DEF RootsResolve, Covered
\* What a surviving object refers to survives, or it is told.
<1>l. ASSUME NEW j \in Occupied'
      PROVE  /\ heapSlots[j].link \in Refs \cup {Null}
             /\ heapSlots[j].link # Null => Resolves(heapSlots[j].link)
             /\ heapSlots'[j].link = (IF heapSlots[j].link \in Existing'
                                      THEN heapSlots[j].link ELSE Null)
             /\ heapSlots[j].kind = "strong" =>
                  heapSlots[j].link = Null \/ heapSlots[j].link \in Existing'
  <2>1. /\ j \in 1..Len(heapSlots) /\ j \in Occupied /\ heapSlots[j].marked
        /\ heapSlots[j] \in Slot /\ j \notin Unmarked
    BY <1>2, <1>s
  <2>2. heapSlots[j].link \in Refs \cup {Null} /\ Null \notin Existing'
    BY <2>1, <1>e, NullAssumption DEF Slot
  <2>3. heapSlots[j].link # Null => Resolves(heapSlots[j].link)
    BY <2>1, <1>t DEF LinksResolve
  <2>4. heapSlots[j].link # Null =>
          (Marked(heapSlots[j].link) <=> heapSlots[j].link \in Existing')
    <3>1. ASSUME heapSlots[j].link \in Existing' PROVE Marked(heapSlots[j].link)
      BY <3>1, <1>e DEF Marked, Unmarked
    <3> QED
      BY <3>1, <2>2, <2>3, <1>e
  <2>5. CASE heapSlots[j].kind = "strong"
    <3>1. heapSlots[j].link = Null \/ heapSlots[j].link \in Existing'
      BY <2>1, <2>4, <2>5, <1>t DEF Covered
    <3> QED
      BY <2>1, <2>2, <2>3, <2>5, <3>1, <1>1 DEF Survives
  <2>6. CASE heapSlots[j].kind # "strong"
    <3>1. Survives(heapSlots[j]) <=> heapSlots[j].link # Null /\ Marked(heapSlots[j].link)
      BY <2>3, <2>6 DEF Survives, Marked
    <3> QED
      BY <2>1, <2>2, <2>3, <2>4, <2>6, <3>1, <1>1
  <2> QED
    BY <2>5, <2>6
<1>4. FreeList'
  <2>1. ASSUME NEW k \in 1..Len(freeSlots')
        PROVE  /\ freeSlots'[k] \in 1..Len(heapSlots) /\ ~heapSlots'[freeSlots'[k]].occupied
               /\ k > Len(freeSlots) <=> freeSlots'[k] \in Unmarked
    <3>1. CASE k <= Len(freeSlots)
      <4>1. k \in 1..Len(freeSlots) /\ freeSlots'[k] = freeSlots[k] /\ ~(k > Len(freeSlots))
        BY <3>1, <1>h, <1>q
      <4>2. freeSlots[k] \in 1..Len(heapSlots) /\ ~heapSlots[freeSlots[k]].occupied
        BY <4>1, <1>t DEF FreeList
      <4>3. freeSlots[k] \notin Unmarked
        BY <4>2 DEF Unmarked, Occupied
      <4> QED
        BY <4>1, <4>2, <4>3, <1>1
    <3>2. CASE k > Len(freeSlots)
      <4>1. k - Len(freeSlots) \in 1..Len(q) /\ freeSlots'[k] = q[k - Len(freeSlots)]
        BY <3>2, <1>h, <1>q
      <4> QED
        BY <4>1, <3>2, <1>q, <1>1
    <3> QED
      BY <3>1, <3>2, <1>h, <1>q
  <2>2. ASSUME NEW k \in 1..Len(freeSlots'), NEW l \in 1..Len(freeSlots'),
               freeSlots'[k] = freeSlots'[l]
        PROVE  k = l
    <3>1. k > Len(freeSlots) <=> l > Len(freeSlots)
      BY <2>1, <2>2
    <3>2. CASE k <= Len(freeSlots)
      <4>1. /\ k \in 1..Len(freeSlots) /\ l \in 1..Len(freeSlots)
            /\ freeSlots[k] = freeSlots[l]
        BY <3>1, <3>2, <2>2, <1>h, <1>q
      <4> QED
        BY <4>1, <1>t DEF FreeList
    <3>3. CASE k > Len(freeSlots)
      <4>1. /\ k - Len(freeSlots) \in 1..Len(q) /\ l - Len(freeSlots) \in 1..Len(q)
            /\ q[k - Len(freeSlots)] = q[l - Len(freeSlots)]
        BY <3>1, <3>3, <2>2, <1>h, <1>q
      <4>2. k - Len(freeSlots) = l - Len(freeSlots)
        BY <4>1, <1>q
      <4> QED
        BY <4>2, <1>h, <1>q
    <3> QED
      BY <3>2, <3>3, <1>h, <1>q
  <2> QED
    BY <2>1, <2>2, <1>1 DEF FreeList
<1>5. LinksResolve'
  <2> SUFFICES ASSUME NEW j \in Occupied', heapSlots'[j].link # Null
               PROVE  Resolves(heapSlots[j].link)'
    BY DEF LinksResolve
  <2> QED
    BY <1>l, <1>e
<1>6. CacheResolves'
  BY <1>c DEF CacheResolves
<1>7. RootsResolve'
  BY <1>c, <1>e, <1>r, <1>f, <1>t DEF RootsResolve
<1>8. HeapInv'
  BY <1>3, <1>4, <1>5, <1>6, <1>7, <1>f DEF HeapInv, MarkInv
<1>9. Promised!Collect
  <2>k. \A r \in Existing' : Kind[r] = heapSlots[r[1]].kind /\ Link[r] = heapSlots[r[1]].link
    BY <1>e DEF Kind, Link
  <2>o. \A r \in Existing' : r[1] \in Occupied'
    BY <1>e, <1>2 DEF Unmarked
  <2>1. Promised!Closed(Existing')
    BY <1>r, <1>l, <2>k, <2>o DEF Promised!Closed
  <2>2. ASSUME NEW S \in SUBSET Existing, Promised!Closed(S) PROVE Existing' \subseteq S
    <3>1. \A j \in Occupied : heapSlots[j].marked => Named(j) \in S
      BY <2>2, <1>t DEF Least
    <3> QED
      BY <3>1, <1>2 DEF Existing
  <2>3. Kind' = [r \in Existing' |-> Kind[r]]
    BY <2>k, <1>1, <1>e DEF Kind
  <2>4. Link' = [r \in Existing' |-> IF Link[r] \in Existing' THEN Link[r] ELSE Null]
    BY <2>k, <2>o, <1>l DEF Link
  <2>5. images' = images \cap Existing'
    BY <1>c, <1>e, <1>t
  <2> QED
    BY <2>1, <2>2, <2>3, <2>4, <2>5, <1>e, <1>f DEF Promised!Collect
<1> QED
  BY <1>8, <1>9

-----------------------------------------------------------------------------
LEMMA HeapStart == HeapInit => HeapInv /\ Promised!Init
<1> SUFFICES ASSUME HeapInit PROVE HeapInv /\ Promised!Init
  OBVIOUS
<1>1. Len(heapSlots) = 0 /\ DOMAIN heapSlots = {} /\ heapSlots \in Seq(Slot)
      /\ Len(freeSlots) = 0 /\ freeSlots \in Seq(1..MaximumObjects)
  BY EmptySeq DEF HeapInit
<1>2. Occupied = {} /\ Existing = {}
  BY <1>1 DEF Occupied, Existing
<1>3. HeapTypeOK
  BY <1>1, HeapAssumption DEF HeapInit, HeapTypeOK, Slot
<1>4. HeapInv
  BY <1>1, <1>2, <1>3 DEF HeapInit, HeapInv, FreeList, LinksResolve, CacheResolves,
     RootsResolve, MarkInv
<1>5. Promised!Init
  BY <1>2 DEF HeapInit, Promised!Init, Kind, Link
<1> QED
  BY <1>4, <1>5

LEMMA HeapStep ==
  ASSUME HeapInv, [HeapNext]_heapVars
  PROVE  HeapInv' /\ [Promised!Next]_(Promised!vars)
<1>1. ASSUME NEW k \in {"strong", "weak"}, NewObject(k)
      PROVE  HeapInv' /\ Promised!Next
  BY <1>1, NewStep DEF Promised!Next
<1>2. ASSUME NEW r \in held, LoadField(r) \/ LoadReferent(r) \/ Forget(r) \/ Draw(r)
      PROVE  HeapInv' /\ (Promised!Next \/ UNCHANGED Promised!vars)
  BY <1>2, ReadStep
<1>3. ASSUME NEW r \in held, NEW v \in held \cup {Null},
             StoreField(r, v) \/ StoreReferent(r, v)
      PROVE  HeapInv' /\ Promised!Next
  BY <1>3, StoreStep DEF Promised!Next
<1>4. CASE BeginCollection \/ Mark
  BY <1>4, BeginStep, MarkStep
<1>5. CASE FinishCollection
  BY <1>5, FinishStep DEF Promised!Next
<1>6. CASE UNCHANGED heapVars
  <2>1. Existing' = Existing /\ Kind' = Kind /\ Link' = Link
    BY <1>6 DEF heapVars, Existing, Kind, Link, Occupied, Named
  <2>2. HeapInv'
    <3>1. HeapTypeOK' /\ FreeList'
      BY <1>6 DEF heapVars, HeapInv, HeapTypeOK, FreeList
    <3>2. LinksResolve' /\ CacheResolves' /\ RootsResolve'
      BY <1>6 DEF heapVars, HeapInv, LinksResolve, CacheResolves, RootsResolve,
         Resolves, Occupied
    <3>3. Covered <=> Covered'
      BY <1>6 DEF heapVars, Covered, Marked, Occupied
    <3>4. Least <=> Least'
      BY <1>6, <2>1 DEF heapVars, Least, Occupied, Named, Promised!Closed
    <3>5. MarkInv'
      BY <1>6, <3>3, <3>4 DEF heapVars, HeapInv, MarkInv, Resolves
    <3> QED
      BY <3>1, <3>2, <3>5 DEF HeapInv
  <2> QED
    BY <1>6, <2>1, <2>2 DEF heapVars, Promised!vars
<1> QED
  BY <1>1, <1>2, <1>3, <1>4, <1>5, <1>6 DEF HeapNext, Mutator, Collector

\* For any number of objects, limit of generations and size of the cache, every
\* reference that a frame, a static, a field, a weak reference, an image or the
\* cache of the heap keeps is to the object it was handed out for.
NoStaleReference ==
  /\ \A r \in held \cup images : Resolves(r)
  /\ \A i \in Occupied : heapSlots[i].link # Null => Resolves(heapSlots[i].link)
  /\ \A line \in 0..CacheSize - 1 : slotCache[line] # Null => Resolves(slotCache[line])

THEOREM ReferencesResolve == HeapSpec => [](HeapTypeOK /\ NoStaleReference)
<1>1. HeapInit => HeapInv
  BY HeapStart
<1>2. HeapInv /\ [HeapNext]_heapVars => HeapInv'
  BY HeapStep
<1>3. HeapInv => HeapTypeOK /\ NoStaleReference
  BY DEF HeapInv, LinksResolve, CacheResolves, RootsResolve, NoStaleReference
<1> QED
  BY <1>1, <1>2, <1>3, PTL DEF HeapSpec

\* The heap implements JavaHeap: its collector, marking one reference after the
\* other, takes exactly the objects that cannot be reached, and with them every
\* weak reference, image and cached resolution that speaks of them.
THEOREM HeapImplements == HeapSpec => ImplementsJavaHeap
<1>1. HeapInit => HeapInv /\ Promised!Init
  BY HeapStart
<1>2. HeapInv /\ [HeapNext]_heapVars => HeapInv' /\ [Promised!Next]_(Promised!vars)
  BY HeapStep
<1> QED
  BY <1>1, <1>2, PTL DEF HeapSpec, ImplementsJavaHeap, Promised!Spec

-----------------------------------------------------------------------------
(***************************************************************************)
(* Activations, and the roots they are reported by.                        *)
(***************************************************************************)

Activation == [kind : Kinds, depth : Depths, holds : Things \cup {Nothing}]

\* The activations that an entry of their depth is for.
Owners == Dispatches \cup {"direct"}

(***************************************************************************)
(* The shape of a stack s of which the activations in D are displaced: an  *)
(* owner has displaced everything of its depth below it.                   *)
(***************************************************************************)
ShapeAt(s, D, i) ==
  /\ s[i].depth <= i
  /\ i = 1 => s[i].kind \in Dispatches
  /\ s[i].kind \in {"native", "pumping"} =>
       /\ i > 1 /\ s[i - 1].kind \in Java /\ s[i].depth = s[i - 1].depth
       /\ i - 1 \in D => i \in D
  /\ i \in D => s[i].depth > 1
  /\ s[i].kind \in Owners => \A j \in 1..i - 1 : s[j].depth = s[i].depth => j \in D

(***************************************************************************)
(* What is reported of the activations of a stack, with what is published, *)
(* the walker and the overlay of every depth.                              *)
(***************************************************************************)
Overlaid == {"compiled root", "compiled", "direct"}

Reported(s, p, w, o, i) ==
  /\ s[i].kind = "entering" => {s[i].holds} \ {Nothing} \subseteq p[s[i].depth]
  /\ s[i].kind = "interpreter" => w[s[i].depth] = i
  /\ s[i].kind \in Overlaid => o[s[i].depth] = i

Sound(s, p, w, o, D) ==
  /\ s \in Seq(Activation) /\ Len(s) <= MaxCalls /\ D \subseteq 1..Len(s)
  /\ \A i \in 1..Len(s) : ShapeAt(s, D, i)
  /\ \A i \in 1..Len(s) : i \notin D => Reported(s, p, w, o, i)

RootsInv ==
  /\ ExecutionTypeOK
  /\ \A t \in JavaThreads :
       Sound(stack[t], published[t], walker[t], overlay[t], displaced[t])

(***************************************************************************)
(* What a step leaves of one thread's stack, up to place m: the same       *)
(* activations, but for what Java code holds; displaced at the depths X;   *)
(* and, when not displaced, with the entries they are reported in.         *)
(***************************************************************************)
Same(s, s2, m) ==
  \A i \in 1..m : /\ s2[i].kind = s[i].kind /\ s2[i].depth = s[i].depth
                  /\ s2[i].kind = "entering" => s2[i].holds = s[i].holds

Widened(s, D, D2, X, m) == \A i \in 1..m : i \in D2 <=> i \in D \/ s[i].depth \in X

Kept(s, p, w, o, p2, w2, o2, D2, m) ==
  \A i \in (1..m) \ D2 :
    /\ s[i].kind = "entering" => p2[s[i].depth] = p[s[i].depth]
    /\ s[i].kind = "interpreter" => w2[s[i].depth] = w[s[i].depth]
    /\ s[i].kind \in Overlaid => o2[s[i].depth] = o[s[i].depth]

LEMMA StaysSound ==
  ASSUME NEW s, NEW p, NEW w, NEW o, NEW D, Sound(s, p, w, o, D),
         NEW s2 \in Seq(Activation), NEW p2, NEW w2, NEW o2, NEW D2,
         Len(s2) <= MaxCalls, D2 \subseteq 1..Len(s2),
         NEW m \in Nat, m <= Len(s), NEW X, \A e \in X : e > 1,
         Same(s, s2, m), Widened(s, D, D2, X, m),
         Kept(s, p, w, o, p2, w2, o2, D2, m),
         \A i \in 1..Len(s2) : i > m =>
           ShapeAt(s2, D2, i) /\ (i \notin D2 => Reported(s2, p2, w2, o2, i))
  PROVE  Sound(s2, p2, w2, o2, D2)
<1>0. Len(s) \in Nat /\ Len(s2) \in Nat
  BY DEF Sound
<1>1. ASSUME NEW j \in 1..m
      PROVE  /\ s2[j].kind = s[j].kind /\ s2[j].depth = s[j].depth
             /\ j \in D2 <=> j \in D \/ s[j].depth \in X
  BY <1>1 DEF Same, Widened
<1>2. ASSUME NEW i \in 1..Len(s2), i <= m
      PROVE  ShapeAt(s2, D2, i) /\ (i \notin D2 => Reported(s2, p2, w2, o2, i))
  <2>1. i \in 1..m /\ i \in 1..Len(s)
    BY <1>0, <1>2
  <2>2. ShapeAt(s, D, i) /\ (i \notin D => Reported(s, p, w, o, i))
    BY <2>1 DEF Sound
  <2>3. \A j \in 1..i - 1 : j \in 1..m
    BY <2>1
  <2>4. s2[i].kind \in {"native", "pumping"} =>
          /\ i > 1 /\ s2[i - 1].kind \in Java /\ s2[i].depth = s2[i - 1].depth
          /\ i - 1 \in D2 => i \in D2
    <3> SUFFICES ASSUME s2[i].kind \in {"native", "pumping"}
        PROVE  /\ i > 1 /\ s2[i - 1].kind \in Java /\ s2[i].depth = s2[i - 1].depth
               /\ i - 1 \in D2 => i \in D2
      OBVIOUS
    <3>1. /\ i > 1 /\ s[i - 1].kind \in Java /\ s[i].depth = s[i - 1].depth
          /\ i - 1 \in D => i \in D
      BY <1>1, <2>1, <2>2 DEF ShapeAt
    <3>2. i - 1 \in 1..m
      BY <3>1, <2>1
    <3> QED BY <3>1, <3>2, <1>1, <2>1
  <2>5. s2[i].kind \in Owners => \A j \in 1..i - 1 : s2[j].depth = s2[i].depth => j \in D2
    BY <1>1, <2>1, <2>2, <2>3 DEF ShapeAt
  <2>6. /\ s2[i].depth <= i /\ (i = 1 => s2[i].kind \in Dispatches)
        /\ i \in D2 => s2[i].depth > 1
    BY <1>1, <2>1, <2>2 DEF ShapeAt
  <2>7. ASSUME i \notin D2  PROVE Reported(s2, p2, w2, o2, i)
    <3>1. i \in (1..m) \ D2 /\ Reported(s, p, w, o, i)
      BY <2>1, <2>2, <2>7, <1>1
    <3>2. /\ s[i].kind = "entering" => p2[s[i].depth] = p[s[i].depth]
          /\ s[i].kind = "interpreter" => w2[s[i].depth] = w[s[i].depth]
          /\ s[i].kind \in Overlaid => o2[s[i].depth] = o[s[i].depth]
      BY <3>1 DEF Kept
    <3>3. /\ s2[i].kind = s[i].kind /\ s2[i].depth = s[i].depth
          /\ s2[i].kind = "entering" => s2[i].holds = s[i].holds
      BY <2>1 DEF Same
    <3> QED BY <3>1, <3>2, <3>3 DEF Reported
  <2> QED BY <2>4, <2>5, <2>6, <2>7 DEF ShapeAt
<1>3. ASSUME NEW i \in 1..Len(s2)
      PROVE  ShapeAt(s2, D2, i) /\ (i \notin D2 => Reported(s2, p2, w2, o2, i))
  BY <1>0, <1>2
<1> QED BY <1>3 DEF Sound

\* What concerns one depth, and its owner, leaves the others as they were.
LEMMA OwnDepth ==
  ASSUME NEW s, NEW p, NEW w, NEW o, NEW D, Sound(s, p, w, o, D),
         NEW D2, NEW X, NEW m \in Nat, m <= Len(s), Widened(s, D, D2, X, m),
         NEW d, \A i \in 1..m : s[i].depth = d => i \in D2,
         NEW p2, NEW w2, NEW o2,
         \A e \in Depths \ {d} : p2[e] = p[e] /\ w2[e] = w[e] /\ o2[e] = o[e]
  PROVE  Kept(s, p, w, o, p2, w2, o2, D2, m)
<1>1. ASSUME NEW i \in (1..m) \ D2  PROVE s[i].depth \in Depths \ {d}
  <2>1. i \in 1..Len(s) /\ s[i] \in Activation
    BY DEF Sound
  <2> QED BY <2>1 DEF Activation
<1> QED BY <1>1 DEF Kept

-----------------------------------------------------------------------------
(***************************************************************************)
(* The depth the host thread counts: no more than the activations, and not *)
(* zero when there are any.                                                *)
(***************************************************************************)
LEMMA LockDepthIs ==
  ASSUME NEW t \in JavaThreads, NEW s, s = stack[t], NEW D,
         s \in Seq(Activation), \A i \in 1..Len(s) : ShapeAt(s, D, i)
  PROVE  /\ LockDepth(t) \in Nat /\ LockDepth(t) <= Len(s)
         /\ Len(s) > 0 => LockDepth(t) > 0
<1> PICK n \in Nat : n = Len(s)
  OBVIOUS
<1>1. DOMAIN s = 1..n /\ IsFiniteSet(1..n) /\ Cardinality(1..n) = n
  <2>0. 1 \in Int /\ n \in Int
    OBVIOUS
  <2>1. IsFiniteSet(1..n) /\ Cardinality(1..n) = IF 1 > n THEN 0 ELSE n - 1 + 1
    BY <2>0, FS_Interval, Zenon
  <2> QED BY <2>1
<1>P. PICK P : P = {i \in 1..n : s[i].kind = "pumping"}
  OBVIOUS
<1>A. PICK A : A = {i \in 1..n : s[i].kind \in Dispatches /\ \A q \in P : i > q}
  OBVIOUS
<1>2. LockDepth(t) = Cardinality(P) + Cardinality(A)
  <2>1. Pumps(t) = P
    BY <1>1, <1>P DEF Pumps
  <2> QED BY <2>1, <1>1, <1>A DEF LockDepth
<1>3. P \cap A = {} /\ P \cup A \subseteq 1..n /\ P \subseteq 1..n /\ A \subseteq 1..n
  <2>1. "pumping" \notin Dispatches
    BY DEF Dispatches
  <2> QED BY <2>1, <1>P, <1>A
<1>4. IsFiniteSet(P) /\ IsFiniteSet(A)
  BY <1>1, <1>3, FS_Subset
<1>5. Cardinality(P) \in Nat /\ Cardinality(A) \in Nat
  BY <1>4, FS_CardinalityType
<1>6. Cardinality(P \cup A) = Cardinality(P) + Cardinality(A) - Cardinality(P \cap A)
  BY <1>4, FS_Union
<1>7. Cardinality(P \cap A) = 0 /\ Cardinality(P \cup A) <= n
  <2>1. Cardinality(P \cup A) <= Cardinality(1..n)
    BY <1>1, <1>3, FS_Subset
  <2>2. Cardinality(P \cap A) = 0
    BY <1>3, FS_EmptySet
  <2> QED BY <2>1, <2>2, <1>1
<1>8. ASSUME n > 0  PROVE Cardinality(P) > 0 \/ Cardinality(A) > 0
  <2>1. CASE P # {}
    BY <2>1, <1>4, <1>5, FS_EmptySet
  <2>2. CASE P = {}
    <3>1. 1 \in 1..n /\ s[1].kind \in Dispatches
      BY <1>8 DEF ShapeAt
    <3>2. A # {}
      BY <3>1, <2>2, <1>A
    <3> QED BY <3>2, <1>4, <1>5, FS_EmptySet
  <2> QED BY <2>1, <2>2
<1> QED BY <1>2, <1>5, <1>6, <1>7, <1>8

-----------------------------------------------------------------------------
(***************************************************************************)
(* What a covered activation holds is found by a collection.               *)
(***************************************************************************)
LEMMA HeldIsRooted ==
  ASSUME RootsInv, NEW t \in JavaThreads, NEW i \in 1..Len(stack[t]), Safeguarded(t, i)
  PROVE  HeldAt(t, i) \subseteq Roots
<1>s. PICK s : s = stack[t]
  OBVIOUS
<1>d. PICK d : d = s[i].depth
  OBVIOUS
<1>D. PICK D : D = displaced[t]
  OBVIOUS
<1>1. Sound(s, published[t], walker[t], overlay[t], D)
  BY <1>s, <1>D DEF RootsInv
<1>2. /\ s \in Seq(Activation) /\ Len(s) \in Nat /\ i \in 1..Len(s) /\ ShapeAt(s, D, i)
      /\ s[i] \in Activation /\ d \in Depths /\ DOMAIN s = 1..Len(s)
  <2>1. s \in Seq(Activation) /\ i \in 1..Len(s) /\ ShapeAt(s, D, i)
    BY <1>1, <1>s DEF Sound
  <2>2. Len(s) \in Nat /\ s[i] \in Activation /\ DOMAIN s = 1..Len(s)
    BY <2>1
  <2> QED BY <2>1, <2>2, <1>d DEF Activation
<1>3. i \notin D /\ s[i].kind # "unexposed"
  <2>1. s[i].kind # "unexposed" /\ (i \in D => d = 1)
    BY <1>s, <1>D, <1>d DEF Safeguarded
  <2>2. i \in D => d > 1
    BY <1>2, <1>d DEF ShapeAt
  <2> QED BY <2>1, <2>2
<1>4. ASSUME NEW x \in published[t][d] \cup Walked(t, walker[t][d]) \cup Walked(t, overlay[t][d])
      PROVE  x \in Roots
  <2> PICK U : U = published[t][d] \cup Walked(t, walker[t][d]) \cup Walked(t, overlay[t][d])
    OBVIOUS
  <2>1. U \in {published[u][e] \cup Walked(u, walker[u][e]) \cup Walked(u, overlay[u][e]) :
                u \in JavaThreads, e \in Depths}
    BY <1>2
  <2> QED BY <1>4, <2>1 DEF Roots
<1>5. CASE s[i].kind = "entering"
  <2>1. HeldAt(t, i) \subseteq published[t][d]
    BY <1>1, <1>2, <1>3, <1>5, <1>s, <1>d DEF Sound, Reported, HeldAt
  <2> QED BY <2>1, <1>4
<1>6. ASSUME NEW j \in 1..Len(s), j \notin D, s[j].kind \in Java, s[j].depth = d
      PROVE  Walked(t, j) \subseteq Roots
  <2>1. Reported(s, published[t], walker[t], overlay[t], j)
    BY <1>1, <1>6 DEF Sound
  <2>2. walker[t][d] = j \/ overlay[t][d] = j
    BY <2>1, <1>6 DEF Reported, Java, Overlaid
  <2> QED BY <2>2, <1>4
<1>7. CASE s[i].kind \in Java
  <2>1. i \in Chain(t, i)
    BY <1>2 DEF Chain
  <2>2. HeldAt(t, i) \subseteq Walked(t, i)
    BY <1>2, <1>s, <2>1 DEF Walked
  <2> QED BY <2>2, <1>6, <1>7, <1>2, <1>3, <1>d
<1>8. CASE s[i].kind \in {"native", "pumping"}
  <2>1. i > 1 /\ s[i - 1].kind \in Java /\ s[i - 1].depth = d /\ i - 1 \notin D
    BY <1>2, <1>3, <1>8, <1>d DEF ShapeAt
  <2>2. i - 1 \in 1..Len(s) /\ (i - 1) + 1 = i /\ i - 1 < Len(s)
    BY <2>1, <1>2
  <2>3. Exposed(t, i - 1) = HeldAt(t, i)
    BY <2>2, <1>8, <1>s DEF Exposed, Height
  <2>4. HeldAt(t, i) \subseteq Walked(t, i - 1)
    BY <2>2, <2>3, <1>2, <1>s DEF Walked
  <2> QED BY <2>1, <2>2, <2>4, <1>6
<1>9. s[i].kind \in Java \cup {"entering", "native", "pumping"}
  BY <1>2, <1>3 DEF Activation, Kinds, Java
<1> QED BY <1>5, <1>7, <1>8, <1>9

-----------------------------------------------------------------------------
(***************************************************************************)
(* The steps of the system.                                                *)
(***************************************************************************)
LEMMA ThreadTypes ==
  ASSUME RootsInv, NEW t \in JavaThreads
  PROVE  /\ stack[t] \in Seq(Activation)
         /\ published[t] \in [Depths -> SUBSET Things]
         /\ walker[t] \in [Depths -> 0..MaxCalls]
         /\ overlay[t] \in [Depths -> 0..MaxCalls]
         /\ Sound(stack[t], published[t], walker[t], overlay[t], displaced[t])
BY DEF RootsInv, ExecutionTypeOK, Activation

LEMMA OneThreadSteps ==
  ASSUME RootsInv, NEW t \in JavaThreads,
         NEW s2 \in Seq(Activation), NEW p2 \in [Depths -> SUBSET Things],
         NEW w2 \in [Depths -> 0..MaxCalls], NEW o2 \in [Depths -> 0..MaxCalls], NEW D2,
         stack' = [stack EXCEPT ![t] = s2],
         published' = [published EXCEPT ![t] = p2],
         walker' = [walker EXCEPT ![t] = w2],
         overlay' = [overlay EXCEPT ![t] = o2],
         displaced' = [displaced EXCEPT ![t] = D2],
         Sound(s2, p2, w2, o2, D2),
         holder' \in JavaThreads \cup {Nobody},
         static' \in Things \cup {Nothing}, alive' \subseteq Things
  PROVE  RootsInv'
<1>0. D2 \in SUBSET (1..MaxCalls)
  BY RootsAssumption DEF Sound
<1>1. ExecutionTypeOK'
  BY <1>0 DEF RootsInv, ExecutionTypeOK, Activation
<1>2. ASSUME NEW u \in JavaThreads
      PROVE  Sound(stack'[u], published'[u], walker'[u], overlay'[u], displaced'[u])
  <2>1. CASE u = t
    <3>1. /\ stack'[t] = s2 /\ published'[t] = p2 /\ walker'[t] = w2 /\ overlay'[t] = o2
          /\ displaced'[t] = D2
      BY DEF RootsInv, ExecutionTypeOK
    <3> QED BY <2>1, <3>1
  <2>2. CASE u # t
    <3>1. /\ stack'[u] = stack[u] /\ published'[u] = published[u]
          /\ walker'[u] = walker[u] /\ overlay'[u] = overlay[u]
          /\ displaced'[u] = displaced[u]
      BY <2>2 DEF RootsInv, ExecutionTypeOK
    <3> QED BY <3>1 DEF RootsInv
  <2> QED BY <2>1, <2>2
<1> QED BY <1>1, <1>2 DEF RootsInv

LEMMA StacksStay ==
  ASSUME RootsInv, UNCHANGED <<stack, rootVars>>, alive' \subseteq Things,
         holder' \in JavaThreads \cup {Nobody}, static' \in Things \cup {Nothing}
  PROVE  RootsInv'
<1>1. ExecutionTypeOK'
  BY DEF RootsInv, ExecutionTypeOK, rootVars
<1> QED BY <1>1 DEF RootsInv, rootVars

\* What the memory is after a step that allocates at most.
LEMMA MemoryTypes ==
  ASSUME RootsInv
  PROVE  /\ alive \subseteq Things /\ static \in Things \cup {Nothing}
         /\ holder \in JavaThreads \cup {Nobody}
         /\ \A r \in Things : Fresh(r) => alive' \subseteq Things
         /\ \A r : Old(r) => alive' = alive
BY DEF RootsInv, ExecutionTypeOK, Fresh, Old

LEMMA CurrentIs ==
  ASSUME RootsInv, NEW t \in JavaThreads, stack[t] # <<>>
  PROVE  /\ Height(t) \in 1..MaxCalls /\ Height(t) = Len(stack[t])
         /\ Height(t) \in Nat \ {0} /\ MaxCalls \in Nat
         /\ Current(t) = stack[t][Height(t)] /\ Current(t) \in Activation
         /\ Depth(t) = Current(t).depth /\ Depth(t) \in Depths
         /\ ShapeAt(stack[t], displaced[t], Height(t))
         /\ Height(t) \notin displaced[t] =>
              Reported(stack[t], published[t], walker[t], overlay[t], Height(t))
         /\ Current(t).holds \in Things \cup {Nothing}
<1>1. stack[t] \in Seq(Activation) /\ Sound(stack[t], published[t], walker[t], overlay[t], displaced[t])
  BY ThreadTypes
<1>2. Height(t) = Len(stack[t]) /\ Height(t) \in Nat \ {0}
  BY <1>1, EmptySeq DEF Height
<1>3. Height(t) \in 1..MaxCalls /\ Height(t) \in 1..Len(stack[t]) /\ MaxCalls \in Nat
  BY <1>1, <1>2, RootsAssumption DEF Sound
<1>4. ShapeAt(stack[t], displaced[t], Height(t))
      /\ (Height(t) \notin displaced[t] =>
           Reported(stack[t], published[t], walker[t], overlay[t], Height(t)))
  BY <1>1, <1>3 DEF Sound
<1>5. Current(t) = stack[t][Height(t)] /\ Current(t) \in Activation
  BY <1>1, <1>3 DEF Current
<1>6. Depth(t) = Current(t).depth /\ Depth(t) \in Depths
      /\ Current(t).holds \in Things \cup {Nothing}
  BY <1>5 DEF Depth, Activation
<1> QED BY <1>2, <1>3, <1>4, <1>5, <1>6

\* What Enter makes of the thread.
LEMMA EnterKeeps ==
  ASSUME RootsInv, NEW t \in JavaThreads, NEW r \in Things \cup {Nothing},
         Enter(t, r), holder' \in JavaThreads \cup {Nobody}, alive' \subseteq Things
  PROVE  RootsInv'
<1>s. PICK s : s = stack[t]
  OBVIOUS
<1>p. PICK p, w, o : p = published[t] /\ w = walker[t] /\ o = overlay[t]
  OBVIOUS
<1>D. PICK D : D = displaced[t]
  OBVIOUS
<1>1. /\ s \in Seq(Activation) /\ p \in [Depths -> SUBSET Things]
      /\ w \in [Depths -> 0..MaxCalls] /\ o \in [Depths -> 0..MaxCalls]
      /\ Sound(s, p, w, o, D)
  BY <1>s, <1>p, <1>D, ThreadTypes
<1> PICK n \in Nat : n = Len(s)
  BY <1>1
<1>d. PICK d : d = LockDepth(t) + 1
  OBVIOUS
<1>2. n + 1 <= MaxCalls /\ MaxCalls \in Nat
  BY <1>s, RootsAssumption DEF Enter, MayCall, Height
<1>3. d \in Nat /\ 1 <= d /\ d <= n + 1 /\ (n > 0 => d > 1) /\ d \in Depths
  <2>1. \A i \in 1..Len(s) : ShapeAt(s, D, i)
    BY <1>1 DEF Sound
  <2>2. LockDepth(t) \in Nat /\ LockDepth(t) <= n /\ (n > 0 => LockDepth(t) > 0)
    BY <2>1, <1>1, <1>s, LockDepthIs
  <2> QED BY <2>2, <1>2, <1>d DEF Depths
<1>a. PICK a : a = [kind |-> "entering", depth |-> d, holds |-> r]
  OBVIOUS
<1>4. a \in Activation /\ a.kind = "entering" /\ a.depth = d /\ a.holds = r
  BY <1>3, <1>a DEF Activation, Kinds
<1>t. PICK s2 : s2 = Append(s, a)
  OBVIOUS
<1>q. PICK p2 : p2 = [p EXCEPT ![d] = {r} \ {Nothing}]
  OBVIOUS
<1>E. PICK D2 : D2 = D \cup {i \in 1..n : s[i].depth = d}
  OBVIOUS
<1>5. s2 \in Seq(Activation) /\ Len(s2) = n + 1 /\ s2[n + 1] = a /\ \A i \in 1..n : s2[i] = s[i]
  BY <1>1, <1>4, <1>t
<1>6. /\ p2 \in [Depths -> SUBSET Things] /\ p2[d] = {r} \ {Nothing}
      /\ \A e \in Depths \ {d} : p2[e] = p[e]
  BY <1>1, <1>3, <1>q
<1>7. D2 \subseteq 1..n /\ D \subseteq 1..n
  BY <1>1, <1>E DEF Sound
<1>X. PICK X : X = {e \in {d} : e > 1}
  OBVIOUS
<1>8. Widened(s, D, D2, X, n)
  BY <1>3, <1>7, <1>E, <1>X DEF Widened
<1>9. Kept(s, p, w, o, p2, w, o, D2, n)
  <2>1. \A i \in 1..n : s[i].depth = d => i \in D2
    BY <1>E
  <2>2. \A e \in Depths \ {d} : p2[e] = p[e] /\ w[e] = w[e] /\ o[e] = o[e]
    BY <1>6
  <2>3. n <= Len(s)
    OBVIOUS
  <2> QED BY <1>1, <1>8, <2>1, <2>2, <2>3, OwnDepth
<1>10. Same(s, s2, n)
  BY <1>5 DEF Same
<1>11. ShapeAt(s2, D2, n + 1) /\ Reported(s2, p2, w, o, n + 1)
  <2>1. ASSUME NEW j \in 1..n, s2[j].depth = d  PROVE j \in D2
    BY <2>1, <1>5, <1>E
  <2>2. n + 1 \notin D2 /\ (n + 1) - 1 = n /\ (n + 1 = 1 => TRUE)
    BY <1>7
  <2>3. ShapeAt(s2, D2, n + 1)
    BY <2>1, <2>2, <1>3, <1>4, <1>5 DEF ShapeAt, Dispatches
  <2>4. Reported(s2, p2, w, o, n + 1)
    BY <1>4, <1>5, <1>6 DEF Reported, Overlaid
  <2> QED BY <2>3, <2>4
<1>12. Sound(s2, p2, w, o, D2)
  <2>1. \A i \in 1..Len(s2) : i > n => i = n + 1
    BY <1>5
  <2>2. D2 \subseteq 1..Len(s2) /\ Len(s2) <= MaxCalls /\ n <= Len(s)
    BY <1>2, <1>5, <1>7
  <2>3. \A e \in X : e > 1
    BY <1>X
  <2> QED BY <1>1, <1>5, <1>8, <1>9, <1>10, <1>11, <2>1, <2>2, <2>3, StaysSound
<1>13. /\ stack' = [stack EXCEPT ![t] = s2] /\ published' = [published EXCEPT ![t] = p2]
       /\ walker' = walker /\ overlay' = overlay /\ static' = static
  BY <1>s, <1>p, <1>d, <1>a, <1>t, <1>q DEF Enter
<1>14. displaced' = [displaced EXCEPT ![t] = D2]
  <2>1. DOMAIN s = 1..n
    BY <1>1
  <2> QED BY <2>1, <1>s, <1>D, <1>E, <1>d DEF Enter, Displaces
<1>15. walker' = [walker EXCEPT ![t] = w] /\ overlay' = [overlay EXCEPT ![t] = o]
  BY <1>13, <1>p DEF RootsInv, ExecutionTypeOK
<1>16. static' \in Things \cup {Nothing}
  BY <1>13, MemoryTypes
<1> QED BY <1>1, <1>5, <1>6, <1>12, <1>13, <1>14, <1>15, <1>16, OneThreadSteps

LEMMA TopReplaced ==
  ASSUME NEW s \in Seq(Activation), NEW n \in Nat \ {0}, n = Len(s), NEW b \in Activation
  PROVE  /\ [s EXCEPT ![n] = b] \in Seq(Activation)
         /\ Len([s EXCEPT ![n] = b]) = n
         /\ [s EXCEPT ![n] = b][n] = b
         /\ \A i \in 1..n - 1 : [s EXCEPT ![n] = b][i] = s[i]
<1>1. n \in 1..Len(s)
  OBVIOUS
<1>2. \A j \in 1..n - 1 : j \in 1..Len(s) /\ j # n
  OBVIOUS
<1> QED BY <1>1, <1>2, ExceptSeq

\* The current activation turns into one of another kind.
TurnsInto(t, k, D2) ==
  /\ stack[t] # <<>> /\ k \notin {"entering", "compiled", "direct"}
  /\ stack' = SetTop(t, [Current(t) EXCEPT !.kind = k])
  /\ k \in {"native", "pumping"} => Current(t).kind \in {"native", "pumping"}
  /\ k \in Dispatches <=> Current(t).kind \in Dispatches
  /\ displaced' = [displaced EXCEPT ![t] = D2]
  /\ \/ D2 = displaced[t]
     \/ D2 = displaced[t] \ {Height(t)} /\ k \in Dispatches
  /\ holder' \in JavaThreads \cup {Nobody}
  /\ static' = static /\ alive' = alive

\* It is reported as the kind requires, and nothing at another depth changes.
ReportsIt(t, k, p2, w2, o2) ==
  /\ published' = [published EXCEPT ![t] = p2]
  /\ walker' = [walker EXCEPT ![t] = w2]
  /\ overlay' = [overlay EXCEPT ![t] = o2]
  /\ \/ p2 = published[t] /\ w2 = walker[t] /\ o2 = overlay[t]
     \/ /\ Current(t).kind \in Dispatches
        /\ \A e \in Depths \ {Depth(t)} :
             p2[e] = published[t][e] /\ w2[e] = walker[t][e] /\ o2[e] = overlay[t][e]
  /\ k = "interpreter" => w2[Depth(t)] = Height(t)
  /\ k = "compiled root" => o2[Depth(t)] = Height(t)

LEMMA TurnKeeps ==
  ASSUME RootsInv, NEW t \in JavaThreads, NEW k \in Kinds, NEW D2, TurnsInto(t, k, D2),
         NEW p2 \in [Depths -> SUBSET Things], NEW w2 \in [Depths -> 0..MaxCalls],
         NEW o2 \in [Depths -> 0..MaxCalls], ReportsIt(t, k, p2, w2, o2)
  PROVE  RootsInv'
<1>s. PICK s : s = stack[t]
  OBVIOUS
<1>X. PICK X : X = {}
  OBVIOUS
<1>p. PICK p, w, o : p = published[t] /\ w = walker[t] /\ o = overlay[t]
  OBVIOUS
<1>D. PICK D : D = displaced[t]
  OBVIOUS
<1>n. PICK n : n = Height(t)
  OBVIOUS
<1>c. PICK c : c = Current(t)
  OBVIOUS
<1>1. /\ n = Len(s) /\ n \in Nat \ {0} /\ n <= MaxCalls /\ c = s[n]
      /\ c \in Activation /\ ShapeAt(s, D, n) /\ Depth(t) = c.depth /\ c.depth \in Depths
  <2>1. stack[t] # <<>>
    BY DEF TurnsInto
  <2> QED BY <2>1, CurrentIs, <1>s, <1>n, <1>c, <1>D
<1>2. s \in Seq(Activation) /\ Sound(s, p, w, o, D)
  BY <1>s, <1>p, <1>D, ThreadTypes
<1>b. PICK b : b = [c EXCEPT !.kind = k]
  OBVIOUS
<1>3. b \in Activation /\ b.kind = k /\ b.depth = c.depth
  BY <1>1, <1>b DEF Activation
<1>t. PICK s2 : s2 = [s EXCEPT ![n] = b]
  OBVIOUS
<1>4. stack' = [stack EXCEPT ![t] = s2]
  BY <1>s, <1>n, <1>c, <1>b, <1>t DEF SetTop, TurnsInto
<1>5. s2 \in Seq(Activation) /\ Len(s2) = n /\ s2[n] = b /\ \A i \in 1..n - 1 : s2[i] = s[i]
  BY <1>1, <1>2, <1>3, <1>t, TopReplaced
<1>6. D2 = D \/ (D2 = D \ {n} /\ k \in Dispatches)
  BY <1>D, <1>n DEF TurnsInto
<1>7. n - 1 \in Nat /\ n - 1 <= Len(s) /\ n \notin 1..n - 1
  BY <1>1
<1>8. Widened(s, D, D2, X, n - 1) /\ Same(s, s2, n - 1)
  BY <1>5, <1>6, <1>7, <1>X DEF Widened, Same
<1>9. Kept(s, p, w, o, p2, w2, o2, D2, n - 1)
  <2>1. CASE p2 = p /\ w2 = w /\ o2 = o
    BY <2>1 DEF Kept
  <2>2. CASE /\ c.kind \in Dispatches
             /\ \A e \in Depths \ {c.depth} : p2[e] = p[e] /\ w2[e] = w[e] /\ o2[e] = o[e]
    <3>1. \A i \in 1..n - 1 : s[i].depth = c.depth => i \in D2
      BY <2>2, <1>1, <1>6, <1>7 DEF ShapeAt, Owners
    <3> QED BY <3>1, <2>2, <1>2, <1>7, <1>8, OwnDepth
  <2> QED BY <2>1, <2>2, <1>1, <1>c, <1>p DEF ReportsIt
<1>10. ShapeAt(s2, D2, n)
  <2>1. /\ s2[n].kind = k /\ s2[n].depth = s[n].depth
        /\ \A j \in 1..n - 1 : s2[j].depth = s[j].depth /\ s2[j].kind = s[j].kind
    BY <1>1, <1>3, <1>5
  <2>2. /\ k \in {"native", "pumping"} => s[n].kind \in {"native", "pumping"} /\ k \notin Dispatches
        /\ k \in Dispatches <=> s[n].kind \in Dispatches
        /\ k \in Owners => s[n].kind \in Owners
    BY <1>1, <1>c DEF TurnsInto, Owners, Dispatches
  <2>3. \A j \in 1..n - 1 : j \in D2 <=> j \in D
    BY <1>6, <1>7
  <2>4. n \in D2 => n \in D
    BY <1>6
  <2>5. ASSUME k \in {"native", "pumping"}
        PROVE  /\ n > 1 /\ s2[n - 1].kind \in Java /\ s2[n].depth = s2[n - 1].depth
               /\ n - 1 \in D2 => n \in D2
    <3>1. /\ n > 1 /\ s[n - 1].kind \in Java /\ s[n].depth = s[n - 1].depth
          /\ n - 1 \in D => n \in D
      BY <2>2, <2>5, <1>1 DEF ShapeAt
    <3>2. n - 1 \in 1..n - 1 /\ D2 = D
      BY <3>1, <2>2, <2>5, <1>1, <1>6
    <3> QED BY <3>1, <3>2, <2>1
  <2> QED BY <2>1, <2>2, <2>3, <2>4, <2>5, <1>1 DEF ShapeAt
<1>11. Reported(s2, p2, w2, o2, n)
  BY <1>1, <1>3, <1>5, <1>n DEF Reported, TurnsInto, ReportsIt, Overlaid
<1>12. Sound(s2, p2, w2, o2, D2)
  <2>1. \A i \in 1..Len(s2) : i > n - 1 => i = n
    BY <1>1, <1>5
  <2>2. D2 \subseteq 1..Len(s2) /\ Len(s2) <= MaxCalls
    BY <1>1, <1>2, <1>5, <1>6 DEF Sound
  <2>3. \A e \in X : e > 1
    BY <1>X
  <2>m. PICK m \in Nat : m = n - 1
    BY <1>7
  <2>4. Same(s, s2, m) /\ Widened(s, D, D2, X, m) /\ Kept(s, p, w, o, p2, w2, o2, D2, m)
    BY <1>8, <1>9, <2>m
  <2>5. \A i \in 1..Len(s2) : i > m =>
          ShapeAt(s2, D2, i) /\ (i \notin D2 => Reported(s2, p2, w2, o2, i))
    BY <1>10, <1>11, <2>1, <2>m
  <2>6. m <= Len(s)
    BY <1>7, <2>m
  <2> QED BY <1>2, <1>5, <2>2, <2>3, <2>4, <2>5, <2>6, StaysSound
<1>13. /\ published' = [published EXCEPT ![t] = p2] /\ walker' = [walker EXCEPT ![t] = w2]
       /\ overlay' = [overlay EXCEPT ![t] = o2] /\ displaced' = [displaced EXCEPT ![t] = D2]
       /\ holder' \in JavaThreads \cup {Nobody}
       /\ static' \in Things \cup {Nothing} /\ alive' \subseteq Things
  BY MemoryTypes DEF TurnsInto, ReportsIt
<1> QED BY <1>4, <1>5, <1>12, <1>13, OneThreadSteps

LEMMA StartInterpreterKeeps ==
  ASSUME RootsInv, NEW t \in JavaThreads, StartInterpreter(t) \/ Deoptimize(t)
  PROVE  RootsInv'
<1>1. stack[t] # <<>> /\ Current(t).kind \in {"entering", "compiled root"} /\ holder = t
  BY DEF StartInterpreter, Deoptimize, Runs
<1>D. PICK D2 : /\ displaced' = [displaced EXCEPT ![t] = D2]
                /\ D2 = displaced[t] \/ D2 = displaced[t] \ {Height(t)}
  <2>1. CASE StartInterpreter(t)
    <3>1. displaced' = displaced
      BY <2>1 DEF StartInterpreter
    <3>2. displaced' = [displaced EXCEPT ![t] = displaced[t]]
      BY <3>1 DEF RootsInv, ExecutionTypeOK
    <3> QED BY <3>2
  <2>2. CASE Deoptimize(t)
    BY <2>2 DEF Deoptimize, Restored
  <2> QED BY <2>1, <2>2
<1>2. TurnsInto(t, "interpreter", D2)
  BY <1>1, <1>D DEF TurnsInto, StartInterpreter, Deoptimize, Interpret, Dispatches
<1>3. Height(t) \in 1..MaxCalls /\ Depth(t) \in Depths /\ MaxCalls \in Nat
  BY <1>1, CurrentIs
<1>4. /\ published[t] \in [Depths -> SUBSET Things]
      /\ walker[t] \in [Depths -> 0..MaxCalls] /\ overlay[t] \in [Depths -> 0..MaxCalls]
  BY ThreadTypes
<1>p. PICK p2 : p2 = [published[t] EXCEPT ![Depth(t)] = {}]
  OBVIOUS
<1>w. PICK w2 : w2 = [walker[t] EXCEPT ![Depth(t)] = Height(t)]
  OBVIOUS
<1>o. PICK o2 : o2 = overlay'[t]
  OBVIOUS
<1>5. p2 \in [Depths -> SUBSET Things] /\ \A e \in Depths \ {Depth(t)} : p2[e] = published[t][e]
  BY <1>3, <1>4, <1>p
<1>6. /\ w2 \in [Depths -> 0..MaxCalls] /\ w2[Depth(t)] = Height(t)
      /\ \A e \in Depths \ {Depth(t)} : w2[e] = walker[t][e]
  BY <1>3, <1>4, <1>w
<1>7. /\ o2 \in [Depths -> 0..MaxCalls] /\ overlay' = [overlay EXCEPT ![t] = o2]
      /\ \A e \in Depths \ {Depth(t)} : o2[e] = overlay[t][e]
  <2>0. overlay \in [JavaThreads -> [Depths -> 0..MaxCalls]]
    BY DEF RootsInv, ExecutionTypeOK
  <2>1. CASE overlay' = overlay
    BY <2>0, <2>1, <1>4, <1>o
  <2>2. CASE overlay' = Uninstalled(t)
    <3>1. PICK z \in 0..MaxCalls :
            overlay' = [overlay EXCEPT ![t] = [overlay[t] EXCEPT ![Depth(t)] = z]]
      <4>1. overlay[t][Depth(t)] \in 0..MaxCalls /\ 0 \in 0..MaxCalls
        BY <1>3, <1>4
      <4> QED BY <4>1, <2>2 DEF Uninstalled
    <3>2. o2 = [overlay[t] EXCEPT ![Depth(t)] = z]
      BY <2>0, <3>1, <1>o
    <3> QED BY <3>1, <3>2, <1>3, <1>4
  <2> QED BY <2>1, <2>2 DEF StartInterpreter, Deoptimize
<1>8. /\ published' = [published EXCEPT ![t] = p2] /\ walker' = [walker EXCEPT ![t] = w2]
  BY <1>p, <1>w DEF StartInterpreter, Deoptimize, Interpret
<1>9. ReportsIt(t, "interpreter", p2, w2, o2)
  BY <1>1, <1>5, <1>6, <1>7, <1>8 DEF ReportsIt, Dispatches
<1>10. "interpreter" \in Kinds
  BY DEF Kinds
<1> QED BY <1>2, <1>5, <1>6, <1>7, <1>9, <1>10, TurnKeeps

LEMMA StartCompiledKeeps ==
  ASSUME RootsInv, NEW t \in JavaThreads, StartCompiled(t)
  PROVE  RootsInv'
<1>1. stack[t] # <<>> /\ Current(t).kind = "entering" /\ holder = t
  BY DEF StartCompiled, Runs
<1>D. displaced' = [displaced EXCEPT ![t] = displaced[t]]
  BY DEF StartCompiled, RootsInv, ExecutionTypeOK
<1>2. TurnsInto(t, "compiled root", displaced[t])
  BY <1>1, <1>D DEF TurnsInto, StartCompiled, Dispatches
<1>3. Height(t) \in 1..MaxCalls /\ Depth(t) \in Depths /\ MaxCalls \in Nat
  BY <1>1, CurrentIs
<1>4. /\ published[t] \in [Depths -> SUBSET Things]
      /\ walker[t] \in [Depths -> 0..MaxCalls] /\ overlay[t] \in [Depths -> 0..MaxCalls]
      /\ walker \in [JavaThreads -> [Depths -> 0..MaxCalls]]
  BY ThreadTypes DEF RootsInv, ExecutionTypeOK
<1>p. PICK p2 : p2 = [published[t] EXCEPT ![Depth(t)] = {}]
  OBVIOUS
<1>w. PICK w2 : w2 = walker[t]
  OBVIOUS
<1>o. PICK o2 : o2 = [overlay[t] EXCEPT ![Depth(t)] = Height(t)]
  OBVIOUS
<1>5. p2 \in [Depths -> SUBSET Things] /\ \A e \in Depths \ {Depth(t)} : p2[e] = published[t][e]
  BY <1>3, <1>4, <1>p
<1>6. w2 \in [Depths -> 0..MaxCalls] /\ walker' = [walker EXCEPT ![t] = w2]
  BY <1>4, <1>w DEF StartCompiled
<1>7. /\ o2 \in [Depths -> 0..MaxCalls] /\ o2[Depth(t)] = Height(t)
      /\ \A e \in Depths \ {Depth(t)} : o2[e] = overlay[t][e]
  BY <1>3, <1>4, <1>o
<1>8. /\ published' = [published EXCEPT ![t] = p2] /\ overlay' = [overlay EXCEPT ![t] = o2]
  BY <1>p, <1>o DEF StartCompiled
<1>9. ReportsIt(t, "compiled root", p2, w2, o2)
  BY <1>1, <1>5, <1>6, <1>7, <1>8, <1>w DEF ReportsIt, Dispatches
<1>10. "compiled root" \in Kinds
  BY DEF Kinds
<1> QED BY <1>2, <1>5, <1>6, <1>7, <1>9, <1>10, TurnKeeps

LEMMA WaitKeeps ==
  ASSUME RootsInv, NEW t \in JavaThreads, TimedWait(t) \/ PumpEnds(t)
  PROVE  RootsInv'
<1>1. stack[t] # <<>> /\ Current(t).kind \in {"native", "pumping"}
      /\ holder' = Nobody /\ UNCHANGED <<rootVars, static, alive>>
  BY DEF TimedWait, PumpEnds, Runs
<1>2. PICK k \in {"native", "pumping"} :
        stack' = SetTop(t, [Current(t) EXCEPT !.kind = k])
  BY DEF TimedWait, PumpEnds
<1>p. PICK p, w, o : p = published[t] /\ w = walker[t] /\ o = overlay[t]
  OBVIOUS
<1>3. /\ p \in [Depths -> SUBSET Things]
      /\ w \in [Depths -> 0..MaxCalls] /\ o \in [Depths -> 0..MaxCalls]
  BY <1>p, ThreadTypes
<1>4. /\ published' = [published EXCEPT ![t] = p] /\ walker' = [walker EXCEPT ![t] = w]
      /\ overlay' = [overlay EXCEPT ![t] = o]
      /\ displaced' = [displaced EXCEPT ![t] = displaced[t]]
  BY <1>1, <1>p DEF RootsInv, ExecutionTypeOK, rootVars
<1>5. TurnsInto(t, k, displaced[t])
  BY <1>1, <1>2, <1>4 DEF TurnsInto, Dispatches
<1>6. ReportsIt(t, k, p, w, o)
  BY <1>2, <1>p, <1>4 DEF ReportsIt
<1>7. k \in Kinds
  BY <1>2 DEF Kinds
<1> QED BY <1>3, <1>5, <1>6, <1>7, TurnKeeps

\* A call's activation goes; its caller may hold its reference from then on.
LEMMA LeftByIs ==
  ASSUME RootsInv, NEW t \in JavaThreads, stack[t] # <<>>, stack' \in LeftBy(t)
  PROVE  \E s2 \in Seq(Activation) :
           /\ stack' = [stack EXCEPT ![t] = s2]
           /\ Len(s2) = Height(t) - 1
           /\ Same(stack[t], s2, Height(t) - 1)
<1>s. PICK s : s = stack[t]
  OBVIOUS
<1>n. PICK n : n = Height(t)
  OBVIOUS
<1>r. PICK r : r = Current(t).holds
  OBVIOUS
<1>1. /\ s \in Seq(Activation) /\ n = Len(s) /\ n \in Nat \ {0}
      /\ r \in Things \cup {Nothing}
  BY CurrentIs, ThreadTypes, <1>s, <1>n, <1>r
<1>c. PICK c : c = SubSeq(s, 1, n - 1)
  OBVIOUS
<1>2. c \in Seq(Activation) /\ Len(c) = n - 1 /\ \A i \in 1..n - 1 : c[i] = s[i]
  BY <1>1, <1>c, SubSeqProperties
<1>3. CASE stack' = [stack EXCEPT ![t] = c]
  <2>1. Same(s, c, n - 1)
    BY <1>2 DEF Same
  <2> QED BY <1>2, <1>3, <2>1, <1>s, <1>n
<1>4. CASE /\ n > 1 /\ s[n - 1].kind \in Java
           /\ stack' = [stack EXCEPT ![t] = [c EXCEPT ![n - 1].holds = r]]
  <2>0. n - 1 \in 1..n - 1 /\ c[n - 1] = s[n - 1] /\ c[n - 1] \in Activation
    BY <1>1, <1>2, <1>4
  <2>a. PICK a : a = [c[n - 1] EXCEPT !.holds = r]
    OBVIOUS
  <2>1. a \in Activation /\ a.kind = c[n - 1].kind /\ a.depth = c[n - 1].depth /\ a.holds = r
    BY <2>0, <2>a, <1>1 DEF Activation
  <2>d. PICK s2 : s2 = [c EXCEPT ![n - 1] = a]
    OBVIOUS
  <2>2. s2 \in Seq(Activation) /\ Len(s2) = n - 1
        /\ \A i \in 1..n - 1 : s2[i] = IF i = n - 1 THEN a ELSE c[i]
    BY <1>2, <2>0, <2>1, <2>d, ExceptSeq
  <2>3. s[n - 1].kind # "entering"
    BY <1>4 DEF Java
  <2>4. Same(s, s2, n - 1)
    BY <1>2, <2>0, <2>1, <2>2, <2>3 DEF Same
  <2>5. stack' = [stack EXCEPT ![t] = s2]
    BY <1>4, <2>a, <2>d
  <2> QED BY <2>2, <2>4, <2>5, <1>s, <1>n
<1>5. \/ stack' = [stack EXCEPT ![t] = c]
      \/ /\ n > 1 /\ s[n - 1].kind \in Java
         /\ stack' = [stack EXCEPT ![t] = [c EXCEPT ![n - 1].holds = r]]
  BY <1>s, <1>n, <1>r, <1>c DEF LeftBy, Below
<1> QED BY <1>3, <1>4, <1>5

\* It takes with it what concerns its depth, when that is its own, or its
\* overlay.
LEMMA PopKeeps ==
  ASSUME RootsInv, NEW t \in JavaThreads, stack[t] # <<>>, stack' \in LeftBy(t),
         NEW p2 \in [Depths -> SUBSET Things], NEW w2 \in [Depths -> 0..MaxCalls],
         NEW o2 \in [Depths -> 0..MaxCalls],
         published' = [published EXCEPT ![t] = p2],
         walker' = [walker EXCEPT ![t] = w2],
         overlay' = [overlay EXCEPT ![t] = o2],
         displaced' = Restored(t),
         \/ /\ Current(t).kind \in Owners
            /\ \A e \in Depths \ {Depth(t)} :
                 p2[e] = published[t][e] /\ w2[e] = walker[t][e] /\ o2[e] = overlay[t][e]
         \/ /\ p2 = published[t] /\ w2 = walker[t]
            /\ \A e \in Depths : o2[e] = overlay[t][e] \/ overlay[t][e] = Height(t),
         holder' \in JavaThreads \cup {Nobody}, UNCHANGED <<static, alive>>
  PROVE  RootsInv'
<1>s. PICK s : s = stack[t]
  OBVIOUS
<1>X. PICK X : X = {}
  OBVIOUS
<1>p. PICK p, w, o : p = published[t] /\ w = walker[t] /\ o = overlay[t]
  OBVIOUS
<1>D. PICK D, D2 : D = displaced[t] /\ D2 = displaced[t] \ {Height(t)}
  OBVIOUS
<1>c. PICK c : c = Current(t)
  OBVIOUS
<1>m. PICK m \in Nat : m = Height(t) - 1
  BY CurrentIs
<1>1. /\ Sound(s, p, w, o, D) /\ s \in Seq(Activation) /\ Len(s) = m + 1
      /\ Height(t) = m + 1 /\ c = s[m + 1] /\ m + 1 <= MaxCalls /\ MaxCalls \in Nat
      /\ ShapeAt(s, D, m + 1) /\ Depth(t) = c.depth
  BY <1>s, <1>p, <1>D, <1>c, <1>m, CurrentIs, ThreadTypes
<1>2. D2 = D \ {m + 1} /\ D2 \subseteq 1..m
  BY <1>1, <1>D DEF Sound
<1>3. PICK s2 \in Seq(Activation) :
        stack' = [stack EXCEPT ![t] = s2] /\ Len(s2) = m /\ Same(s, s2, m)
  BY LeftByIs, <1>s, <1>m
<1>4. Widened(s, D, D2, X, m)
  BY <1>2, <1>X DEF Widened
<1>5. Kept(s, p, w, o, p2, w2, o2, D2, m)
  <2>1. CASE /\ c.kind \in Owners
             /\ \A e \in Depths \ {c.depth} : p2[e] = p[e] /\ w2[e] = w[e] /\ o2[e] = o[e]
    <3>1. \A i \in 1..m : s[i].depth = c.depth => i \in D2
      BY <2>1, <1>1, <1>2 DEF ShapeAt
    <3>2. m <= Len(s) /\ \A e \in Depths \ {c.depth} : p2[e] = p[e] /\ w2[e] = w[e] /\ o2[e] = o[e]
      BY <2>1, <1>1
    <3>d. PICK d : d = c.depth
      OBVIOUS
    <3> QED BY <3>1, <3>2, <3>d, <1>1, <1>4, OwnDepth
  <2>2. CASE /\ p2 = p /\ w2 = w
             /\ \A e \in Depths : o2[e] = o[e] \/ o[e] = m + 1
    <3> SUFFICES ASSUME NEW i \in (1..m) \ D2, s[i].kind \in Overlaid
        PROVE  o2[s[i].depth] = o[s[i].depth]
      BY <2>2 DEF Kept
    <3>1. i \in 1..Len(s) /\ i # m + 1 /\ i \notin D
      BY <1>1, <1>2
    <3>2. Reported(s, p, w, o, i) /\ s[i] \in Activation
      BY <3>1, <1>1 DEF Sound
    <3>3. o[s[i].depth] = i /\ s[i].depth \in Depths
      BY <3>2 DEF Reported, Activation
    <3> QED BY <3>1, <3>3, <2>2
  <2> QED BY <2>1, <2>2, <1>1, <1>c, <1>p
<1>6. Sound(s2, p2, w2, o2, D2)
  <2>1. \A i \in 1..Len(s2) : i > m => FALSE
    BY <1>3
  <2>2. D2 \subseteq 1..Len(s2) /\ Len(s2) <= MaxCalls /\ m <= Len(s)
    BY <1>1, <1>2, <1>3
  <2>3. \A e \in X : e > 1
    BY <1>X
  <2> QED BY <1>1, <1>3, <1>4, <1>5, <2>1, <2>2, <2>3, StaysSound
<1>7. displaced' = [displaced EXCEPT ![t] = D2]
  BY <1>D DEF Restored
<1>8. static' \in Things \cup {Nothing} /\ alive' \subseteq Things
  BY MemoryTypes
<1> QED BY <1>3, <1>6, <1>7, <1>8, OneThreadSteps

LEMMA ReturnsKeep ==
  ASSUME RootsInv, NEW t \in JavaThreads, LeaveExecute(t) \/ ReturnInner(t)
  PROVE  RootsInv'
<1>1. /\ stack[t] # <<>> /\ stack' \in LeftBy(t) /\ displaced' = Restored(t)
      /\ UNCHANGED <<static, alive>> /\ holder' \in JavaThreads \cup {Nobody}
  BY MemoryTypes DEF LeaveExecute, ReturnInner, Runs
<1>2. Depth(t) \in Depths /\ Height(t) \in Nat \ {0} /\ MaxCalls \in Nat
  BY <1>1, CurrentIs
<1>3. /\ published[t] \in [Depths -> SUBSET Things]
      /\ walker[t] \in [Depths -> 0..MaxCalls] /\ overlay[t] \in [Depths -> 0..MaxCalls]
  BY ThreadTypes
<1>4. CASE ClearRoots(t) /\ Current(t).kind \in Owners
  <2>p. PICK p2 : p2 = [published[t] EXCEPT ![Depth(t)] = {}]
    OBVIOUS
  <2>w. PICK w2 : w2 = [walker[t] EXCEPT ![Depth(t)] = 0]
    OBVIOUS
  <2>o. PICK o2 : o2 = [overlay[t] EXCEPT ![Depth(t)] = 0]
    OBVIOUS
  <2>1. p2 \in [Depths -> SUBSET Things] /\ \A e \in Depths \ {Depth(t)} : p2[e] = published[t][e]
    BY <1>2, <1>3, <2>p
  <2>2. w2 \in [Depths -> 0..MaxCalls] /\ \A e \in Depths \ {Depth(t)} : w2[e] = walker[t][e]
    BY <1>2, <1>3, <2>w
  <2>3. o2 \in [Depths -> 0..MaxCalls] /\ \A e \in Depths \ {Depth(t)} : o2[e] = overlay[t][e]
    BY <1>2, <1>3, <2>o
  <2>4. /\ published' = [published EXCEPT ![t] = p2] /\ walker' = [walker EXCEPT ![t] = w2]
        /\ overlay' = [overlay EXCEPT ![t] = o2]
    BY <1>4, <2>p, <2>w, <2>o DEF ClearRoots
  <2> QED BY <1>1, <1>4, <2>1, <2>2, <2>3, <2>4, PopKeeps
<1>5. CASE overlay' = Uninstalled(t) /\ UNCHANGED <<published, walker>>
  <2>p. PICK p, w, o : p = published[t] /\ w = walker[t] /\ o = overlay[t]
    OBVIOUS
  <2>n. PICK n, d : n = Height(t) /\ d = Depth(t)
    OBVIOUS
  <2>z. PICK z : z = IF o[d] = n THEN 0 ELSE o[d]
    OBVIOUS
  <2>o. PICK o2 : o2 = [o EXCEPT ![d] = z]
    OBVIOUS
  <2>1. p \in [Depths -> SUBSET Things] /\ w \in [Depths -> 0..MaxCalls]
        /\ o \in [Depths -> 0..MaxCalls] /\ d \in Depths /\ z \in 0..MaxCalls
    BY <1>2, <1>3, <2>p, <2>n, <2>z
  <2>2. o2 \in [Depths -> 0..MaxCalls] /\ \A e \in Depths : o2[e] = o[e] \/ o[e] = n
    BY <2>1, <2>o, <2>z
  <2>3. /\ published' = [published EXCEPT ![t] = p] /\ walker' = [walker EXCEPT ![t] = w]
        /\ overlay' = [overlay EXCEPT ![t] = o2]
    BY <1>5, <2>p, <2>o, <2>n, <2>z DEF Uninstalled, RootsInv, ExecutionTypeOK
  <2>4. \A e \in Depths : o2[e] = overlay[t][e] \/ overlay[t][e] = Height(t)
    BY <2>2, <2>p, <2>n
  <2>5. p = published[t] /\ w = walker[t]
    BY <2>p
  <2> QED BY <1>1, <2>1, <2>2, <2>3, <2>4, <2>5, PopKeeps
<1>6. \/ ClearRoots(t) /\ Current(t).kind \in Owners
      \/ overlay' = Uninstalled(t) /\ UNCHANGED <<published, walker>>
  BY DEF LeaveExecute, ReturnInner, Runs, Owners
<1> QED BY <1>4, <1>5, <1>6

\* Java code takes a new object, or the static one.
LEMMA HoldKeeps ==
  ASSUME RootsInv, NEW t \in JavaThreads, Allocate(t) \/ Load(t)
  PROVE  RootsInv'
<1>1. stack[t] # <<>> /\ Current(t).kind \in Java
      /\ UNCHANGED <<holder, rootVars, static>>
  BY DEF Allocate, Load, Runs
<1>2. PICK r \in Things \cup {Nothing} :
        stack' = Holding(t, r) /\ alive' \subseteq Things
  <2>1. CASE Allocate(t)
    BY <2>1, MemoryTypes DEF Allocate
  <2>2. CASE Load(t)
    BY <2>2, MemoryTypes DEF Load
  <2> QED BY <2>1, <2>2
<1>s. PICK s : s = stack[t]
  OBVIOUS
<1>X. PICK X : X = {}
  OBVIOUS
<1>p. PICK p, w, o : p = published[t] /\ w = walker[t] /\ o = overlay[t]
  OBVIOUS
<1>D. PICK D : D = displaced[t]
  OBVIOUS
<1>n. PICK n : n = Height(t)
  OBVIOUS
<1>c. PICK c : c = Current(t)
  OBVIOUS
<1>3. /\ s \in Seq(Activation) /\ n \in Nat \ {0} /\ n = Len(s) /\ c = s[n]
      /\ c \in Activation /\ Sound(s, p, w, o, D)
  BY <1>1, CurrentIs, ThreadTypes, <1>s, <1>n, <1>c, <1>p, <1>D
<1>b. PICK b : b = [c EXCEPT !.holds = r]
  OBVIOUS
<1>4. b \in Activation /\ b.kind = c.kind /\ b.depth = c.depth
  BY <1>3, <1>b DEF Activation
<1>t. PICK s2 : s2 = [s EXCEPT ![n] = b]
  OBVIOUS
<1>5. s2 \in Seq(Activation) /\ Len(s2) = n /\ s2[n] = b /\ \A i \in 1..n - 1 : s2[i] = s[i]
  BY <1>3, <1>4, <1>t, TopReplaced
<1>6. Same(s, s2, n)
  <2> SUFFICES ASSUME NEW i \in 1..n
      PROVE  /\ s2[i].kind = s[i].kind /\ s2[i].depth = s[i].depth
             /\ s2[i].kind = "entering" => s2[i].holds = s[i].holds
    BY DEF Same
  <2>1. CASE i = n
    <3>1. c.kind # "entering"
      BY <1>1, <1>c DEF Java
    <3> QED BY <2>1, <3>1, <1>3, <1>4, <1>5
  <2>2. CASE i \in 1..n - 1
    BY <2>2, <1>5
  <2> QED BY <2>1, <2>2, <1>3
<1>7. Widened(s, D, D, X, n) /\ Kept(s, p, w, o, p, w, o, D, n)
  BY <1>X DEF Widened, Kept
<1>8. Sound(s2, p, w, o, D)
  <2>1. \A i \in 1..Len(s2) : i > n => FALSE
    BY <1>3, <1>5
  <2>2. D \subseteq 1..Len(s2) /\ Len(s2) <= MaxCalls /\ n <= Len(s) /\ n \in Nat
    BY <1>3, <1>5 DEF Sound
  <2>3. \A e \in X : e > 1
    BY <1>X
  <2> QED BY <1>3, <1>5, <1>6, <1>7, <2>1, <2>2, <2>3, StaysSound
<1>9. stack' = [stack EXCEPT ![t] = s2]
  BY <1>2, <1>s, <1>n, <1>c, <1>b, <1>t DEF Holding, SetTop
<1>10. /\ p \in [Depths -> SUBSET Things]
       /\ w \in [Depths -> 0..MaxCalls] /\ o \in [Depths -> 0..MaxCalls]
  BY <1>p, ThreadTypes
<1>11. /\ published' = [published EXCEPT ![t] = p] /\ walker' = [walker EXCEPT ![t] = w]
       /\ overlay' = [overlay EXCEPT ![t] = o] /\ displaced' = [displaced EXCEPT ![t] = D]
       /\ static' \in Things \cup {Nothing} /\ holder' \in JavaThreads \cup {Nobody}
  BY <1>1, <1>p, <1>D DEF RootsInv, ExecutionTypeOK, rootVars
<1> QED BY <1>2, <1>5, <1>8, <1>9, <1>10, <1>11, OneThreadSteps

\* A call at the end of the stack, with the place n of its caller.
Adds(t, k, d, n, D2, p2, w2, o2) ==
  /\ stack[t] # <<>> /\ Current(t).kind \in Java /\ n = Height(t)
  /\ Inner(t, k, d) /\ d <= n + 1
  /\ D2 \subseteq 1..n + 1
  /\ published' = [published EXCEPT ![t] = p2] /\ walker' = [walker EXCEPT ![t] = w2]
  /\ overlay' = [overlay EXCEPT ![t] = o2] /\ displaced' = [displaced EXCEPT ![t] = D2]
  /\ Kept(stack[t], published[t], walker[t], overlay[t], p2, w2, o2, D2, n)
  /\ k = "native" => d = Depth(t) /\ (n \in D2 => n + 1 \in D2)
  /\ n + 1 \in D2 => d > 1
  /\ k = "direct" => \A j \in 1..n : stack[t][j].depth = d => j \in D2
  /\ k \in {"compiled", "direct"} => o2[d] = n + 1
  /\ holder' = holder /\ static' = static /\ alive' = alive

LEMMA AddKeeps ==
  ASSUME RootsInv, NEW t \in JavaThreads, NEW k \in {"native", "unexposed", "compiled", "direct"},
         NEW d \in Depths, NEW n, NEW D2, NEW p2 \in [Depths -> SUBSET Things],
         NEW w2 \in [Depths -> 0..MaxCalls], NEW o2 \in [Depths -> 0..MaxCalls],
         Adds(t, k, d, n, D2, p2, w2, o2),
         NEW X, \A e \in X : e > 1, Widened(stack[t], displaced[t], D2, X, n)
  PROVE  RootsInv'
<1>s. PICK s : s = stack[t]
  OBVIOUS
<1>p. PICK p, w, o : p = published[t] /\ w = walker[t] /\ o = overlay[t]
  OBVIOUS
<1>D. PICK D : D = displaced[t]
  OBVIOUS
<1>c. PICK c : c = Current(t)
  OBVIOUS
<1>0. stack[t] # <<>> /\ n = Height(t)
  BY DEF Adds
<1>1. /\ s \in Seq(Activation) /\ n \in Nat \ {0} /\ n = Len(s) /\ c = s[n]
      /\ c \in Activation /\ c.holds \in Things \cup {Nothing} /\ c.kind \in Java
      /\ Sound(s, p, w, o, D) /\ MaxCalls \in Nat /\ Depth(t) = c.depth
      /\ Nothing \in Things \cup {Nothing}
  BY <1>0, CurrentIs, ThreadTypes, <1>s, <1>c, <1>p, <1>D DEF Adds
<1>2. n < MaxCalls /\ n + 1 <= MaxCalls
  <2>1. n < MaxCalls
    BY <1>0 DEF Adds, Inner, MayCall
  <2> QED BY <2>1, <1>1
<1>a. PICK a : a = [kind |-> k, depth |-> d, holds |-> c.holds]
  OBVIOUS
<1>3. a \in Activation /\ a.kind = k /\ a.depth = d
  BY <1>1, <1>a DEF Activation, Kinds
<1>q. PICK q : q = Passed(t)
  OBVIOUS
<1>4. q \in Seq(Activation) /\ Len(q) = n /\ Same(s, q, n)
  <2>1. CASE c.kind = "interpreter"
    <3>b. PICK b : b = [c EXCEPT !.holds = Nothing]
      OBVIOUS
    <3>1. b \in Activation /\ b.kind = c.kind /\ b.depth = c.depth /\ c.kind # "entering"
      BY <2>1, <1>1, <3>b DEF Activation
    <3>2. q = [s EXCEPT ![n] = b]
      BY <2>1, <1>0, <1>q, <1>c, <1>s, <3>b DEF Passed, Holding, SetTop, RootsInv, ExecutionTypeOK
    <3>3. q \in Seq(Activation) /\ Len(q) = n /\ q[n] = b /\ \A i \in 1..n - 1 : q[i] = s[i]
      BY <1>1, <3>1, <3>2, TopReplaced
    <3>4. \A i \in 1..n : i = n \/ i \in 1..n - 1
      BY <1>1
    <3>5. Same(s, q, n)
      BY <1>1, <3>1, <3>3, <3>4 DEF Same
    <3> QED BY <3>3, <3>5
  <2>2. CASE c.kind # "interpreter"
    <3>1. q = s
      BY <2>2, <1>q, <1>c, <1>s DEF Passed
    <3>2. Same(s, q, n)
      BY <3>1 DEF Same
    <3> QED BY <3>1, <3>2, <1>1
  <2> QED BY <2>1, <2>2
<1>t. PICK s2 : s2 = Append(q, a)
  OBVIOUS
<1>5. s2 \in Seq(Activation) /\ Len(s2) = n + 1 /\ s2[n + 1] = a /\ \A i \in 1..n : s2[i] = q[i]
  BY <1>1, <1>3, <1>4, <1>t
<1>6. Same(s, s2, n)
  BY <1>4, <1>5 DEF Same
<1>7. stack' = [stack EXCEPT ![t] = s2]
  BY <1>q, <1>a, <1>c, <1>t DEF Adds, Inner
<1>8. ShapeAt(s2, D2, n + 1)
  <2>1. s2[n + 1].kind = k /\ s2[n + 1].depth = d /\ (n + 1) - 1 = n /\ n + 1 > 1
    BY <1>1, <1>3, <1>5
  <2>2. n \in 1..n /\ \A j \in 1..n : s2[j].kind = s[j].kind /\ s2[j].depth = s[j].depth
    BY <1>1, <1>6 DEF Same
  <2>3. k \in {"native", "pumping"} =>
          /\ n + 1 > 1 /\ s2[n].kind \in Java /\ d = s2[n].depth
          /\ n \in D2 => n + 1 \in D2
    BY <1>1, <2>1, <2>2 DEF Adds
  <2>4. k \in Owners => \A j \in 1..n : s2[j].depth = d => j \in D2
    BY <1>s, <2>2 DEF Adds, Owners, Dispatches
  <2>5. d <= n + 1 /\ (n + 1 \in D2 => d > 1)
    BY DEF Adds
  <2> QED BY <2>1, <2>3, <2>4, <2>5, <1>1 DEF ShapeAt
<1>9. Reported(s2, p2, w2, o2, n + 1)
  BY <1>1, <1>3, <1>5 DEF Reported, Adds, Overlaid
<1>10. Sound(s2, p2, w2, o2, D2)
  <2>1. \A i \in 1..Len(s2) : i > n => i = n + 1
    BY <1>1, <1>5
  <2>2. D2 \subseteq 1..Len(s2) /\ Len(s2) <= MaxCalls /\ n <= Len(s) /\ n \in Nat
    BY <1>1, <1>2, <1>5 DEF Adds
  <2>3. Widened(s, D, D2, X, n) /\ Kept(s, p, w, o, p2, w2, o2, D2, n)
    BY <1>s, <1>p, <1>D DEF Adds
  <2> QED BY <1>1, <1>5, <1>6, <1>8, <1>9, <2>1, <2>2, <2>3, StaysSound
<1>11. /\ published' = [published EXCEPT ![t] = p2] /\ walker' = [walker EXCEPT ![t] = w2]
       /\ overlay' = [overlay EXCEPT ![t] = o2] /\ displaced' = [displaced EXCEPT ![t] = D2]
       /\ holder' \in JavaThreads \cup {Nobody}
       /\ static' \in Things \cup {Nothing} /\ alive' \subseteq Things
  BY MemoryTypes DEF Adds
<1> QED BY <1>5, <1>7, <1>10, <1>11, OneThreadSteps

LEMMA InnerKeeps ==
  ASSUME RootsInv, NEW t \in JavaThreads, CallNative(t) \/ CallCompiled(t) \/ CallDirect(t)
  PROVE  RootsInv'
<1>1. /\ stack[t] # <<>> /\ Current(t).kind \in Java
      /\ holder' = holder /\ static' = static /\ alive' = alive
  BY DEF CallNative, CallCompiled, CallDirect, Runs, Java
<1>s. PICK s : s = stack[t]
  OBVIOUS
<1>p. PICK p, w, o : p = published[t] /\ w = walker[t] /\ o = overlay[t]
  OBVIOUS
<1>D. PICK D : D = displaced[t]
  OBVIOUS
<1>n. PICK n, c, d : n = Height(t) /\ c = Current(t) /\ d = Depth(t)
  OBVIOUS
<1>X. PICK X : X = {}
  OBVIOUS
<1>2. /\ s \in Seq(Activation) /\ n \in Nat \ {0} /\ n = Len(s) /\ c = s[n] /\ n \in 1..MaxCalls
      /\ c \in Activation /\ d = c.depth /\ d \in Depths /\ ShapeAt(s, D, n)
      /\ Sound(s, p, w, o, D) /\ MaxCalls \in Nat
  BY <1>1, CurrentIs, ThreadTypes, <1>s, <1>n, <1>p, <1>D
<1>3. /\ p \in [Depths -> SUBSET Things]
      /\ w \in [Depths -> 0..MaxCalls] /\ o \in [Depths -> 0..MaxCalls]
  BY <1>p, ThreadTypes
<1>4. /\ d \in Nat /\ d <= n /\ d >= 1 /\ D \subseteq 1..n /\ n + 1 \notin D /\ (n \in D => d > 1)
  <2>1. D \subseteq 1..n /\ d <= n /\ (n \in D => d > 1)
    BY <1>2 DEF Sound, ShapeAt
  <2> QED BY <2>1, <1>2 DEF Depths
<1>5. ASSUME MayCall(t)  PROVE n < MaxCalls
  BY <1>5, <1>n DEF MayCall
<1>6. CASE CallNative(t)
  <2>1. PICK k \in {"native", "unexposed"} : Inner(t, k, d)
    BY <1>6, <1>n DEF CallNative
  <2>D. PICK D2 : D2 = IF n \in D THEN D \cup {n + 1} ELSE D
    OBVIOUS
  <2>2. /\ displaced' = [displaced EXCEPT ![t] = D2]
        /\ published' = published /\ walker' = walker /\ overlay' = overlay
    <3>1. D \cup {} = D
      OBVIOUS
    <3> QED BY <3>1, <1>6, <2>D, <1>n, <1>D DEF CallNative, Inherits
  <2>3. /\ D2 \subseteq 1..n + 1 /\ (n \in D2 => n + 1 \in D2) /\ (n + 1 \in D2 => d > 1)
        /\ \A i \in 1..n : i \in D2 <=> i \in D
    <3>1. D \subseteq 1..n + 1 /\ n + 1 \in 1..n + 1 /\ n + 1 \notin 1..n
      BY <1>2, <1>4
    <3>2. CASE n \in D
      BY <3>1, <3>2, <2>D, <1>4
    <3>3. CASE n \notin D
      BY <3>1, <3>3, <2>D, <1>4
    <3> QED BY <3>2, <3>3
  <2>4. Widened(s, D, D2, X, n) /\ Kept(s, p, w, o, p, w, o, D2, n)
    BY <2>3, <1>X DEF Widened, Kept
  <2>5. /\ published' = [published EXCEPT ![t] = p] /\ walker' = [walker EXCEPT ![t] = w]
        /\ overlay' = [overlay EXCEPT ![t] = o]
    BY <2>2, <1>p DEF RootsInv, ExecutionTypeOK
  <2>6. d <= n + 1
    BY <1>2, <1>4
  <2>7. Adds(t, k, d, n, D2, p, w, o)
    BY <1>1, <1>s, <1>p, <1>n, <2>1, <2>2, <2>3, <2>4, <2>5, <2>6 DEF Adds
  <2>8. \A e \in X : e > 1
    BY <1>X
  <2>9. k \in {"native", "unexposed", "compiled", "direct"}
    OBVIOUS
  <2>10. Widened(stack[t], displaced[t], D2, X, n)
    BY <2>4, <1>s, <1>D
  <2> QED BY <1>2, <1>3, <2>7, <2>8, <2>9, <2>10, AddKeeps
<1>7. CASE CallCompiled(t)
  <2>1. /\ Inner(t, "compiled", d) /\ c.kind = "interpreter"
        /\ UNCHANGED <<published, walker, displaced>>
    BY <1>7, <1>n DEF CallCompiled, Runs
  <2>o. PICK o2 : o2 = [o EXCEPT ![d] = n + 1]
    OBVIOUS
  <2>2. /\ o2 \in [Depths -> 0..MaxCalls] /\ o2[d] = n + 1
        /\ \A e \in Depths \ {d} : o2[e] = o[e]
    <3>1. n < MaxCalls
      BY <1>5, <2>1 DEF Inner
    <3>2. n + 1 \in 0..MaxCalls
      BY <1>2, <3>1
    <3> QED BY <3>2, <1>2, <1>3, <2>o
  <2>3. Kept(s, p, w, o, p, w, o2, D, n)
    <3> SUFFICES ASSUME NEW i \in (1..n) \ D, s[i].kind \in Overlaid
        PROVE  o2[s[i].depth] = o[s[i].depth]
      BY DEF Kept
    <3>0. i # n
      BY <2>1, <1>2 DEF Overlaid
    <3>1. i \in 1..n - 1 /\ i \in 1..Len(s)
      BY <3>0, <1>2
    <3>2. s[i].depth # d
      BY <3>1, <2>1, <1>2 DEF ShapeAt, Owners, Dispatches
    <3>3. s[i].depth \in Depths
      <4>1. s[i] \in Activation
        BY <3>1, <1>2
      <4> QED BY <4>1 DEF Activation
    <3> QED BY <3>2, <3>3, <2>2
  <2>4. Widened(s, D, D, X, n)
    BY <1>X DEF Widened
  <2>5. /\ published' = [published EXCEPT ![t] = p] /\ walker' = [walker EXCEPT ![t] = w]
        /\ displaced' = [displaced EXCEPT ![t] = D]
    BY <2>1, <1>p, <1>D DEF RootsInv, ExecutionTypeOK
  <2>6. overlay' = [overlay EXCEPT ![t] = o2]
    BY <1>7, <2>o, <1>n, <1>p DEF CallCompiled
  <2>7. d <= n + 1 /\ D \subseteq 1..n + 1
    BY <1>2, <1>4
  <2>8. Adds(t, "compiled", d, n, D, p, w, o2)
    BY <1>1, <1>s, <1>p, <1>n, <1>4, <2>1, <2>2, <2>3, <2>5, <2>6, <2>7 DEF Adds
  <2>9. \A e \in X : e > 1
    BY <1>X
  <2> QED BY <1>2, <1>3, <1>s, <1>D, <2>2, <2>4, <2>8, <2>9, AddKeeps
<1>8. CASE CallDirect(t)
  <2>e. PICK e : e = d + 1
    OBVIOUS
  <2>1. Inner(t, "direct", e) /\ walker' = walker
    BY <1>8, <1>n, <2>e DEF CallDirect
  <2>2. n < MaxCalls /\ e \in Depths /\ e <= n + 1 /\ e > 1
    <3>1. n < MaxCalls
      BY <1>5, <2>1 DEF Inner
    <3> QED BY <3>1, <1>2, <1>4, <2>e DEF Depths
  <2>o. PICK o2 : o2 = [o EXCEPT ![e] = n + 1]
    OBVIOUS
  <2>p. PICK p2 : p2 = [p EXCEPT ![e] = {}]
    OBVIOUS
  <2>D. PICK D2 : D2 = D \cup {i \in 1..n : s[i].depth = e}
    OBVIOUS
  <2>3. /\ o2 \in [Depths -> 0..MaxCalls] /\ o2[e] = n + 1
        /\ \A f \in Depths \ {e} : o2[f] = o[f]
    <3>1. n + 1 \in 0..MaxCalls
      BY <1>2, <2>2
    <3> QED BY <3>1, <1>3, <2>2, <2>o
  <2>4. p2 \in [Depths -> SUBSET Things] /\ \A f \in Depths \ {e} : p2[f] = p[f]
    BY <1>3, <2>2, <2>p
  <2>X. PICK Y : Y = {e}
    OBVIOUS
  <2>5. /\ D2 \subseteq 1..n + 1 /\ n + 1 \notin D2
        /\ \A j \in 1..n : s[j].depth = e => j \in D2
    <3>1. 1..n \subseteq 1..n + 1 /\ n + 1 \notin 1..n
      BY <1>2
    <3>2. D \subseteq 1..n /\ n + 1 \notin D
      BY <1>4
    <3> QED BY <3>1, <3>2, <2>D
  <2>6. Widened(s, D, D2, Y, n) /\ \A f \in Y : f > 1
    BY <2>D, <2>X, <2>2, <1>4 DEF Widened
  <2>7. Kept(s, p, w, o, p2, w, o2, D2, n)
    <3>1. \A f \in Depths \ {e} : p2[f] = p[f] /\ w[f] = w[f] /\ o2[f] = o[f]
      BY <2>3, <2>4
    <3>2. n <= Len(s) /\ n \in Nat
      BY <1>2
    <3> QED BY <3>1, <3>2, <2>5, <2>6, <1>2, OwnDepth
  <2>8. /\ published' = [published EXCEPT ![t] = p2] /\ walker' = [walker EXCEPT ![t] = w]
        /\ overlay' = [overlay EXCEPT ![t] = o2]
    <3>1. walker' = [walker EXCEPT ![t] = w]
      BY <2>1, <1>p DEF RootsInv, ExecutionTypeOK
    <3> QED BY <3>1, <1>8, <2>o, <2>p, <2>e, <1>n, <1>p DEF CallDirect
  <2>9. displaced' = [displaced EXCEPT ![t] = D2]
    <3>1. DOMAIN s = 1..n
      BY <1>2
    <3> QED BY <3>1, <1>8, <2>D, <2>e, <1>n, <1>s, <1>D DEF CallDirect, Displaces
  <2>10. Adds(t, "direct", e, n, D2, p2, w, o2)
    BY <1>1, <1>s, <1>p, <1>n, <2>1, <2>2, <2>3, <2>5, <2>7, <2>8, <2>9 DEF Adds
  <2> QED BY <1>2, <1>3, <1>s, <1>D, <2>2, <2>3, <2>4, <2>6, <2>10, AddKeeps
<1> QED BY <1>6, <1>7, <1>8

\* Every call of execute(), with the argument it is made with.
LEMMA EntersKeep ==
  ASSUME RootsInv, NEW t \in JavaThreads, Dispatch(t) \/ CallBack(t) \/ Callback(t)
  PROVE  RootsInv'
<1>0. /\ static \in Things \cup {Nothing} /\ alive \subseteq Things
      /\ holder \in JavaThreads \cup {Nobody} /\ Nothing \in Things \cup {Nothing}
  BY MemoryTypes
<1>1. holder' \in JavaThreads \cup {Nobody}
  BY <1>0 DEF Dispatch, CallBack, Callback
<1>2. ASSUME NEW r \in Things \cup {Nothing}, Enter(t, r), Old(r) \/ (r \in Things /\ Fresh(r))
      PROVE  RootsInv'
  <2>1. alive' \subseteq Things
    BY <1>2, <1>0, MemoryTypes
  <2> QED BY <2>1, <1>1, <1>2, EnterKeeps
<1>3. CASE Dispatch(t)
  <2>1. CASE Old(static) /\ Enter(t, static)
    BY <2>1, <1>0, <1>2
  <2>2. CASE \E r \in Things : Fresh(r) /\ Enter(t, r)
    BY <2>2, <1>2
  <2> QED BY <2>1, <2>2, <1>3 DEF Dispatch
<1>4. CASE CallBack(t)
  <2>1. CASE \E r \in Things : Fresh(r) /\ Enter(t, r)
    BY <2>1, <1>2
  <2>2. CASE stack[t] # <<>> /\ Old(Current(t).holds) /\ Enter(t, Current(t).holds)
    <3>1. Current(t).holds \in Things \cup {Nothing}
      BY <2>2, CurrentIs
    <3> QED BY <3>1, <2>2, <1>2
  <2>3. CASE Old(Nothing) /\ Enter(t, Nothing)
    BY <2>3, <1>0, <1>2
  <2> QED BY <2>1, <2>2, <2>3, <1>4 DEF CallBack, Runs
<1>5. CASE Callback(t)
  BY <1>0, <1>2, <1>5 DEF Callback
<1> QED BY <1>3, <1>4, <1>5

LEMMA OthersKeep ==
  ASSUME RootsInv, NEW t \in JavaThreads,
         Collect(t) \/ Store(t) \/ Releases(t) \/ Readmitted(t)
  PROVE  RootsInv'
<1>1. UNCHANGED <<stack, rootVars>>
  BY DEF Collect, Store, Releases, Readmitted
<1>2. holder' \in JavaThreads \cup {Nobody} /\ alive' \subseteq Things
  BY MemoryTypes DEF Collect, Store, Releases, Readmitted
<1>3. static' \in Things \cup {Nothing}
  <2>1. CASE Store(t)
    <3>1. Current(t).holds \in Things \cup {Nothing}
      BY <2>1, CurrentIs DEF Store, Runs
    <3> QED BY <2>1, <3>1 DEF Store
  <2>2. CASE Collect(t) \/ Releases(t) \/ Readmitted(t)
    BY <2>2, MemoryTypes DEF Collect, Releases, Readmitted
  <2> QED BY <2>1, <2>2
<1> QED BY <1>1, <1>2, <1>3, StacksStay

-----------------------------------------------------------------------------
LEMMA InitIsSound == RootsInit => RootsInv
<1> SUFFICES ASSUME RootsInit  PROVE RootsInv
  OBVIOUS
<1>0. MaxCalls \in Nat \ {0} /\ 0 \in 0..MaxCalls
  BY RootsAssumption
<1>1. ExecutionTypeOK
  BY <1>0, EmptySeq DEF RootsInit, ExecutionTypeOK
<1>2. ASSUME NEW t \in JavaThreads
      PROVE  Sound(stack[t], published[t], walker[t], overlay[t], displaced[t])
  <2>1. stack[t] = <<>> /\ displaced[t] = {}
    BY DEF RootsInit
  <2>2. <<>> \in Seq(Activation) /\ Len(<<>>) = 0
    BY EmptySeq
  <2> QED BY <2>1, <2>2, <1>0 DEF Sound
<1> QED BY <1>1, <1>2 DEF RootsInv

(***************************************************************************)
(* The strengthening that is inductive: stacks are well formed, whoever    *)
(* takes the entry of a depth displaces all that had it, and every other   *)
(* activation is reported in the entry of its depth.                       *)
(***************************************************************************)
THEOREM RootsInductive == ExecutionSpec => []RootsInv
<1>1. RootsInit => RootsInv
  BY InitIsSound
<1>2. RootsInv /\ [ExecutionNext]_executionVars => RootsInv'
  <2> SUFFICES ASSUME RootsInv, [ExecutionNext]_executionVars  PROVE RootsInv'
    OBVIOUS
  <2>1. CASE UNCHANGED executionVars
    BY <2>1, StacksStay, MemoryTypes DEF executionVars
  <2>2. CASE ExecutionNext
    <3> PICK t \in JavaThreads : ExecutionStep(t)
      BY <2>2 DEF ExecutionNext
    <3>1. CASE Dispatch(t) \/ CallBack(t) \/ Callback(t)
      BY <3>1, EntersKeep
    <3>2. CASE StartInterpreter(t) \/ Deoptimize(t)
      BY <3>2, StartInterpreterKeeps
    <3>3. CASE StartCompiled(t)
      BY <3>3, StartCompiledKeeps
    <3>4. CASE LeaveExecute(t) \/ ReturnInner(t)
      BY <3>4, ReturnsKeep
    <3>5. CASE Allocate(t) \/ Load(t)
      BY <3>5, HoldKeeps
    <3>6. CASE Collect(t) \/ Store(t) \/ Releases(t) \/ Readmitted(t)
      BY <3>6, OthersKeep
    <3>7. CASE CallNative(t) \/ CallCompiled(t) \/ CallDirect(t)
      BY <3>7, InnerKeeps
    <3>8. CASE TimedWait(t) \/ PumpEnds(t)
      BY <3>8, WaitKeeps
    <3> QED BY <3>1, <3>2, <3>3, <3>4, <3>5, <3>6, <3>7, <3>8 DEF ExecutionStep
  <2> QED BY <2>1, <2>2
<1> QED BY <1>1, <1>2, PTL DEF ExecutionSpec

\* Only a collection takes objects.
LEMMA OnlyCollectTakes ==
  ASSUME [ExecutionNext]_executionVars, ~ alive \subseteq alive'
  PROVE  \E t \in JavaThreads : Collect(t)
<1>1. ExecutionNext
  BY DEF executionVars
<1> PICK t \in JavaThreads : ExecutionStep(t)
  BY <1>1 DEF ExecutionNext
<1>2. \A r : (Fresh(r) => alive \subseteq alive') /\ (Old(r) => alive \subseteq alive')
  BY DEF Fresh, Old
<1>3. ~ (Dispatch(t) \/ CallBack(t) \/ Callback(t))
  BY <1>2 DEF Dispatch, CallBack, Callback
<1>4. ~ (Allocate(t) \/ Load(t) \/ Store(t) \/ Releases(t) \/ Readmitted(t)
         \/ TimedWait(t) \/ PumpEnds(t))
  BY <1>2 DEF Allocate, Load, Store, Releases, Readmitted, TimedWait, PumpEnds
<1>5. ~ (StartInterpreter(t) \/ StartCompiled(t) \/ Deoptimize(t) \/ LeaveExecute(t)
         \/ CallNative(t) \/ CallCompiled(t) \/ CallDirect(t) \/ ReturnInner(t))
  BY DEF StartInterpreter, StartCompiled, Deoptimize, LeaveExecute, CallNative, CallCompiled,
         CallDirect, ReturnInner
<1> QED BY <1>3, <1>4, <1>5 DEF ExecutionStep

(***************************************************************************)
(* No collection takes an object that an activation of any thread,         *)
(* running, blocked or below a callback, holds a reference to, however     *)
(* execute(), natives, compiled code, callbacks and waits are nested, but  *)
(* for the two exceptions of Safeguarded.                                  *)
(***************************************************************************)
THEOREM HeldIsSafe == ExecutionSpec => HeldSurvives
<1>1. RootsInv /\ [ExecutionNext]_executionVars =>
        [\A t \in JavaThreads : \A i \in DOMAIN stack[t] :
           Safeguarded(t, i) => HeldAt(t, i) \cap alive \subseteq alive']_executionVars
  <2> SUFFICES ASSUME RootsInv, [ExecutionNext]_executionVars,
                      NEW t \in JavaThreads, NEW i \in DOMAIN stack[t], Safeguarded(t, i)
      PROVE  HeldAt(t, i) \cap alive \subseteq alive'
    OBVIOUS
  <2>1. CASE alive \subseteq alive'
    BY <2>1
  <2>2. CASE ~ alive \subseteq alive'
    <3>1. alive' = alive \cap Roots
      BY <2>2, OnlyCollectTakes DEF Collect
    <3>2. i \in 1..Len(stack[t])
      BY ThreadTypes
    <3>3. HeldAt(t, i) \subseteq Roots
      BY <3>2, HeldIsRooted
    <3> QED BY <3>1, <3>3
  <2> QED BY <2>1, <2>2
<1> QED BY <1>1, RootsInductive, PTL DEF ExecutionSpec, HeldSurvives

(***************************************************************************)
(* The comment of execute() on its walker (Machine.cpp:13137) is right of  *)
(* every activation whose depth no later one has taken over.               *)
(***************************************************************************)
THEOREM WalkerStays == ExecutionSpec => []StackRemainsRooted
<1>1. RootsInv => StackRemainsRooted
  <2> SUFFICES ASSUME RootsInv, NEW t \in JavaThreads,
                      NEW i \in DOMAIN stack[t] \ displaced[t],
                      stack[t][i].kind = "interpreter"
      PROVE  walker[t][stack[t][i].depth] = i
    BY DEF StackRemainsRooted
  <2>1. i \in 1..Len(stack[t]) /\ i \notin displaced[t]
    BY ThreadTypes
  <2>2. Reported(stack[t], published[t], walker[t], overlay[t], i)
    BY <2>1 DEF RootsInv, Sound
  <2> QED BY <2>2 DEF Reported
<1> QED BY <1>1, RootsInductive, PTL

-----------------------------------------------------------------------------
(***************************************************************************)
(* GuestMemory.                                                            *)
(***************************************************************************)
\* A behaviour of the three together is one of each of them.
LEMMA EachIsItself == GuestSpec => JSpec /\ HeapSpec /\ ExecutionSpec
<1>1. GuestInit => JInit /\ HeapInit /\ RootsInit
  BY DEF GuestInit
<1>2. [GuestNext]_guestVars => [JNext]_allVars /\ [HeapNext]_heapVars /\ [ExecutionNext]_executionVars
  BY DEF GuestNext, guestVars
<1>. QED BY <1>1, <1>2, PTL DEF GuestSpec, JSpec, HeapSpec, ExecutionSpec

\* Threads and memory together: joins tell the truth, a shutdown tells everyone,
\* collections take what cannot be reached, and nothing that a frame holds.
THEOREM ThreadsAndMemory ==
  GuestSpec => /\ [](JoinsAreTrue /\ EveryoneTold)
               /\ HeldSurvives /\ ImplementsJavaHeap
BY EachIsItself, JoinsCorrect, StopReachesEveryone, HeldIsSafe, HeapImplements, PTL
=============================================================================
