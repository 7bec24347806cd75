------------------------- MODULE MonitorTableProofs -------------------------
(***************************************************************************)
(* Proofs about MonitorTable, for any threads, objects and recursion limit.*)
(***************************************************************************)
EXTENDS MonitorTable, TLAPS, SequenceTheorems

-----------------------------------------------------------------------------
(***************************************************************************)
(* Queues.                                                                 *)
(***************************************************************************)

\* erase_thread leaves a queue of threads.
LEMMA WithoutType ==
  ASSUME NEW S, NEW q \in Seq(S), NEW t
  PROVE  Without(q, t) \in Seq(S)
<1>1. CASE ~\E i \in 1..Len(q) : q[i] = t
  BY <1>1 DEF Without
<1>2. CASE \E i \in 1..Len(q) : q[i] = t
  <2> DEFINE k == CHOOSE i \in 1..Len(q) : q[i] = t
  <2>1. k \in 1..Len(q)
    BY <1>2
  <2>2. SubSeq(q, 1, k - 1) \in Seq(S)
    <3>1. \A i \in 1..(k - 1) : q[i] \in S
      BY <2>1, ElementOfSeq, LenProperties
    <3> QED
      BY <2>1, <3>1
  <2>3. SubSeq(q, k + 1, Len(q)) \in Seq(S)
    <3>1. \A i \in (k + 1)..Len(q) : q[i] \in S
      BY <2>1, ElementOfSeq, LenProperties
    <3> QED
      BY <2>1, <3>1
  <2>4. Without(q, t) = SubSeq(q, 1, k - 1) \o SubSeq(q, k + 1, Len(q))
    BY <1>2 DEF Without
  <2> QED
    BY <2>2, <2>3, <2>4, ConcatProperties
<1> QED
  BY <1>1, <1>2

\* enqueue_unique leaves a queue of threads.
LEMMA EnqueueUniqueType ==
  ASSUME NEW S, NEW q \in Seq(S), NEW t \in S
  PROVE  EnqueueUnique(q, t) \in Seq(S)
BY DEF EnqueueUnique

\* The thread a queue admits first is its head.
LEMMA FirstOfHead ==
  ASSUME NEW S, NEW q \in Seq(S), NEW t, FirstOf(q) = {t}
  PROVE  q # <<>> /\ Head(q) = t /\ Tail(q) \in Seq(S)
BY DEF FirstOf

-----------------------------------------------------------------------------
(***************************************************************************)
(* Type correctness.                                                       *)
(***************************************************************************)

LEMMA InitType == Init => TypeOK
<1> SUFFICES ASSUME Init PROVE TypeOK
  OBVIOUS
<1>1. 0 \in 0..MaxRecursion /\ 0 \in Nat
  BY MaxRecursionAssumption
<1>2. held \in [Threads -> [Objects -> Nat]]
  BY <1>1 DEF Init
<1>3. /\ recursion \in [Objects -> 0..MaxRecursion]
      /\ saved \in [Threads -> 0..MaxRecursion]
  BY <1>1 DEF Init
<1>4. entryQueue \in [Objects -> Seq(Threads)] /\ waitSet \in [Objects -> Seq(Threads)]
  BY DEF Init
<1> QED
  BY <1>2, <1>3, <1>4 DEF Init, TypeOK, PCs, Results, Runs

LEMMA WokenType ==
  ASSUME NEW os, NEW fs, run \in [Threads -> Runs]
  PROVE  Woken(os, fs) \in [Threads -> Runs]
BY DEF Woken, Runs

LEMMA NextType == TypeOK /\ [Next]_vars => TypeOK'
<1> SUFFICES ASSUME TypeOK, [Next]_vars
             PROVE  TypeOK'
  OBVIOUS
<1> USE ThreadsAssumption
<1>z. 0 \in 0..MaxRecursion /\ 1 \in 0..MaxRecursion
  BY MaxRecursionAssumption
<1>w. \A os, fs : Woken(os, fs) \in [Threads -> Runs]
  BY WokenType DEF TypeOK
<1>r. ASSUME NEW t \in Threads, ReleaseAll(t)
      PROVE  /\ owner' \in [Objects -> Threads \cup {NoThread}]
             /\ recursion' \in [Objects -> 0..MaxRecursion]
             /\ entryQueue' \in [Objects -> Seq(Threads)]
             /\ waitSet' \in [Objects -> Seq(Threads)]
             /\ ReleaseWakes(t) \in [Threads -> Runs]
  <2>1. \A o \in Objects : /\ Without(entryQueue[o], t) \in Seq(Threads)
                           /\ Without(waitSet[o], t) \in Seq(Threads)
    BY WithoutType DEF TypeOK
  <2> QED
    BY <1>r, <1>w, <1>z, <2>1 DEF TypeOK, ReleaseAll, ReleaseWakes
<1>t. ASSUME NEW t \in Threads, NEW o \in Objects
      PROVE  /\ EnqueueUnique(entryQueue[o], t) \in Seq(Threads)
             /\ Without(entryQueue[o], t) \in Seq(Threads)
             /\ Without(waitSet[o], t) \in Seq(Threads)
             /\ Append(waitSet[o], t) \in Seq(Threads)
  <2>1. entryQueue[o] \in Seq(Threads) /\ waitSet[o] \in Seq(Threads)
    BY DEF TypeOK
  <2>2. /\ Without(entryQueue[o], t) \in Seq(Threads)
        /\ Without(waitSet[o], t) \in Seq(Threads)
    BY <2>1, WithoutType
  <2>3. EnqueueUnique(entryQueue[o], t) \in Seq(Threads)
    BY <2>1, EnqueueUniqueType
  <2> QED
    BY <2>1, <2>2, <2>3
<1>i. ASSUME NEW t \in Threads, IsNext(t)
      PROVE  Tail(entryQueue[target[t]]) \in Seq(Threads)
  <2>1. entryQueue[target[t]] \in Seq(Threads)
    BY DEF TypeOK
  <2> QED
    BY <1>i, <2>1, FirstOfHead DEF IsNext
<1>h. ASSUME NEW t \in Threads, NEW o \in Objects
      PROVE  /\ held[t][o] \in Nat
             /\ recursion[o] \in Nat /\ recursion[o] <= MaxRecursion
             /\ MaxRecursion \in Nat
  BY MaxRecursionAssumption DEF TypeOK
<1>e. ASSUME NEW t \in Threads, NEW o \in Objects, NEW n \in Nat
      PROVE  [held EXCEPT ![t][o] = n] \in [Threads -> [Objects -> Nat]]
  BY DEF TypeOK
<1>u. CASE UNCHANGED vars
  BY <1>u DEF TypeOK, vars, tableVars, threadVars
<1>1. ASSUME NEW t \in Threads, Start(t) PROVE TypeOK'
  BY <1>1 DEF TypeOK, Start, tableVars, PCs, Results, Runs
<1>2. ASSUME NEW t \in Threads, Resume(t) PROVE TypeOK'
  BY <1>2, <1>z DEF TypeOK, Resume, PCs, Results
<1>3. ASSUME NEW t \in Threads, Yield(t) PROVE TypeOK'
  BY <1>3 DEF TypeOK, Yield, tableVars, PCs, Runs
<1>4. ASSUME NEW t \in Threads, Finish(t) PROVE TypeOK'
  BY <1>4, <1>r DEF TypeOK, Finish, PCs, Runs
<1>5. ASSUME NEW t \in Threads, NEW o \in Objects, EnterFree(t, o)
      PROVE TypeOK'
  <2>1. held' \in [Threads -> [Objects -> Nat]]
    BY <1>5, <1>h, <1>e DEF EnterFree, Take
  <2> QED
    BY <1>5, <1>z, <1>t, <2>1 DEF TypeOK, EnterFree, Take, threadVars
<1>6. ASSUME NEW t \in Threads, NEW o \in Objects, EnterAgain(t, o)
      PROVE TypeOK'
  <2>1. recursion[o] + 1 \in 0..MaxRecursion
    BY <1>6, <1>h DEF EnterAgain, Countable
  <2>2. held' \in [Threads -> [Objects -> Nat]]
    BY <1>6, <1>h, <1>e DEF EnterAgain
  <2> QED
    BY <1>6, <2>1, <2>2 DEF TypeOK, EnterAgain, threadVars
<1>7. ASSUME NEW t \in Threads, NEW o \in Objects, EnterContended(t, o)
      PROVE TypeOK'
  BY <1>7, <1>t DEF TypeOK, EnterContended, PCs
<1>8. ASSUME NEW t \in Threads, NEW o \in Objects, ExitInner(t, o)
      PROVE TypeOK'
  <2>1. recursion[o] - 1 \in 0..MaxRecursion /\ held[t][o] - 1 \in Nat
    BY <1>8, <1>h DEF ExitInner
  <2>2. held' \in [Threads -> [Objects -> Nat]]
    BY <1>8, <2>1, <1>e DEF ExitInner
  <2> QED
    BY <1>8, <2>1, <2>2 DEF TypeOK, ExitInner, threadVars
<1>9. ASSUME NEW t \in Threads, NEW o \in Objects, ExitLast(t, o)
      PROVE TypeOK'
  <2>1. held' \in [Threads -> [Objects -> Nat]]
    BY <1>9, <1>h, <1>e DEF ExitLast
  <2> QED
    BY <1>9, <2>1, <1>w, <1>z DEF TypeOK, ExitLast, ExitWakes, threadVars
<1>10. ASSUME NEW t \in Threads, NEW o \in Objects, ExitNotOwner(t, o)
       PROVE TypeOK'
  <2>1. held' \in [Threads -> [Objects -> Nat]]
    BY <1>10, <1>h, <1>e DEF ExitNotOwner
  <2> QED
    BY <1>10, <2>1 DEF TypeOK, ExitNotOwner, tableVars, threadVars
<1>11. ASSUME NEW t \in Threads, NEW o \in Objects, NEW timed \in BOOLEAN,
              Wait(t, o, timed)
       PROVE TypeOK'
  BY <1>11, <1>t, <1>w, <1>z
     DEF TypeOK, Wait, WaitFrees, WaitWakes, PCs
<1>n. ASSUME NEW o \in Objects, NotifyFirst(o) \/ NotifyEach(o)
      PROVE  notified' \in [Threads -> BOOLEAN] /\ run' \in [Threads -> Runs]
  <2>1. CASE NotifyFirst(o)
    <3>1. PICK i \in Unnotified(o) :
            /\ notified' = [notified EXCEPT ![waitSet[o][i]] = TRUE]
            /\ run' = NotifyWakes(o, waitSet[o][i])
      BY <2>1 DEF NotifyFirst
    <3> QED
      BY <3>1, <1>w DEF TypeOK, NotifyWakes
  <2>2. CASE NotifyEach(o)
    <3>1. \A u \in Threads : (notified[u] \/ u \in Waiters(o)) \in BOOLEAN
      OBVIOUS
    <3> QED
      BY <2>2, <3>1, <1>w DEF NotifyEach
  <2> QED
    BY <1>n, <2>1, <2>2
<1>12. ASSUME NEW t \in Threads, NEW o \in Objects, Notify(t, o) PROVE TypeOK'
  BY <1>12, <1>n DEF TypeOK, Notify, threadVars
<1>13. ASSUME NEW t \in Threads, NEW o \in Objects, NotifyAll(t, o)
       PROVE  TypeOK'
  BY <1>13, <1>n DEF TypeOK, NotifyAll, threadVars
<1>14. ASSUME NEW t \in Threads, NEW u \in Threads, Interrupt(t, u)
       PROVE TypeOK'
  BY <1>14, <1>w DEF TypeOK, Interrupt, tableVars, PCs
<1>15. ASSUME NEW t \in Threads, RetryCancelled(t) PROVE TypeOK'
  BY <1>15 DEF TypeOK, RetryCancelled, tableVars, PCs
<1>16. ASSUME NEW t \in Threads, RetryBlocks(t) PROVE TypeOK'
  BY <1>16, <1>t DEF TypeOK, RetryBlocks, PCs
<1>17. ASSUME NEW t \in Threads, EnterBlocked(t) PROVE TypeOK'
  <2>o. target[t] \in Objects
    BY DEF TypeOK
  <2>1. held' \in [Threads -> [Objects -> Nat]]
    <3>1. held[t][target[t]] + 1 \in Nat
      BY <1>h, <2>o
    <3> QED
      BY <1>17, <1>e, <2>o, <3>1 DEF EnterBlocked
  <2> QED
    BY <1>17, <1>i, <1>z, <2>1 DEF TypeOK, EnterBlocked, PCs
<1>18. ASSUME NEW t \in Threads, EntryCancelled(t) PROVE TypeOK'
  BY <1>18 DEF TypeOK, EntryCancelled, tableVars, PCs, Results
<1>19. ASSUME NEW t \in Threads, Sleep(t) PROVE TypeOK'
  BY <1>19 DEF TypeOK, Sleep, tableVars, threadVars, Runs
<1>21. ASSUME NEW t \in Threads, Pump(t) PROVE TypeOK'
  BY <1>21, <1>n DEF TypeOK, Pump, PCs
<1>22. ASSUME NEW t \in Threads, WaitSleeps(t) PROVE TypeOK'
  BY <1>22 DEF TypeOK, WaitSleeps, tableVars, threadVars, Runs
<1>23. ASSUME NEW t \in Threads, WaitEnds(t) PROVE TypeOK'
  BY <1>23, <1>t DEF TypeOK, WaitEnds, WithoutNode, WaitOutcome, PCs, Results
<1>24. ASSUME NEW t \in Threads, WaitCancelled(t) PROVE TypeOK'
  BY <1>24 DEF TypeOK, WaitCancelled, tableVars, PCs, Results
<1>26. ASSUME NEW t \in Threads, Reacquire(t) PROVE TypeOK'
  BY <1>26, <1>i DEF TypeOK, Reacquire, RestoredDepth, PCs
<1>27. ASSUME NEW t \in Threads, WakeAll(t) PROVE TypeOK'
  BY <1>27, <1>w DEF TypeOK, WakeAll, InterruptWakes, tableVars, PCs
<1>28. ASSUME NEW t \in Threads, Park(t) PROVE TypeOK'
  BY <1>28 DEF TypeOK, Park, tableVars, threadVars, Runs
<1>29. ASSUME NEW t \in Threads, Dispatch(t) PROVE TypeOK'
  BY <1>29 DEF TypeOK, Dispatch, tableVars, threadVars, Runs
<1>30. ASSUME NEW t \in Threads, DeadlinePasses(t) PROVE TypeOK'
  BY <1>30 DEF TypeOK, DeadlinePasses, tableVars, Runs
<1>31. CASE StopAll
  BY <1>31, <1>w DEF TypeOK, StopAll, tableVars, threadVars
<1>32. CASE Clear
  BY <1>32, <1>w, <1>z DEF TypeOK, Clear, ClearWakes, threadVars
<1> QED
  BY <1>u, <1>1, <1>2, <1>3, <1>4, <1>5, <1>6, <1>7, <1>8, <1>9, <1>10, <1>11,
     <1>12, <1>13, <1>14, <1>15, <1>16, <1>17, <1>18, <1>19, <1>21,
     <1>22, <1>23, <1>24, <1>26, <1>27, <1>28, <1>29, <1>30, <1>31,
     <1>32 DEF Next, GuestStep, RuntimeStep

\* Every variable keeps its type; in particular no count of entries passes the
\* limit of its u32.
THEOREM TypeCorrect == Spec => []TypeOK
<1>1. Init => TypeOK
  BY InitType
<1>2. TypeOK /\ [Next]_vars => TypeOK'
  BY NextType
<1> QED
  BY <1>1, <1>2, PTL DEF Spec

-----------------------------------------------------------------------------
(***************************************************************************)
(* The frames and the table agree: FramesMatchTable is inductive given the *)
(* types.                                                                  *)
(***************************************************************************)
FramesInv == TypeOK /\ FramesMatchTable

\* What FramesMatchTable says of one thread and one monitor.
FrameMatch(t, o) ==
  IF InWait(t, o)
  THEN owner[o] # t /\ saved[t] = held[t][o] /\ held[t][o] > 0
  ELSE /\ held[t][o] > 0 <=> owner[o] = t
       /\ owner[o] = t => recursion[o] = held[t][o]

LEMMA FramesInit == Init => FramesInv
<1> SUFFICES ASSUME Init PROVE FramesInv
  OBVIOUS
<1>2. FramesMatchTable
  BY ThreadsAssumption DEF Init, FramesMatchTable, InWait
<1> QED
  BY <1>2, InitType DEF FramesInv

\* Only clear() cancels, and nothing ever un-cancels.
LEMMA OnlyClearCancels ==
  ASSUME [Next]_vars
  PROVE  Clear \/ cancelled' = cancelled
<1>1. ASSUME NEW t \in Threads, GuestStep(t) PROVE cancelled' = cancelled
  BY <1>1 DEF GuestStep, Start, Yield, Finish, EnterFree, EnterAgain,
     EnterContended, ExitInner, ExitLast, ExitNotOwner, Wait, Notify,
     NotifyAll, Interrupt, tableVars, threadVars
<1>2. ASSUME NEW t \in Threads, RuntimeStep(t) PROVE cancelled' = cancelled
  BY <1>2 DEF RuntimeStep, RetryCancelled, RetryBlocks, EnterBlocked,
     EntryCancelled, Sleep, WaitSleeps, WaitEnds, WaitCancelled, Reacquire, WakeAll, Park, tableVars,
     threadVars
<1>3. ASSUME NEW t \in Threads, \/ Resume(t) \/ Pump(t)
                                \/ Dispatch(t) \/ DeadlinePasses(t)
      PROVE  cancelled' = cancelled
  BY <1>3 DEF Resume, Pump, Dispatch, DeadlinePasses, tableVars, threadVars
<1>4. CASE StopAll
  BY <1>4 DEF StopAll, tableVars
<1>6. CASE UNCHANGED vars
  BY <1>6 DEF vars, tableVars
<1> QED
  BY <1>1, <1>2, <1>3, <1>4, <1>6 DEF Next

LEMMA CancelledStays ==
  ASSUME [Next]_vars
  PROVE  cancelled' = cancelled \/ cancelled'
BY OnlyClearCancels DEF Clear

LEMMA FramesNext ==
  ASSUME FramesInv, [Next]_vars
  PROVE  FramesInv'
<1>1. TypeOK'
  BY NextType DEF FramesInv
<1>3. FramesMatchTable'
  <2> SUFFICES ASSUME ~cancelled', NEW u \in Threads, NEW p \in Objects
               PROVE  FrameMatch(u, p)'
    BY DEF FramesMatchTable, FrameMatch
  <2>t. TypeOK
    BY DEF FramesInv
  <2>c. ~cancelled
    BY CancelledStays
  <2>f. /\ FrameMatch(u, p)
        /\ \A v \in Threads, q \in Objects : FrameMatch(v, q)
    BY <2>c DEF FramesInv, FramesMatchTable, FrameMatch
  <2>n. NoThread \notin Threads
    BY ThreadsAssumption
  <2>h. /\ held[u][p] \in Nat /\ recursion[p] \in Nat /\ saved[u] \in Nat
        /\ target[u] \in Objects
    BY <2>t, MaxRecursionAssumption DEF TypeOK
  \* Every action leaves alone what FrameMatch(u, p) reads, or is one of those
  \* that follow.
  <2>s. ASSUME /\ owner'[p] = owner[p] /\ recursion'[p] = recursion[p]
               /\ held'[u][p] = held[u][p] /\ saved'[u] = saved[u]
               /\ InWait(u, p)' <=> InWait(u, p)
        PROVE  FrameMatch(u, p)'
    BY <2>s, <2>f DEF FrameMatch
  <2>e. ASSUME NEW t \in Threads, NEW o \in Objects, NEW n,
               held' = [held EXCEPT ![t][o] = n]
        PROVE  held'[u][p] = IF u = t /\ p = o THEN n ELSE held[u][p]
    BY <2>e, <2>t DEF TypeOK
  <2>1. ASSUME NEW t \in Threads, NEW o \in Objects, EnterFree(t, o)
        PROVE  FrameMatch(u, p)'
    <3>1. /\ owner'[p] = (IF p = o THEN t ELSE owner[p])
          /\ recursion'[p] = (IF p = o THEN 1 ELSE recursion[p])
          /\ owner[o] = NoThread /\ pc[t] = "guest"
          /\ saved' = saved /\ pc' = pc /\ target' = target
      BY <2>1, <2>t DEF EnterFree, Take, CanTake, Guest, TypeOK, threadVars
    <3>2. held'[u][p] = IF u = t /\ p = o THEN held[t][o] + 1 ELSE held[u][p]
      BY <2>1, <2>e DEF EnterFree, Take
    <3> QED
      BY <3>1, <3>2, <2>f, <2>n, <2>h DEF FrameMatch, InWait
  <2>2. ASSUME NEW t \in Threads, NEW o \in Objects, EnterAgain(t, o)
        PROVE  FrameMatch(u, p)'
    <3>1. /\ owner' = owner /\ owner[o] = t /\ pc[t] = "guest"
          /\ recursion'[p] = (IF p = o THEN recursion[o] + 1 ELSE recursion[p])
          /\ saved' = saved /\ pc' = pc /\ target' = target
      BY <2>2, <2>t DEF EnterAgain, Guest, TypeOK, threadVars
    <3>2. held'[u][p] = IF u = t /\ p = o THEN held[t][o] + 1 ELSE held[u][p]
      BY <2>2, <2>e DEF EnterAgain
    <3> QED
      BY <3>1, <3>2, <2>f, <2>n, <2>h DEF FrameMatch, InWait
  <2>3. ASSUME NEW t \in Threads, NEW o \in Objects, ExitInner(t, o)
        PROVE  FrameMatch(u, p)'
    <3>1. /\ owner' = owner /\ owner[o] = t /\ pc[t] = "guest"
          /\ recursion[o] > 1
          /\ recursion'[p] = (IF p = o THEN recursion[o] - 1 ELSE recursion[p])
          /\ saved' = saved /\ pc' = pc /\ target' = target
      BY <2>3, <2>t DEF ExitInner, Guest, TypeOK, threadVars
    <3>2. held'[u][p] = IF u = t /\ p = o THEN held[t][o] - 1 ELSE held[u][p]
      BY <2>3, <2>e DEF ExitInner
    <3> QED
      BY <3>1, <3>2, <2>f, <2>n, <2>h DEF FrameMatch, InWait
  <2>4. ASSUME NEW t \in Threads, NEW o \in Objects, ExitLast(t, o)
        PROVE  FrameMatch(u, p)'
    <3>1. /\ owner[o] = t /\ recursion[o] = 1 /\ pc[t] = "guest"
          /\ owner'[p] = (IF p = o THEN NoThread ELSE owner[p])
          /\ recursion'[p] = (IF p = o THEN 0 ELSE recursion[p])
          /\ saved' = saved /\ pc' = pc /\ target' = target
      BY <2>4, <2>t DEF ExitLast, Guest, TypeOK, threadVars
    <3>2. held'[u][p] = IF u = t /\ p = o THEN held[t][o] - 1 ELSE held[u][p]
      <4> DEFINE n == held[t][o] - 1
      <4>1. held' = [held EXCEPT ![t][o] = n]
        BY <2>4 DEF ExitLast
      <4> HIDE DEF n
      <4>2. held'[u][p] = IF u = t /\ p = o THEN n ELSE held[u][p]
        BY <4>1, <2>e
      <4> QED
        BY <4>2 DEF n
    <3>3. FrameMatch(u, p)
      BY <2>f
    <3>4. CASE p # o
      BY <3>1, <3>2, <3>3, <3>4 DEF FrameMatch, InWait
    <3>5. CASE p = o /\ u # t
      <4>1. (held[u][p] = 0 /\ held'[u][p] = 0) \/ InWait(u, p)
        BY <3>1, <3>2, <3>3, <3>5, <2>h DEF FrameMatch
      <4> QED
        BY <4>1, <3>1, <3>2, <3>3, <3>5, <2>n, <2>h DEF FrameMatch, InWait
    <3>6. CASE p = o /\ u = t
      <4>1. ~InWait(u, p) /\ ~InWait(u, p)'
        BY <3>1, <3>6 DEF InWait
      <4>2. held[u][p] = 1
        BY <4>1, <3>1, <3>3, <3>6 DEF FrameMatch
      <4>3. held'[u][p] = 0 /\ owner'[p] # u
        BY <4>2, <3>1, <3>2, <3>6, <2>n
      <4> QED
        BY <4>1, <4>3 DEF FrameMatch
    <3> QED
      BY <3>4, <3>5, <3>6
  <2>5. ASSUME NEW t \in Threads, NEW o \in Objects, ExitNotOwner(t, o)
        PROVE  FrameMatch(u, p)'
    BY <2>5, <2>f DEF ExitNotOwner, FrameMatch, InWait, Guest
  <2>6. ASSUME NEW t \in Threads, NEW o \in Objects, NEW timed \in BOOLEAN,
               Wait(t, o, timed)
        PROVE  FrameMatch(u, p)'
    <3>1. /\ owner[o] = t /\ recursion[o] > 0 /\ pc[t] = "guest"
          /\ owner'[p] = (IF p = o THEN NoThread ELSE owner[p])
          /\ recursion'[p] = (IF p = o THEN 0 ELSE recursion[p])
          /\ saved'[u] = (IF u = t THEN recursion[o] ELSE saved[u])
          /\ target'[u] = (IF u = t THEN o ELSE target[u])
          /\ u # t => pc'[u] = pc[u]
          /\ pc'[t] \in {"pumping", "waiting"}
          /\ held' = held
      BY <2>6, <2>t DEF Wait, WaitFrees, Guest, TypeOK
    <3> QED
      BY <3>1, <2>f, <2>n, <2>h DEF FrameMatch, InWait
  <2>7. ASSUME NEW t \in Threads, Finish(t) PROVE FrameMatch(u, p)'
    <3>1. /\ owner'[p] = (IF owner[p] = t THEN NoThread ELSE owner[p])
          /\ recursion'[p] = (IF owner[p] = t THEN 0 ELSE recursion[p])
          /\ held'[u][p] = (IF u = t THEN 0 ELSE held[u][p])
          /\ pc[t] = "guest" /\ pc'[u] = (IF u = t THEN "idle" ELSE pc[u])
          /\ saved' = saved /\ target' = target
      BY <2>7, <2>t DEF Finish, ReleaseAll, Guest, TypeOK
    <3> QED
      BY <3>1, <2>f, <2>n, <2>h DEF FrameMatch, InWait
  <2>8. ASSUME NEW t \in Threads, EnterBlocked(t) PROVE FrameMatch(u, p)'
    <3>1. /\ owner[target[t]] = NoThread /\ target[t] \in Objects
          /\ owner'[p] = (IF p = target[t] THEN t ELSE owner[p])
          /\ recursion'[p] = (IF p = target[t] THEN 1 ELSE recursion[p])
          /\ pc[t] = "entering"
          /\ pc'[u] = (IF u = t THEN "resuming" ELSE pc[u])
          /\ saved' = saved /\ target' = target
      BY <2>8, <2>t DEF EnterBlocked, IsNext, TypeOK
    <3>2. held'[u][p] = IF u = t /\ p = target[t] THEN held[t][p] + 1
                                                 ELSE held[u][p]
      BY <2>8, <3>1, <2>e DEF EnterBlocked
    <3> QED
      BY <3>1, <3>2, <2>f, <2>n, <2>h DEF FrameMatch, InWait
  <2>9. ASSUME NEW t \in Threads, Reacquire(t) PROVE FrameMatch(u, p)'
    <3>1. /\ owner[target[t]] = NoThread /\ target[t] \in Objects
          /\ owner'[p] = (IF p = target[t] THEN t ELSE owner[p])
          /\ recursion'[p] = (IF p = target[t] THEN saved[t] ELSE recursion[p])
          /\ pc[t] = "reacquiring"
          /\ pc'[u] = (IF u = t THEN "resuming" ELSE pc[u])
          /\ saved' = saved /\ target' = target /\ held' = held
      BY <2>9, <2>t DEF Reacquire, RestoredDepth, IsNext, TypeOK
    <3> QED
      BY <3>1, <2>f, <2>n, <2>h DEF FrameMatch, InWait
  <2>10. ASSUME NEW t \in Threads, NEW o \in Objects, EnterContended(t, o)
         PROVE  FrameMatch(u, p)'
    <3>1. /\ pc[t] = "guest"
          /\ pc'[u] = (IF u = t THEN "contended" ELSE pc[u])
          /\ target'[u] = (IF u = t THEN o ELSE target[u])
          /\ owner' = owner /\ recursion' = recursion /\ held' = held
          /\ saved' = saved
      BY <2>10, <2>t DEF EnterContended, Guest, TypeOK
    <3> QED
      BY <3>1, <2>s DEF InWait
  <2>11. ASSUME NEW t \in Threads, Start(t) \/ Yield(t) \/ Resume(t)
         PROVE  FrameMatch(u, p)'
    <3>1. /\ pc[t] \in {"idle", "guest", "resuming"}
          /\ pc'[t] \in {"guest", "resuming"}
          /\ u # t => pc'[u] = pc[u] /\ saved'[u] = saved[u]
          /\ target' = target
          /\ owner' = owner /\ recursion' = recursion /\ held' = held
      BY <2>11, <2>t DEF Start, Yield, Resume, Guest, TypeOK, tableVars
    <3> QED
      BY <3>1, <2>f DEF FrameMatch, InWait
  <2>12. ASSUME NEW t \in Threads, NEW o \in Objects, Notify(t, o) \/ NotifyAll(t, o)
         PROVE  FrameMatch(u, p)'
    BY <2>12, <2>s DEF Notify, NotifyAll, InWait, threadVars
  <2>13. ASSUME NEW t \in Threads, NEW v \in Threads, Interrupt(t, v)
         PROVE  FrameMatch(u, p)'
    <3>1. /\ pc[t] = "guest"
          /\ pc'[u] = (IF u = t THEN "interrupting" ELSE pc[u])
          /\ target' = target /\ owner' = owner /\ recursion' = recursion
          /\ held' = held /\ saved' = saved
      BY <2>13, <2>t DEF Interrupt, Guest, TypeOK, tableVars
    <3> QED
      BY <3>1, <2>s DEF InWait
  <2>14. ASSUME NEW t \in Threads,
                RetryCancelled(t) \/ EntryCancelled(t) \/ WaitCancelled(t)
         PROVE  FrameMatch(u, p)'
    BY <2>14, <2>c DEF RetryCancelled, EntryCancelled, WaitCancelled
  <2>15. ASSUME NEW t \in Threads, \/ RetryBlocks(t) \/ Pump(t)
                                   \/ WaitEnds(t) \/ WakeAll(t)
         PROVE  FrameMatch(u, p)'
    <3>1. /\ target' = target /\ owner' = owner /\ recursion' = recursion
          /\ held' = held /\ saved' = saved
          /\ u # t => pc'[u] = pc[u]
          /\ \/ pc[t] = "contended" /\ pc'[t] = "entering"
             \/ pc[t] = "pumping" /\ pc'[t] = "waiting"
             \/ pc[t] = "waiting" /\ pc'[t] = "reacquiring"
             \/ pc[t] = "interrupting" /\ pc'[t] = "guest"
      BY <2>15, <2>t DEF RetryBlocks, Pump, WaitEnds, WakeAll, TypeOK, tableVars
    <3> QED
      BY <3>1, <2>s DEF InWait
  <2>16. ASSUME NEW t \in Threads, \/ Sleep(t) \/ WaitSleeps(t) \/ Park(t)
                                   \/ Dispatch(t) \/ DeadlinePasses(t)
         PROVE  FrameMatch(u, p)'
    BY <2>16, <2>s DEF Sleep, WaitSleeps, Park, Dispatch, DeadlinePasses,
       InWait, tableVars, threadVars
  <2>17. CASE StopAll
    BY <2>17, <2>s DEF StopAll, InWait, tableVars, threadVars
  <2>18. CASE UNCHANGED vars
    BY <2>18, <2>s DEF vars, InWait, tableVars, threadVars
  <2>19. ~Clear
    BY DEF Clear
  <2> QED
    BY <2>1, <2>2, <2>3, <2>4, <2>5, <2>6, <2>7, <2>8, <2>9, <2>10, <2>11,
       <2>12, <2>13, <2>14, <2>15, <2>16, <2>17, <2>18, <2>19
       DEF Next, GuestStep, RuntimeStep
<1> QED
  BY <1>1, <1>3 DEF FramesInv

\* For any number of threads and monitors the frames of every thread and the
\* monitor table agree until shutdown: no wait, retry, timeout, callback or
\* unwinding loses or gains an entry.
THEOREM FramesCorrect == Spec => []FramesMatchTable
<1>1. Init => FramesInv
  BY FramesInit
<1>2. FramesInv /\ [Next]_vars => FramesInv'
  BY FramesNext
<1>3. FramesInv => FramesMatchTable
  BY DEF FramesInv
<1> QED
  BY <1>1, <1>2, <1>3, PTL DEF Spec

\* Two threads are never inside the same monitor.
MutualExclusion ==
  ~cancelled =>
    \A t, u \in Threads, o \in Objects :
      /\ held[t][o] > 0 /\ ~InWait(t, o)
      /\ held[u][o] > 0 /\ ~InWait(u, o)
      => t = u

THEOREM MonitorsExclude == Spec => []MutualExclusion
<1>1. FramesMatchTable => MutualExclusion
  BY DEF FramesMatchTable, MutualExclusion
<1> QED
  BY <1>1, FramesCorrect, PTL
-----------------------------------------------------------------------------
(***************************************************************************)
(* What the queue operators do to a queue in which nobody stands twice.    *)
(***************************************************************************)
Elems(q) == {q[i] : i \in 1..Len(q)}
Distinct(q) == \A i, j \in 1..Len(q) : q[i] = q[j] => i = j

LEMMA WithoutAbsent ==
  ASSUME NEW q, NEW t, t \notin Elems(q)
  PROVE  Without(q, t) = q
BY DEF Without, Elems

\* erase_thread takes out the one occurrence there is and keeps the rest.
LEMMA WithoutDistinct ==
  ASSUME NEW S, NEW q \in Seq(S), NEW t, Distinct(q)
  PROVE  /\ Distinct(Without(q, t))
         /\ Elems(Without(q, t)) = Elems(q) \ {t}
<1>1. CASE t \notin Elems(q)
  BY <1>1, WithoutAbsent
<1>2. CASE t \in Elems(q)
  <2>1. \E i \in 1..Len(q) : q[i] = t
    BY <1>2 DEF Elems
  <2> DEFINE k == CHOOSE i \in 1..Len(q) : q[i] = t
             a == SubSeq(q, 1, k - 1)
             b == SubSeq(q, k + 1, Len(q))
  <2>2. k \in 1..Len(q) /\ q[k] = t /\ Len(q) \in Nat
    BY <2>1, LenProperties
  <2>3. Without(q, t) = a \o b
    BY <2>1 DEF Without
  <2>4. \A i \in 1..Len(q) : q[i] \in S
    BY ElementOfSeq
  <2> HIDE DEF k
  <2>5. /\ a \in Seq(S) /\ Len(a) = k - 1
        /\ \A i \in 1..k - 1 : a[i] = q[i]
    BY <2>2, <2>4
  <2>6. /\ b \in Seq(S) /\ Len(b) = Len(q) - k
        /\ \A i \in 1..Len(q) - k : b[i] = q[k + i]
    BY <2>2, <2>4
  <2>7. /\ Len(a \o b) = Len(q) - 1
        /\ \A i \in 1..Len(q) - 1 : (a \o b)[i] = IF i < k THEN q[i] ELSE q[i + 1]
    <3> HIDE DEF a, b
    <3>1. /\ Len(a \o b) = Len(a) + Len(b)
          /\ \A i \in 1..Len(a) + Len(b) :
               (a \o b)[i] = IF i <= Len(a) THEN a[i] ELSE b[i - Len(a)]
      BY <2>5, <2>6, ConcatProperties
    <3>2. Len(a) + Len(b) = Len(q) - 1
      BY <2>2, <2>5, <2>6
    <3>3. ASSUME NEW i \in 1..Len(q) - 1, i >= k
          PROVE  b[i - Len(a)] = q[i + 1]
      <4>1. i - Len(a) \in 1..Len(q) - k /\ k + (i - Len(a)) = i + 1
        BY <2>2, <2>5, <3>3
      <4> QED
        BY <4>1, <2>6
    <3>4. \A i \in 1..Len(q) - 1 : (i <= Len(a) <=> i < k) /\ (~(i < k) => i >= k)
      BY <2>2, <2>5
    <3> QED
      BY <3>1, <3>2, <3>3, <3>4, <2>5
  <2> HIDE DEF a, b
  <2>8. Distinct(Without(q, t))
    BY <2>2, <2>3, <2>7 DEF Distinct
  <2>9. Elems(Without(q, t)) \subseteq Elems(q) \ {t}
    BY <2>2, <2>3, <2>7 DEF Elems, Distinct
  <2>10. ASSUME NEW i \in 1..Len(q), q[i] # t
         PROVE  q[i] \in Elems(Without(q, t))
    <3>1. CASE i < k
      BY <3>1, <2>2, <2>3, <2>7 DEF Elems
    <3>2. CASE i > k
      <4>1. i - 1 \in 1..Len(q) - 1 /\ ~(i - 1 < k) /\ (i - 1) + 1 = i
        BY <3>2, <2>2
      <4>2. (a \o b)[i - 1] = q[i]
        BY <4>1, <2>7
      <4> QED
        BY <4>1, <4>2, <2>3, <2>7 DEF Elems
    <3> QED
      BY <3>1, <3>2, <2>2, <2>10
  <2> QED
    BY <2>8, <2>9, <2>10 DEF Elems
<1> QED
  BY <1>1, <1>2

\* push_back of a thread that does not stand there yet.
LEMMA AppendDistinct ==
  ASSUME NEW S, NEW q \in Seq(S), NEW t, Distinct(q), t \notin Elems(q)
  PROVE  /\ Distinct(Append(q, t))
         /\ Elems(Append(q, t)) = Elems(q) \cup {t}
<1>1. /\ Len(q) \in Nat /\ Len(Append(q, t)) = Len(q) + 1
      /\ \A i \in 1..Len(q) : Append(q, t)[i] = q[i]
      /\ Append(q, t)[Len(q) + 1] = t
  BY LenProperties
<1>2. \A i \in 1..Len(q) + 1 : i \in 1..Len(q) \/ i = Len(q) + 1
  BY <1>1
<1>3. \A i \in 1..Len(q) : q[i] # t
  BY DEF Elems
<1>4. Distinct(Append(q, t))
  BY <1>1, <1>2, <1>3 DEF Distinct
<1>5. Elems(Append(q, t)) \subseteq Elems(q) \cup {t}
  BY <1>1, <1>2 DEF Elems
<1>6. Elems(q) \cup {t} \subseteq Elems(Append(q, t))
  <2>1. Len(q) + 1 \in 1..Len(Append(q, t)) /\ 1..Len(q) \subseteq 1..Len(Append(q, t))
    BY <1>1
  <2> QED
    BY <1>1, <2>1 DEF Elems
<1> QED
  BY <1>4, <1>5, <1>6

\* enqueue_unique: the queue with t in it, unchanged if it was there.
LEMMA EnqueueDistinct ==
  ASSUME NEW S, NEW q \in Seq(S), NEW t, Distinct(q)
  PROVE  /\ Distinct(EnqueueUnique(q, t))
         /\ Elems(EnqueueUnique(q, t)) = Elems(q) \cup {t}
         /\ t \in Elems(q) => EnqueueUnique(q, t) = q
         /\ t \notin Elems(q) => EnqueueUnique(q, t) = Append(q, t)
<1>1. CASE t \in Elems(q)
  BY <1>1 DEF EnqueueUnique, Elems
<1>2. CASE t \notin Elems(q)
  <2>1. EnqueueUnique(q, t) = Append(q, t)
    BY <1>2 DEF EnqueueUnique, Elems
  <2> QED
    BY <1>2, <2>1, AppendDistinct
<1> QED
  BY <1>1, <1>2

\* pop_front of the head t.
LEMMA TailDistinct ==
  ASSUME NEW S, NEW q \in Seq(S), NEW t, Distinct(q), FirstOf(q) = {t}
  PROVE  /\ Distinct(Tail(q)) /\ t \in Elems(q)
         /\ Elems(Tail(q)) = Elems(q) \ {t}
         /\ Len(Tail(q)) = Len(q) - 1 /\ q[1] = t
         /\ \A i \in 1..Len(q) - 1 : Tail(q)[i] = q[i + 1]
<1>1. q # <<>> /\ Head(q) = t
  BY FirstOfHead
<1>2. /\ Len(q) \in Nat /\ Len(q) > 0 /\ q[1] = t
      /\ Len(Tail(q)) = Len(q) - 1
      /\ \A i \in 1..Len(q) - 1 : Tail(q)[i] = q[i + 1]
  BY <1>1, LenProperties
<1>3. Distinct(Tail(q))
  BY <1>2 DEF Distinct
<1>4. Elems(Tail(q)) \subseteq Elems(q) \ {t}
  BY <1>2 DEF Elems, Distinct
<1>5. ASSUME NEW i \in 1..Len(q), q[i] # t
      PROVE  q[i] \in Elems(Tail(q))
  <2>1. i - 1 \in 1..Len(q) - 1 /\ (i - 1) + 1 = i
    BY <1>2, <1>5
  <2>2. Tail(q)[i - 1] = q[i]
    BY <2>1, <1>2
  <2> QED
    BY <2>1, <2>2, <1>2 DEF Elems
<1>6. t \in Elems(q)
  BY <1>2 DEF Elems
<1>7. Elems(q) \ {t} \subseteq Elems(Tail(q))
  BY <1>5 DEF Elems
<1> QED
  BY <1>2, <1>3, <1>4, <1>6, <1>7

-----------------------------------------------------------------------------
(***************************************************************************)
(* The queues and the threads agree.  While the table is not cancelled the *)
(* queues of a monitor hold exactly the threads that are entering it or    *)
(* waiting on it, and a thread in line does not own it; afterwards the     *)
(* table is empty for good.                                                *)
(***************************************************************************)
InLine(t, o) == pc[t] \in Queued /\ target[t] = o
InSet(t, o) == pc[t] \in {"pumping", "waiting"} /\ target[t] = o

Lined(o) ==
  /\ Distinct(entryQueue[o]) /\ Distinct(waitSet[o])
  /\ \A t \in Threads : /\ t \in Elems(entryQueue[o]) <=> InLine(t, o)
                        /\ t \in Elems(waitSet[o]) <=> InSet(t, o)
                        /\ owner[o] = t => ~InLine(t, o)

Dropped(o) == owner[o] = NoThread /\ entryQueue[o] = <<>> /\ waitSet[o] = <<>>

LineInv ==
  /\ FramesInv
  /\ \A o \in Objects : IF cancelled THEN Dropped(o) ELSE Lined(o)

LEMMA LineInit == Init => LineInv
<1> SUFFICES ASSUME Init, NEW o \in Objects PROVE ~cancelled /\ Lined(o)
  BY FramesInit DEF LineInv
<1>1. entryQueue[o] = <<>> /\ waitSet[o] = <<>>
  BY DEF Init
<1>2. \A t \in Threads : pc[t] = "idle" /\ owner[o] # t
  BY ThreadsAssumption DEF Init
<1>3. ~cancelled
  BY DEF Init
<1>4. Elems(<<>>) = {} /\ Distinct(<<>>)
  BY DEF Elems, Distinct
<1> QED
  BY <1>1, <1>2, <1>3, <1>4 DEF Lined, InLine, InSet, Queued

\* An empty table stays empty.
LEMMA DroppedNext ==
  ASSUME LineInv, [Next]_vars, cancelled, NEW o \in Objects
  PROVE  cancelled' /\ Dropped(o)'
<1>t. TypeOK
  BY DEF LineInv, FramesInv
<1>c. cancelled'
  BY CancelledStays
<1>d. \A p \in Objects : Dropped(p)
  BY DEF LineInv
<1>n. \A t \in Threads, p \in Objects : owner[p] # t
  BY <1>d, ThreadsAssumption DEF Dropped
<1>e. \A t : Without(<<>>, t) = <<>>
  BY DEF Without
<1>1. ASSUME NEW t \in Threads, GuestStep(t) PROVE Dropped(o)'
  <2>1. CASE Finish(t)
    BY <2>1, <1>d, <1>e, <1>n DEF Finish, ReleaseAll, Dropped
  <2>2. CASE Start(t) \/ Yield(t)
    BY <2>2, <1>d DEF Start, Yield, tableVars, Dropped
  <2>3. ASSUME NEW p \in Objects
        PROVE  /\ ~EnterFree(t, p) /\ ~EnterAgain(t, p) /\ ~EnterContended(t, p)
               /\ ~ExitInner(t, p) /\ ~ExitLast(t, p)
               /\ ~Notify(t, p) /\ ~NotifyAll(t, p)
               /\ \A timed \in BOOLEAN : ~Wait(t, p, timed)
    BY <1>n DEF EnterFree, EnterAgain, EnterContended, ExitInner, ExitLast,
       Notify, NotifyAll, Wait
  <2>4. ASSUME NEW p \in Objects, ExitNotOwner(t, p) PROVE Dropped(o)'
    BY <2>4, <1>d DEF ExitNotOwner, tableVars, Dropped
  <2>5. ASSUME NEW u \in Threads, Interrupt(t, u) PROVE Dropped(o)'
    BY <2>5, <1>d DEF Interrupt, tableVars, Dropped
  <2> QED
    BY <1>1, <2>1, <2>2, <2>3, <2>4, <2>5 DEF GuestStep
<1>2. ASSUME NEW t \in Threads, RuntimeStep(t) PROVE Dropped(o)'
  BY <1>2, <1>d DEF RuntimeStep, RetryCancelled, RetryBlocks, EnterBlocked,
     EntryCancelled, Sleep, WaitSleeps, WaitEnds, WaitCancelled, Reacquire,
     WakeAll, Park, tableVars, Dropped
<1>3. ASSUME NEW t \in Threads, \/ Resume(t) \/ Pump(t)
                                \/ Dispatch(t) \/ DeadlinePasses(t)
      PROVE  Dropped(o)'
  BY <1>3, <1>d DEF Resume, Pump, Dispatch, DeadlinePasses, tableVars, Dropped
<1>4. CASE StopAll \/ Clear \/ UNCHANGED vars
  BY <1>4, <1>d DEF StopAll, Clear, vars, tableVars, Dropped
<1> QED
  BY <1>c, <1>1, <1>2, <1>3, <1>4 DEF Next

LEMMA LinedNext ==
  ASSUME LineInv, [Next]_vars, ~cancelled', NEW p \in Objects
  PROVE  Lined(p)'
<1>c. ~cancelled
  BY CancelledStays
<1>t. TypeOK /\ TypeOK'
  BY NextType DEF LineInv, FramesInv
<1>n. NoThread \notin Threads
  BY ThreadsAssumption
<1>l. \A o \in Objects : Lined(o)
  BY <1>c DEF LineInv
<1>f. \A t \in Threads, o \in Objects : FrameMatch(t, o)
  BY <1>c DEF LineInv, FramesInv, FramesMatchTable, FrameMatch
<1>q. \A o \in Objects : entryQueue[o] \in Seq(Threads) /\ waitSet[o] \in Seq(Threads)
  BY <1>t DEF TypeOK
\* A step that leaves the queues of p, its owner and who stands there alone.
<1>s. ASSUME entryQueue'[p] = entryQueue[p], waitSet'[p] = waitSet[p],
             owner'[p] \in {owner[p], NoThread},
             \A t \in Threads : /\ InLine(t, p)' <=> InLine(t, p)
                                /\ InSet(t, p)' <=> InSet(t, p)
      PROVE  Lined(p)'
  BY <1>s, <1>l, <1>n DEF Lined
\* Outside the calls below a thread stands in no queue.
<1>g. ASSUME NEW t \in Threads, pc[t] \in {"idle", "resuming", "guest", "interrupting"},
             NEW o \in Objects
      PROVE  t \notin Elems(entryQueue[o]) /\ t \notin Elems(waitSet[o])
  BY <1>g, <1>l DEF Lined, InLine, InSet, Queued
<1>1. ASSUME NEW t \in Threads,
             \/ Start(t) \/ Yield(t) \/ Resume(t) \/ WakeAll(t)
             \/ \E u \in Threads : Interrupt(t, u)
      PROVE  Lined(p)'
  <2>1. /\ pc[t] \in {"idle", "resuming", "guest", "interrupting"}
        /\ pc'[t] \in {"idle", "resuming", "guest", "interrupting"}
        /\ \A u \in Threads : u # t => pc'[u] = pc[u]
        /\ target' = target /\ owner' = owner /\ entryQueue' = entryQueue
        /\ waitSet' = waitSet
    BY <1>1, <1>t DEF Start, Yield, Resume, WakeAll, Interrupt, Guest, TypeOK, tableVars
  <2> QED
    BY <2>1, <1>s DEF InLine, InSet, Queued
<1>2. ASSUME NEW t \in Threads, Finish(t) PROVE Lined(p)'
  <2>1. /\ pc[t] = "guest" /\ pc'[t] = "idle" /\ target' = target
        /\ \A u \in Threads : u # t => pc'[u] = pc[u]
        /\ owner'[p] \in {owner[p], NoThread}
        /\ entryQueue'[p] = Without(entryQueue[p], t)
        /\ waitSet'[p] = Without(waitSet[p], t)
    BY <1>2, <1>t DEF Finish, ReleaseAll, Guest, TypeOK
  <2>2. entryQueue'[p] = entryQueue[p] /\ waitSet'[p] = waitSet[p]
    BY <2>1, <1>g, WithoutAbsent
  <2> QED
    BY <2>1, <2>2, <1>s DEF InLine, InSet, Queued
<1>3. ASSUME NEW t \in Threads, NEW o \in Objects, EnterFree(t, o)
      PROVE  Lined(p)'
  <2>1. /\ pc[t] = "guest" /\ pc' = pc /\ target' = target /\ waitSet' = waitSet
        /\ owner'[p] = (IF p = o THEN t ELSE owner[p])
        /\ entryQueue'[p] = IF p = o THEN Without(entryQueue[o], t) ELSE entryQueue[p]
    BY <1>3, <1>t DEF EnterFree, Take, Guest, TypeOK, threadVars
  <2>2. entryQueue'[p] = entryQueue[p]
    BY <2>1, <1>g, WithoutAbsent
  <2>3. ~InLine(t, p) /\ \A u \in Threads : /\ InLine(u, p)' <=> InLine(u, p)
                                            /\ InSet(u, p)' <=> InSet(u, p)
    BY <2>1 DEF InLine, InSet, Queued
  <2> QED
    BY <2>1, <2>2, <2>3, <1>l DEF Lined
<1>4. ASSUME NEW t \in Threads, NEW o \in Objects,
             \/ EnterAgain(t, o) \/ ExitInner(t, o) \/ ExitLast(t, o)
             \/ ExitNotOwner(t, o) \/ Notify(t, o) \/ NotifyAll(t, o)
      PROVE  Lined(p)'
  <2>1. /\ pc' = pc /\ target' = target /\ waitSet' = waitSet
        /\ entryQueue' = entryQueue /\ owner'[p] \in {owner[p], NoThread}
    BY <1>4, <1>t DEF EnterAgain, ExitInner, ExitLast, ExitNotOwner, Notify,
       NotifyAll, TypeOK, tableVars, threadVars
  <2> QED
    BY <2>1, <1>s DEF InLine, InSet
<1>5. ASSUME NEW t \in Threads, NEW o \in Objects, EnterContended(t, o)
      PROVE  Lined(p)'
  <2>1. /\ pc[t] = "guest" /\ pc'[t] = "contended" /\ target'[t] = o
        /\ \A u \in Threads : u # t => pc'[u] = pc[u] /\ target'[u] = target[u]
        /\ waitSet' = waitSet /\ owner' = owner /\ owner[o] # t
        /\ entryQueue'[p] = IF p = o THEN EnqueueUnique(entryQueue[o], t)
                                     ELSE entryQueue[p]
    BY <1>5, <1>t DEF EnterContended, Guest, TypeOK
  <2>2. /\ ~InLine(t, p) /\ ~InSet(t, p) /\ ~InSet(t, p)'
        /\ InLine(t, p)' <=> p = o
        /\ \A u \in Threads : u # t => /\ InLine(u, p)' <=> InLine(u, p)
                                       /\ InSet(u, p)' <=> InSet(u, p)
    BY <2>1 DEF InLine, InSet, Queued
  <2>3. CASE p # o
    BY <2>1, <2>2, <2>3, <1>s
  <2>4. CASE p = o
    <3>1. Distinct(entryQueue'[p]) /\ Elems(entryQueue'[p]) = Elems(entryQueue[p]) \cup {t}
      BY <2>1, <2>4, <1>l, <1>q, EnqueueDistinct DEF Lined
    <3> QED
      BY <2>1, <2>2, <2>4, <3>1, <1>l DEF Lined
  <2> QED
    BY <2>3, <2>4
<1>6. ASSUME NEW t \in Threads, RetryBlocks(t) PROVE Lined(p)'
  <2>1. /\ pc[t] = "contended" /\ pc'[t] = "entering" /\ target' = target
        /\ target[t] \in Objects
        /\ \A u \in Threads : u # t => pc'[u] = pc[u]
        /\ waitSet' = waitSet /\ owner' = owner
        /\ entryQueue'[p] = IF p = target[t] THEN EnqueueUnique(entryQueue[p], t)
                                             ELSE entryQueue[p]
    BY <1>6, <1>t DEF RetryBlocks, TypeOK
  <2>2. t \in Elems(entryQueue[target[t]])
    BY <2>1, <1>l DEF Lined, InLine, Queued
  <2>3. entryQueue'[p] = entryQueue[p]
    BY <2>1, <2>2, <1>l, <1>q, EnqueueDistinct DEF Lined
  <2> QED
    BY <2>1, <2>3, <1>s DEF InLine, InSet, Queued
<1>7. ASSUME NEW t \in Threads, EnterBlocked(t) \/ Reacquire(t) PROVE Lined(p)'
  <2>1. /\ pc[t] \in {"entering", "reacquiring"} /\ pc'[t] = "resuming"
        /\ target' = target /\ target[t] \in Objects
        /\ \A u \in Threads : u # t => pc'[u] = pc[u]
        /\ waitSet' = waitSet
        /\ FirstOf(entryQueue[target[t]]) = {t}
        /\ owner'[p] = (IF p = target[t] THEN t ELSE owner[p])
        /\ entryQueue'[p] = IF p = target[t] THEN Tail(entryQueue[p]) ELSE entryQueue[p]
    <3>1. /\ target[t] \in Objects
          /\ owner \in [Objects -> Threads \cup {NoThread}]
          /\ entryQueue \in [Objects -> Seq(Threads)] /\ pc \in [Threads -> PCs]
      BY <1>t DEF TypeOK
    <3>2. CASE EnterBlocked(t)
      BY <3>1, <3>2 DEF EnterBlocked, IsNext
    <3>3. CASE Reacquire(t)
      BY <3>1, <3>3 DEF Reacquire, IsNext
    <3> QED
      BY <1>7, <3>2, <3>3
  <2>2. /\ InLine(t, p) <=> p = target[t]
        /\ ~InLine(t, p)' /\ ~InSet(t, p) /\ ~InSet(t, p)'
        /\ \A u \in Threads : u # t => /\ InLine(u, p)' <=> InLine(u, p)
                                       /\ InSet(u, p)' <=> InSet(u, p)
    BY <2>1 DEF InLine, InSet, Queued
  <2>3. CASE p # target[t]
    BY <2>1, <2>2, <2>3, <1>s
  <2>4. CASE p = target[t]
    <3>1. Distinct(entryQueue'[p]) /\ Elems(entryQueue'[p]) = Elems(entryQueue[p]) \ {t}
      BY <2>1, <2>4, <1>l, <1>q, TailDistinct DEF Lined
    <3> QED
      BY <2>1, <2>2, <2>4, <3>1, <1>l DEF Lined
  <2> QED
    BY <2>3, <2>4
<1>8. ASSUME NEW t \in Threads, NEW o \in Objects, NEW timed \in BOOLEAN,
             Wait(t, o, timed)
      PROVE  Lined(p)'
  <2>1. /\ pc[t] = "guest" /\ pc'[t] \in {"pumping", "waiting"} /\ target'[t] = o
        /\ \A u \in Threads : u # t => pc'[u] = pc[u] /\ target'[u] = target[u]
        /\ entryQueue' = entryQueue /\ owner'[p] \in {owner[p], NoThread}
        /\ waitSet'[p] = IF p = o THEN Append(waitSet[p], t) ELSE waitSet[p]
    BY <1>8, <1>t DEF Wait, WaitFrees, Guest, TypeOK
  <2>2. /\ ~InLine(t, p) /\ ~InLine(t, p)' /\ ~InSet(t, p)
        /\ InSet(t, p)' <=> p = o
        /\ \A u \in Threads : u # t => /\ InLine(u, p)' <=> InLine(u, p)
                                       /\ InSet(u, p)' <=> InSet(u, p)
    BY <2>1 DEF InLine, InSet, Queued
  <2>3. CASE p # o
    BY <2>1, <2>2, <2>3, <1>s
  <2>4. CASE p = o
    <3>1. Distinct(waitSet'[p]) /\ Elems(waitSet'[p]) = Elems(waitSet[p]) \cup {t}
      BY <2>1, <2>4, <1>g, <1>l, <1>q, AppendDistinct DEF Lined
    <3> QED
      BY <2>1, <2>2, <2>4, <3>1, <1>l, <1>n DEF Lined
  <2> QED
    BY <2>3, <2>4
<1>9. ASSUME NEW t \in Threads, WaitEnds(t) PROVE Lined(p)'
  <2>1. /\ pc[t] = "waiting" /\ pc'[t] = "reacquiring" /\ target' = target
        /\ target[t] \in Objects /\ owner' = owner
        /\ \A u \in Threads : u # t => pc'[u] = pc[u]
        /\ waitSet'[p] = (IF p = target[t] THEN Without(waitSet[p], t) ELSE waitSet[p])
        /\ entryQueue'[p] = IF p = target[t] THEN EnqueueUnique(entryQueue[p], t)
                                             ELSE entryQueue[p]
    BY <1>9, <1>t DEF WaitEnds, WithoutNode, TypeOK
  <2>2. /\ ~InLine(t, p) /\ ~InSet(t, p)'
        /\ InLine(t, p)' <=> p = target[t] 
        /\ InSet(t, p) <=> p = target[t]
        /\ \A u \in Threads : u # t => /\ InLine(u, p)' <=> InLine(u, p)
                                       /\ InSet(u, p)' <=> InSet(u, p)
    BY <2>1 DEF InLine, InSet, Queued
  <2>3. CASE p # target[t]
    BY <2>1, <2>2, <2>3, <1>s
  <2>4. CASE p = target[t]
    <3>1. Distinct(waitSet'[p]) /\ Elems(waitSet'[p]) = Elems(waitSet[p]) \ {t}
      BY <2>1, <2>4, <1>l, <1>q, WithoutDistinct DEF Lined
    <3>2. Distinct(entryQueue'[p]) /\ Elems(entryQueue'[p]) = Elems(entryQueue[p]) \cup {t}
      BY <2>1, <2>4, <1>l, <1>q, EnqueueDistinct DEF Lined
    <3>3. owner[p] # t
      BY <2>1, <2>4, <1>f DEF FrameMatch, InWait
    <3> QED
      BY <2>1, <2>2, <2>4, <3>1, <3>2, <3>3, <1>l DEF Lined
  <2> QED
    BY <2>3, <2>4
<1>10. ASSUME NEW t \in Threads, Pump(t) PROVE Lined(p)'
  <2>1. /\ pc[t] = "pumping" /\ pc'[t] = "waiting" /\ target' = target
        /\ \A u \in Threads : u # t => pc'[u] = pc[u]
        /\ waitSet' = waitSet /\ owner' = owner /\ entryQueue' = entryQueue
    BY <1>10, <1>t DEF Pump, TypeOK
  <2> QED
    BY <2>1, <1>s DEF InLine, InSet, Queued
<1>11. ASSUME NEW t \in Threads, \/ Sleep(t) \/ WaitSleeps(t) \/ Park(t)
                                 \/ Dispatch(t) \/ DeadlinePasses(t)
       PROVE  Lined(p)'
  BY <1>11, <1>s DEF Sleep, WaitSleeps, Park, Dispatch, DeadlinePasses,
     InLine, InSet, tableVars, threadVars
<1>12. ASSUME NEW t \in Threads,
              RetryCancelled(t) \/ EntryCancelled(t) \/ WaitCancelled(t)
       PROVE  FALSE
  BY <1>12, <1>c DEF RetryCancelled, EntryCancelled, WaitCancelled
<1>13. CASE StopAll \/ UNCHANGED vars
  BY <1>13, <1>s DEF StopAll, vars, InLine, InSet, tableVars, threadVars
<1>14. ~Clear
  BY DEF Clear
<1> QED
  BY <1>1, <1>2, <1>3, <1>4, <1>5, <1>6, <1>7, <1>8, <1>9, <1>10, <1>11,
     <1>12, <1>13, <1>14 DEF Next, GuestStep, RuntimeStep

LEMMA LineNext ==
  ASSUME LineInv, [Next]_vars
  PROVE  LineInv'
<1>1. FramesInv'
  BY FramesNext DEF LineInv
<1>2. ASSUME NEW o \in Objects, ~cancelled' PROVE Lined(o)'
  BY <1>2, LinedNext
<1>3. ASSUME NEW o \in Objects, cancelled, cancelled' PROVE Dropped(o)'
  BY <1>3, DroppedNext
<1>4. ASSUME NEW o \in Objects, ~cancelled, cancelled' PROVE Dropped(o)'
  <2>1. Clear
    BY <1>4, OnlyClearCancels
  <2> QED
    BY <2>1 DEF Clear, Dropped
<1> QED
  BY <1>1, <1>2, <1>3, <1>4 DEF LineInv

\* For any number of threads and monitors, nobody is left behind in an entry
\* queue and nobody is missing from it, until shutdown drops the table.
THEOREM QueuesCorrect == Spec => []QueuesMatchThreads
<1>1. Init => LineInv
  BY LineInit
<1>2. LineInv /\ [Next]_vars => LineInv'
  BY LineNext
<1>3. LineInv => QueuesMatchThreads
  <2> SUFFICES ASSUME LineInv, ~cancelled, NEW o \in Objects
               PROVE  /\ Entrants(o) = {t \in Threads : pc[t] \in Queued /\ target[t] = o}
                      /\ Distinct(entryQueue[o]) /\ owner[o] \notin Entrants(o)
    BY DEF QueuesMatchThreads, Distinct
  <2>1. Lined(o) /\ Entrants(o) = Elems(entryQueue[o])
    BY DEF LineInv, Entrants, Elems
  <2>2. entryQueue[o] \in Seq(Threads)
    BY DEF LineInv, FramesInv, TypeOK
  <2>3. Elems(entryQueue[o]) \subseteq Threads
    BY <2>2, ElementOfSeq DEF Elems
  <2> QED
    BY <2>1, <2>3 DEF Lined, InLine
<1> QED
  BY <1>1, <1>2, <1>3, PTL DEF Spec

-----------------------------------------------------------------------------
(***************************************************************************)
(* No host thread sleeps through its wake-up.                              *)
(***************************************************************************)

\* What NoSleepThroughWake says of one host thread.
Rested(t) ==
  run[t] = "parked" =>
    /\ pc[t] \in OnMonitor /\ ~cancelled
    /\ pc[t] # "waiting" => ~IsNext(t)
    /\ pc[t] = "waiting" =>
         /\ ~notified[t] /\ deadline[t] # "expired"
         /\ interrupted[t] => \E u \in Threads : pc[u] = "interrupting"

SleepInv == LineInv /\ NoSleepThroughWake

LEMMA SleepInit == Init => SleepInv
BY LineInit DEF SleepInv, Init, NoSleepThroughWake

\* Joining the end of a line makes nobody else its head.
LEMMA EnqueueFirst ==
  ASSUME NEW q \in Seq(Threads), NEW t \in Threads, NEW v, v # t,
         FirstOf(EnqueueUnique(q, t)) = {v}
  PROVE  FirstOf(q) = {v}
<1>1. CASE q = <<>>
  <2>1. EnqueueUnique(q, t) = Append(q, t)
    BY <1>1 DEF EnqueueUnique
  <2>2. Append(q, t) # <<>> /\ Head(Append(q, t)) = t
    BY <1>1
  <2> QED
    BY <2>1, <2>2 DEF FirstOf
<1>2. CASE q # <<>>
  <2>1. Append(q, t) # <<>> /\ Head(Append(q, t)) = Head(q)
    BY <1>2
  <2> QED
    BY <1>2, <2>1 DEF FirstOf, EnqueueUnique
<1> QED
  BY <1>1, <1>2

LEMMA SleepNext ==
  ASSUME SleepInv, [Next]_vars
  PROVE  SleepInv'
<1>1. LineInv'
  BY LineNext DEF SleepInv
<1>2. ASSUME NEW v \in Threads \ Fibers, run'[v] = "parked"
      PROVE  Rested(v)'
  <2>t. TypeOK /\ TypeOK'
    BY NextType DEF SleepInv, LineInv, FramesInv
  <2>r. run[v] = "parked" => Rested(v)
    BY DEF SleepInv, NoSleepThroughWake, Rested
  <2>o. /\ target[v] \in Objects /\ v \in Threads /\ v \notin Fibers
        /\ \A o \in Objects : entryQueue[o] \in Seq(Threads)
    BY <2>t DEF TypeOK
  <2>n. NoThread \notin Threads
    BY ThreadsAssumption
  <2>w. ASSUME NEW os, NEW fs, run' = Woken(os, fs)
        PROVE  run[v] = "parked" /\ target[v] \notin os
    <3>1. Woken(os, fs)[v] = "parked"
      BY <1>2, <2>w
    <3>2. run[v] = "parked" /\ ~(pc[v] \in OnMonitor /\ target[v] \in os)
      BY <3>1, <2>o DEF Woken
    <3> QED
      BY <3>2, <2>r DEF Rested
  \* A step of another thread that leaves v, and what it waits for, alone.
  <2>s. ASSUME /\ run[v] = "parked"
               /\ pc'[v] = pc[v] /\ target'[v] = target[v]
               /\ notified'[v] = notified[v] /\ deadline'[v] = deadline[v]
               /\ interrupted'[v] => interrupted[v]
               /\ cancelled' = cancelled
               /\ \A u \in Threads : pc[u] = "interrupting" => pc'[u] = "interrupting"
               /\ owner'[target[v]] = NoThread /\ FirstOf(entryQueue'[target[v]]) = {v}
                    => owner[target[v]] = NoThread /\ FirstOf(entryQueue[target[v]]) = {v}
        PROVE  Rested(v)'
    BY <2>s, <2>r DEF Rested, IsNext
  <2>1. ASSUME NEW t \in Threads, Start(t) PROVE Rested(v)'
    <3>1. /\ pc[t] = "idle" /\ run'[t] # "parked" /\ pc' = [pc EXCEPT ![t] = "resuming"]
          /\ run' = [run EXCEPT ![t] = IF t \in Fibers THEN "runnable" ELSE "running"]
          /\ interrupted' = [interrupted EXCEPT ![t] = FALSE]
          /\ notified' = notified /\ target' = target /\ deadline' = deadline
          /\ cancelled' = cancelled /\ owner' = owner /\ entryQueue' = entryQueue
      BY <2>1, <2>t DEF Start, TypeOK, tableVars
    <3>2. v # t
      BY <3>1, <1>2
    <3> QED
      BY <3>1, <3>2, <2>s, <2>t, <1>2 DEF TypeOK
  <2>2. ASSUME NEW t \in Threads, Yield(t) PROVE Rested(v)'
    <3>1. /\ pc[t] = "guest" /\ run[t] = "running" /\ pc' = [pc EXCEPT ![t] = "resuming"]
          /\ run' = [run EXCEPT ![t] = IF t \in Fibers THEN "runnable" ELSE @]
          /\ interrupted' = interrupted /\ notified' = notified /\ target' = target
          /\ deadline' = deadline
          /\ cancelled' = cancelled /\ owner' = owner /\ entryQueue' = entryQueue
      BY <2>2 DEF Yield, Guest, OnCpu, tableVars
    <3>2. v # t
      BY <3>1, <2>o, <2>t, <1>2 DEF TypeOK
    <3> QED
      BY <3>1, <3>2, <2>s, <2>t, <1>2 DEF TypeOK
  <2>3. ASSUME NEW t \in Threads, Resume(t) PROVE Rested(v)'
    <3>1. /\ pc[t] = "resuming" /\ run[t] = "running" /\ pc' = [pc EXCEPT ![t] = "guest"]
          /\ run' = run /\ notified' = [notified EXCEPT ![t] = FALSE]
          /\ interrupted' = [interrupted EXCEPT ![t] =
                               IF result[t] = "interrupted" THEN FALSE ELSE @]
          /\ target' = target /\ deadline' = deadline
          /\ cancelled' = cancelled /\ owner' = owner /\ entryQueue' = entryQueue
      BY <2>3 DEF Resume, OnCpu
    <3>2. v # t
      BY <3>1, <1>2
    <3> QED
      BY <3>1, <3>2, <2>s, <2>t, <1>2 DEF TypeOK
  <2>4. ASSUME NEW t \in Threads, Finish(t) PROVE FALSE
    <3>1. /\ pc[t] = "guest" /\ run[t] = "running"
          /\ run' = [ReleaseWakes(t) EXCEPT ![t] = IF t \in Fibers THEN "parked" ELSE @]
      BY <2>4 DEF Finish, Guest, OnCpu
    <3>2. ReleaseWakes(t) \in [Threads -> Runs]
      BY <2>t, WokenType DEF TypeOK, ReleaseWakes
    <3>3. ReleaseWakes(t)[v] = "parked"
      BY <3>1, <3>2, <2>o, <1>2
    <3>4. run[v] = "parked" /\ ~(pc[v] \in OnMonitor /\ target[v] \in Objects)
      BY <3>3, <2>o DEF ReleaseWakes, Woken
    <3> QED
      BY <3>4, <2>o, <2>r DEF Rested
  <2>5. ASSUME NEW t \in Threads, NEW o \in Objects, EnterFree(t, o)
        PROVE  Rested(v)'
    <3>1. /\ owner' = [owner EXCEPT ![o] = t]
          /\ entryQueue' = [entryQueue EXCEPT ![o] = Without(@, t)]
          /\ UNCHANGED <<pc, target, notified, deadline, interrupted, cancelled, run>>
      BY <2>5 DEF EnterFree, Take, threadVars
    <3>2. CASE o = target[v]
      BY <3>1, <3>2, <2>s, <2>o, <2>n, <2>t, <1>2 DEF TypeOK
    <3>3. CASE o # target[v]
      <4>1. owner'[target[v]] = owner[target[v]] /\ entryQueue'[target[v]] = entryQueue[target[v]]
        BY <3>1, <3>3, <2>o, <2>t DEF TypeOK
      <4> QED
        BY <3>1, <4>1, <2>s, <1>2
    <3> QED
      BY <3>2, <3>3
  <2>6. ASSUME NEW t \in Threads, NEW o \in Objects,
               EnterAgain(t, o) \/ ExitInner(t, o) \/ ExitNotOwner(t, o)
        PROVE  Rested(v)'
    BY <2>6, <2>s, <1>2 DEF EnterAgain, ExitInner, ExitNotOwner, tableVars, threadVars
  <2>7. ASSUME NEW t \in Threads, NEW o \in Objects, EnterContended(t, o)
        PROVE  Rested(v)'
    <3>1. /\ pc[t] = "guest" /\ run[t] = "running"
          /\ pc' = [pc EXCEPT ![t] = "contended"] /\ target' = [target EXCEPT ![t] = o]
          /\ entryQueue' = [entryQueue EXCEPT ![o] = EnqueueUnique(@, t)]
          /\ UNCHANGED <<owner, notified, deadline, interrupted, cancelled, run>>
      BY <2>7 DEF EnterContended, Guest, OnCpu
    <3>2. v # t
      BY <3>1, <1>2
    <3>3. FirstOf(entryQueue'[target[v]]) = {v} => FirstOf(entryQueue[target[v]]) = {v}
      <4>1. entryQueue'[target[v]] = IF target[v] = o
                                     THEN EnqueueUnique(entryQueue[target[v]], t)
                                     ELSE entryQueue[target[v]]
        BY <3>1, <2>o, <2>t DEF TypeOK
      <4>2. FirstOf(EnqueueUnique(entryQueue[target[v]], t)) = {v}
              => FirstOf(entryQueue[target[v]]) = {v}
        BY <3>2, <2>o, EnqueueFirst
      <4> QED
        BY <4>1, <4>2
    <3> QED
      BY <3>1, <3>2, <3>3, <2>s, <2>t, <1>2 DEF TypeOK
  <2>8. ASSUME NEW t \in Threads, RetryBlocks(t) PROVE Rested(v)'
    <3>1. /\ pc[t] = "contended" /\ run[t] = "running" /\ target[t] \in Objects
          /\ pc' = [pc EXCEPT ![t] = "entering"] /\ target' = target
          /\ entryQueue' = [entryQueue EXCEPT ![target[t]] = EnqueueUnique(@, t)]
          /\ UNCHANGED <<owner, notified, deadline, interrupted, cancelled, run>>
      BY <2>8, <2>t DEF RetryBlocks, OnCpu, TypeOK
    <3>2. v # t
      BY <3>1, <1>2
    <3>3. FirstOf(entryQueue'[target[v]]) = {v} => FirstOf(entryQueue[target[v]]) = {v}
      <4>1. entryQueue'[target[v]] = IF target[v] = target[t]
                                     THEN EnqueueUnique(entryQueue[target[v]], t)
                                     ELSE entryQueue[target[v]]
        BY <3>1, <2>o, <2>t DEF TypeOK
      <4>2. FirstOf(EnqueueUnique(entryQueue[target[v]], t)) = {v}
              => FirstOf(entryQueue[target[v]]) = {v}
        BY <3>2, <2>o, EnqueueFirst
      <4> QED
        BY <4>1, <4>2
    <3> QED
      BY <3>1, <3>2, <3>3, <2>s, <2>t, <1>2 DEF TypeOK
  <2>9. ASSUME NEW t \in Threads, EnterBlocked(t) \/ Reacquire(t)
        PROVE  Rested(v)'
    <3>1. /\ pc[t] \in {"entering", "reacquiring"} /\ run[t] = "running"
          /\ target[t] \in Objects
          /\ pc' = [pc EXCEPT ![t] = "resuming"] /\ target' = target
          /\ owner' = [owner EXCEPT ![target[t]] = t]
          /\ entryQueue' = [entryQueue EXCEPT ![target[t]] = Tail(@)]
          /\ UNCHANGED <<notified, deadline, interrupted, cancelled, run>>
      BY <2>9, <2>t DEF EnterBlocked, Reacquire, OnCpu, TypeOK
    <3>2. v # t
      BY <3>1, <1>2
    <3>3. CASE target[t] = target[v]
      <4>1. owner'[target[v]] # NoThread
        BY <3>1, <3>3, <2>n, <2>o, <2>t DEF TypeOK
      <4> QED
        BY <3>1, <3>2, <4>1, <2>s, <2>t, <1>2 DEF TypeOK
    <3>4. CASE target[t] # target[v]
      <4>1. owner'[target[v]] = owner[target[v]] /\ entryQueue'[target[v]] = entryQueue[target[v]]
        BY <3>1, <3>4, <2>o, <2>t DEF TypeOK
      <4> QED
        BY <3>1, <3>2, <4>1, <2>s, <2>t, <1>2 DEF TypeOK
    <3> QED
      BY <3>3, <3>4
  <2>10. ASSUME NEW t \in Threads, NEW o \in Objects, ExitLast(t, o)
         PROVE  Rested(v)'
    <3>1. /\ run[v] = "parked" /\ target[v] # o
      BY <2>10, <2>w DEF ExitLast, ExitWakes
    <3>2. /\ owner' = [owner EXCEPT ![o] = NoThread]
          /\ UNCHANGED <<pc, target, notified, deadline, interrupted, cancelled, entryQueue>>
      BY <2>10 DEF ExitLast, threadVars
    <3>3. owner'[target[v]] = owner[target[v]]
      BY <3>1, <3>2, <2>o, <2>t DEF TypeOK
    <3> QED
      BY <3>1, <3>2, <3>3, <2>s
  <2>11. ASSUME NEW t \in Threads, NEW o \in Objects, NEW timed \in BOOLEAN,
                Wait(t, o, timed)
         PROVE  Rested(v)'
    <3>1. /\ run[v] = "parked" /\ target[v] # o
      BY <2>11, <2>w DEF Wait, WaitWakes
    <3>2. /\ pc[t] = "guest" /\ run[t] = "running"
          /\ owner' = [owner EXCEPT ![o] = NoThread]
          /\ pc' = [pc EXCEPT ![t] = IF timed /\ CanvasBridge THEN "pumping" ELSE "waiting"]
          /\ target' = [target EXCEPT ![t] = o]
          /\ notified' = [notified EXCEPT ![t] = FALSE]
          /\ deadline' = [deadline EXCEPT ![t] = IF timed THEN "pending" ELSE "none"]
          /\ UNCHANGED <<interrupted, cancelled, entryQueue>>
      BY <2>11 DEF Wait, WaitFrees, Guest, OnCpu
    <3>3. v # t /\ owner'[target[v]] = owner[target[v]]
      BY <3>1, <3>2, <2>o, <2>t DEF TypeOK
    <3> QED
      BY <3>1, <3>2, <3>3, <2>s, <2>t DEF TypeOK
  <2>12. ASSUME NEW t \in Threads, NEW o \in Objects,
                NotifyFirst(o) \/ NotifyEach(o)
         PROVE  run[v] = "parked" /\ notified'[v] = notified[v]
    <3>e. \A u : u \in Elems(waitSet[o]) /\ u = v => target[v] = o \/ run[v] # "parked"
      <4>1. CASE cancelled
        BY <4>1, <2>r DEF Rested
      <4>2. CASE ~cancelled
        BY <4>2, <2>o DEF SleepInv, LineInv, Lined, InSet
      <4> QED
        BY <4>1, <4>2
    <3>1. CASE NotifyFirst(o)
      <4>1. PICK i \in Unnotified(o) :
              /\ notified' = [notified EXCEPT ![waitSet[o][i]] = TRUE]
              /\ run' = NotifyWakes(o, waitSet[o][i])
        BY <3>1 DEF NotifyFirst
      <4>2. run[v] = "parked" /\ target[v] # o
        BY <4>1, <2>w DEF NotifyWakes
      <4>3. waitSet[o][i] # v
        BY <4>2, <3>e DEF Unnotified, Elems
      <4> QED
        BY <4>1, <4>2, <4>3, <2>o, <2>t DEF TypeOK
    <3>2. CASE NotifyEach(o)
      <4>1. run[v] = "parked" /\ target[v] # o
        BY <3>2, <2>w DEF NotifyEach
      <4>2. v \notin Waiters(o)
        BY <4>1, <3>e DEF Waiters, Elems
      <4>3. notified'[v] = (notified[v] \/ v \in Waiters(o))
        BY <3>2, <2>o DEF NotifyEach
      <4> QED
        BY <4>1, <4>2, <4>3, <2>o, <2>t DEF TypeOK
    <3> QED
      BY <2>12, <3>1, <3>2
  <2>13. ASSUME NEW t \in Threads, NEW o \in Objects, Notify(t, o) \/ NotifyAll(t, o)
         PROVE  Rested(v)'
    <3>1. /\ UNCHANGED <<owner, entryQueue, cancelled, interrupted, pc, target, deadline>>
          /\ NotifyFirst(o) \/ NotifyEach(o)
      BY <2>13 DEF Notify, NotifyAll, threadVars
    <3> QED
      BY <3>1, <2>12, <2>s
  <2>14. ASSUME NEW t \in Threads, Pump(t) PROVE Rested(v)'
    <3>1. /\ pc[t] = "pumping" /\ pc' = [pc EXCEPT ![t] = "waiting"]
          /\ UNCHANGED <<owner, entryQueue, cancelled, interrupted, target, deadline>>
          /\ \/ UNCHANGED <<notified, run>>
             \/ \E o \in Objects : NotifyFirst(o) \/ NotifyEach(o)
      BY <2>14 DEF Pump
    <3>2. run[v] = "parked" /\ notified'[v] = notified[v]
      BY <3>1, <2>12, <1>2
    <3>3. v # t
      BY <3>1, <3>2, <2>r DEF Rested, OnMonitor
    <3> QED
      BY <3>1, <3>2, <3>3, <2>s, <2>t DEF TypeOK
  <2>15. ASSUME NEW t \in Threads, NEW u \in Threads, Interrupt(t, u)
         PROVE  Rested(v)'
    <3>1. /\ run[v] = "parked"
      BY <2>15, <2>w DEF Interrupt
    <3>2. /\ pc[t] = "guest" /\ run[t] = "running" /\ pc' = [pc EXCEPT ![t] = "interrupting"]
          /\ UNCHANGED <<owner, entryQueue, cancelled, notified, target, deadline>>
      BY <2>15 DEF Interrupt, Guest, OnCpu, tableVars
    <3>3. v # t /\ pc'[t] = "interrupting"
      BY <3>1, <3>2, <2>t DEF TypeOK
    <3> QED
      BY <3>1, <3>2, <3>3, <2>r, <2>t DEF Rested, IsNext, TypeOK
  <2>16. ASSUME NEW t \in Threads, WakeAll(t) PROVE FALSE
    BY <2>16, <2>w, <2>o DEF WakeAll, InterruptWakes
  <2>17. ASSUME NEW t \in Threads,
                RetryCancelled(t) \/ EntryCancelled(t) \/ WaitCancelled(t)
         PROVE  Rested(v)'
    <3>1. cancelled /\ run' = run
      BY <2>17 DEF RetryCancelled, EntryCancelled, WaitCancelled
    <3> QED
      BY <3>1, <2>r, <1>2 DEF Rested
  <2>18. ASSUME NEW t \in Threads, Sleep(t) \/ WaitSleeps(t) PROVE Rested(v)'
    <3>1. /\ run' = [run EXCEPT ![t] = IF t \in Fibers THEN "parking" ELSE "parked"]
          /\ UNCHANGED <<owner, entryQueue, cancelled, notified, interrupted, pc, target, deadline>>
      BY <2>18 DEF Sleep, WaitSleeps, tableVars, threadVars
    <3>2. CASE v # t
      BY <3>1, <3>2, <2>s, <2>t, <1>2 DEF TypeOK
    <3>3. CASE v = t
      BY <2>18, <3>1, <3>3 DEF Sleep, WaitSleeps, MayLeave, Rested, IsNext, OnMonitor
    <3> QED
      BY <3>2, <3>3
  <2>19. ASSUME NEW t \in Threads, WaitEnds(t) PROVE Rested(v)'
    <3>1. /\ pc[t] = "waiting" /\ run[t] = "running" /\ target[t] \in Objects
          /\ pc' = [pc EXCEPT ![t] = "reacquiring"] /\ target' = target
          /\ deadline' = [deadline EXCEPT ![t] = "none"]
          /\ entryQueue' = [entryQueue EXCEPT ![target[t]] = EnqueueUnique(@, t)]
          /\ UNCHANGED <<owner, notified, interrupted, cancelled, run>>
      BY <2>19, <2>t DEF WaitEnds, OnCpu, TypeOK
    <3>2. v # t
      BY <3>1, <1>2
    <3>3. FirstOf(entryQueue'[target[v]]) = {v} => FirstOf(entryQueue[target[v]]) = {v}
      <4>1. entryQueue'[target[v]] = IF target[v] = target[t]
                                     THEN EnqueueUnique(entryQueue[target[v]], t)
                                     ELSE entryQueue[target[v]]
        BY <3>1, <2>o, <2>t DEF TypeOK
      <4>2. FirstOf(EnqueueUnique(entryQueue[target[v]], t)) = {v}
              => FirstOf(entryQueue[target[v]]) = {v}
        BY <3>2, <2>o, EnqueueFirst
      <4> QED
        BY <4>1, <4>2
    <3> QED
      BY <3>1, <3>2, <3>3, <2>s, <2>t, <1>2 DEF TypeOK
  <2>20. ASSUME NEW t \in Threads, Park(t) \/ Dispatch(t) PROVE Rested(v)'
    <3>1. /\ t \in Fibers /\ \E r \in Runs : run' = [run EXCEPT ![t] = r]
          /\ UNCHANGED <<owner, entryQueue, cancelled, notified, interrupted, pc, target, deadline>>
      BY <2>20 DEF Park, Dispatch, Runs, tableVars, threadVars
    <3> QED
      BY <3>1, <2>s, <2>o, <2>t, <1>2 DEF TypeOK
  <2>21. ASSUME NEW t \in Threads, DeadlinePasses(t) PROVE Rested(v)'
    <3>1. /\ deadline' = [deadline EXCEPT ![t] = "expired"]
          /\ run' = [run EXCEPT ![t] = IF @ # "parked" THEN @
                      ELSE IF t \in Fibers THEN "runnable" ELSE "running"]
          /\ UNCHANGED <<owner, entryQueue, cancelled, notified, interrupted, pc, target>>
      BY <2>21 DEF DeadlinePasses, tableVars
    <3>2. v # t
      BY <3>1, <2>t, <1>2 DEF TypeOK
    <3> QED
      BY <3>1, <3>2, <2>s, <2>t, <1>2 DEF TypeOK
  <2>22. CASE StopAll
    BY <2>22, <2>w, <2>s DEF StopAll, tableVars, threadVars
  <2>23. ~Clear
    BY <2>w, <2>o DEF Clear, ClearWakes
  <2>24. CASE UNCHANGED vars
    BY <2>24, <2>s, <1>2 DEF vars, tableVars, threadVars
  <2> QED
    BY <2>1, <2>2, <2>3, <2>4, <2>5, <2>6, <2>7, <2>8, <2>9, <2>10, <2>11,
       <2>13, <2>14, <2>15, <2>16, <2>17, <2>18, <2>19, <2>20, <2>21, <2>22,
       <2>23, <2>24 DEF Next, GuestStep, RuntimeStep
<1> QED
  BY <1>1, <1>2 DEF SleepInv, NoSleepThroughWake, Rested, IsNext

\* For any number of threads and monitors, a host thread asleep on a monitor
\* has nothing to do there, or its wake-up is on its way: no release,
\* notification, deadline, interrupt or shutdown comes to nothing.
THEOREM NobodyOversleeps == Spec => []NoSleepThroughWake
<1>1. Init => SleepInv
  BY SleepInit
<1>2. SleepInv /\ [Next]_vars => SleepInv'
  BY SleepNext
<1>3. SleepInv => NoSleepThroughWake
  BY DEF SleepInv
<1> QED
  BY <1>1, <1>2, <1>3, PTL DEF Spec

-----------------------------------------------------------------------------
(***************************************************************************)
(* First come, first served.                                               *)
(***************************************************************************)

\* Those of q that are still in r stand there in the same order.
KeepsOrder(q, r) ==
  \A i, j \in 1..Len(q) : \A k, l \in 1..Len(r) :
    i < j /\ r[k] = q[i] /\ r[l] = q[j] => k < l

LEMMA OrderKept ==
  ASSUME NEW S, NEW q \in Seq(S), Distinct(q)
  PROVE  /\ KeepsOrder(q, q)
         /\ KeepsOrder(q, <<>>)
         /\ \A t : t \notin Elems(q) => KeepsOrder(q, Append(q, t))
         /\ \A t : FirstOf(q) = {t} => KeepsOrder(q, Tail(q))
<1>1. KeepsOrder(q, q) /\ KeepsOrder(q, <<>>)
  BY LenProperties DEF KeepsOrder, Distinct
<1>2. ASSUME NEW t, t \notin Elems(q) PROVE KeepsOrder(q, Append(q, t))
  <2>1. /\ Len(q) \in Nat /\ Len(Append(q, t)) = Len(q) + 1
        /\ \A i \in 1..Len(q) : Append(q, t)[i] = q[i] /\ q[i] # t
        /\ Append(q, t)[Len(q) + 1] = t
    BY <1>2, LenProperties DEF Elems
  <2>2. \A k \in 1..Len(q) + 1 : k \in 1..Len(q) \/ k = Len(q) + 1
    BY <2>1
  <2> QED
    BY <2>1, <2>2 DEF KeepsOrder, Distinct
<1>3. ASSUME NEW t, FirstOf(q) = {t} PROVE KeepsOrder(q, Tail(q))
  <2>1. /\ Len(q) \in Nat /\ Len(Tail(q)) = Len(q) - 1
        /\ \A i \in 1..Len(q) - 1 : Tail(q)[i] = q[i + 1]
    BY <1>3, TailDistinct, LenProperties
  <2>2. ASSUME NEW i \in 1..Len(q), NEW k \in 1..Len(Tail(q)), Tail(q)[k] = q[i]
        PROVE  i = k + 1
    <3>1. k + 1 \in 1..Len(q) /\ q[k + 1] = q[i]
      BY <2>1, <2>2
    <3> QED
      BY <3>1 DEF Distinct
  <2> QED
    BY <2>1, <2>2 DEF KeepsOrder
<1> QED
  BY <1>1, <1>2, <1>3

\* What a step does to one monitor: it leaves its owner and its line, or only
\* frees or keeps the one and lengthens the other, or the head of the line
\* gets it, or a thread finds it free with no one in line.
Handing(o) ==
  \/ entryQueue'[o] = entryQueue[o] /\ owner'[o] \in {owner[o], NoThread}
  \/ /\ owner'[o] = owner[o]
     /\ \E t : t \notin Elems(entryQueue[o]) /\ entryQueue'[o] = Append(entryQueue[o], t)
  \/ /\ FirstOf(entryQueue[o]) = {owner'[o]} /\ entryQueue'[o] = Tail(entryQueue[o])
  \/ entryQueue[o] = <<>> /\ entryQueue'[o] = <<>>
  \/ entryQueue'[o] = <<>> /\ owner'[o] = NoThread

LEMMA HandingNext ==
  ASSUME LineInv, [Next]_vars, NEW p \in Objects
  PROVE  Handing(p)
<1>t. TypeOK /\ \A o \in Objects : entryQueue[o] \in Seq(Threads)
  BY DEF LineInv, FramesInv, TypeOK
<1>d. \A o \in Objects : Distinct(entryQueue[o])
  BY DEF LineInv, Lined, Dropped, Distinct
<1>a. \A o \in Objects : \A t : cancelled => entryQueue[o] = <<>> /\ Without(<<>>, t) = <<>>
  BY DEF LineInv, Dropped, Without
<1>g. ASSUME NEW t \in Threads, pc[t] = "guest", NEW o \in Objects
      PROVE  Without(entryQueue[o], t) = entryQueue[o]
  <2>1. CASE cancelled
    BY <2>1, <1>a
  <2>2. CASE ~cancelled
    <3>1. t \notin Elems(entryQueue[o])
      BY <1>g, <2>2 DEF LineInv, Lined, InLine, Queued
    <3> QED
      BY <3>1, WithoutAbsent
  <2> QED
    BY <2>1, <2>2
<1>q. ASSUME NEW t \in Threads, NEW o \in Objects, owner'[p] = owner[p],
             entryQueue' = [entryQueue EXCEPT ![o] = EnqueueUnique(@, t)]
      PROVE  Handing(p)
  <2>1. entryQueue'[p] = IF p = o THEN EnqueueUnique(entryQueue[p], t) ELSE entryQueue[p]
    BY <1>q, <1>t DEF TypeOK
  <2>2. \/ EnqueueUnique(entryQueue[p], t) = entryQueue[p]
        \/ /\ t \notin Elems(entryQueue[p])
           /\ EnqueueUnique(entryQueue[p], t) = Append(entryQueue[p], t)
    BY <1>t, <1>d, EnqueueDistinct
  <2> QED
    BY <1>q, <2>1, <2>2 DEF Handing
<1>s. ASSUME entryQueue'[p] = entryQueue[p], owner'[p] \in {owner[p], NoThread}
      PROVE  Handing(p)
  BY <1>s DEF Handing
<1>1. ASSUME NEW t \in Threads, Finish(t) PROVE Handing(p)
  BY <1>1, <1>g, <1>s DEF Finish, ReleaseAll, Guest
<1>2. ASSUME NEW t \in Threads, NEW o \in Objects, EnterFree(t, o) PROVE Handing(p)
  <2>1. /\ owner'[p] = (IF p = o THEN t ELSE owner[p]) /\ pc[t] = "guest"
        /\ entryQueue'[p] = (IF p = o THEN Without(entryQueue[p], t) ELSE entryQueue[p])
        /\ FirstOf(entryQueue[o]) \subseteq {t}
    BY <1>2, <1>t DEF EnterFree, Take, CanTake, Guest, TypeOK
  <2>2. CASE p # o
    BY <2>1, <2>2, <1>s
  <2>3. CASE p = o
    <3>1. entryQueue'[p] = entryQueue[p]
      BY <2>1, <1>g
    <3>2. CASE entryQueue[p] = <<>>
      BY <3>1, <3>2 DEF Handing
    <3>3. CASE entryQueue[p] # <<>>
      <4>1. FirstOf(entryQueue[p]) = {t}
        BY <2>1, <2>3, <3>3 DEF FirstOf
      <4>2. t \in Elems(entryQueue[p])
        BY <4>1, <1>t, <1>d, TailDistinct
      <4>3. ~cancelled
        BY <1>2 DEF EnterFree
      <4>4. FALSE
        BY <2>1, <4>2, <4>3 DEF LineInv, Lined, InLine, Queued
      <4> QED
        BY <4>4
    <3> QED
      BY <3>2, <3>3
  <2> QED
    BY <2>2, <2>3
<1>3. ASSUME NEW t \in Threads, EnterBlocked(t) \/ Reacquire(t) PROVE Handing(p)
  <2>1. /\ target[t] \in Objects
        /\ owner' = [owner EXCEPT ![target[t]] = t]
        /\ entryQueue' = [entryQueue EXCEPT ![target[t]] = Tail(@)]
        /\ FirstOf(entryQueue[target[t]]) = {t}
    BY <1>3, <1>t DEF EnterBlocked, Reacquire, IsNext, TypeOK
  <2>2. /\ owner'[p] = (IF p = target[t] THEN t ELSE owner[p])
        /\ entryQueue'[p] = IF p = target[t] THEN Tail(entryQueue[p]) ELSE entryQueue[p]
    BY <2>1, <1>t DEF TypeOK
  <2> QED
    BY <2>1, <2>2 DEF Handing
<1>4. ASSUME NEW t \in Threads, NEW o \in Objects, EnterContended(t, o)
      PROVE  Handing(p)
  BY <1>4, <1>q DEF EnterContended
<1>5. ASSUME NEW t \in Threads, RetryBlocks(t) \/ WaitEnds(t) PROVE Handing(p)
  <2>1. /\ target[t] \in Objects /\ owner' = owner
        /\ entryQueue' = [entryQueue EXCEPT ![target[t]] = EnqueueUnique(@, t)]
    BY <1>5, <1>t DEF RetryBlocks, WaitEnds, TypeOK
  <2> QED
    BY <2>1, <1>q
<1>6. ASSUME NEW t \in Threads, NEW o \in Objects,
             \/ EnterAgain(t, o) \/ ExitInner(t, o) \/ ExitLast(t, o) \/ ExitNotOwner(t, o)
             \/ Notify(t, o) \/ NotifyAll(t, o)
             \/ \E timed \in BOOLEAN : Wait(t, o, timed)
      PROVE  Handing(p)
  <2>1. entryQueue' = entryQueue /\ owner'[p] \in {owner[p], NoThread}
    BY <1>6, <1>t DEF EnterAgain, ExitInner, ExitLast, ExitNotOwner, Notify,
       NotifyAll, Wait, WaitFrees, TypeOK, tableVars
  <2> QED
    BY <2>1, <1>s
<1>7. ASSUME NEW t \in Threads,
             \/ Start(t) \/ Yield(t) \/ (\E u \in Threads : Interrupt(t, u))
             \/ RetryCancelled(t) \/ EntryCancelled(t) \/ Sleep(t) \/ WaitSleeps(t)
             \/ WaitCancelled(t) \/ WakeAll(t) \/ Park(t) \/ Resume(t) \/ Pump(t)
             \/ Dispatch(t) \/ DeadlinePasses(t)
      PROVE  Handing(p)
  BY <1>7, <1>s DEF Start, Yield, Interrupt, RetryCancelled, EntryCancelled, Sleep,
     WaitSleeps, WaitCancelled, WakeAll, Park, Resume, Pump, Dispatch,
     DeadlinePasses, tableVars
<1>8. CASE StopAll \/ UNCHANGED vars
  BY <1>8, <1>s DEF StopAll, vars, tableVars
<1>9. CASE Clear
  BY <1>9 DEF Clear, Handing
<1> QED
  BY <1>1, <1>2, <1>3, <1>4, <1>5, <1>6, <1>7, <1>8, <1>9 DEF Next, GuestStep, RuntimeStep

\* For any number of threads and monitors, a monitor with a line goes to the
\* head of it, and nobody in a line overtakes anybody else.
THEOREM EntryIsFair == Spec => HandedToHead
<1>1. ASSUME LineInv, [Next]_vars, NEW o \in Objects
      PROVE  /\ owner[o] = NoThread /\ owner'[o] # NoThread /\ entryQueue[o] # <<>>
                  => owner'[o] = Head(entryQueue[o])
             /\ KeepsOrder(entryQueue[o], entryQueue'[o])
  <2>1. Handing(o)
    BY <1>1, HandingNext
  <2>2. entryQueue[o] \in Seq(Threads) /\ Distinct(entryQueue[o])
    BY <1>1 DEF LineInv, FramesInv, TypeOK, Lined, Dropped, Distinct
  <2>3. FirstOf(entryQueue[o]) = {owner'[o]} => owner'[o] = Head(entryQueue[o])
    BY <2>2, FirstOfHead
  <2>4. /\ KeepsOrder(entryQueue[o], entryQueue[o])
        /\ KeepsOrder(entryQueue[o], <<>>)
        /\ \A t : t \notin Elems(entryQueue[o])
                    => KeepsOrder(entryQueue[o], Append(entryQueue[o], t))
        /\ FirstOf(entryQueue[o]) = {owner'[o]}
             => KeepsOrder(entryQueue[o], Tail(entryQueue[o]))
    BY <2>2, OrderKept
  <2> QED
    BY <2>1, <2>3, <2>4 DEF Handing
<1>2. Init => LineInv
  BY LineInit
<1>3. LineInv /\ [Next]_vars => LineInv'
  BY LineNext
<1>4. LineInv /\ [Next]_vars =>
        [\A o \in Objects :
           /\ owner[o] = NoThread /\ owner'[o] # NoThread /\ entryQueue[o] # <<>>
                => owner'[o] = Head(entryQueue[o])
           /\ \A i, j \in 1..Len(entryQueue[o]) :
                \A k, l \in 1..Len(entryQueue'[o]) :
                  /\ i < j
                  /\ entryQueue'[o][k] = entryQueue[o][i]
                  /\ entryQueue'[o][l] = entryQueue[o][j]
                  => k < l]_vars
  BY <1>1 DEF KeepsOrder
<1> QED
  BY <1>2, <1>3, <1>4, PTL DEF Spec, HandedToHead

-----------------------------------------------------------------------------
(***************************************************************************)
(* MonitorTable implements ObjectMonitor.  Its lock is the owner, its      *)
(* depth what the frames hold; a thread sleeps between the release and the *)
(* end of its wait.  LineInv gives each step its counterpart: frames and   *)
(* table agree on the depth, and a wait set holds exactly the sleepers.    *)
(***************************************************************************)

\* Outside a wait a thread is active, in it asleep, then on its way back.
LEMMA PhaseOf ==
  ASSUME TypeOK, NEW t \in Threads
  PROVE  /\ Phase[t] = "asleep" <=> pc[t] \in {"pumping", "waiting"}
         /\ Phase[t] = "returning" <=> pc[t] = "reacquiring"
         /\ Phase[t] = "active" <=> pc[t] \notin {"pumping", "waiting", "reacquiring"}
         /\ Signalled[t] = (notified[t] /\ Phase[t] = "asleep")
         /\ Phase = [u \in Threads |-> Phase[u]]
         /\ Signalled = [u \in Threads |-> Signalled[u]]
BY DEF Phase, Signalled

LEMMA PhaseStays ==
  ASSUME \A t \in Threads : \/ pc'[t] = pc[t]
                            \/ {pc[t], pc'[t]} \subseteq {"pumping", "waiting"}
                            \/ {pc[t], pc'[t]} \cap {"pumping", "waiting", "reacquiring"} = {}
  PROVE  Phase' = Phase
<1> SUFFICES ASSUME NEW t \in Threads
             PROVE  (CASE pc'[t] \in {"pumping", "waiting"} -> "asleep"
                       [] pc'[t] = "reacquiring" -> "returning"
                       [] OTHER -> "active")
                      = CASE pc[t] \in {"pumping", "waiting"} -> "asleep"
                          [] pc[t] = "reacquiring" -> "returning"
                          [] OTHER -> "active"
  BY DEF Phase
<1>1. CASE pc'[t] = pc[t]
  BY <1>1
<1>2. CASE {pc[t], pc'[t]} \subseteq {"pumping", "waiting"}
  BY <1>2
<1>3. CASE {pc[t], pc'[t]} \cap {"pumping", "waiting", "reacquiring"} = {}
  BY <1>3
<1> QED
  BY <1>1, <1>2, <1>3

LEMMA SignalledStays ==
  ASSUME Phase' = Phase,
         \A t \in Threads : notified'[t] = notified[t] \/ Phase[t] # "asleep"
  PROVE  Signalled' = Signalled
BY DEF Signalled

\* The steps a Java program does not see.
Stays == UNCHANGED <<owner, held, Phase, Signalled, cancelled>>

LEMMA EnvironmentStep ==
  ASSUME Stays, Abstract!KeepsPlace
  PROVE  Abstract!Next
BY DEF Stays, Abstract!Next, Abstract!Environment

\* The waiting threads, the sleepers of the abstract monitor, and the nodes of
\* the wait set are the same.
LEMMA SleepersOf ==
  ASSUME LineInv, ~cancelled, NEW o \in Objects
  PROVE  /\ \A u \in Threads : u \in Abstract!Sleepers(o)
                                 <=> u \in Elems(waitSet[o]) /\ ~notified[u]
         /\ Elems(waitSet[o]) \subseteq Threads
<1>1. TypeOK /\ Lined(o) /\ waitSet[o] \in Seq(Threads)
  BY DEF LineInv, FramesInv, TypeOK
<1>2. Elems(waitSet[o]) \subseteq Threads
  BY <1>1, ElementOfSeq DEF Elems
<1> QED
  BY <1>1, <1>2, PhaseOf DEF Lined, InSet, Abstract!Sleepers

\* notify_one and notify_all are the two signals.
LEMMA NotifySignals ==
  ASSUME LineInv, ~cancelled, NEW o \in Objects, NotifyFirst(o) \/ NotifyEach(o),
         Phase' = Phase
  PROVE  \E chosen \in {Abstract!Sleepers(o)} \cup {{u} : u \in Abstract!Sleepers(o)} :
           Signalled' = [u \in Threads |-> Signalled[u] \/ u \in chosen]
<1>t. TypeOK /\ notified \in [Threads -> BOOLEAN]
  BY DEF LineInv, FramesInv, TypeOK
<1>e. \A u \in Threads : u \in Elems(waitSet[o]) => Phase[u] = "asleep"
  BY <1>t, PhaseOf DEF LineInv, Lined, InSet
<1>1. CASE NotifyFirst(o)
  <2>1. PICK i \in Unnotified(o) : notified' = [notified EXCEPT ![waitSet[o][i]] = TRUE]
    BY <1>1 DEF NotifyFirst
  <2> DEFINE w == waitSet[o][i]
  <2>2. w \in Elems(waitSet[o]) /\ ~notified[w]
    BY DEF Unnotified, Elems
  <2>3. w \in Abstract!Sleepers(o) /\ w \in Threads
    BY <2>2, SleepersOf
  <2>4. \A u \in Threads : notified'[u] = (u = w \/ notified[u])
    BY <2>1, <1>t, <2>3
  <2>5. Signalled' = [u \in Threads |-> Signalled[u] \/ u \in {w}]
    <3> SUFFICES ASSUME NEW u \in Threads
                 PROVE  (notified'[u] /\ Phase[u] = "asleep")
                          <=> (notified[u] /\ Phase[u] = "asleep") \/ u \in {w}
      BY DEF Signalled
    <3> QED
      BY <2>2, <2>4, <1>e
  <2> QED
    BY <2>3, <2>5
<1>2. CASE NotifyEach(o)
  <2>1. \A u \in Threads : notified'[u] <=> notified[u] \/ u \in Elems(waitSet[o])
    BY <1>2 DEF NotifyEach, Waiters, Elems
  <2>2. Signalled' = [u \in Threads |-> Signalled[u] \/ u \in Abstract!Sleepers(o)]
    <3> SUFFICES ASSUME NEW u \in Threads
                 PROVE  (notified'[u] /\ Phase[u] = "asleep")
                          <=> (notified[u] /\ Phase[u] = "asleep")
                                \/ u \in Abstract!Sleepers(o)
      BY DEF Signalled
    <3> QED
      BY <2>1, <1>e, SleepersOf
  <2> QED
    BY <2>2
<1> QED
  BY <1>1, <1>2

\* A thread that waits stays where it is.
LEMMA PlacesKept ==
  ASSUME TypeOK, [Next]_vars
  PROVE  Abstract!KeepsPlace
<1> SUFFICES ASSUME NEW u \in Threads, Phase[u] # "active" PROVE target'[u] = target[u]
  BY DEF Abstract!KeepsPlace
<1>w. pc[u] # "guest"
  BY PhaseOf
<1>1. ASSUME NEW t \in Threads, NEW o \in Objects, EnterContended(t, o)
      PROVE  target'[u] = target[u]
  BY <1>1, <1>w DEF EnterContended, Guest, TypeOK
<1>2. ASSUME NEW t \in Threads, NEW o \in Objects, NEW timed \in BOOLEAN, Wait(t, o, timed)
      PROVE  target'[u] = target[u]
  BY <1>2, <1>w DEF Wait, Guest, TypeOK
<1>3. ASSUME NEW t \in Threads, NEW o \in Objects,
             \/ EnterFree(t, o) \/ EnterAgain(t, o) \/ ExitInner(t, o) \/ ExitLast(t, o)
             \/ ExitNotOwner(t, o) \/ Notify(t, o) \/ NotifyAll(t, o)
      PROVE  target' = target
  BY <1>3 DEF EnterFree, EnterAgain, ExitInner, ExitLast, ExitNotOwner, Notify,
     NotifyAll, threadVars
<1>4. ASSUME NEW t \in Threads, \/ Start(t) \/ Yield(t) \/ Finish(t) \/ Resume(t) \/ Pump(t)
                                \/ Dispatch(t) \/ DeadlinePasses(t)
                                \/ \E v \in Threads : Interrupt(t, v)
      PROVE  target' = target
  BY <1>4 DEF Start, Yield, Finish, Resume, Pump, Dispatch, DeadlinePasses,
     Interrupt, threadVars
<1>5. ASSUME NEW t \in Threads, RuntimeStep(t) PROVE target' = target
  BY <1>5 DEF RuntimeStep, RetryCancelled, RetryBlocks, EnterBlocked, EntryCancelled,
     Sleep, WaitSleeps, WaitEnds, WaitCancelled, Reacquire, WakeAll, Park, threadVars
<1>6. CASE StopAll \/ Clear \/ UNCHANGED vars
  BY <1>6 DEF StopAll, Clear, vars, threadVars
<1> QED
  BY <1>1, <1>2, <1>3, <1>4, <1>5, <1>6 DEF Next, GuestStep

LEMMA StepImplements ==
  ASSUME LineInv, [Next]_vars
  PROVE  Abstract!Next
<1>t. TypeOK /\ TypeOK'
  BY NextType DEF LineInv, FramesInv
<1>k. Abstract!KeepsPlace
  BY <1>t, PlacesKept
<1>e. Stays => Abstract!Next
  BY <1>k, EnvironmentStep
<1>x. CASE cancelled
  BY <1>x, CancelledStays DEF Abstract!Next, Abstract!Closed
<1>y. CASE Clear
  BY <1>y DEF Clear, Abstract!Next, Abstract!Close
<1>z. CASE ~cancelled /\ ~Clear
  <2>c. ~cancelled /\ cancelled' = cancelled
    BY <1>z, OnlyClearCancels
  <2>f. \A t \in Threads, o \in Objects : FrameMatch(t, o)
    BY <2>c DEF LineInv, FramesInv, FramesMatchTable, FrameMatch
  <2>p. ASSUME NEW t \in Threads
        PROVE  /\ Phase[t] = "asleep" <=> pc[t] \in {"pumping", "waiting"}
               /\ Phase[t] = "returning" <=> pc[t] = "reacquiring"
               /\ Phase[t] = "active" <=> pc[t] \notin {"pumping", "waiting", "reacquiring"}
    BY <1>t, PhaseOf
  \* Stutters.
  <2>1. ASSUME NEW t \in Threads,
               \/ Start(t) \/ Yield(t) \/ WakeAll(t) \/ RetryBlocks(t)
               \/ (\E u \in Threads : Interrupt(t, u))
               \/ \E o \in Objects : EnterContended(t, o)
        PROVE  Stays
    <3>1. /\ {pc[t], pc'[t]} \cap {"pumping", "waiting", "reacquiring"} = {}
          /\ \A u \in Threads : u # t => pc'[u] = pc[u]
          /\ UNCHANGED <<owner, held, notified>>
      BY <2>1, <1>t DEF Start, Yield, WakeAll, RetryBlocks, Interrupt,
         EnterContended, Guest, TypeOK, tableVars
    <3>2. Phase' = Phase
      BY <3>1, PhaseStays
    <3> QED
      BY <3>1, <3>2, <2>c, SignalledStays DEF Stays
  <2>2. ASSUME NEW t \in Threads, Resume(t) PROVE Stays
    <3>1. /\ pc[t] = "resuming" /\ pc'[t] = "guest"
          /\ \A u \in Threads : u # t => pc'[u] = pc[u] /\ notified'[u] = notified[u]
          /\ UNCHANGED <<owner, held>>
      BY <2>2, <1>t DEF Resume, TypeOK
    <3>2. Phase' = Phase
      BY <3>1, PhaseStays
    <3> QED
      BY <3>1, <3>2, <2>c, <2>p, SignalledStays DEF Stays
  <2>3. ASSUME NEW t \in Threads, \/ Sleep(t) \/ WaitSleeps(t) \/ Park(t)
                                  \/ Dispatch(t) \/ DeadlinePasses(t)
        PROVE  Stays
    <3>1. UNCHANGED <<owner, held, notified, pc>>
      BY <2>3 DEF Sleep, WaitSleeps, Park, Dispatch, DeadlinePasses, tableVars, threadVars
    <3> QED
      BY <3>1, <2>c, PhaseStays, SignalledStays DEF Stays
  <2>4. ASSUME StopAll \/ UNCHANGED vars PROVE Stays
    <3>1. UNCHANGED <<owner, held, notified, pc>>
      BY <2>4 DEF StopAll, vars, tableVars, threadVars
    <3> QED
      BY <3>1, <2>c, PhaseStays, SignalledStays DEF Stays
  <2>5. ASSUME NEW t \in Threads,
               RetryCancelled(t) \/ EntryCancelled(t) \/ WaitCancelled(t)
        PROVE  FALSE
    BY <2>5, <2>c DEF RetryCancelled, EntryCancelled, WaitCancelled
  \* Entries and exits.
  <2>6. ASSUME NEW t \in Threads, NEW o \in Objects,
               EnterFree(t, o) \/ EnterAgain(t, o)
        PROVE  Abstract!Next
    <3>1. /\ pc[t] = "guest" /\ owner[o] \in {NoThread, t}
          /\ owner' = [owner EXCEPT ![o] = t]
          /\ held' = [held EXCEPT ![t][o] = @ + 1]
          /\ UNCHANGED <<pc, notified>>
      BY <2>6, <1>t DEF EnterFree, EnterAgain, CanTake, Take, Guest, TypeOK, threadVars
    <3>2. Phase' = Phase /\ Signalled' = Signalled /\ Phase[t] = "active"
      BY <3>1, <2>p, PhaseStays, SignalledStays
    <3>3. Abstract!Acquire(t, o)
      BY <3>1, <3>2, <2>c DEF Abstract!Acquire
    <3> QED
      BY <3>3, <1>k DEF Abstract!Next
  <2>7. ASSUME NEW t \in Threads, EnterBlocked(t) PROVE Abstract!Next
    <3> DEFINE o == target[t]
    <3>1. /\ o \in Objects /\ owner[o] = NoThread
          /\ pc[t] = "entering" /\ pc'[t] = "resuming"
          /\ owner' = [owner EXCEPT ![o] = t]
          /\ held' = [held EXCEPT ![t][o] = @ + 1]
          /\ \A u \in Threads : u # t => pc'[u] = pc[u]
          /\ notified' = notified
      BY <2>7, <1>t DEF EnterBlocked, IsNext, TypeOK
    <3>2. Phase' = Phase /\ Phase[t] = "active"
      BY <3>1, <2>p, PhaseStays
    <3>3. Abstract!Acquire(t, o)
      BY <3>1, <3>2, <2>c, SignalledStays DEF Abstract!Acquire
    <3> QED
      BY <3>1, <3>3, <1>k DEF Abstract!Next
  <2>8. ASSUME NEW t \in Threads, NEW o \in Objects, ExitInner(t, o) \/ ExitLast(t, o)
        PROVE  Abstract!Next
    <3>1. /\ pc[t] = "guest" /\ owner[o] = t
          /\ held' = [held EXCEPT ![t][o] = @ - 1]
          /\ UNCHANGED <<pc, notified>>
          /\ \/ recursion[o] > 1 /\ owner' = owner
             \/ recursion[o] = 1 /\ owner' = [owner EXCEPT ![o] = NoThread]
      BY <2>8 DEF ExitInner, ExitLast, Guest, threadVars
    <3>2. Phase' = Phase /\ Signalled' = Signalled /\ Phase[t] = "active"
      BY <3>1, <2>p, PhaseStays, SignalledStays
    <3>3. held[t][o] = recursion[o]
      BY <3>1, <2>f DEF FrameMatch, InWait
    <3>4. recursion[o] \in Nat
      BY <1>t, MaxRecursionAssumption DEF TypeOK
    <3>5. owner' = [owner EXCEPT ![o] = IF held[t][o] = 1 THEN NoThread ELSE t]
      <4>1. owner \in [Objects -> Threads \cup {NoThread}]
        BY <1>t DEF TypeOK
      <4>2. CASE recursion[o] > 1
        BY <4>1, <4>2, <3>1, <3>3
      <4>3. CASE recursion[o] = 1
        BY <4>3, <3>1, <3>3
      <4> QED
        BY <3>1, <4>2, <4>3
    <3>6. Abstract!Release(t, o)
      BY <3>1, <3>2, <3>5, <2>c DEF Abstract!Release
    <3> QED
      BY <3>6, <1>k DEF Abstract!Next
  <2>9. ASSUME NEW t \in Threads, NEW o \in Objects, ExitNotOwner(t, o)
        PROVE  FALSE
    BY <2>9, <2>f DEF ExitNotOwner, Guest, FrameMatch, InWait
  <2>10. ASSUME NEW t \in Threads, Finish(t) PROVE Abstract!Next
    <3>1. /\ pc[t] = "guest" /\ pc'[t] = "idle" /\ notified' = notified
          /\ \A u \in Threads : u # t => pc'[u] = pc[u]
          /\ owner' = [o \in Objects |-> IF owner[o] = t THEN NoThread ELSE owner[o]]
          /\ held' = [held EXCEPT ![t] = [o \in Objects |-> 0]]
      BY <2>10, <1>t DEF Finish, ReleaseAll, Guest, TypeOK
    <3>2. Phase' = Phase /\ Phase[t] = "active"
      BY <3>1, <2>p, PhaseStays
    <3>3. Abstract!Unwind(t)
      BY <3>1, <3>2, <2>c, SignalledStays DEF Abstract!Unwind
    <3> QED
      BY <3>3, <1>k DEF Abstract!Next
  \* Waits.
  <2>11. ASSUME NEW t \in Threads, NEW o \in Objects, NEW timed \in BOOLEAN,
                Wait(t, o, timed)
         PROVE  Abstract!Next
    <3>1. /\ pc[t] = "guest" /\ pc'[t] \in {"pumping", "waiting"} /\ owner[o] = t
          /\ \A u \in Threads : u # t => pc'[u] = pc[u] /\ notified'[u] = notified[u]
          /\ ~notified'[t] /\ held' = held
          /\ owner' = [owner EXCEPT ![o] = NoThread]
          /\ target' = [target EXCEPT ![t] = o]
      BY <2>11, <1>t DEF Wait, WaitFrees, Guest, TypeOK
    <3>2. Phase' = [Phase EXCEPT ![t] = "asleep"] /\ Phase[t] = "active"
      <4>1. Phase'[t] = "asleep"
        BY <3>1 DEF Phase
      <4>2. \A u \in Threads : u # t => Phase'[u] = Phase[u]
        BY <3>1 DEF Phase
      <4>3. Phase[t] = "active"
        BY <3>1, <2>p
      <4>4. /\ Phase = [u \in Threads |-> Phase[u]]
            /\ Phase' = [u \in Threads |-> Phase'[u]]
        BY DEF Phase
      <4> QED
        BY <4>1, <4>2, <4>3, <4>4
    <3>3. Signalled' = Signalled
      BY <3>1, <3>2 DEF Signalled, Phase
    <3>4. Abstract!Sleep(t, o)
      BY <3>1, <3>2, <3>3, <2>c DEF Abstract!Sleep
    <3> QED
      BY <3>4, <1>k DEF Abstract!Next
  <2>12. ASSUME NEW t \in Threads, WaitEnds(t) PROVE Abstract!Next
    <3>1. /\ pc[t] = "waiting" /\ pc'[t] = "reacquiring"
          /\ \A u \in Threads : u # t => pc'[u] = pc[u]
          /\ UNCHANGED <<owner, held, notified>>
          /\ notified[t] \/ interrupted[t] \/ stopping \/ deadline[t] = "expired"
      BY <2>12, <2>c, <1>t DEF WaitEnds, MayLeave, TypeOK
    <3>2. Phase' = [Phase EXCEPT ![t] = "returning"] /\ Phase[t] = "asleep"
      BY <3>1, <2>p DEF Phase
    <3>3. Signalled' = [Signalled EXCEPT ![t] = FALSE]
      BY <3>1, <3>2 DEF Signalled, Phase
    <3>4. Signalled[t] \/ Alarm[t]
      BY <3>1, <3>2 DEF Signalled, Alarm
    <3>5. Abstract!Wake(t)
      BY <3>1, <3>2, <3>3, <3>4, <2>c DEF Abstract!Wake
    <3> QED
      BY <3>5, <1>k DEF Abstract!Next
  <2>13. ASSUME NEW t \in Threads, Reacquire(t) PROVE Abstract!Next
    <3>1. /\ pc[t] = "reacquiring" /\ pc'[t] = "resuming"
          /\ owner[target[t]] = NoThread
          /\ \A u \in Threads : u # t => pc'[u] = pc[u]
          /\ owner' = [owner EXCEPT ![target[t]] = t]
          /\ UNCHANGED <<held, notified>>
      BY <2>13, <1>t DEF Reacquire, IsNext, TypeOK
    <3>2. Phase' = [Phase EXCEPT ![t] = "active"] /\ Phase[t] = "returning"
      BY <3>1, <2>p DEF Phase
    <3>3. Signalled' = Signalled
      BY <3>1, <3>2 DEF Signalled, Phase
    <3>4. Abstract!Return(t)
      BY <3>1, <3>2, <3>3, <2>c DEF Abstract!Return
    <3> QED
      BY <3>4, <1>k DEF Abstract!Next
  \* Notifications, by the owner or by a callback inside a wait.
  <2>14. ASSUME NEW t \in Threads, NEW o \in Objects, NotifyFirst(o) \/ NotifyEach(o),
                Phase' = Phase, UNCHANGED <<owner, held>>,
                \/ Phase[t] = "active" /\ owner[o] = t
                \/ Phase[t] = "asleep" /\ owner[o] = NoThread
         PROVE  Abstract!Next
    <3>1. Abstract!Signal(t, o)
      BY <2>14, <2>c, NotifySignals DEF Abstract!Signal
    <3> QED
      BY <3>1, <1>k DEF Abstract!Next
  <2>15. ASSUME NEW t \in Threads, NEW o \in Objects, Notify(t, o) \/ NotifyAll(t, o)
         PROVE  Abstract!Next
    <3>1. /\ pc[t] = "guest" /\ owner[o] = t /\ UNCHANGED <<owner, held, pc>>
          /\ NotifyFirst(o) \/ NotifyEach(o)
      BY <2>15 DEF Notify, NotifyAll, Guest, threadVars
    <3>2. Phase' = Phase /\ Phase[t] = "active"
      BY <3>1, <2>p, PhaseStays
    <3> QED
      BY <3>1, <3>2, <2>14
  <2>16. ASSUME NEW t \in Threads, Pump(t) PROVE Abstract!Next
    <3>1. /\ pc[t] = "pumping" /\ pc'[t] = "waiting"
          /\ \A u \in Threads : u # t => pc'[u] = pc[u]
          /\ UNCHANGED <<owner, held>>
          /\ \/ notified' = notified
             \/ \E o \in Objects : /\ owner[o] = NoThread
                                   /\ NotifyFirst(o) \/ NotifyEach(o)
      BY <2>16, <1>t DEF Pump, CanTake, TypeOK
    <3>2. Phase' = Phase /\ Phase[t] = "asleep"
      BY <3>1, <2>p, PhaseStays
    <3>3. CASE notified' = notified
      BY <3>1, <3>2, <3>3, <2>c, <1>e, SignalledStays DEF Stays
    <3> QED
      BY <3>1, <3>2, <3>3, <2>14
  <2> QED
    BY <1>z, <1>e, <2>1, <2>2, <2>3, <2>4, <2>5, <2>6, <2>7, <2>8, <2>9, <2>10,
       <2>11, <2>12, <2>13, <2>15, <2>16 DEF Next, GuestStep, RuntimeStep
<1> QED
  BY <1>x, <1>y, <1>z

\* For any number of threads and monitors, the monitor table is an abstract
\* monitor: a Java program cannot tell it, its queues, its wake-ups and its
\* execution gate from locks that are exclusive and reentrant and waits that
\* give them up whole and end for a cause.
THEOREM MonitorsImplement == Spec => ImplementsObjectMonitor
<1>1. Init => Abstract!Init
  <2> SUFFICES ASSUME Init PROVE Abstract!Init
    OBVIOUS
  <2>1. \A t \in Threads : pc[t] = "idle" /\ notified[t] = FALSE
    BY DEF Init
  <2>2. Phase = [t \in Threads |-> "active"]
    BY <2>1 DEF Phase
  <2>3. Signalled = [t \in Threads |-> FALSE]
    BY <2>1, <2>2 DEF Signalled
  <2>4. Alarm \in [Threads -> BOOLEAN]
    BY DEF Alarm
  <2> QED
    BY <2>2, <2>3, <2>4 DEF Init, Abstract!Init
<1>2. Init => LineInv
  BY LineInit
<1>3. LineInv /\ [Next]_vars => LineInv'
  BY LineNext
<1>4. LineInv /\ [Next]_vars => [Abstract!Next]_(Abstract!vars)
  BY StepImplements
<1> QED
  BY <1>1, <1>2, <1>3, <1>4, PTL DEF Spec, ImplementsObjectMonitor, Abstract!Spec
=============================================================================
