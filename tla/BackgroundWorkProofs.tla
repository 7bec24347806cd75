------------------------ MODULE BackgroundWorkProofs ------------------------
(***************************************************************************)
(* Proofs about ParallelExecutor, WorkCoordinator and JitCache, for any    *)
(* helpers, loops and chunks, any compilers, methods and class files, and  *)
(* any limits.                                                             *)
(***************************************************************************)
EXTENDS BackgroundWork, FiniteSetTheorems, TLAPS

-----------------------------------------------------------------------------
(***************************************************************************)
(* ParallelExecutor.  Of the helpers of a job each has a slot to take, is  *)
(* at it, or has been counted.                                             *)
(***************************************************************************)
CallerPlaces ==
  {"idle", "publish", "begin", "notify", "drain", "task", "await", "resting", "end"}
HelperPlaces == {"none", "check", "asleep", "drain", "task", "done"}
Engaged == {w \in Helpers : phase[w] \in {"drain", "task", "done"}}

ExecutorInv ==
  /\ ExecutorTypeOK
  /\ phase[Caller] \in CallerPlaces
  /\ \A w \in Helpers : phase[w] \in HelperPlaces
  /\ phase[Caller] # "idle" => job.items > 0
  /\ Running => slots + completed + Cardinality(Engaged) = job.helpers
  /\ ~Running => slots = 0 /\ Engaged = {}
  /\ phase[Caller] \in {"await", "resting"} => job.items <= nextItem
  /\ \A a \in Agents : In(a, "task") <=> inHand[a] # {}

\* A thread that is at the items of a job is one of those the call waits for.
Draining == {a \in Agents : phase[a] \in {"drain", "task", "done"}}

LEMMA MachineTypes ==
  ASSUME machine \in Machines
  PROVE  /\ machine.helpers \in 0..MaxHelpers /\ machine.items \in 0..MaxItems
         /\ machine.compilers \subseteq Compilers
         /\ machine.code \subseteq Methods \X Sources
BY MachineAssumption

LEMMA EngagedAreFinite ==
  /\ IsFiniteSet(Helpers) /\ IsFiniteSet(Engaged) /\ Cardinality(Engaged) \in Nat
  /\ Cardinality(Engaged) = 0 <=> Engaged = {}
<1>1. IsFiniteSet(Helpers)
  BY ExecutorAssumption, FS_Interval DEF Helpers
<1>2. Engaged \in SUBSET Helpers
  BY DEF Engaged
<1>3. IsFiniteSet(Engaged)
  BY <1>1, <1>2, FS_Subset
<1>. QED BY <1>1, <1>3, FS_CardinalityType, FS_EmptySet

LEMMA AgentsAre ==
  /\ Caller \in Agents /\ Helpers \subseteq Agents /\ Caller \notin Helpers
  /\ \A a \in Agents : a = Caller \/ a \in Helpers
BY DEF Agents, Helpers, Caller

\* The mapping, with names.
Remaining == IF Running THEN {i \in 0..(MaxItems - 1) : nextItem <= i /\ i < job.items} ELSE {}
LoopStep == [Loop!Next]_(Loop!vars)

LEMMA Stutters ==
  ASSUME Running' = Running, Remaining' = Remaining, inHand' = inHand
  PROVE  LoopStep
BY DEF LoopStep, Remaining, Loop!vars

LEMMA InitIsLoop == Init => ExecutorInv /\ Loop!Init
<1>. SUFFICES ASSUME Init PROVE ExecutorInv /\ Loop!Init
  OBVIOUS
<1>1. machine \in Machines /\ machine.helpers \in Nat
  BY MachineTypes, ExecutorAssumption DEF Init, WorkInit
<1>2. /\ phase = [a \in Agents |-> IF a = Caller THEN "idle" ELSE "none"]
      /\ job = NoJob /\ slots = 0 /\ completed = 0 /\ nextItem = 0 /\ news = {}
      /\ inHand = [a \in Agents |-> {}]
  BY DEF Init, ExecutorInit
<1>3. phase[Caller] = "idle" /\ \A w \in Helpers : phase[w] = "none"
  BY <1>2, AgentsAre
<1>4. ExecutorTypeOK
  BY <1>1, <1>2, ExecutorAssumption DEF ExecutorTypeOK, NoJob
<1>5. ~Running /\ Engaged = {}
  BY <1>3 DEF Running, Engaged
<1>6. \A a \in Agents : In(a, "task") <=> inHand[a] # {}
  BY <1>2 DEF In
<1>7. ExecutorInv
  BY <1>2, <1>3, <1>4, <1>5, <1>6 DEF ExecutorInv, CallerPlaces, HelperPlaces
<1>8. Loop!Init
  BY <1>2, <1>5 DEF Loop!Init
<1>. QED BY <1>7, <1>8

LEMMA SubmitKeeps ==
  ASSUME ExecutorInv, machine \in Machines, machine' = machine, Submit
  PROVE  ExecutorInv' /\ LoopStep
<1>1. PICK n \in 1..machine.items, c \in Chunks, h \in 1..machine.helpers, f \in BOOLEAN :
        /\ job' = [items |-> n, chunk |-> c, helpers |-> h, frame |-> f]
        /\ phase' = [a \in Agents |->
             IF a = Caller THEN "publish"
             ELSE IF a <= h /\ In(a, "none") THEN "check" ELSE phase[a]]
  BY DEF Submit
<1>2. /\ phase[Caller] = "idle"
      /\ UNCHANGED <<slots, completed, nextItem, news, inHand>>
  BY DEF Submit, In
<1>3. /\ phase'[Caller] = "publish"
      /\ \A w \in Helpers : \/ phase'[w] = phase[w]
                            \/ phase[w] = "none" /\ phase'[w] = "check"
  BY <1>1, AgentsAre DEF In
<1>4. ~Running /\ ~Running' /\ Engaged' = Engaged
  BY <1>2, <1>3 DEF Running, Engaged
<1>5. job' \in [items : 0..MaxItems, chunk : Nat \ {0}, helpers : 0..machine.helpers, frame : BOOLEAN]
      /\ job'.items > 0
  BY <1>1, MachineTypes, ExecutorAssumption
<1>6. phase' \in [Agents -> CallerPlaces \cup HelperPlaces]
  <2>1. phase \in [Agents -> CallerPlaces \cup HelperPlaces]
    BY DEF ExecutorInv, ExecutorTypeOK, CallerPlaces, HelperPlaces
  <2>. QED BY <1>1, <2>1 DEF CallerPlaces, HelperPlaces
<1>7. ExecutorTypeOK'
  BY <1>2, <1>5, <1>6 DEF ExecutorInv, ExecutorTypeOK, CallerPlaces, HelperPlaces
<1>8. \A a \in Agents : phase'[a] = "task" <=> inHand'[a] # {}
  BY <1>2, <1>3, AgentsAre DEF ExecutorInv, In
<1>9. ExecutorInv'
  BY <1>2, <1>3, <1>4, <1>5, <1>7, <1>8 DEF ExecutorInv, CallerPlaces, HelperPlaces, In
<1>10. Running' = Running /\ Remaining' = Remaining
  <2>1. Running' = Running
    BY <1>2, <1>3 DEF Running
  <2>. QED BY <1>4, <2>1 DEF Remaining
<1>. QED BY <1>2, <1>9, <1>10, Stutters

LEMMA PublishKeeps ==
  ASSUME ExecutorInv, machine \in Machines, machine' = machine, Publish
  PROVE  ExecutorInv' /\ LoopStep
<1>1. /\ phase[Caller] = "publish" /\ phase' = [phase EXCEPT ![Caller] = "begin"]
      /\ slots' = job.helpers /\ completed' = 0 /\ nextItem' = 0 /\ news' = Created
      /\ UNCHANGED <<job, inHand>>
  BY DEF Publish, Go, In, Counted
<1>2. /\ phase'[Caller] = "begin" /\ \A w \in Helpers : phase'[w] = phase[w]
      /\ phase \in [Agents -> CallerPlaces \cup HelperPlaces]
  BY <1>1, AgentsAre DEF ExecutorInv, ExecutorTypeOK, CallerPlaces, HelperPlaces
<1>3. /\ ~Running /\ Running' /\ Engaged = {} /\ Engaged' = {}
  BY <1>1, <1>2 DEF Running, Engaged, ExecutorInv
<1>4. Cardinality(Engaged') = 0
  BY <1>3, FS_EmptySet
<1>5. /\ job.items \in 1..MaxItems /\ job.helpers \in 0..machine.helpers
      /\ machine.helpers \in Nat
  BY <1>1, MachineTypes, ExecutorAssumption DEF ExecutorInv, ExecutorTypeOK
<1>6. ExecutorTypeOK'
  <2>1. phase' \in [Agents -> CallerPlaces \cup HelperPlaces]
    BY <1>1, <1>2 DEF CallerPlaces
  <2>. QED BY <1>1, <1>5, <2>1 DEF ExecutorInv, ExecutorTypeOK, CallerPlaces, HelperPlaces, Created
<1>7. \A a \in Agents : phase'[a] = "task" <=> inHand'[a] # {}
  BY <1>1, <1>2, AgentsAre DEF ExecutorInv, In
<1>8. ExecutorInv'
  BY <1>1, <1>2, <1>3, <1>4, <1>5, <1>6, <1>7 DEF ExecutorInv, CallerPlaces, In
<1>9. Remaining' = 0..(job.items - 1)
  BY <1>1, <1>3, <1>5, ExecutorAssumption DEF Remaining
<1>10. Loop!Begin
  BY <1>1, <1>3, <1>5, <1>9 DEF Loop!Begin, Remaining
<1>. QED BY <1>8, <1>10 DEF LoopStep, Loop!Next

\* The caller goes on.
LEMMA CallerMoves ==
  ASSUME ExecutorInv, NEW p \in CallerPlaces, phase' = [phase EXCEPT ![Caller] = p]
  PROVE  /\ phase'[Caller] = p /\ \A w \in Helpers : phase'[w] = phase[w]
         /\ phase' \in [Agents -> CallerPlaces \cup HelperPlaces]
         /\ \A w \in Helpers : phase'[w] \in HelperPlaces
         /\ Engaged' = Engaged
<1>1. phase \in [Agents -> CallerPlaces \cup HelperPlaces]
  BY DEF ExecutorInv, ExecutorTypeOK, CallerPlaces, HelperPlaces
<1>2. phase'[Caller] = p /\ \A w \in Helpers : phase'[w] = phase[w]
  BY <1>1, AgentsAre
<1>. QED BY <1>1, <1>2 DEF Engaged, ExecutorInv

LEMMA BeginKeeps ==
  ASSUME ExecutorInv, machine \in Machines, machine' = machine, Begin
  PROVE  ExecutorInv' /\ LoopStep
<1>1. /\ phase[Caller] = "begin" /\ phase' = [phase EXCEPT ![Caller] = "notify"]
      /\ UNCHANGED <<jobVars, inHand>>
  BY DEF Begin, Go, In
<1>2. /\ phase'[Caller] = "notify" /\ \A w \in Helpers : phase'[w] = phase[w]
      /\ phase' \in [Agents -> CallerPlaces \cup HelperPlaces]
      /\ \A w \in Helpers : phase'[w] \in HelperPlaces
      /\ Engaged' = Engaged
  BY <1>1, CallerMoves DEF CallerPlaces
<1>3. Running /\ Running' /\ Running' = Running
  BY <1>1, <1>2 DEF Running
<1>4. ExecutorTypeOK'
  BY <1>1, <1>2 DEF ExecutorInv, ExecutorTypeOK, jobVars, CallerPlaces, HelperPlaces
<1>5. \A a \in Agents : phase'[a] = "task" <=> inHand'[a] # {}
  BY <1>1, <1>2, AgentsAre DEF ExecutorInv, In
<1>6. ExecutorInv'
  BY <1>1, <1>2, <1>3, <1>4, <1>5 DEF ExecutorInv, CallerPlaces, jobVars, In
<1>7. Remaining' = Remaining
  BY <1>1, <1>3 DEF Remaining, jobVars
<1>. QED BY <1>1, <1>3, <1>6, <1>7, Stutters

LEMMA NotifyKeeps ==
  ASSUME ExecutorInv, machine \in Machines, machine' = machine, Notify
  PROVE  ExecutorInv' /\ LoopStep
<1>1. PICK ws \in SUBSET Helpers :
        /\ ws \subseteq Asleep
        /\ phase' = [a \in Agents |->
             IF a = Caller THEN "drain" ELSE IF a \in ws THEN "check" ELSE phase[a]]
  BY DEF Notify, Roused
<1>2. phase[Caller] = "notify" /\ UNCHANGED <<jobVars, inHand>>
  BY DEF Notify, In
<1>3. /\ phase'[Caller] = "drain"
      /\ \A w \in Helpers : \/ phase'[w] = phase[w]
                            \/ phase[w] = "asleep" /\ phase'[w] = "check"
  BY <1>1, AgentsAre DEF Asleep, In
<1>4. phase' \in [Agents -> CallerPlaces \cup HelperPlaces]
  <2>1. phase \in [Agents -> CallerPlaces \cup HelperPlaces]
    BY DEF ExecutorInv, ExecutorTypeOK, CallerPlaces, HelperPlaces
  <2>. QED BY <1>1, <2>1 DEF CallerPlaces, HelperPlaces
<1>5. Running /\ Running' /\ Running' = Running /\ Engaged' = Engaged
  BY <1>2, <1>3 DEF Running, Engaged
<1>6. ExecutorTypeOK'
  BY <1>2, <1>4 DEF ExecutorInv, ExecutorTypeOK, jobVars, CallerPlaces, HelperPlaces
<1>7. \A a \in Agents : phase'[a] = "task" <=> inHand'[a] # {}
  BY <1>2, <1>3, AgentsAre DEF ExecutorInv, In
<1>8. ExecutorInv'
  BY <1>2, <1>3, <1>5, <1>6, <1>7 DEF ExecutorInv, CallerPlaces, HelperPlaces, jobVars, In
<1>9. Remaining' = Remaining
  BY <1>2, <1>5 DEF Remaining, jobVars
<1>. QED BY <1>2, <1>5, <1>8, <1>9, Stutters

\* When all helpers of a job are counted, none of them is at it any more.
LEMMA AwaitKeeps ==
  ASSUME ExecutorInv, machine \in Machines, machine' = machine, Await
  PROVE  ExecutorInv' /\ LoopStep
<1>1. /\ phase[Caller] = "await" /\ Running
      /\ UNCHANGED <<job, completed, nextItem, news, inHand>>
  BY DEF Await, In, Running
<1>2. /\ slots \in Nat /\ completed \in Nat /\ job.helpers \in Nat /\ machine.helpers \in Nat
      /\ slots + completed + Cardinality(Engaged) = job.helpers
  BY <1>1, MachineTypes, ExecutorAssumption DEF ExecutorInv, ExecutorTypeOK
<1>3. CASE AllDone /\ Go(Caller, "end") /\ slots' = 0
  <2>1. slots = 0 /\ Engaged = {}
    BY <1>2, <1>3, EngagedAreFinite DEF AllDone
  <2>2. /\ phase'[Caller] = "end" /\ \A w \in Helpers : phase'[w] = phase[w]
        /\ phase' \in [Agents -> CallerPlaces \cup HelperPlaces]
        /\ \A w \in Helpers : phase'[w] \in HelperPlaces
        /\ Engaged' = Engaged
    BY <1>3, CallerMoves DEF CallerPlaces, Go
  <2>3. ~Running'
    BY <2>2 DEF Running
  <2>4. ExecutorTypeOK'
    BY <1>1, <1>3, <2>1, <2>2 DEF ExecutorInv, ExecutorTypeOK, CallerPlaces, HelperPlaces
  <2>5. \A a \in Agents : phase'[a] = "task" <=> inHand'[a] # {}
    BY <1>1, <2>2, AgentsAre DEF ExecutorInv, In
  <2>6. ExecutorInv'
    BY <1>1, <1>3, <2>1, <2>2, <2>3, <2>4, <2>5 DEF ExecutorInv, CallerPlaces, In
  <2>7. Remaining = {} /\ Remaining' = {}
    <3>1. job.items <= nextItem /\ job.items \in Nat /\ nextItem \in Nat
      BY <1>1, ExecutorAssumption DEF ExecutorInv, ExecutorTypeOK
    <3>. QED BY <3>1, <2>3, ExecutorAssumption DEF Remaining
  <2>8. \A a \in Agents : inHand[a] = {}
    BY <1>1, <2>1, AgentsAre DEF ExecutorInv, In, Engaged
  <2>9. Loop!Return
    BY <1>1, <2>3, <2>7, <2>8 DEF Loop!Return, Remaining
  <2>. QED BY <2>6, <2>9 DEF LoopStep, Loop!Next
<1>4. CASE Go(Caller, "resting") /\ UNCHANGED slots
  <2>1. /\ phase'[Caller] = "resting" /\ \A w \in Helpers : phase'[w] = phase[w]
        /\ phase' \in [Agents -> CallerPlaces \cup HelperPlaces]
        /\ \A w \in Helpers : phase'[w] \in HelperPlaces
        /\ Engaged' = Engaged
    BY <1>4, CallerMoves DEF CallerPlaces, Go
  <2>2. Running' /\ Running' = Running
    BY <1>1, <2>1 DEF Running
  <2>3. ExecutorTypeOK'
    BY <1>1, <1>4, <2>1 DEF ExecutorInv, ExecutorTypeOK, CallerPlaces, HelperPlaces
  <2>4. \A a \in Agents : phase'[a] = "task" <=> inHand'[a] # {}
    BY <1>1, <2>1, AgentsAre DEF ExecutorInv, In
  <2>5. ExecutorInv'
    BY <1>1, <1>4, <2>1, <2>2, <2>3, <2>4 DEF ExecutorInv, CallerPlaces, In
  <2>6. Remaining' = Remaining
    BY <1>1, <2>2 DEF Remaining
  <2>. QED BY <1>1, <2>2, <2>5, <2>6, Stutters
<1>. QED BY <1>3, <1>4 DEF Await

LEMMA EndKeeps ==
  ASSUME ExecutorInv, machine \in Machines, machine' = machine, End
  PROVE  ExecutorInv' /\ LoopStep
<1>1. /\ phase[Caller] = "end" /\ phase' = [phase EXCEPT ![Caller] = "idle"] /\ job' = NoJob
      /\ UNCHANGED <<slots, completed, nextItem, news, inHand>>
  BY DEF End, Go, In
<1>2. /\ phase'[Caller] = "idle" /\ \A w \in Helpers : phase'[w] = phase[w]
      /\ phase' \in [Agents -> CallerPlaces \cup HelperPlaces]
      /\ \A w \in Helpers : phase'[w] \in HelperPlaces
      /\ Engaged' = Engaged
  BY <1>1, CallerMoves DEF CallerPlaces
<1>3. ~Running /\ ~Running' /\ Running' = Running
  BY <1>1, <1>2 DEF Running
<1>4. ExecutorTypeOK'
  <2>1. machine.helpers \in Nat
    BY MachineTypes, ExecutorAssumption
  <2>2. NoJob \in [items : 0..MaxItems, chunk : Nat \ {0}, helpers : 0..machine.helpers, frame : BOOLEAN]
    BY <2>1, ExecutorAssumption DEF NoJob
  <2>. QED BY <1>1, <1>2, <2>2 DEF ExecutorInv, ExecutorTypeOK, CallerPlaces, HelperPlaces
<1>5. \A a \in Agents : phase'[a] = "task" <=> inHand'[a] # {}
  BY <1>1, <1>2, AgentsAre DEF ExecutorInv, In
<1>6. ExecutorInv'
  BY <1>1, <1>2, <1>3, <1>4, <1>5 DEF ExecutorInv, CallerPlaces, In
<1>7. Remaining' = Remaining
  BY <1>3 DEF Remaining
<1>. QED BY <1>1, <1>3, <1>6, <1>7, Stutters

\* Whoever is at the items of a job is at those of one that is running.
LEMMA DrainingRuns ==
  ASSUME ExecutorInv, NEW a \in Agents, phase[a] \in {"drain", "task"}
  PROVE  Running
<1>1. CASE a = Caller
  BY <1>1 DEF Running
<1>2. CASE a \in Helpers
  BY <1>2 DEF ExecutorInv, Engaged
<1>. QED BY <1>1, <1>2, AgentsAre

\* A thread that is at the items goes on to another place among them, or is done.
LEMMA DrainMoves ==
  ASSUME ExecutorInv, NEW a \in Agents, phase[a] \in {"drain", "task"},
         NEW p \in {"drain", "task", "await", "done"},
         p = "await" => a = Caller, p = "done" => a \in Helpers,
         phase' = [phase EXCEPT ![a] = p]
  PROVE  /\ phase'[a] = p /\ \A b \in Agents \ {a} : phase'[b] = phase[b]
         /\ phase' \in [Agents -> CallerPlaces \cup HelperPlaces]
         /\ phase'[Caller] \in CallerPlaces /\ \A w \in Helpers : phase'[w] \in HelperPlaces
         /\ Engaged' = Engaged /\ Running' = Running
<1>1. phase \in [Agents -> CallerPlaces \cup HelperPlaces]
  BY DEF ExecutorInv, ExecutorTypeOK, CallerPlaces, HelperPlaces
<1>2. phase'[a] = p /\ \A b \in Agents \ {a} : phase'[b] = phase[b]
  BY <1>1
<1>3. phase' \in [Agents -> CallerPlaces \cup HelperPlaces]
  BY <1>1 DEF CallerPlaces, HelperPlaces
<1>4. phase'[Caller] \in CallerPlaces /\ \A w \in Helpers : phase'[w] \in HelperPlaces
  BY <1>2, AgentsAre DEF ExecutorInv, CallerPlaces, HelperPlaces
<1>5. Engaged' = Engaged
  BY <1>2, AgentsAre DEF Engaged
<1>6. Running' = Running
  BY <1>2, AgentsAre DEF Running
<1>. QED BY <1>2, <1>3, <1>4, <1>5, <1>6

LEMMA TakeItemsKeeps ==
  ASSUME ExecutorInv, machine \in Machines, machine' = machine, NEW a \in Agents, TakeItems(a)
  PROVE  ExecutorInv' /\ LoopStep
<1>1. PICK part : part = nextItem .. (Least(nextItem + job.chunk, job.items) - 1)
  OBVIOUS
<1>2. PICK p : p = IF nextItem < job.items THEN "task" ELSE IF a = Caller THEN "await" ELSE "done"
  OBVIOUS
<1>3. /\ phase[a] = "drain" /\ nextItem' = nextItem + job.chunk
      /\ inHand' = [inHand EXCEPT ![a] = part] /\ phase' = [phase EXCEPT ![a] = p]
      /\ UNCHANGED <<job, slots, completed, news>>
  BY <1>1, <1>2 DEF TakeItems, In, Go
<1>4. /\ phase'[a] = p /\ \A b \in Agents \ {a} : phase'[b] = phase[b]
      /\ phase' \in [Agents -> CallerPlaces \cup HelperPlaces]
      /\ phase'[Caller] \in CallerPlaces /\ \A w \in Helpers : phase'[w] \in HelperPlaces
      /\ Engaged' = Engaged /\ Running' = Running
  BY <1>2, <1>3, AgentsAre, DrainMoves
<1>5. Running /\ Running'
  BY <1>3, <1>4, DrainingRuns
<1>6. /\ job.items \in 0..MaxItems /\ job.chunk \in Nat \ {0} /\ nextItem \in Nat
      /\ inHand \in [Agents -> SUBSET (0..(MaxItems - 1))]
      /\ MaxItems \in Nat
  BY ExecutorAssumption DEF ExecutorInv, ExecutorTypeOK
<1>7. inHand[a] = {}
  BY <1>3 DEF ExecutorInv, In
<1>8. part \subseteq 0..(MaxItems - 1) /\ part \subseteq nextItem..(job.items - 1)
  BY <1>1, <1>6 DEF Least
<1>9. part # {} <=> nextItem < job.items
  <2>1. CASE nextItem < job.items
    <3>1. nextItem \in part
      BY <1>1, <1>6, <2>1 DEF Least
    <3>. QED BY <2>1, <3>1
  <2>2. CASE ~(nextItem < job.items)
    <3>1. nextItem..(job.items - 1) = {}
      BY <1>6, <2>2
    <3>. QED BY <1>8, <2>2, <3>1
  <2>. QED BY <2>1, <2>2
<1>10. inHand' \in [Agents -> SUBSET (0..(MaxItems - 1))] /\ inHand'[a] = part
       /\ \A b \in Agents \ {a} : inHand'[b] = inHand[b]
  BY <1>3, <1>6, <1>8
<1>11. ExecutorTypeOK'
  <2>1. nextItem' \in Nat
    BY <1>3, <1>6
  <2>. QED BY <1>3, <1>4, <1>10, <2>1 DEF ExecutorInv, ExecutorTypeOK, CallerPlaces, HelperPlaces
<1>12. \A b \in Agents : phase'[b] = "task" <=> inHand'[b] # {}
  <2>1. p = "task" <=> part # {}
    BY <1>2, <1>9
  <2>2. ASSUME NEW b \in Agents \ {a} PROVE phase'[b] = "task" <=> inHand'[b] # {}
    BY <1>4, <1>10 DEF ExecutorInv, In
  <2>. QED BY <1>4, <1>10, <2>1, <2>2
<1>13. phase'[Caller] # "idle" => job'.items > 0
  BY <1>3, <1>5, <1>6 DEF ExecutorInv, Running
<1>14. phase'[Caller] \in {"await", "resting"} => job'.items <= nextItem'
  <2>1. CASE a = Caller
    <3>1. phase'[Caller] = "await" => job.items <= nextItem
      BY <1>2, <1>4, <1>6, <2>1
    <3>2. phase'[Caller] # "resting"
      BY <1>2, <1>4, <2>1
    <3>. QED BY <1>3, <1>6, <3>1, <3>2
  <2>2. CASE a # Caller
    <3>1. phase'[Caller] = phase[Caller]
      BY <1>4, <2>2, AgentsAre
    <3>. QED BY <1>3, <1>6, <3>1 DEF ExecutorInv
  <2>. QED BY <2>1, <2>2
<1>15. ExecutorInv'
  BY <1>3, <1>4, <1>5, <1>11, <1>12, <1>13, <1>14 DEF ExecutorInv, In
<1>16. CASE part # {}
  <2>1. Remaining = {i \in 0..(MaxItems - 1) : nextItem <= i /\ i < job.items}
        /\ Remaining' = {i \in 0..(MaxItems - 1) : nextItem' <= i /\ i < job.items}
    BY <1>3, <1>5 DEF Remaining
  <2>2. part \subseteq Remaining
    BY <1>6, <1>8, <2>1
  <2>3. Remaining' = Remaining \ part
    <3>1. \A i \in 0..(MaxItems - 1) :
            nextItem + job.chunk <= i /\ i < job.items <=>
              nextItem <= i /\ i < job.items /\ i \notin part
      BY <1>1, <1>6 DEF Least
    <3>. QED BY <1>3, <2>1, <3>1
  <2>4. \E some \in (SUBSET Remaining) \ {{}} :
          inHand' = [inHand EXCEPT ![a] = some] /\ Remaining' = Remaining \ some
    <3>1. part \in (SUBSET Remaining) \ {{}}
      BY <1>16, <2>2
    <3>. QED BY <1>3, <2>3, <3>1, Zenon
  <2>5. Loop!Take(a)
    BY <1>4, <1>7, <2>4 DEF Loop!Take, Remaining
  <2>. QED BY <1>15, <2>5 DEF LoopStep, Loop!Next
<1>17. CASE part = {}
  <2>1. inHand' = inHand
    BY <1>3, <1>6, <1>7, <1>17
  <2>2. ~(nextItem < job.items)
    BY <1>9, <1>17
  <2>3. Remaining' = Remaining
    BY <1>3, <1>5, <1>6, <2>2 DEF Remaining
  <2>. QED BY <1>4, <1>15, <2>1, <2>3, Stutters
<1>. QED BY <1>16, <1>17

LEMMA TaskReturnsKeeps ==
  ASSUME ExecutorInv, machine \in Machines, machine' = machine, NEW a \in Agents, TaskReturns(a)
  PROVE  ExecutorInv' /\ LoopStep
<1>1. /\ phase[a] = "task" /\ phase' = [phase EXCEPT ![a] = "drain"]
      /\ inHand' = [inHand EXCEPT ![a] = {}] /\ UNCHANGED jobVars
  BY DEF TaskReturns, In, Go
<1>2. /\ phase'[a] = "drain" /\ \A b \in Agents \ {a} : phase'[b] = phase[b]
      /\ phase' \in [Agents -> CallerPlaces \cup HelperPlaces]
      /\ phase'[Caller] \in CallerPlaces /\ \A w \in Helpers : phase'[w] \in HelperPlaces
      /\ Engaged' = Engaged /\ Running' = Running
  BY <1>1, DrainMoves
<1>3. Running /\ Running'
  BY <1>1, <1>2, DrainingRuns
<1>4. /\ inHand' \in [Agents -> SUBSET (0..(MaxItems - 1))] /\ inHand'[a] = {}
      /\ \A b \in Agents \ {a} : inHand'[b] = inHand[b]
  BY <1>1 DEF ExecutorInv, ExecutorTypeOK
<1>5. ExecutorTypeOK'
  BY <1>1, <1>2, <1>4 DEF ExecutorInv, ExecutorTypeOK, jobVars, CallerPlaces, HelperPlaces
<1>6. \A b \in Agents : phase'[b] = "task" <=> inHand'[b] # {}
  BY <1>2, <1>4 DEF ExecutorInv, In
<1>7. phase'[Caller] = phase[Caller] \/ (phase[Caller] = "task" /\ phase'[Caller] = "drain")
  BY <1>1, <1>2, AgentsAre
<1>8. ExecutorInv'
  BY <1>1, <1>2, <1>3, <1>5, <1>6, <1>7 DEF ExecutorInv, In, jobVars
<1>9. Remaining' = Remaining
  BY <1>1, <1>3 DEF Remaining, jobVars
<1>10. inHand[a] # {}
  BY <1>1 DEF ExecutorInv, In
<1>11. Loop!Finish(a)
  BY <1>1, <1>2, <1>9, <1>10 DEF Loop!Finish, Remaining
<1>. QED BY <1>8, <1>11 DEF LoopStep, Loop!Next

LEMMA CheckNewsKeeps ==
  ASSUME ExecutorInv, machine \in Machines, machine' = machine, NEW w \in Helpers, CheckNews(w)
  PROVE  ExecutorInv' /\ LoopStep
<1>1. /\ phase[w] = "check" /\ UNCHANGED <<job, completed, nextItem, inHand>>
      /\ news' \subseteq Helpers
  BY DEF CheckNews, In, ExecutorInv, ExecutorTypeOK
<1>2. PICK p \in {"check", "asleep", "drain"} :
        /\ phase' = [phase EXCEPT ![w] = p]
        /\ IF p = "drain" THEN slots # 0 /\ slots' = slots - 1 ELSE slots' = slots
  <2>1. phase = [phase EXCEPT ![w] = "check"]
    BY <1>1 DEF ExecutorInv, ExecutorTypeOK
  <2>2. CASE Go(w, "asleep") /\ UNCHANGED slots
    BY <2>2 DEF Go
  <2>3. CASE Admitted /\ Go(w, "drain") /\ slots' = slots - 1
    BY <2>3 DEF Go, Admitted
  <2>4. CASE UNCHANGED <<phase, slots>>
    BY <2>1, <2>4
  <2>. QED BY <2>2, <2>3, <2>4 DEF CheckNews
<1>3. phase \in [Agents -> CallerPlaces \cup HelperPlaces] /\ w \in Agents /\ w # Caller
  BY AgentsAre DEF ExecutorInv, ExecutorTypeOK, CallerPlaces, HelperPlaces
<1>4. phase'[w] = p /\ \A b \in Agents \ {w} : phase'[b] = phase[b]
  BY <1>2, <1>3
<1>5. phase'[Caller] = phase[Caller] /\ Running' = Running
  BY <1>3, <1>4, AgentsAre DEF Running
<1>6. phase' \in [Agents -> CallerPlaces \cup HelperPlaces]
      /\ \A u \in Helpers : phase'[u] \in HelperPlaces
  <2>1. p \in HelperPlaces
    BY DEF HelperPlaces
  <2>2. \A u \in Helpers : phase'[u] = p \/ phase'[u] = phase[u]
    BY <1>4, AgentsAre
  <2>. QED BY <1>2, <1>3, <2>1, <2>2 DEF ExecutorInv
<1>7. slots \in 0..machine.helpers /\ machine.helpers \in Nat
  BY MachineTypes, ExecutorAssumption DEF ExecutorInv, ExecutorTypeOK
<1>8. slots' \in 0..machine.helpers
  BY <1>2, <1>7
<1>9. ExecutorTypeOK'
  BY <1>1, <1>6, <1>8 DEF ExecutorInv, ExecutorTypeOK, CallerPlaces, HelperPlaces
<1>10. \A b \in Agents : phase'[b] = "task" <=> inHand'[b] # {}
  BY <1>1, <1>4 DEF ExecutorInv, In
<1>11. w \notin Engaged
  BY <1>1 DEF Engaged
<1>12. CASE p # "drain"
  <2>1. Engaged' = Engaged
    BY <1>3, <1>4, <1>11, <1>12, AgentsAre DEF Engaged
  <2>2. ExecutorInv'
    BY <1>1, <1>2, <1>5, <1>6, <1>9, <1>10, <1>12, <2>1 DEF ExecutorInv, In
  <2>. QED BY <1>1, <1>5, <2>2, Stutters DEF Remaining
<1>13. CASE p = "drain"
  <2>1. Engaged' = Engaged \cup {w}
    BY <1>3, <1>4, <1>13, AgentsAre DEF Engaged
  <2>2. Cardinality(Engaged') = Cardinality(Engaged) + 1
    BY <1>11, <2>1, EngagedAreFinite, FS_AddElement
  <2>3. Running /\ Running'
    BY <1>2, <1>5, <1>13 DEF ExecutorInv
  <2>4. slots' + completed' + Cardinality(Engaged') = job'.helpers
    <3>1. completed \in Nat
      BY <1>7 DEF ExecutorInv, ExecutorTypeOK
    <3>. QED BY <1>1, <1>2, <1>7, <1>13, <2>2, <2>3, <3>1, EngagedAreFinite DEF ExecutorInv
  <2>5. ExecutorInv'
    BY <1>1, <1>5, <1>6, <1>9, <1>10, <2>3, <2>4 DEF ExecutorInv, In
  <2>. QED BY <1>1, <1>5, <2>5, Stutters DEF Remaining
<1>. QED BY <1>12, <1>13

LEMMA DoneKeeps ==
  ASSUME ExecutorInv, machine \in Machines, machine' = machine, NEW w \in Helpers, Done(w)
  PROVE  ExecutorInv' /\ LoopStep
<1>1. phase \in [Agents -> CallerPlaces \cup HelperPlaces] /\ w \in Agents /\ w # Caller
  BY AgentsAre DEF ExecutorInv, ExecutorTypeOK, CallerPlaces, HelperPlaces
<1>2. PICK p : p = IF phase[Caller] = "resting" /\ completed' = job.helpers THEN "await"
                   ELSE phase[Caller]
  OBVIOUS
<1>3. /\ phase[w] = "done" /\ completed' = completed + 1
      /\ phase' = [phase EXCEPT ![w] = "check", ![Caller] = p]
      /\ UNCHANGED <<job, slots, nextItem, news, inHand>>
  BY <1>1, <1>2 DEF Done, In
<1>4. p \in CallerPlaces /\ (p = phase[Caller] \/ (phase[Caller] = "resting" /\ p = "await"))
  BY <1>2 DEF ExecutorInv, CallerPlaces
<1>5. /\ phase'[w] = "check" /\ phase'[Caller] = p
      /\ \A b \in Agents \ {w, Caller} : phase'[b] = phase[b]
  BY <1>1, <1>3, AgentsAre
<1>6. Running' = Running
  BY <1>4, <1>5 DEF Running
<1>7. w \in Engaged /\ Running
  BY <1>3 DEF Engaged, ExecutorInv
<1>8. Engaged' = Engaged \ {w}
  BY <1>1, <1>5, AgentsAre DEF Engaged
<1>9. Cardinality(Engaged') = Cardinality(Engaged) - 1 /\ Cardinality(Engaged) >= 1
  <2>1. Cardinality(Engaged \ {w}) = Cardinality(Engaged) - 1
    BY <1>7, EngagedAreFinite, FS_RemoveElement
  <2>2. Cardinality(Engaged) # 0
    BY <1>7, EngagedAreFinite
  <2>. QED BY <1>8, <2>1, <2>2, EngagedAreFinite
<1>10. /\ slots \in Nat /\ completed \in Nat /\ machine.helpers \in Nat
       /\ job.helpers \in 0..machine.helpers
       /\ slots + completed + Cardinality(Engaged) = job.helpers
  BY <1>7, MachineTypes, ExecutorAssumption DEF ExecutorInv, ExecutorTypeOK
<1>11. completed' \in 0..machine.helpers
       /\ slots + completed' + Cardinality(Engaged') = job.helpers
  BY <1>3, <1>9, <1>10, EngagedAreFinite
<1>12. phase' \in [Agents -> CallerPlaces \cup HelperPlaces]
       /\ \A u \in Helpers : phase'[u] \in HelperPlaces
  <2>1. "check" \in HelperPlaces
    BY DEF HelperPlaces
  <2>2. \A u \in Helpers : phase'[u] = "check" \/ phase'[u] = phase[u]
    BY <1>5, AgentsAre
  <2>. QED BY <1>1, <1>3, <1>4, <2>1, <2>2 DEF ExecutorInv
<1>13. ExecutorTypeOK'
  BY <1>3, <1>11, <1>12 DEF ExecutorInv, ExecutorTypeOK, CallerPlaces, HelperPlaces
<1>14. \A b \in Agents : phase'[b] = "task" <=> inHand'[b] # {}
  BY <1>3, <1>4, <1>5, AgentsAre DEF ExecutorInv, In
<1>15. ExecutorInv'
  BY <1>3, <1>4, <1>5, <1>6, <1>7, <1>11, <1>12, <1>13, <1>14 DEF ExecutorInv, In
<1>. QED BY <1>3, <1>6, <1>15, Stutters DEF Remaining

LEMMA ExecutesKeeps ==
  ASSUME ExecutorInv, machine \in Machines, machine' = machine, Executes
  PROVE  ExecutorInv' /\ LoopStep
<1>1. CASE CallerStep
  BY <1>1, PublishKeeps, BeginKeeps, NotifyKeeps, AwaitKeeps, EndKeeps DEF CallerStep
<1>2. CASE Works(Caller)
  BY <1>2, AgentsAre, TakeItemsKeeps, TaskReturnsKeeps DEF Works
<1>3. ASSUME NEW w \in Helpers, HelperStep(w)
      PROVE  ExecutorInv' /\ LoopStep
  BY <1>3, AgentsAre, CheckNewsKeeps, DoneKeeps, TakeItemsKeeps, TaskReturnsKeeps
     DEF HelperStep, Works
<1>. QED BY <1>1, <1>2, <1>3, SubmitKeeps DEF Executes

\* Whatever else the process does leaves the executor alone.
LEMMA ExecutorStays ==
  ASSUME ExecutorInv, machine' = machine, UNCHANGED executorVars
  PROVE  ExecutorInv' /\ LoopStep
<1>1. UNCHANGED <<phase, job, slots, completed, nextItem, news, inHand>>
  BY DEF executorVars, jobVars
<1>2. Running' = Running /\ Engaged' = Engaged
  BY <1>1 DEF Running, Engaged
<1>3. ExecutorTypeOK'
  BY <1>1 DEF ExecutorInv, ExecutorTypeOK
<1>4. ExecutorInv'
  BY <1>1, <1>2, <1>3 DEF ExecutorInv, In
<1>. QED BY <1>1, <1>2, <1>4, Stutters DEF Remaining

-----------------------------------------------------------------------------
(***************************************************************************)
(* WorkCoordinator and the queue of the compilers.  While a worker asks    *)
(* for the token, it has background_mutex_, so that there is still a task. *)
(***************************************************************************)
Task == [method : Methods, source : Sources]
Result == [method : Methods, source : Sources, outcome : Outcomes]
Asking == {"permitted", "taken"}

QueueInv ==
  /\ WorkTypeOK /\ TokenHeld /\ JitTypeOK
  /\ \A w \in Compilers : admission[w] \in Asking =>
       /\ compiler[w] = "waiting" /\ tasks # <<>> /\ ~stop
       /\ \A u \in Compilers \ {w} : admission[u] \notin Asking
  /\ \A w \in Compilers : admission[w] = "admitted" <=> compiler[w] = "compiling"
  /\ \A w \in Compilers : compiler[w] \in {"compiling", "reporting"} => at[w] \in Task

Entry == [source : Sources \cup {NoSource}, pending : BOOLEAN, rejected : BOOLEAN,
          code : Sizes \cup {0}]

LEMMA InitQueue == Init => QueueInv
<1>. SUFFICES ASSUME Init PROVE QueueInv
  OBVIOUS
<1>1. WorkTypeOK /\ TokenHeld
  BY DEF Init, WorkInit, WorkTypeOK, TokenHeld
<1>2. NoEntry \in Entry
  BY DEF NoEntry, Entry
<1>3. entries \in [Methods -> Entry]
  BY <1>2 DEF Init, JitInit
<1>4. NoTask \in [method : Methods \cup {NoSource}, source : Sources \cup {NoSource}]
  BY DEF NoTask
<1>5. tasks = <<>> /\ results = <<>>
  BY DEF Init, JitInit
<1>6. JitTypeOK
  <2>1. Len(tasks) <= MaxTasks
    BY <1>5, JitAssumption
  <2>2. enabled = TRUE /\ stop = FALSE /\ joining = FALSE /\ cacheBytes = 0
    BY DEF Init, JitInit
  <2>3. background \in BOOLEAN
    BY DEF Init, JitInit
  <2>4. /\ compiler \in [Compilers -> {"none", "waiting", "compiling", "reporting", "ended"}]
        /\ at \in [Compilers -> [method : Methods \cup {NoSource}, source : Sources \cup {NoSource}]]
    BY <1>4 DEF Init, JitInit
  <2>5. tasks \in Seq([method : Methods, source : Sources])
        /\ results \in Seq([method : Methods, source : Sources, outcome : Outcomes])
    BY <1>5
  <2>. QED BY <1>3, <2>1, <2>2, <2>3, <2>4, <2>5 DEF JitTypeOK, Entry
<1>. QED BY <1>1, <1>6 DEF Init, WorkInit, JitInit, QueueInv, Asking

\* What the executor does to the counts of frame work is of no matter here.
LEMMA FrameWorkKeeps ==
  ASSUME QueueInv, machine' = machine, UNCHANGED jitVars, frameJobs' \in Nat,
         UNCHANGED <<backgroundJobs, admission>>, pressed' \in BOOLEAN
  PROVE  QueueInv'
<1>1. UNCHANGED <<enabled, background, entries, cacheBytes, tasks, results, stop, compiler, at, joining>>
  BY DEF jitVars, entryVars, queueVars, compilerVars
<1>2. WorkTypeOK' /\ TokenHeld'
  BY DEF QueueInv, WorkTypeOK, TokenHeld
<1>3. JitTypeOK'
  BY <1>1 DEF QueueInv, JitTypeOK
<1>. QED BY <1>1, <1>2, <1>3 DEF QueueInv

\* The VM changes entries, and the queue when no compiler is at it.
LEMMA VmKeeps ==
  ASSUME QueueInv, UNCHANGED workVars, VmStep, entries' \in [Methods -> Entry], cacheBytes' \in Nat
  PROVE  QueueInv'
<1>1. UNCHANGED <<machine, frameJobs, backgroundJobs, pressed, admission>>
  BY DEF workVars
<1>2. WorkTypeOK' /\ TokenHeld'
  BY <1>1 DEF QueueInv, WorkTypeOK, TokenHeld
<1>3. /\ tasks \in Seq(Task) /\ Len(tasks) <= MaxTasks
      /\ results \in Seq([method : Methods, source : Sources, outcome : Outcomes])
      /\ background \in BOOLEAN /\ stop \in BOOLEAN /\ joining \in BOOLEAN /\ enabled \in BOOLEAN
      /\ compiler \in [Compilers -> {"none", "waiting", "compiling", "reporting", "ended"}]
      /\ at \in [Compilers -> [method : Methods \cup {NoSource}, source : Sources \cup {NoSource}]]
  BY DEF QueueInv, JitTypeOK, Task
<1>4. CASE UNCHANGED <<enabled, background, queueVars, compilerVars, joining>>
  <2>1. JitTypeOK'
    BY <1>4 DEF QueueInv, JitTypeOK, Entry, queueVars, compilerVars
  <2>. QED BY <1>1, <1>2, <1>4, <2>1 DEF QueueInv, queueVars, compilerVars
<1>5. ASSUME NEW m \in Methods, NEW s \in Sources, Enqueue(m, s)
      PROVE  QueueInv'
  <2>1. /\ MutexFree /\ Len(tasks) < MaxTasks
        /\ tasks' = Append(tasks, [method |-> m, source |-> s])
        /\ UNCHANGED <<enabled, background, results, stop, at, joining>>
    BY <1>5 DEF Enqueue
  <2>2. tasks' \in Seq(Task) /\ Len(tasks') <= MaxTasks
    BY <1>3, <2>1, JitAssumption DEF Task
  <2>3. compiler' = [w \in Compilers |->
           IF w \in machine.compilers /\ compiler[w] = "none" THEN "waiting" ELSE compiler[w]]
    BY <1>5 DEF Enqueue
  <2>4. /\ compiler' \in [Compilers -> {"none", "waiting", "compiling", "reporting", "ended"}]
        /\ \A w \in Compilers : compiler'[w] = compiler[w] \/ (compiler[w] = "none" /\ compiler'[w] = "waiting")
    BY <1>3, <2>3
  <2>5. JitTypeOK'
    BY <2>1, <2>2, <2>4 DEF QueueInv, JitTypeOK, Entry, Task
  <2>6. \A w \in Compilers : admission[w] \notin Asking
    BY <2>1 DEF MutexFree, Asking
  <2>. QED BY <1>1, <1>2, <2>1, <2>4, <2>5, <2>6 DEF QueueInv
<1>6. CASE PublishResult
  <2>1. /\ results # <<>> /\ results' = Tail(results)
        /\ UNCHANGED <<enabled, tasks, stop, compilerVars, joining>>
    BY <1>6 DEF PublishResult
  <2>2. background' \in BOOLEAN
    <3>1. background' = background \/ background' = (background /\ Head(results).outcome # Unavailable)
      BY <1>6 DEF PublishResult
    <3>. QED BY <1>3, <3>1, Zenon
  <2>3. JitTypeOK'
    BY <1>3, <2>1, <2>2 DEF QueueInv, JitTypeOK, Entry, compilerVars
  <2>. QED BY <1>1, <1>2, <2>1, <2>3 DEF QueueInv, compilerVars
<1>7. CASE Enable
  <2>1. JitTypeOK'
    BY <1>7 DEF Enable, QueueInv, JitTypeOK, Entry, queueVars, compilerVars, entryVars
  <2>. QED BY <1>1, <1>2, <1>7, <2>1 DEF Enable, QueueInv, queueVars, compilerVars
<1>8. CASE Disable
  <2>1. JitTypeOK'
    <3>1. <<>> \in Seq(Task) /\ Len(<<>>) <= MaxTasks
      BY JitAssumption
    <3>. QED BY <1>8, <3>1 DEF Disable, QueueInv, JitTypeOK, Task, compilerVars, entryVars
  <2>2. \A w \in Compilers : admission[w] \notin Asking
    BY <1>8 DEF Disable, MutexFree, Asking
  <2>. QED BY <1>1, <1>2, <1>8, <2>1, <2>2 DEF Disable, QueueInv, compilerVars
<1>9. CASE Cleared
  <2>1. /\ \A w \in Compilers : compiler[w] \in {"none", "ended"}
        /\ compiler' = [w \in Compilers |-> "none"] /\ stop' = FALSE /\ joining' = FALSE
        /\ tasks' = <<>> /\ results' = <<>> /\ UNCHANGED <<enabled, background, at>>
    BY <1>9 DEF Cleared
  <2>2. JitTypeOK'
    <3>1. /\ tasks' \in Seq(Task) /\ Len(tasks') <= MaxTasks
          /\ results' \in Seq([method : Methods, source : Sources, outcome : Outcomes])
      BY <2>1, JitAssumption
    <3>. QED BY <2>1, <3>1 DEF QueueInv, JitTypeOK, Entry, Task
  <2>3. \A w \in Compilers : admission[w] = "none"
    BY <1>3, <2>1 DEF QueueInv, WorkTypeOK, Asking
  <2>. QED BY <1>1, <1>2, <2>1, <2>2, <2>3 DEF QueueInv, Asking
<1>10. ASSUME NEW m \in Methods, NEW s \in Sources, Meet(m, s) \/ CompileNow(m, s) \/ Retire(m)
       PROVE  QueueInv'
  BY <1>4, <1>10 DEF Meet, CompileNow, Retire
<1>11. ASSUME NEW m \in Methods, Retire(m)
       PROVE  QueueInv'
  BY <1>4, <1>11 DEF Retire
<1>. QED BY <1>5, <1>6, <1>7, <1>8, <1>9, <1>10, <1>11 DEF VmStep

LEMMA CompilerKeeps ==
  ASSUME QueueInv, NEW w \in Compilers, CompilerStep(w)
  PROVE  QueueInv' /\ machine' = machine /\ UNCHANGED entryVars
<1>1. /\ tasks \in Seq(Task) /\ Len(tasks) <= MaxTasks
      /\ results \in Seq([method : Methods, source : Sources, outcome : Outcomes])
      /\ compiler \in [Compilers -> {"none", "waiting", "compiling", "reporting", "ended"}]
      /\ at \in [Compilers -> [method : Methods \cup {NoSource}, source : Sources \cup {NoSource}]]
      /\ admission \in [Compilers -> {"none", "permitted", "taken", "admitted"}]
  BY DEF QueueInv, JitTypeOK, WorkTypeOK, Task
<1>2. ASSUME Stays PROVE JitTypeOK' /\ UNCHANGED entryVars
      /\ UNCHANGED <<tasks, results, stop, compiler, at>>
  BY <1>2 DEF Stays, QueueInv, JitTypeOK, entryVars, queueVars, compilerVars
<1>3. CASE Asks(w)
  <2>1. /\ admission' = [admission EXCEPT ![w] = "permitted"] /\ admission[w] = "none" /\ Stays
        /\ UNCHANGED <<machine, frameJobs, backgroundJobs, pressed>> /\ MutexFree
        /\ compiler[w] = "waiting" /\ ~stop /\ tasks # <<>>
    BY <1>3 DEF Asks, AskPermission, Admit
  <2>2. WorkTypeOK' /\ TokenHeld'
    BY <1>1, <2>1 DEF QueueInv, WorkTypeOK, TokenHeld
  <2>. QED BY <1>1, <1>2, <2>1, <2>2 DEF QueueInv, MutexFree, Asking
<1>4. CASE TakeToken(w) /\ Stays
  <2>1. /\ admission' = [admission EXCEPT ![w] = "taken"] /\ admission[w] = "permitted"
        /\ backgroundJobs = 0 /\ backgroundJobs' = 1 /\ UNCHANGED <<machine, frameJobs, pressed>>
    BY <1>4 DEF TakeToken, Admit
  <2>2. WorkTypeOK' /\ TokenHeld'
    BY <1>1, <2>1 DEF QueueInv, WorkTypeOK, TokenHeld
  <2>. QED BY <1>1, <1>2, <1>4, <2>1, <2>2 DEF QueueInv, Asking
<1>5. CASE TokenTaken(w) /\ Stays
  <2>1. /\ admission' = [admission EXCEPT ![w] = "none"] /\ admission[w] = "permitted"
        /\ UNCHANGED <<machine, frameJobs, backgroundJobs, pressed>>
    BY <1>5 DEF TokenTaken, Admit
  <2>2. WorkTypeOK' /\ TokenHeld'
    BY <1>1, <2>1 DEF QueueInv, WorkTypeOK, TokenHeld
  <2>. QED BY <1>1, <1>2, <1>5, <2>1, <2>2 DEF QueueInv, Asking
<1>6. CASE GiveBack(w) /\ Stays
  <2>1. /\ admission' = [admission EXCEPT ![w] = "none"] /\ admission[w] = "taken"
        /\ backgroundJobs' = 0 /\ UNCHANGED <<machine, frameJobs, pressed>>
    BY <1>6 DEF GiveBack, Admit, Released
  <2>2. WorkTypeOK' /\ TokenHeld'
    BY <1>1, <2>1 DEF QueueInv, WorkTypeOK, TokenHeld
  <2>. QED BY <1>1, <1>2, <1>6, <2>1, <2>2 DEF QueueInv, Asking
<1>7. CASE Claims(w)
  <2>1. /\ admission' = [admission EXCEPT ![w] = "admitted"] /\ admission[w] = "taken"
        /\ UNCHANGED <<machine, frameJobs, backgroundJobs, pressed>>
    BY <1>7 DEF Claims, KeepToken, Admit
  <2>2. WorkTypeOK' /\ TokenHeld'
    BY <1>1, <2>1 DEF QueueInv, WorkTypeOK, TokenHeld
  <2>3. tasks # <<>> /\ \A u \in Compilers \ {w} : admission[u] \notin Asking
    BY <2>1 DEF QueueInv, Asking
  <2>4. Head(tasks) \in Task /\ Tail(tasks) \in Seq(Task) /\ Len(Tail(tasks)) <= MaxTasks
    BY <1>1, <2>3, JitAssumption
  <2>5. /\ at' = [at EXCEPT ![w] = Head(tasks)] /\ tasks' = Tail(tasks)
        /\ compiler' = [compiler EXCEPT ![w] = "compiling"]
        /\ UNCHANGED <<enabled, background, entryVars, results, stop, joining>>
    BY <1>7 DEF Claims
  <2>6. Head(tasks) \in [method : Methods \cup {NoSource}, source : Sources \cup {NoSource}]
    BY <2>4 DEF Task
  <2>7. JitTypeOK'
    BY <1>1, <2>4, <2>5, <2>6 DEF QueueInv, JitTypeOK, entryVars, Task
  <2>8. /\ compiler'[w] = "compiling" /\ at'[w] \in Task /\ admission'[w] = "admitted"
        /\ \A u \in Compilers \ {w} : /\ compiler'[u] = compiler[u] /\ at'[u] = at[u]
                                      /\ admission'[u] = admission[u]
    BY <1>1, <2>1, <2>4, <2>5
  <2>. QED BY <2>1, <2>2, <2>3, <2>5, <2>7, <2>8 DEF QueueInv, Asking
<1>8. CASE Compiles(w)
  <2>1. /\ admission' = [admission EXCEPT ![w] = "none"] /\ admission[w] = "admitted"
        /\ backgroundJobs' = 0 /\ UNCHANGED <<machine, frameJobs, pressed>>
        /\ compiler[w] = "compiling" /\ compiler' = [compiler EXCEPT ![w] = "reporting"]
        /\ UNCHANGED <<enabled, background, entryVars, queueVars, at, joining>>
    BY <1>8 DEF Compiles, EndBackgroundWork, Admit
  <2>2. WorkTypeOK' /\ TokenHeld'
    BY <1>1, <2>1 DEF QueueInv, WorkTypeOK, TokenHeld
  <2>3. JitTypeOK'
    BY <1>1, <2>1 DEF QueueInv, JitTypeOK, entryVars, queueVars, Task
  <2>. QED BY <1>1, <2>1, <2>2, <2>3 DEF QueueInv, Asking, queueVars
<1>9. CASE Reports(w)
  <2>1. /\ compiler[w] = "reporting" /\ compiler' = [compiler EXCEPT ![w] = "waiting"]
        /\ at' = [at EXCEPT ![w] = NoTask]
        /\ UNCHANGED <<enabled, background, entryVars, tasks, stop, joining, workVars>>
    BY <1>9 DEF Reports
  <2>2. at[w] \in Task
    BY <2>1 DEF QueueInv
  <2>3. results' \in Seq([method : Methods, source : Sources, outcome : Outcomes])
    <3>1. CASE results' = results
      BY <1>1, <3>1
    <3>2. ASSUME NEW o \in Outcomes,
                 results' = Append(results, [method |-> at[w].method, source |-> at[w].source, outcome |-> o])
          PROVE  results' \in Seq([method : Methods, source : Sources, outcome : Outcomes])
      BY <1>1, <2>2, <3>2 DEF Task
    <3>. QED BY <1>9, <3>1, <3>2 DEF Reports
  <2>4. NoTask \in [method : Methods \cup {NoSource}, source : Sources \cup {NoSource}]
    BY DEF NoTask
  <2>5. JitTypeOK'
    BY <1>1, <2>1, <2>3, <2>4 DEF QueueInv, JitTypeOK, entryVars, Task
  <2>6. WorkTypeOK' /\ TokenHeld'
    BY <2>1 DEF QueueInv, WorkTypeOK, TokenHeld, workVars
  <2>. QED BY <1>1, <2>1, <2>5, <2>6 DEF QueueInv, Asking, workVars
<1>10. CASE Ends(w)
  <2>1. /\ compiler[w] = "waiting" /\ compiler' = [compiler EXCEPT ![w] = "ended"] /\ stop
        /\ UNCHANGED <<enabled, background, entryVars, queueVars, at, joining, workVars>>
    BY <1>10 DEF Ends
  <2>2. JitTypeOK'
    BY <1>1, <2>1 DEF QueueInv, JitTypeOK, entryVars, queueVars, Task
  <2>3. WorkTypeOK' /\ TokenHeld'
    BY <2>1 DEF QueueInv, WorkTypeOK, TokenHeld, workVars
  <2>. QED BY <1>1, <2>1, <2>2, <2>3 DEF QueueInv, Asking, workVars, queueVars
<1>. QED BY <1>3, <1>4, <1>5, <1>6, <1>7, <1>8, <1>9, <1>10 DEF CompilerStep, Tries

-----------------------------------------------------------------------------
(***************************************************************************)
(* The bytes of the cache, of entries as a function f.                     *)
(***************************************************************************)
Table(f) == f \in [Methods -> Entry]
Places(f, ms) == UNION {{m} \X (1..f[m].code) : m \in ms}
Total(f, ms) == Cardinality(Places(f, ms))

LEMMA Codes ==
  ASSUME NEW f, Table(f), NEW m \in Methods
  PROVE  f[m] \in Entry /\ f[m].code \in Nat
<1>1. f[m] \in Entry
  BY DEF Table
<1>2. f[m].code \in Sizes \cup {0}
  BY <1>1 DEF Entry
<1>3. Sizes \cup {0} \subseteq Nat
  BY JitAssumption
<1>. QED BY <1>1, <1>2, <1>3

\* Methods have no byte in common.
LEMMA Splits ==
  ASSUME NEW f, Table(f), NEW A \in SUBSET Methods, NEW B \in SUBSET Methods, A \cap B = {}
  PROVE  Total(f, A \cup B) = Total(f, A) + Total(f, B)
         /\ Total(f, A) \in Nat /\ Total(f, B) \in Nat
<1>1. ASSUME NEW C \in SUBSET Methods PROVE IsFiniteSet(Places(f, C))
  <2>. DEFINE g == [m \in C |-> {m} \X (1..f[m].code)]
              D == {{m} \X (1..f[m].code) : m \in C}
  <2>1. IsFiniteSet(C)
    BY FS_Subset, JitAssumption
  <2>2. g \in Surjection(C, D)
    BY DEF Surjection
  <2>3. IsFiniteSet(D)
    BY <2>1, <2>2, FS_Surjection
  <2>4. ASSUME NEW m \in C PROVE IsFiniteSet({m} \X (1..f[m].code))
    <3>1. f[m].code \in Nat
      BY Codes
    <3>2. IsFiniteSet(1..f[m].code)
      BY <3>1, FS_Interval
    <3>. QED BY <3>2, FS_Singleton, FS_Product
  <2>5. \A d \in D : IsFiniteSet(d)
    BY <2>4
  <2>. QED BY <2>3, <2>5, FS_UNION DEF Places
<1>2. Places(f, A \cup B) = Places(f, A) \cup Places(f, B)
  BY DEF Places
<1>3. Places(f, A) \cap Places(f, B) = {}
  BY DEF Places
<1>4. IsFiniteSet(Places(f, A)) /\ IsFiniteSet(Places(f, B))
  BY <1>1
<1>5. PICK U : U = Places(f, A)
  OBVIOUS
<1>6. PICK V : V = Places(f, B)
  OBVIOUS
<1>7. IsFiniteSet(U) /\ IsFiniteSet(V) /\ U \cap V = {} /\ Places(f, A \cup B) = U \cup V
  BY <1>2, <1>3, <1>4, <1>5, <1>6
<1>8. Cardinality(U) \in Nat /\ Cardinality(V) \in Nat
  BY <1>7, FS_CardinalityType
<1>9. Cardinality(U \cup V) = Cardinality(U) + Cardinality(V) - Cardinality(U \cap V)
  BY <1>7, FS_Union
<1>10. Cardinality(U \cap V) = 0
  BY <1>7, FS_EmptySet
<1>11. /\ Total(f, A \cup B) = Cardinality(U \cup V)
       /\ Total(f, A) = Cardinality(U) /\ Total(f, B) = Cardinality(V)
  BY <1>5, <1>6, <1>7 DEF Total
<1>12. Cardinality(U \cup V) = Cardinality(U) + Cardinality(V)
  BY <1>8, <1>9, <1>10
<1>. QED BY <1>8, <1>11, <1>12

LEMMA OneMethod ==
  ASSUME NEW f, Table(f), NEW m \in Methods
  PROVE  Total(f, {m}) = f[m].code
<1>1. PICK n \in Nat : n = f[m].code
  BY Codes
<1>2. PICK U : U = 1..n
  OBVIOUS
<1>3. PICK V : V = {m}
  OBVIOUS
<1>4. IsFiniteSet(U) /\ Cardinality(U) = n
  BY <1>2, FS_Interval
<1>5. IsFiniteSet(V) /\ Cardinality(V) = 1
  BY <1>3, FS_Singleton
<1>6. Cardinality(V \X U) = Cardinality(V) * Cardinality(U)
  BY <1>4, <1>5, FS_Product
<1>7. Places(f, {m}) = V \X U
  BY <1>1, <1>2, <1>3 DEF Places
<1>8. Cardinality(V \X U) = n
  BY <1>4, <1>5, <1>6
<1>. QED BY <1>1, <1>7, <1>8 DEF Total

LEMMA SameCode ==
  ASSUME NEW f, NEW g, NEW A, \A m \in A : f[m].code = g[m].code
  PROVE  Total(f, A) = Total(g, A)
<1>1. Places(f, A) = Places(g, A)
  BY DEF Places
<1>. QED BY <1>1 DEF Total

LEMMA NoCode ==
  ASSUME NEW f, NEW A, \A m \in A : f[m].code = 0
  PROVE  Total(f, A) = 0
<1>1. Places(f, A) = {}
  BY DEF Places
<1>. QED BY <1>1, FS_EmptySet DEF Total

\* The bytes of m and those of the others.
LEMMA TakenApart ==
  ASSUME NEW f, Table(f), NEW m \in Methods
  PROVE  /\ Total(f, Methods) = f[m].code + Total(f, Methods \ {m})
         /\ Total(f, Methods \ {m}) \in Nat /\ f[m].code \in Nat
<1>1. PICK A \in SUBSET Methods : A = {m}
  OBVIOUS
<1>2. PICK B \in SUBSET Methods : B = Methods \ {m}
  OBVIOUS
<1>3. A \cap B = {} /\ A \cup B = Methods
  BY <1>1, <1>2
<1>4. Total(f, A \cup B) = Total(f, A) + Total(f, B) /\ Total(f, B) \in Nat
  BY <1>3, Splits
<1>. QED BY <1>1, <1>2, <1>3, <1>4, OneMethod, Codes

LEMMA TotalIsNatural ==
  ASSUME NEW f, Table(f)
  PROVE  Total(f, Methods) \in Nat
<1>1. PICK A \in SUBSET Methods : A = Methods
  OBVIOUS
<1>2. PICK B \in SUBSET Methods : B = {}
  OBVIOUS
<1>. QED BY <1>1, <1>2, Splits

-----------------------------------------------------------------------------
(***************************************************************************)
(* The entries and the count of their bytes.                               *)
(***************************************************************************)
Accounted(f, bytes) ==
  /\ Table(f) /\ bytes = Total(f, Methods) /\ bytes <= Limit
  /\ \A m \in Methods : f[m].pending => f[m].code = 0

LEMMA AccountedIs == Accounted(entries, cacheBytes) => CacheAccounted /\ cacheBytes \in Nat
<1>. SUFFICES ASSUME Accounted(entries, cacheBytes) PROVE CacheAccounted /\ cacheBytes \in Nat
  OBVIOUS
<1>1. cacheBytes = Used(Methods)
  BY DEF Accounted, Total, Places, Used, Bytes
<1>2. cacheBytes \in Nat
  BY TotalIsNatural DEF Accounted
<1>. QED BY <1>1, <1>2 DEF Accounted, CacheAccounted

LEMMA UsedIs == \A ms : Used(ms) = Total(entries, ms)
BY DEF Used, Bytes, Total, Places

\* One entry is replaced by one that waits for nothing that it has, and its bytes
\* by the new one's.
LEMMA EntryReplaced ==
  ASSUME NEW f, NEW bytes, Accounted(f, bytes), NEW m \in Methods, NEW e \in Entry,
         e.pending => e.code = 0, e.code \in {0, f[m].code}
  PROVE  Accounted([f EXCEPT ![m] = e], IF e.code = 0 THEN bytes - f[m].code ELSE bytes)
<1>1. PICK g : g = [f EXCEPT ![m] = e]
  OBVIOUS
<1>2. Table(g) /\ g[m] = e /\ \A o \in Methods \ {m} : g[o] = f[o]
  BY <1>1 DEF Accounted, Table
<1>3. Total(g, Methods \ {m}) = Total(f, Methods \ {m})
  BY <1>2, SameCode
<1>4. /\ Total(f, Methods) = f[m].code + Total(f, Methods \ {m})
      /\ Total(f, Methods \ {m}) \in Nat /\ f[m].code \in Nat
  BY TakenApart DEF Accounted
<1>5. Total(g, Methods) = e.code + Total(g, Methods \ {m})
  BY <1>2, TakenApart
<1>6. \A o \in Methods : g[o].pending => g[o].code = 0
  BY <1>2 DEF Accounted
<1>7. PICK b : b = IF e.code = 0 THEN bytes - f[m].code ELSE bytes
  OBVIOUS
<1>8. b = Total(g, Methods) /\ b <= Limit
  <2>1. bytes = Total(f, Methods) /\ bytes <= Limit /\ Limit \in Nat
    BY JitAssumption DEF Accounted
  <2>2. CASE e.code = 0
    BY <1>3, <1>4, <1>5, <1>7, <2>1, <2>2
  <2>3. CASE e.code # 0
    BY <1>3, <1>4, <1>5, <1>7, <2>1, <2>3
  <2>. QED BY <2>2, <2>3
<1>9. Accounted(g, b)
  BY <1>2, <1>6, <1>8 DEF Accounted
<1>. QED BY <1>1, <1>7, <1>9

\* Code comes in for m, which has none, after some of the others have lost theirs.
LEMMA InstallKeeps ==
  ASSUME Accounted(entries, cacheBytes), NEW m \in Methods, NEW e \in Entry,
         e.code = 0, ~e.pending, NEW bytes, bytes = Total(entries, Methods \ {m}),
         NEW size \in Sizes, Install(m, e, bytes, size)
  PROVE  Accounted(entries', cacheBytes')
<1>1. PICK out \in Evicted(m, bytes, size) :
        LET left == bytes - Used(out)
        IN  /\ entries' = [o \in Methods |->
                 IF o \in out THEN [entries[o] EXCEPT !.code = 0]
                 ELSE IF o # m THEN entries[o]
                 ELSE IF Fits(left, size) THEN [e EXCEPT !.code = size]
                 ELSE [e EXCEPT !.rejected = TRUE]]
            /\ cacheBytes' = IF Fits(left, size) THEN left + size ELSE left
  BY DEF Install
<1>2. out \subseteq Methods \ {m}
  BY DEF Evicted, CompiledBut
<1>3. PICK rest \in SUBSET Methods : rest = Methods \ ({m} \cup out)
  OBVIOUS
<1>4. PICK gone \in SUBSET Methods : gone = out
  BY <1>2
<1>5. gone \cap rest = {} /\ gone \cup rest = Methods \ {m}
  BY <1>2, <1>3, <1>4
<1>6. PICK g : g = entries
  OBVIOUS
<1>7. Table(g) /\ bytes = Total(g, gone) + Total(g, rest)
      /\ Total(g, gone) \in Nat /\ Total(g, rest) \in Nat
  <2>1. Table(g) /\ bytes = Total(g, Methods \ {m})
    BY <1>6 DEF Accounted
  <2>2. /\ Total(g, gone \cup rest) = Total(g, gone) + Total(g, rest)
        /\ Total(g, gone) \in Nat /\ Total(g, rest) \in Nat
    BY <1>5, <2>1, Splits
  <2>. QED BY <1>5, <2>1, <2>2
<1>8. PICK left : left = bytes - Used(out)
  OBVIOUS
<1>9. left = Total(g, rest)
  BY <1>4, <1>6, <1>7, <1>8, UsedIs
<1>10. size \in Nat /\ size # 0 /\ Limit \in Nat
  BY JitAssumption
<1>11. PICK c \in Nat : c = IF Fits(left, size) THEN size ELSE 0
  BY <1>10
<1>12. \A o \in Methods : entries'[o] =
         IF o \in gone THEN [g[o] EXCEPT !.code = 0]
         ELSE IF o # m THEN g[o]
         ELSE IF Fits(left, size) THEN [e EXCEPT !.code = size] ELSE [e EXCEPT !.rejected = TRUE]
  BY <1>1, <1>4, <1>6, <1>8
<1>13. \A o \in gone : entries'[o] \in Entry /\ entries'[o].code = 0
  BY <1>7, <1>12 DEF Table, Entry
<1>14. \A o \in rest : entries'[o] = g[o]
  BY <1>3, <1>4, <1>12
<1>15. entries'[m] \in Entry /\ entries'[m].code = c /\ ~entries'[m].pending
  <2>1. m \notin gone
    BY <1>2, <1>4
  <2>2. entries'[m] = IF Fits(left, size) THEN [e EXCEPT !.code = size] ELSE [e EXCEPT !.rejected = TRUE]
    BY <1>12, <2>1
  <2>3. CASE Fits(left, size)
    BY <1>11, <2>2, <2>3 DEF Entry
  <2>4. CASE ~Fits(left, size)
    BY <1>11, <2>2, <2>4 DEF Entry
  <2>. QED BY <2>3, <2>4
<1>16. Table(entries')
  <2>1. \A o \in Methods : entries'[o] \in Entry
    BY <1>3, <1>4, <1>7, <1>13, <1>14, <1>15 DEF Table
  <2>2. entries' = [o \in Methods |-> entries'[o]]
    BY <1>1
  <2>. QED BY <2>1, <2>2 DEF Table
<1>17. PICK h : h = entries'
  OBVIOUS
<1>18. Total(h, Methods) = c + Total(h, Methods \ {m})
  BY <1>15, <1>16, <1>17, TakenApart
<1>19. Total(h, Methods \ {m}) = Total(h, gone) + Total(h, rest)
  BY <1>5, <1>16, <1>17, Splits
<1>20. Total(h, gone) = 0 /\ Total(h, rest) = Total(g, rest)
  BY <1>13, <1>14, <1>17, NoCode, SameCode
<1>21. \A o \in Methods : h[o].pending => h[o].code = 0
  <2>1. \A o \in rest : h[o].pending => h[o].code = 0
    BY <1>6, <1>14, <1>17 DEF Accounted
  <2>. QED BY <1>3, <1>4, <1>13, <1>15, <1>17, <2>1
<1>22. Total(h, Methods) = c + left
  BY <1>7, <1>9, <1>11, <1>18, <1>19, <1>20
<1>23. cacheBytes' = c + left
  <2>1. cacheBytes' = IF Fits(left, size) THEN left + size ELSE left
    BY <1>1, <1>8
  <2>. QED BY <1>7, <1>9, <1>10, <1>11, <2>1
<1>24. c + left <= Limit
  <2>1. CASE Fits(left, size)
    BY <1>7, <1>9, <1>10, <1>11, <2>1 DEF Fits
  <2>2. CASE ~Fits(left, size)
    <3>1. bytes <= Limit
      <4>1. Total(entries, Methods) = entries[m].code + bytes /\ bytes \in Nat /\ entries[m].code \in Nat
        BY TakenApart DEF Accounted
      <4>. QED BY <1>10, <4>1 DEF Accounted
    <3>. QED BY <1>7, <1>9, <1>10, <1>11, <2>2, <3>1
  <2>. QED BY <2>1, <2>2
<1>. QED BY <1>16, <1>17, <1>21, <1>22, <1>23, <1>24 DEF Accounted

\* The entry of m as it is met in s, which may lose the code of another source.
LEMMA MeetKeeps ==
  ASSUME Accounted(entries, cacheBytes), NEW m \in Methods, NEW s \in Sources
  PROVE  /\ Met(m, s) \in Entry /\ Met(m, s).code \in {0, entries[m].code}
         /\ Met(m, s).pending => Met(m, s).code = 0
         /\ BytesMet(m, s) = IF Met(m, s).code = 0 THEN cacheBytes - entries[m].code ELSE cacheBytes
<1>1. entries[m] \in Entry /\ entries[m].code \in Nat
  BY Codes DEF Accounted
<1>2. PICK e : e = entries[m]
  OBVIOUS
<1>3. e \in Entry /\ e.code \in Nat /\ (e.pending => e.code = 0)
  BY <1>1, <1>2 DEF Accounted
<1>4. cacheBytes \in Nat /\ e.code <= cacheBytes
  <2>1. cacheBytes = e.code + Total(entries, Methods \ {m}) /\ Total(entries, Methods \ {m}) \in Nat
    BY <1>2, TakenApart DEF Accounted
  <2>. QED BY <1>3, <2>1
<1>5. CASE Stale(m, s)
  <2>1. Met(m, s) = [NoEntry EXCEPT !.source = s]
    BY <1>5 DEF Met
  <2>2. Met(m, s) \in Entry /\ Met(m, s).code = 0 /\ ~Met(m, s).pending
    BY <2>1 DEF NoEntry, Entry
  <2>3. BytesMet(m, s) = cacheBytes - e.code
    BY <1>2, <1>3, <1>4, <1>5 DEF BytesMet, Less
  <2>. QED BY <1>2, <2>2, <2>3
<1>6. CASE ~Stale(m, s)
  <2>1. Met(m, s) = [e EXCEPT !.source = s]
    BY <1>2, <1>6 DEF Met
  <2>2. Met(m, s) \in Entry /\ Met(m, s).code = e.code /\ Met(m, s).pending = e.pending
    BY <1>3, <2>1 DEF Entry
  <2>3. BytesMet(m, s) = cacheBytes
    BY <1>6 DEF BytesMet
  <2>4. e.code = 0 => cacheBytes = cacheBytes - e.code
    BY <1>3, <1>4
  <2>. QED BY <1>2, <1>3, <2>2, <2>3, <2>4
<1>. QED BY <1>5, <1>6

\* What comes of a compilation of m, whose entry has no code and is e now.
LEMMA SettlesKeeps ==
  ASSUME Accounted(entries, cacheBytes), NEW m \in Methods, NEW e \in Entry,
         e.code = 0, ~e.pending, NEW bytes, bytes = cacheBytes - entries[m].code,
         NEW outcome, Settles(m, e, bytes, outcome)
  PROVE  Accounted(entries', cacheBytes')
<1>1. /\ cacheBytes = entries[m].code + Total(entries, Methods \ {m})
      /\ Total(entries, Methods \ {m}) \in Nat /\ entries[m].code \in Nat
  BY TakenApart DEF Accounted
<1>2. bytes = Total(entries, Methods \ {m})
  BY <1>1
<1>3. CASE outcome \in Sizes
  BY <1>2, <1>3, InstallKeeps DEF Settles
<1>4. CASE outcome \notin Sizes
  <2>1. PICK b \in BOOLEAN : b = (e.rejected \/ outcome = Rejected)
    OBVIOUS
  <2>2. PICK d : d = [e EXCEPT !.rejected = b]
    OBVIOUS
  <2>3. d \in Entry /\ d.code = 0 /\ ~d.pending
    BY <2>2 DEF Entry
  <2>4. entries' = [entries EXCEPT ![m] = d] /\ cacheBytes' = bytes
    BY <1>4, <2>1, <2>2 DEF Settles
  <2>5. Accounted([entries EXCEPT ![m] = d], IF d.code = 0 THEN cacheBytes - entries[m].code ELSE cacheBytes)
    BY <2>3, EntryReplaced
  <2>. QED BY <2>3, <2>4, <2>5
<1>. QED BY <1>3, <1>4

LEMMA EntriesKeep ==
  ASSUME Accounted(entries, cacheBytes), JitTypeOK, VmStep
  PROVE  Accounted(entries', cacheBytes')
<1>1. ASSUME NEW m \in Methods, NEW s \in Sources, Meet(m, s)
      PROVE  Accounted(entries', cacheBytes')
  <2>1. PICK e : e = Met(m, s)
    OBVIOUS
  <2>2. /\ e \in Entry /\ e.code \in {0, entries[m].code} /\ (e.pending => e.code = 0)
        /\ entries' = [entries EXCEPT ![m] = e]
        /\ cacheBytes' = IF e.code = 0 THEN cacheBytes - entries[m].code ELSE cacheBytes
    BY <1>1, <2>1, MeetKeeps DEF Meet
  <2>. QED BY <2>2, EntryReplaced
<1>2. ASSUME NEW m \in Methods, NEW s \in Sources, Enqueue(m, s)
      PROVE  Accounted(entries', cacheBytes')
  <2>1. PICK e : e = Met(m, s)
    OBVIOUS
  <2>2. /\ e \in Entry /\ e.code = 0
        /\ entries' = [entries EXCEPT ![m] = [e EXCEPT !.pending = TRUE]]
        /\ cacheBytes' = cacheBytes - entries[m].code
    BY <1>2, <2>1, MeetKeeps DEF Enqueue, Interprets
  <2>3. PICK d : d = [e EXCEPT !.pending = TRUE]
    OBVIOUS
  <2>4. d \in Entry /\ d.code = 0
    BY <2>2, <2>3 DEF Entry
  <2>5. Accounted([entries EXCEPT ![m] = d], IF d.code = 0 THEN cacheBytes - entries[m].code ELSE cacheBytes)
    BY <2>4, EntryReplaced
  <2>. QED BY <2>2, <2>3, <2>4, <2>5
<1>3. ASSUME NEW m \in Methods, NEW s \in Sources, CompileNow(m, s)
      PROVE  Accounted(entries', cacheBytes')
  <2>1. PICK e : e = Met(m, s)
    OBVIOUS
  <2>2. e \in Entry /\ e.code = 0 /\ BytesMet(m, s) = cacheBytes - entries[m].code
    BY <1>3, <2>1, MeetKeeps DEF CompileNow, Interprets
  <2>3. PICK d : d = [e EXCEPT !.pending = FALSE]
    OBVIOUS
  <2>4. d \in Entry /\ d.code = 0 /\ ~d.pending
    BY <2>2, <2>3 DEF Entry
  <2>5. PICK o \in Outcomes : Settles(m, d, BytesMet(m, s), o)
    BY <1>3, <2>1, <2>3 DEF CompileNow, Detached
  <2>. QED BY <2>2, <2>4, <2>5, SettlesKeeps
<1>4. ASSUME NEW m \in Methods, Retire(m)
      PROVE  Accounted(entries', cacheBytes')
  <2>1. PICK e : e = entries[m]
    OBVIOUS
  <2>2. e \in Entry /\ e.code \in Nat
    BY <2>1, Codes DEF Accounted
  <2>3. PICK d : d = [e EXCEPT !.code = 0, !.rejected = TRUE]
    OBVIOUS
  <2>4. d \in Entry /\ d.code = 0
    BY <2>2, <2>3 DEF Entry
  <2>5. entries' = [entries EXCEPT ![m] = d]
    BY <1>4, <2>1, <2>3 DEF Retire, Accounted, Table, Entry
  <2>6. cacheBytes' = cacheBytes - e.code
    <3>1. cacheBytes = e.code + Total(entries, Methods \ {m}) /\ Total(entries, Methods \ {m}) \in Nat
      BY <2>1, TakenApart DEF Accounted
    <3>2. ~(e.code > cacheBytes)
      BY <2>2, <3>1
    <3>. QED BY <1>4, <2>1, <3>2 DEF Retire, Less
  <2>7. Accounted([entries EXCEPT ![m] = d], IF d.code = 0 THEN cacheBytes - entries[m].code ELSE cacheBytes)
    BY <2>4, EntryReplaced
  <2>. QED BY <2>1, <2>4, <2>5, <2>6, <2>7
<1>5. CASE PublishResult
  <2>1. results # <<>> /\ results \in Seq(Result)
    BY <1>5 DEF PublishResult, JitTypeOK, Result
  <2>2. PICK r : r = Head(results)
    OBVIOUS
  <2>3. CASE ~Expected(r)
    BY <1>5, <2>2, <2>3 DEF PublishResult
  <2>4. CASE Expected(r)
    <3>1. PICK m \in Methods : m = r.method
      <4>1. r \in Result
        BY <2>1, <2>2
      <4>. QED BY <4>1 DEF Result
    <3>2. PICK e : e = [entries[m] EXCEPT !.pending = FALSE]
      OBVIOUS
    <3>3. Settles(m, e, cacheBytes, r.outcome)
      BY <1>5, <2>2, <2>4, <3>1, <3>2 DEF PublishResult
    <3>4. entries[m] \in Entry /\ entries[m].code = 0
      BY <2>4, <3>1 DEF Expected, Accounted, Table
    <3>5. e \in Entry /\ e.code = 0 /\ ~e.pending
      BY <3>2, <3>4 DEF Entry
    <3>6. cacheBytes = cacheBytes - entries[m].code
      BY <3>4, AccountedIs
    <3>. QED BY <3>3, <3>5, <3>6, SettlesKeeps
  <2>. QED BY <2>3, <2>4
<1>6. CASE Enable \/ Disable
  BY <1>6 DEF Enable, Disable, entryVars
<1>7. CASE Cleared
  <2>1. entries' = [m \in Methods |-> NoEntry] /\ cacheBytes' = 0
    BY <1>7 DEF Cleared
  <2>2. Table(entries') /\ \A m \in Methods : entries'[m].code = 0
    BY <2>1 DEF Table, Entry, NoEntry
  <2>3. Total(entries', Methods) = 0
    BY <2>2, NoCode
  <2>. QED BY <2>1, <2>2, <2>3, JitAssumption DEF Accounted
<1>. QED BY <1>1, <1>2, <1>3, <1>4, <1>5, <1>6, <1>7 DEF VmStep

-----------------------------------------------------------------------------
(***************************************************************************)
(* The theorems.                                                           *)
(***************************************************************************)
BackgroundInv == ExecutorInv /\ QueueInv /\ Accounted(entries, cacheBytes)

LEMMA InitHolds == Init => BackgroundInv /\ Loop!Init
<1>. SUFFICES ASSUME Init PROVE BackgroundInv /\ Loop!Init
  OBVIOUS
<1>1. entries = [m \in Methods |-> NoEntry] /\ cacheBytes = 0
  BY DEF Init, JitInit
<1>2. Table(entries) /\ \A m \in Methods : entries[m].code = 0
  BY <1>1 DEF Table, Entry, NoEntry
<1>3. Total(entries, Methods) = 0
  BY <1>2, NoCode
<1>4. Accounted(entries, cacheBytes)
  BY <1>1, <1>2, <1>3, JitAssumption DEF Accounted
<1>. QED BY <1>4, InitIsLoop, InitQueue DEF BackgroundInv

LEMMA StepHolds ==
  ASSUME BackgroundInv, [Next]_vars
  PROVE  BackgroundInv' /\ LoopStep
<1>1. machine \in Machines /\ JitTypeOK /\ frameJobs \in Nat
  BY DEF BackgroundInv, QueueInv, WorkTypeOK
<1>2. CASE Executes /\ UNCHANGED jitVars
  <2>1. machine' = machine /\ UNCHANGED <<backgroundJobs, pressed, admission>>
    BY <1>2 DEF Executes, Submit, CallerStep, Publish, Begin, Notify, Await, End, Works, TakeItems,
       TaskReturns, HelperStep, CheckNews, Done, workVars
  <2>2. frameJobs' \in Nat
    <3>1. frameJobs' \in {frameJobs, frameJobs + 1} \/ (frameJobs' = IF frameJobs = 0 THEN 0 ELSE frameJobs - 1)
      BY <1>2 DEF Executes, Submit, CallerStep, Publish, Begin, Notify, Await, End, Works, TakeItems,
         TaskReturns, HelperStep, CheckNews, Done, workVars, BeginFrameWork, EndFrameWork
    <3>. QED BY <1>1, <3>1
  <2>3. pressed \in BOOLEAN
    BY DEF BackgroundInv, QueueInv, WorkTypeOK
  <2>4. QueueInv'
    BY <1>2, <2>1, <2>2, <2>3, FrameWorkKeeps DEF BackgroundInv
  <2>5. ExecutorInv' /\ LoopStep
    BY <1>1, <1>2, <2>1, ExecutesKeeps DEF BackgroundInv
  <2>6. Accounted(entries', cacheBytes')
    BY <1>2 DEF BackgroundInv, jitVars, entryVars
  <2>. QED BY <2>4, <2>5, <2>6 DEF BackgroundInv
<1>3. CASE VmStep /\ UNCHANGED <<workVars, executorVars>>
  <2>1. Accounted(entries', cacheBytes')
    BY <1>1, <1>3, EntriesKeep DEF BackgroundInv
  <2>2. entries' \in [Methods -> Entry] /\ cacheBytes' \in Nat
    <3>1. entries' \in [Methods -> Entry]
      BY <2>1 DEF Accounted, Table
    <3>2. cacheBytes' \in Nat
      BY <2>1, <3>1, TotalIsNatural DEF Accounted
    <3>. QED BY <3>1, <3>2
  <2>3. QueueInv'
    BY <1>3, <2>2, VmKeeps DEF BackgroundInv
  <2>4. ExecutorInv' /\ LoopStep
    BY <1>3, ExecutorStays DEF BackgroundInv, workVars
  <2>. QED BY <2>1, <2>3, <2>4 DEF BackgroundInv
<1>4. CASE (\E w \in Compilers : CompilerStep(w)) /\ UNCHANGED executorVars
  <2>1. QueueInv' /\ machine' = machine /\ UNCHANGED entryVars
    BY <1>4, CompilerKeeps DEF BackgroundInv
  <2>2. ExecutorInv' /\ LoopStep
    BY <1>4, <2>1, ExecutorStays DEF BackgroundInv
  <2>. QED BY <2>1, <2>2 DEF BackgroundInv, entryVars
<1>5. CASE PressureChanges
  <2>1. /\ pressed' \in BOOLEAN /\ UNCHANGED <<machine, frameJobs, backgroundJobs, admission>>
        /\ UNCHANGED executorVars /\ UNCHANGED jitVars
    BY <1>5 DEF PressureChanges, Pressure
  <2>2. QueueInv'
    BY <1>1, <2>1, FrameWorkKeeps DEF BackgroundInv
  <2>3. ExecutorInv' /\ LoopStep
    BY <2>1, ExecutorStays DEF BackgroundInv
  <2>. QED BY <2>1, <2>2, <2>3 DEF BackgroundInv, jitVars, entryVars
<1>6. CASE UNCHANGED vars
  <2>1. /\ UNCHANGED <<machine, frameJobs, backgroundJobs, pressed, admission>>
        /\ UNCHANGED executorVars /\ UNCHANGED jitVars
    BY <1>6 DEF vars, workVars
  <2>2. pressed' \in BOOLEAN /\ frameJobs' \in Nat
    BY <2>1 DEF BackgroundInv, QueueInv, WorkTypeOK
  <2>3. QueueInv'
    BY <2>1, <2>2, FrameWorkKeeps DEF BackgroundInv
  <2>4. ExecutorInv' /\ LoopStep
    BY <2>1, ExecutorStays DEF BackgroundInv
  <2>. QED BY <2>1, <2>3, <2>4 DEF BackgroundInv, jitVars, entryVars
<1>. QED BY <1>2, <1>3, <1>4, <1>5, <1>6 DEF Next

\* Every step of the executor, of a compiler, of the VM and of the pressure keeps
\* the invariant: slots and counts of a job, the token, the queue, the entries.
THEOREM BackgroundInductive == Spec => []BackgroundInv
<1>1. Init => BackgroundInv
  BY InitHolds
<1>2. BackgroundInv /\ [Next]_vars => BackgroundInv'
  BY StepHolds
<1>. QED BY <1>1, <1>2, PTL DEF Spec

\* The state keeps its shape, and one worker at most has the token.
THEOREM TokenIsHeld == Spec => [](TypeOK /\ TokenHeld)
<1>1. BackgroundInv => TypeOK /\ TokenHeld
  BY DEF BackgroundInv, ExecutorInv, QueueInv, TypeOK
<1>. QED BY <1>1, BackgroundInductive, PTL

\* The bytes that are counted are those of the compiled methods, within the limit.
THEOREM CacheIsAccounted == Spec => []CacheAccounted
<1>1. BackgroundInv => CacheAccounted
  BY AccountedIs DEF BackgroundInv
<1>. QED BY <1>1, BackgroundInductive, PTL

\* Every item of a loop is handed to exactly one thread, and the call returns when
\* all are done and not before.
THEOREM LoopsImplement == Spec => Loop!Spec
<1>1. Init => Loop!Init
  BY InitHolds
<1>2. BackgroundInv /\ [Next]_vars => [Loop!Next]_(Loop!vars)
  BY StepHolds DEF LoopStep
<1>. QED BY <1>1, <1>2, BackgroundInductive, PTL DEF Spec, Loop!Spec

=============================================================================
