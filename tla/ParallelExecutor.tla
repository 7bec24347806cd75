--------------------------- MODULE ParallelExecutor ---------------------------
(***************************************************************************)
(* ParallelExecutor::parallel_for and its helper threads.  The caller is   *)
(* the thread that has submission_mutex_; it works too, and waits for the  *)
(* helpers it has admitted, not for those that woke up for nothing.  A     *)
(* call that runs inline, for want of helpers or inside a task, leaves the *)
(* executor alone.  The generation of a job is known to a helper or new to *)
(* it.  The destructor and a helper that cannot be created are left out.   *)
(***************************************************************************)
EXTENDS WorkCoordinator, FiniteSets

CONSTANTS
  MaxHelpers, \* the helper threads the process may create
  MaxItems,   \* a bound on item_count
  Chunks      \* values of chunk_items

ASSUME ExecutorAssumption ==
  /\ MaxHelpers \in Nat /\ MaxItems \in Nat \ {0} /\ Chunks \subseteq Nat \ {0}

VARIABLES
  phase,     \* where a thread is; "none" is a helper not created
  job,       \* the current job: items, chunk, helpers, and if it is frame work
  slots,     \* helper_slots_remaining_
  completed, \* completed_workers_
  nextItem,  \* next_item_
  news,      \* the helpers whose observed_generation is not generation_
  inHand     \* per thread, the items task is called for

Helpers == 1..MaxHelpers
Caller == 0 \* the thread that submits
Agents == Helpers \cup {Caller}
jobVars == <<job, slots, completed, nextItem, news>>
executorVars == <<jobVars, phase, inHand>>

NoJob == [items |-> 0, chunk |-> 1, helpers |-> 0, frame |-> FALSE]

\* machine.helpers is worker_limit_, machine.items a bound on the loops of this
\* machine.
ExecutorInit ==
  /\ phase = [a \in Agents |-> IF a = Caller THEN "idle" ELSE "none"]
  /\ job = NoJob /\ slots = 0 /\ completed = 0 /\ nextItem = 0 /\ news = {}
  /\ inHand = [a \in Agents |-> {}]

In(a, place) == phase[a] = place
Go(a, place) == phase' = [phase EXCEPT ![a] = place]
Created == {w \in Helpers : phase[w] # "none"}
-----------------------------------------------------------------------------
(* The caller.                                                             *)

\* The coordinator admits some helpers; those that are missing are created.
Submit ==
  /\ In(Caller, "idle")
  /\ \E n \in 1..machine.items, c \in Chunks, h \in 1..machine.helpers, f \in BOOLEAN :
       /\ c <= n \* a longer chunk is the whole loop
       /\ job' = [items |-> n, chunk |-> c, helpers |-> h, frame |-> f]
       /\ phase' = [a \in Agents |->
            IF a = Caller THEN "publish"
            ELSE IF a <= h /\ In(a, "none") THEN "check" ELSE phase[a]]
  /\ UNCHANGED <<slots, completed, nextItem, news, inHand, workVars>>

\* wrong: what the helpers of the last job have counted stays
Uncounted == completed
Counted == 0

Publish ==
  /\ In(Caller, "publish") /\ Go(Caller, "begin")
  /\ slots' = job.helpers /\ completed' = Counted /\ nextItem' = 0 /\ news' = Created
  /\ UNCHANGED <<job, inHand, workVars>>

Begin ==
  /\ In(Caller, "begin") /\ Go(Caller, "notify")
  /\ IF job.frame THEN BeginFrameWork ELSE UNCHANGED frameJobs
  /\ UNCHANGED <<jobVars, inHand, machine, backgroundJobs, pressed, admission>>

Asleep == {w \in Helpers : In(w, "asleep")}
\* notify_one when one helper is admitted, else notify_all
Roused(ws) == ws \subseteq Asleep /\
  IF job.helpers = 1 THEN Cardinality(ws) = IF Asleep = {} THEN 0 ELSE 1 ELSE ws = Asleep

Notify ==
  /\ In(Caller, "notify")
  /\ \E ws \in SUBSET Helpers :
       /\ Roused(ws)
       /\ phase' = [a \in Agents |->
            IF a = Caller THEN "drain" ELSE IF a \in ws THEN "check" ELSE phase[a]]
  /\ UNCHANGED <<jobVars, inHand, workVars>>

\* The helpers that were admitted are done, whether or not they came in time to
\* do anything.  Until then the caller sleeps.
AllDone == completed = job.helpers

Await ==
  /\ In(Caller, "await")
  /\ \/ AllDone /\ Go(Caller, "end") /\ slots' = 0
     \/ ~AllDone /\ Go(Caller, "resting") /\ UNCHANGED slots
  /\ UNCHANGED <<job, completed, nextItem, news, inHand, workVars>>

End ==
  /\ In(Caller, "end") /\ Go(Caller, "idle") /\ job' = NoJob
  /\ IF job.frame THEN EndFrameWork ELSE UNCHANGED frameJobs
  /\ UNCHANGED <<slots, completed, nextItem, news, inHand, machine, backgroundJobs, pressed, admission>>
-----------------------------------------------------------------------------
(* drain_current_job, of the caller and of a helper that participates.     *)

Least(a, b) == IF a <= b THEN a ELSE b

TakeItems(a) ==
  /\ In(a, "drain")
  /\ nextItem' = nextItem + job.chunk
  /\ inHand' = [inHand EXCEPT ![a] =
       nextItem .. (Least(nextItem + job.chunk, job.items) - 1)]
  /\ Go(a, IF nextItem < job.items THEN "task" ELSE IF a = Caller THEN "await" ELSE "done")
  /\ UNCHANGED <<job, slots, completed, news, workVars>>

TaskReturns(a) ==
  /\ In(a, "task") /\ Go(a, "drain")
  /\ inHand' = [inHand EXCEPT ![a] = {}]
  /\ UNCHANGED <<jobVars, workVars>>
-----------------------------------------------------------------------------
(* worker_loop.                                                            *)

Admitted == slots # 0

\* The wait ends for a new generation.  One that finds the slots taken, or that
\* comes when the job is over, has seen it and goes on waiting.
CheckNews(w) ==
  /\ In(w, "check")
  /\ \/ w \notin news /\ Go(w, "asleep") /\ UNCHANGED <<news, slots>>
     \/ /\ w \in news /\ news' = news \ {w}
        /\ \/ Admitted /\ Go(w, "drain") /\ slots' = slots - 1
           \/ ~Admitted /\ UNCHANGED <<phase, slots>>
  /\ UNCHANGED <<job, completed, nextItem, inHand, workVars>>

Done(w) ==
  /\ In(w, "done")
  /\ completed' = completed + 1
  /\ phase' = [phase EXCEPT ![w] = "check",
       ![Caller] = IF @ = "resting" /\ completed' = job.helpers THEN "await" ELSE @]
  /\ UNCHANGED <<job, slots, nextItem, news, inHand, workVars>>

CallerStep == Publish \/ Begin \/ Notify \/ Await \/ End
Works(a) == TakeItems(a) \/ TaskReturns(a)
HelperStep(w) == CheckNews(w) \/ Works(w) \/ Done(w)
Executes == Submit \/ CallerStep \/ Works(Caller) \/ \E w \in Helpers : HelperStep(w)

\* Threads run, and tasks return.
ExecutorFairness ==
  /\ WF_<<executorVars, workVars>>(CallerStep \/ Works(Caller))
  /\ \A w \in Helpers : WF_<<executorVars, workVars>>(HelperStep(w))
-----------------------------------------------------------------------------
ExecutorTypeOK ==
  /\ phase \in [Agents -> {"none", "idle", "publish", "begin", "notify", "drain", "task",
                           "await", "resting", "end", "check", "asleep", "done"}]
  /\ job \in [items : 0..MaxItems, chunk : Nat \ {0}, helpers : 0..machine.helpers, frame : BOOLEAN]
  /\ slots \in 0..machine.helpers /\ completed \in 0..machine.helpers /\ nextItem \in Nat
  /\ news \subseteq Helpers /\ inHand \in [Agents -> SUBSET (0..(MaxItems - 1))]

Running == phase[Caller] \in {"begin", "notify", "drain", "task", "await", "resting"}

\* Every item is handed to one thread, and the call returns when all are done
\* and not before, which it does: see ParallelLoop.
Loop == INSTANCE ParallelLoop WITH
  running <- Running,
  todo <- IF Running THEN {i \in 0..(MaxItems - 1) : nextItem <= i /\ i < job.items} ELSE {}

ImplementsParallelLoop == Loop!FairSpec
=============================================================================
