-------------------------- MODULE CooperativeFibers --------------------------
(***************************************************************************)
(* What the fiber scheduler promises, without queues, flags and deadlines: *)
(* at most one fiber runs, it runs until it gives the processor up, and    *)
(* every fiber that is ready gets a turn as long as the scheduler is open. *)
(* It closes only to stop, and not before every fiber has finished; those  *)
(* that arrive while it stops may find it closed, and may be dropped.      *)
(***************************************************************************)
CONSTANT Fibers

VARIABLES status, open, stopping

schedulerVars == <<status, open, stopping>>

Init ==
  /\ status = [f \in Fibers |-> "absent"]
  /\ open = FALSE /\ stopping = FALSE

NoneRuns == \A f \in Fibers : status[f] # "running"
NoneLives == \A f \in Fibers : status[f] \in {"absent", "finished"}

Become(f, s) == status' = [status EXCEPT ![f] = s] /\ UNCHANGED <<open, stopping>>

Arrive(f) == status[f] = "absent" /\ (open \/ stopping) /\ Become(f, "ready")
Run(f) == open /\ status[f] = "ready" /\ NoneRuns /\ Become(f, "running")
Unblock(f) == status[f] = "blocked" /\ Become(f, "ready")
GiveUp(f) ==
  /\ status[f] = "running"
  /\ \E s \in {"ready", "blocked", "finished"} : Become(f, s)

Open == ~open /\ open' = TRUE /\ UNCHANGED <<status, stopping>>
Stop == ~stopping /\ stopping' = TRUE /\ UNCHANGED <<status, open>>
Close == open /\ stopping /\ NoneLives /\ open' = FALSE /\ UNCHANGED <<status, stopping>>

\* The fibers that are not running are given up.
Drop ==
  /\ stopping
  /\ status' = [f \in Fibers |->
       IF status[f] \in {"ready", "blocked"} THEN "finished" ELSE status[f]]
  /\ UNCHANGED <<open, stopping>>

Next ==
  \/ \E f \in Fibers : Arrive(f) \/ Run(f) \/ Unblock(f) \/ GiveUp(f)
  \/ Open \/ Stop \/ Close \/ Drop

Spec == Init /\ [][Next]_schedulerVars

FairSpec ==
  /\ Spec
  /\ \A f \in Fibers : SF_schedulerVars(Run(f)) /\ WF_schedulerVars(GiveUp(f))
=============================================================================
