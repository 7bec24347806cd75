----------------------------- MODULE ParallelLoop -----------------------------
(***************************************************************************)
(* What ParallelExecutor::parallel_for promises: every item of the loop is *)
(* handed to exactly one thread, one at a time per thread, and the call    *)
(* returns when all are done, which they will be.                          *)
(***************************************************************************)
EXTENDS Naturals

CONSTANTS Agents, MaxItems

VARIABLES
  running, \* a call is under way
  todo,    \* the items nobody has taken
  inHand   \* per thread, the items it is at

vars == <<running, todo, inHand>>

Init ==
  /\ running = FALSE /\ todo = {} /\ inHand = [a \in Agents |-> {}]

Begin ==
  /\ ~running /\ running' = TRUE
  /\ \E n \in 1..MaxItems : todo' = 0..(n - 1)
  /\ UNCHANGED inHand

Take(a) ==
  /\ inHand[a] = {}
  /\ \E part \in (SUBSET todo) \ {{}} :
       /\ inHand' = [inHand EXCEPT ![a] = part]
       /\ todo' = todo \ part
  /\ UNCHANGED running

Finish(a) ==
  /\ inHand[a] # {} /\ inHand' = [inHand EXCEPT ![a] = {}]
  /\ UNCHANGED <<running, todo>>

Return ==
  /\ running /\ todo = {} /\ \A a \in Agents : inHand[a] = {}
  /\ running' = FALSE
  /\ UNCHANGED <<todo, inHand>>

Next == Begin \/ Return \/ \E a \in Agents : Take(a) \/ Finish(a)

Spec == Init /\ [][Next]_vars

FairSpec ==
  /\ Spec /\ WF_vars(Return)
  /\ WF_vars(\E a \in Agents : Take(a))
  /\ \A a \in Agents : WF_vars(Finish(a))
=============================================================================
