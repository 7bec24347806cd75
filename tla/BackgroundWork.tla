---------------------------- MODULE BackgroundWork ----------------------------
(***************************************************************************)
(* The native work of a process: the loops of the ParallelExecutor, the    *)
(* compilers of the JIT, and the pressure under which the WorkCoordinator  *)
(* lets them run.                                                          *)
(***************************************************************************)
EXTENDS ParallelExecutor, JitCache

ASSUME MachineAssumption ==
  Machines \subseteq [helpers : 0..MaxHelpers, items : 0..MaxItems,
                      compilers : SUBSET Compilers, code : SUBSET (Methods \X Sources)]

vars == <<workVars, executorVars, jitVars>>

Init == WorkInit /\ ExecutorInit /\ JitInit

\* A bound: where loops have helpers, it is their frames that press.
PressureChanges == machine.helpers = 0 /\ Pressure /\ UNCHANGED <<executorVars, jitVars>>

Next ==
  \/ Executes /\ UNCHANGED jitVars
  \/ VmStep /\ UNCHANGED <<workVars, executorVars>>
  \/ (\E w \in Compilers : CompilerStep(w)) /\ UNCHANGED executorVars
  \/ PressureChanges

Spec == Init /\ [][Next]_vars
FairSpec == Spec /\ ExecutorFairness /\ JitFairness

TypeOK == WorkTypeOK /\ ExecutorTypeOK /\ JitTypeOK
=============================================================================
