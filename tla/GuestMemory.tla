----------------------------- MODULE GuestMemory -----------------------------
(***************************************************************************)
(* The Java threads, and the memory they share under the execution gate:   *)
(* the heap, and what makes the references of running code roots of it.    *)
(* None of the three reads a table of another; a behaviour here is one of  *)
(* the three at work.                                                      *)
(***************************************************************************)
EXTENDS JavaThreads, Heap, ExecutionRoots

CONSTANT Parts \* a bound: those that an instance looks at

ASSUME PartsAssumption == Parts \subseteq {"threads", "heap", "roots"}

VARIABLE part \* a bound: the one that moves

guestVars == <<allVars, heapVars, executionVars, part>>

GuestInit ==
  /\ JInit /\ HeapInit /\ RootsInit
  /\ part \in Parts

GuestNext ==
  \/ part = "threads" /\ JNext /\ UNCHANGED <<heapVars, executionVars, part>>
  \/ part = "heap" /\ HeapNext /\ UNCHANGED <<allVars, executionVars, part>>
  \/ part = "roots" /\ ExecutionNext /\ UNCHANGED <<allVars, heapVars, part>>

GuestSpec == GuestInit /\ [][GuestNext]_guestVars

\* The heap and the roots owe no progress: only threads do.
GuestFairSpec == GuestSpec /\ JFairness

GuestTypeOK == JTypeOK /\ HeapTypeOK /\ ExecutionTypeOK
=============================================================================
