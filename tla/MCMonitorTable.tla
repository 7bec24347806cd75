--------------------------- MODULE MCMonitorTable ---------------------------
(***************************************************************************)
(* Instances of MonitorTable for TLC: a main thread, which is always a     *)
(* host thread, and workers that are host threads or fibers.               *)
(***************************************************************************)
EXTENDS MonitorTable, TLC

\* The workers are interchangeable: nothing in Spec distinguishes them.
FiberSymmetry == Permutations(Fibers)
ThreadSymmetry == Permutations(Threads)
=============================================================================
