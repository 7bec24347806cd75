------------------------- MODULE MCFiberScheduler -------------------------
(* Small instances of FiberScheduler for TLC. *)
EXTENDS FiberScheduler, TLC

CONSTANTS f1, f2, f3

FiberSymmetry == Permutations(Fibers)
===========================================================================
