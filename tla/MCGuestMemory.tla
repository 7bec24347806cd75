--------------------------- MODULE MCGuestMemory ---------------------------
(* Small instances of GuestMemory for TLC. *)
EXTENDS GuestMemory, TLC

CONSTANTS main, t1, t2, u1, u2, a, b

\* The threads and objects of ExecutionRoots are interchangeable; main, t1 and
\* t2 are not.
GuestSymmetry == Permutations(JavaThreads) \cup Permutations(Things)
============================================================================
