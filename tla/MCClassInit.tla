---------------------------- MODULE MCClassInit ----------------------------
(* Small instances of ClassInit for TLC. *)
EXTENDS ClassInit, TLC

CONSTANTS main, t1, A, B

\* B extends A; the code of either may use the other.
BExtendsA == A :> <<>> @@ B :> <<A>>
============================================================================
