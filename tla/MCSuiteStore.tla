---------------------------- MODULE MCSuiteStore ----------------------------
(* Small instances of SuiteStore for TLC. *)
EXTENDS SuiteStore, TLC

CONSTANTS a, b, v1, v2

SuiteSymmetry == Permutations(Suites) \cup Permutations(Versions)
=============================================================================
