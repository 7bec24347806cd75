--------------------------- MODULE MCRecordStore ---------------------------
(* Small instances of RecordStore for TLC. *)
EXTENDS RecordStore, TLC

CONSTANTS a, b

StoreSymmetry == Permutations(Stores)
=============================================================================
