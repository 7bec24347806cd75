-------------------------- MODULE MCEmulationEvents --------------------------
(* Small instances of EmulationEvents for TLC. *)
EXTENDS EmulationEvents, TLC

CONSTANTS g, h, tm, t, p, r, NoOne

\* One Java thread and the runtime's own.
MCMakes == g :> {"timer", "player"} @@ h :> {"callSerially", "coalesce", "pump"}
=============================================================================
