------------------------------ MODULE JavaHeap ------------------------------
(***************************************************************************)
(* What a Java program may expect of the heap: an object keeps what was    *)
(* stored in it for as long as the program can reach it; a collection      *)
(* takes the others, all of them, and in the same step no weak reference   *)
(* and no table of the runtime speaks of them any more.  Heap implements   *)
(* it.                                                                     *)
(***************************************************************************)
CONSTANTS Refs, Null

VARIABLES
  objects, \* the references of the objects that exist
  kind,    \* of each, "strong" or "weak": how it refers
  link,    \* of each, the object it refers to, or Null
  drawn,   \* the objects for which the runtime keeps data of its own
  held     \* the references the program has in its frames and statics

vars == <<objects, kind, link, drawn, held>>

Init ==
  /\ objects = {} /\ kind = <<>> /\ link = <<>> /\ drawn = {} /\ held = {}

Allocate ==
  \E r \in Refs \ objects, k \in {"strong", "weak"} :
    /\ objects' = objects \cup {r}
    /\ kind' = [o \in objects' |-> IF o = r THEN k ELSE kind[o]]
    /\ link' = [o \in objects' |-> IF o = r THEN Null ELSE link[o]]
    /\ held' = held \cup {r}
    /\ UNCHANGED drawn

Store ==
  \E r \in held, v \in held \cup {Null} :
    /\ link' = [link EXCEPT ![r] = v]
    /\ UNCHANGED <<objects, kind, drawn, held>>

\* A weak reference is read like a field: what it yields exists.
Load ==
  \E r \in held :
    /\ link[r] # Null
    /\ held' = held \cup {link[r]}
    /\ UNCHANGED <<objects, kind, link, drawn>>

Forget ==
  \E r \in held : held' = held \ {r} /\ UNCHANGED <<objects, kind, link, drawn>>

Draw ==
  \E r \in held : drawn' = drawn \cup {r} /\ UNCHANGED <<objects, kind, link, held>>

Closed(S) ==
  /\ held \subseteq S
  /\ \A r \in S : kind[r] = "strong" => link[r] \in S \cup {Null}

Collect ==
  \E reached \in SUBSET objects :
    /\ Closed(reached)
    /\ \A S \in SUBSET objects : Closed(S) => reached \subseteq S
    /\ objects' = reached
    /\ kind' = [r \in reached |-> kind[r]]
    /\ link' = [r \in reached |-> IF link[r] \in reached THEN link[r] ELSE Null]
    /\ drawn' = drawn \cap reached
    /\ UNCHANGED held

Next == Allocate \/ Store \/ Load \/ Forget \/ Draw \/ Collect

Spec == Init /\ [][Next]_vars
=============================================================================
