-------------------------------- MODULE Heap --------------------------------
(***************************************************************************)
(* vm/Heap.cpp: slots with generations, the list of free slots, the cache  *)
(* of resolved references, the collector, and what Machine does after a    *)
(* collection.  An object is a slot; a reference names the slot and the    *)
(* generation it was handed out for, so that a reference to an object that *)
(* is gone can be told from one to the object now in its place.            *)
(*                                                                         *)
(* The heap is used by the holder of the execution gate, who also          *)
(* collects; nothing interrupts a collection.  Of an object's fields and   *)
(* elements one reference is left, strong or, in a WeakReference, weak.    *)
(* The limit on bytes may stop an allocation at any time: a collection     *)
(* begins at any time.                                                     *)
(***************************************************************************)
EXTENDS Naturals, Sequences, FiniteSets

CONSTANTS
  MaximumObjects, \* HeapLimits::maximum_objects
  MaxGeneration,  \* the largest value of the u32 Slot::generation
  CacheSize,      \* kVmSlotCacheSize
  Null            \* the null reference

ASSUME HeapAssumption ==
  /\ MaximumObjects \in Nat \ {0} /\ MaxGeneration \in Nat \ {0}
  /\ CacheSize \in Nat \ {0}

Refs == (1..MaximumObjects) \X (1..MaxGeneration)

ASSUME NullAssumption == Null \notin Refs

VARIABLES
  heapSlots,  \* slots_
  freeSlots,  \* free_slots_; its end is used first
  slotCache,  \* vm_slot_cache_: per line, the reference it resolves
  pending,    \* the references the collector has still to look at
  collecting, \* inside collect()
  images,     \* the keys of GraphicsStore::images_ and lambda_bindings_
  held        \* what the roots of the machine yield

heapVars == <<heapSlots, freeSlots, slotCache, pending, collecting, images, held>>

HeapInit ==
  /\ heapSlots = <<>> /\ freeSlots = <<>>
  /\ slotCache = [line \in 0..CacheSize - 1 |-> Null]
  /\ pending = {} /\ collecting = FALSE
  /\ images = {} /\ held = {}

Line(r) == r[1] % CacheSize

\* resolve_slot_unlocked
Resolves(r) ==
  /\ r[1] <= Len(heapSlots)
  /\ heapSlots[r[1]].occupied /\ heapSlots[r[1]].generation = r[2]

\* resolve_slot_vm_fast: a hit in the cache is believed.
ResolvesFast(r) == slotCache[Line(r)] = r \/ Resolves(r)
Remember(r) == slotCache' = [slotCache EXCEPT ![Line(r)] = r]

-----------------------------------------------------------------------------
(***************************************************************************)
(* The program.                                                            *)
(***************************************************************************)

\* ensure_capacity_unlocked, as far as objects go.
HasRoom == freeSlots # <<>> \/ Len(heapSlots) < MaximumObjects

\* allocate_unlocked
NewObject(k) ==
  /\ ~collecting /\ HasRoom
  /\ LET reused == freeSlots # <<>>
         i == IF reused THEN freeSlots[Len(freeSlots)] ELSE Len(heapSlots) + 1
         g == IF reused THEN heapSlots[i].generation ELSE 1
         object == [occupied |-> TRUE, generation |-> g, kind |-> k,
                    link |-> Null, marked |-> FALSE]
     IN  /\ heapSlots' = IF reused THEN [heapSlots EXCEPT ![i] = object]
                               ELSE Append(heapSlots, object)
         /\ freeSlots' = IF reused THEN SubSeq(freeSlots, 1, Len(freeSlots) - 1)
                                   ELSE freeSlots
         /\ held' = held \cup {<<i, g>>}
  /\ UNCHANGED <<slotCache, pending, collecting, images>>

\* vm_set_field of an ordinary object.
StoreField(r, v) ==
  /\ ~collecting /\ heapSlots[r[1]].kind = "strong"
  /\ ResolvesFast(r) /\ Remember(r)
  /\ heapSlots' = [heapSlots EXCEPT ![r[1]].link = v]
  /\ UNCHANGED <<freeSlots, pending, collecting, images, held>>

\* set_weak_referent; a referent that does not resolve is refused.
StoreReferent(r, v) ==
  /\ ~collecting /\ heapSlots[r[1]].kind = "weak"
  /\ Resolves(r) /\ (v # Null => Resolves(v))
  /\ heapSlots' = [heapSlots EXCEPT ![r[1]].link = v]
  /\ UNCHANGED <<freeSlots, slotCache, pending, collecting, images, held>>

\* vm_field
LoadField(r) ==
  /\ ~collecting /\ heapSlots[r[1]].kind = "strong"
  /\ ResolvesFast(r) /\ Remember(r)
  /\ held' = held \cup ({heapSlots[r[1]].link} \ {Null})
  /\ UNCHANGED <<heapSlots, freeSlots, pending, collecting, images>>

\* weak_referent: null when the referent does not resolve.
LoadReferent(r) ==
  /\ ~collecting /\ heapSlots[r[1]].kind = "weak" /\ Resolves(r)
  /\ LET v == heapSlots[r[1]].link
     IN  v # Null /\ Resolves(v) /\ held' = held \cup {v}
  /\ UNCHANGED <<heapSlots, freeSlots, slotCache, pending, collecting, images>>

\* The last frame or static that has the reference lets it go.
Forget(r) ==
  /\ ~collecting
  /\ held' = held \ {r}
  /\ UNCHANGED <<heapSlots, freeSlots, slotCache, pending, collecting, images>>

\* A native creates the pixels of an Image, or the binding of a lambda.
Draw(r) ==
  /\ ~collecting /\ images' = images \cup {r}
  /\ UNCHANGED <<heapSlots, freeSlots, slotCache, pending, collecting, held>>

-----------------------------------------------------------------------------
(***************************************************************************)
(* Heap::collect, and the pruning that follows it.                         *)
(***************************************************************************)
Occupied == {i \in DOMAIN heapSlots : heapSlots[i].occupied}

KeptCache == slotCache \* wrong: the cache lives through a collection
ClearedCache == [line \in DOMAIN slotCache |-> Null]

BeginCollection ==
  /\ ~collecting
  /\ slotCache' = ClearedCache
  /\ heapSlots' = [i \in DOMAIN heapSlots |->
                 [heapSlots[i] EXCEPT !.marked = IF heapSlots[i].occupied THEN FALSE ELSE @]]
  /\ pending' = held
  /\ collecting' = TRUE
  /\ UNCHANGED <<freeSlots, images, held>>

\* What mark_unlocked adds to the pending references.
Traced(object) ==
  IF object.kind = "strong" THEN {object.link} \ {Null} ELSE {}

\* The order does not matter: a mark is never taken back.
Mark ==
  /\ collecting /\ pending # {}
  /\ LET r == CHOOSE r \in pending : TRUE
         fresh == Resolves(r) /\ ~heapSlots[r[1]].marked
     IN  /\ heapSlots' = IF fresh THEN [heapSlots EXCEPT ![r[1]].marked = TRUE] ELSE heapSlots
         /\ pending' = (pending \ {r})
                         \cup (IF fresh THEN Traced(heapSlots[r[1]]) ELSE {})
  /\ UNCHANGED <<freeSlots, slotCache, collecting, images, held>>

Unmarked == {i \in Occupied : ~heapSlots[i].marked}

\* The one sequence that visits S from below.
Ascending(S) ==
  {q \in [1..Cardinality(S) -> S] : \A i, j \in 1..Cardinality(S) : i < j => q[i] < q[j]}

NextGeneration(g) == IF g = MaxGeneration THEN 1 ELSE g + 1

\* An emptied slot keeps nothing but its new generation.
Emptied(slot) ==
  [occupied |-> FALSE, generation |-> NextGeneration(slot.generation),
   kind |-> "strong", link |-> Null, marked |-> FALSE]

Survives(object) ==
  \/ object.kind = "strong"
  \/ object.link # Null /\ Resolves(object.link) /\ heapSlots[object.link[1]].marked

\* The images of objects that resolve stay.  Asking resolves through the
\* cache, where each line then has one of those asked last.
Prune ==
  LET live == {r \in images :
                 slotCache[Line(r)] = r \/ Resolves(r)'}
  IN  /\ images' = live
      /\ slotCache' \in [DOMAIN slotCache -> Refs \cup {Null}]
      /\ \A line \in DOMAIN slotCache :
           LET asked == {r \in live : Line(r) = line}
           IN  slotCache'[line] \in IF asked = {} THEN {slotCache[line]} ELSE asked

FinishCollection ==
  /\ collecting /\ pending = {}
  /\ heapSlots' = [i \in DOMAIN heapSlots |->
                 IF i \in Unmarked THEN Emptied(heapSlots[i])
                 ELSE [heapSlots[i] EXCEPT !.link = IF Survives(heapSlots[i]) THEN @ ELSE Null]]
  /\ \E q \in Ascending(Unmarked) : freeSlots' = freeSlots \o q
  /\ Prune
  /\ collecting' = FALSE
  /\ UNCHANGED <<pending, held>>

-----------------------------------------------------------------------------
Mutator ==
  \/ \E k \in {"strong", "weak"} : NewObject(k)
  \/ \E r \in held : \/ LoadField(r) \/ LoadReferent(r) \/ Forget(r) \/ Draw(r)
                     \/ \E v \in held \cup {Null} : StoreField(r, v) \/ StoreReferent(r, v)

Collector == BeginCollection \/ Mark \/ FinishCollection

HeapNext == Mutator \/ Collector
HeapSpec == HeapInit /\ [][HeapNext]_heapVars

HeapTypeOK ==
  /\ heapSlots \in Seq([occupied : BOOLEAN, generation : 1..MaxGeneration,
                    kind : {"strong", "weak"}, link : Refs \cup {Null},
                    marked : BOOLEAN])
  /\ Len(heapSlots) <= MaximumObjects
  /\ freeSlots \in Seq(1..MaximumObjects)
  /\ slotCache \in [0..CacheSize - 1 -> Refs \cup {Null}]
  /\ pending \subseteq Refs /\ images \subseteq Refs /\ held \subseteq Refs
  /\ collecting \in BOOLEAN

(***************************************************************************)
(* Collections take exactly the objects that cannot be reached, and no     *)
(* weak reference, image or cached resolution of one of them passes to the *)
(* object that gets its slot next, whatever the order of allocation and    *)
(* collection, and after the generations have come round.                  *)
(***************************************************************************)
Named(i) == <<i, heapSlots[i].generation>>
Existing == {Named(i) : i \in Occupied}
Kind == [r \in Existing |-> heapSlots[r[1]].kind]
Link == [r \in Existing |-> heapSlots[r[1]].link]

Promised == INSTANCE JavaHeap WITH
  objects <- Existing, kind <- Kind, link <- Link, drawn <- images

ImplementsJavaHeap == Promised!Spec
=============================================================================
