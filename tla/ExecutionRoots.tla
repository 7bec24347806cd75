---------------------------- MODULE ExecutionRoots ----------------------------
(***************************************************************************)
(* How the references of running code become roots of the collector: the   *)
(* ExecutionContext of each Java thread, with one entry per depth of       *)
(* execute(), and the code of vm/Machine.cpp that fills and clears it.     *)
(*                                                                         *)
(* A thread's activations are a stack.  execute() publishes its arguments, *)
(* may have to wait for a synchronized method's monitor, and then runs a   *)
(* native method, compiled code, which an overlay reports, or the          *)
(* interpreter, whose frames a walker reports as long as it lasts.  From   *)
(* there natives and compiled methods are called at the same depth; a      *)
(* native may block, letting the gate go, or call execute() again.  The    *)
(* depth is a count of the host thread: it is zero while a call blocks,    *)
(* and counts from one again when Canvas callbacks are pumped in a wait.   *)
(*                                                                         *)
(* A compiled method that calls another directly gives it the next depth,  *)
(* which the count does not know of.  So the entry of a depth may be taken *)
(* from the activations that have it; a history variable, displaced, keeps *)
(* which ones those are.                                                   *)
(*                                                                         *)
(* Each activation holds one reference at most.  Natives keep nothing      *)
(* across a call or a collection but their arguments.                      *)
(***************************************************************************)
EXTENDS Naturals, Sequences, FiniteSets

CONSTANTS
  JavaThreads, \* the Java threads
  Nobody,      \* no thread
  Things,      \* the objects
  Nothing,     \* the null reference
  MaxCalls,    \* a bound: the activations on a thread's stack
  MaxActive    \* a bound: the activations on all stacks

ASSUME RootsAssumption ==
  /\ Nobody \notin JavaThreads /\ Nothing \notin Things
  /\ MaxCalls \in Nat \ {0} /\ MaxActive \in Nat

VARIABLES
  holder,    \* the holder of execution_mutex_
  stack,     \* per thread, its activations, the innermost last
  published, \* DepthRoots::published, per thread and depth
  walker,    \* DepthRoots::walker: the activation it walks, or 0
  overlay,   \* DepthRoots::transient_walker: likewise
  displaced, \* history: per thread, the activations whose entry was taken
  static,    \* a static field
  alive      \* the objects the heap still has

rootVars == <<published, walker, overlay, displaced>>
executionVars == <<holder, stack, rootVars, static, alive>>

Depths == 1..MaxCalls + 1
\* An unexposed native is a synchronized or a bounded one.
Kinds == {"entering", "interpreter", "compiled root", "compiled", "direct",
          "native", "unexposed", "pumping"}
\* The activations that are calls of execute().
Dispatches == {"entering", "interpreter", "compiled root"}
Java == {"interpreter", "compiled root", "compiled", "direct"}
Natives == {"native", "unexposed"}

RootsInit ==
  /\ holder = Nobody
  /\ stack = [t \in JavaThreads |-> <<>>]
  /\ published = [t \in JavaThreads |-> [d \in Depths |-> {}]]
  /\ walker = [t \in JavaThreads |-> [d \in Depths |-> 0]]
  /\ overlay = [t \in JavaThreads |-> [d \in Depths |-> 0]]
  /\ displaced = [t \in JavaThreads |-> {}]
  /\ static = Nothing /\ alive = {}

Height(t) == Len(stack[t])
Current(t) == stack[t][Height(t)]
Below(t) == stack[t][Height(t) - 1]

\* t has the gate and is in an activation of one of the kinds.
Runs(t, kinds) == holder = t /\ stack[t] # <<>> /\ Current(t).kind \in kinds

SetTop(t, activation) == [stack EXCEPT ![t][Height(t)] = activation]
Holding(t, r) == SetTop(t, [Current(t) EXCEPT !.holds = r])

(***************************************************************************)
(* g_execution_lock_depth of the host thread, as the next execute() finds  *)
(* it: suspend_execution_for_blocking sets it to zero, and the pump of a   *)
(* wait begins with enter_external_execution.                              *)
(***************************************************************************)
Pumps(t) == {i \in DOMAIN stack[t] : stack[t][i].kind = "pumping"}
LockDepth(t) ==
  Cardinality(Pumps(t))
  + Cardinality({i \in DOMAIN stack[t] :
      stack[t][i].kind \in Dispatches /\ \A p \in Pumps(t) : i > p})

-----------------------------------------------------------------------------
(***************************************************************************)
(* What a collection finds.                                                *)
(***************************************************************************)
HeldAt(t, i) == {stack[t][i].holds} \ {Nothing}

Unexposed(t, i) == {} \* wrong: the arguments of a native are not exposed
\* InterpreterRootExposureScope: the arguments of the native, or the blocked
\* call, that the frames are in.
Exposed(t, i) ==
  IF i < Height(t) /\ stack[t][i + 1].kind \in {"native", "pumping"}
  THEN HeldAt(t, i + 1) ELSE {}

\* i and, when it was called directly, its callers: append_jit_context_roots
\* goes on to the parent of a context.
Chain(t, i) == {j \in 1..i : \A k \in j + 1..i : stack[t][k].kind = "direct"}

Walked(t, i) ==
  IF i \in DOMAIN stack[t]
  THEN Exposed(t, i) \cup UNION {HeldAt(t, j) : j \in Chain(t, i)} ELSE {}

\* The roots of collect_garbage and collect_active_garbage.
Roots ==
  ({static} \ {Nothing})
  \cup UNION {published[t][d] \cup Walked(t, walker[t][d]) \cup Walked(t, overlay[t][d]) :
                t \in JavaThreads, d \in Depths}

\* A collection, at a safepoint, for an allocation, or by a native.
Collect(t) ==
  /\ Runs(t, Java \cup {"entering"} \cup Natives)
  /\ alive' = alive \cap Roots
  /\ UNCHANGED <<holder, stack, rootVars, static>>

-----------------------------------------------------------------------------
(***************************************************************************)
(* execute()                                                               *)
(***************************************************************************)

\* The entry of depth d is for the next activation of t.
Displaces(t, d) ==
  displaced' = [displaced EXCEPT ![t] =
                  @ \cup {i \in DOMAIN stack[t] : stack[t][i].depth = d}]

\* The innermost activation has its entry again, or is no more.
Restored(t) == [displaced EXCEPT ![t] = @ \ {Height(t)}]

\* A bound.
MayCall(t) ==
  /\ Height(t) < MaxCalls
  /\ Cardinality({c \in JavaThreads \X (1..MaxCalls) : c[2] <= Height(c[1])}) < MaxActive

\* From the lock of the gate to publish_execution_roots.
Enter(t, r) ==
  LET d == LockDepth(t) + 1
  IN  /\ MayCall(t)
      /\ stack' = [stack EXCEPT ![t] =
                     Append(stack[t], [kind |-> "entering", depth |-> d, holds |-> r])]
      /\ published' = [published EXCEPT ![t][d] = {r} \ {Nothing}]
      /\ Displaces(t, d)
      /\ UNCHANGED <<walker, overlay, static>>

\* Who has kept a reference to an object that was taken keeps that one: a new
\* object is another, by its generation.
Stale(r) ==
  \/ static = r
  \/ \E t \in JavaThreads : \/ \E i \in DOMAIN stack[t] : stack[t][i].holds = r
                          \/ \E d \in Depths : r \in published[t][d]

\* An argument is an object there is, or one made for the call.
Fresh(r) == r \in Things \ alive /\ ~Stale(r) /\ alive' = alive \cup {r}
Old(r) == UNCHANGED alive

\* The body of a thread, or a callback the runtime makes an argument for.
Dispatch(t) ==
  /\ stack[t] = <<>> /\ holder = Nobody
  /\ holder' = t
  /\ \/ Old(static) /\ Enter(t, static)
     \/ \E r \in Things : Fresh(r) /\ Enter(t, r)

\* A native calls back, with its own argument or a new object; compiled code
\* goes on in the interpreter; the interpreter runs a class initializer.
CallBack(t) ==
  /\ \/ Runs(t, {"entering"} \cup Natives) /\ \E r \in Things : Fresh(r) /\ Enter(t, r)
     \/ Runs(t, {"entering", "compiled root", "compiled", "direct"} \cup Natives)
          /\ Old(Current(t).holds) /\ Enter(t, Current(t).holds)
     \/ Runs(t, {"interpreter"}) /\ Old(Nothing) /\ Enter(t, Nothing)
  /\ UNCHANGED holder

Depth(t) == Current(t).depth

\* The interpreter's frames, which the walker reports from here on.
Interpret(t) ==
  /\ stack' = SetTop(t, [Current(t) EXCEPT !.kind = "interpreter"])
  /\ walker' = [walker EXCEPT ![t][Depth(t)] = Height(t)]
  /\ published' = [published EXCEPT ![t][Depth(t)] = {}]

StartInterpreter(t) ==
  /\ Runs(t, {"entering"}) /\ Interpret(t)
  /\ UNCHANGED <<holder, overlay, displaced, static, alive>>

StartCompiled(t) ==
  /\ Runs(t, {"entering"})
  /\ stack' = SetTop(t, [Current(t) EXCEPT !.kind = "compiled root"])
  /\ overlay' = [overlay EXCEPT ![t][Depth(t)] = Height(t)]
  /\ published' = [published EXCEPT ![t][Depth(t)] = {}]
  /\ UNCHANGED <<holder, walker, displaced, static, alive>>

\* uninstall_live_jit_root_walker: by its owner only.
Uninstalled(t) ==
  [overlay EXCEPT ![t][Depth(t)] = IF @ = Height(t) THEN 0 ELSE @]

Deoptimize(t) ==
  /\ Runs(t, {"compiled root"}) /\ Interpret(t)
  /\ overlay' = Uninstalled(t) /\ displaced' = Restored(t)
  /\ UNCHANGED <<holder, static, alive>>

\* The result of a call replaces what its Java caller holds, or not.
LeftBy(t) ==
  LET calls == SubSeq(stack[t], 1, Height(t) - 1)
      received(r) == [stack EXCEPT ![t] =
                        [calls EXCEPT ![Height(t) - 1].holds = r]]
  IN  {[stack EXCEPT ![t] = calls]}
      \cup (IF Height(t) > 1 /\ Below(t).kind \in Java
            THEN {received(Current(t).holds)} ELSE {})

\* clear_execution_roots: the whole entry of the depth.
ClearRoots(t) ==
  /\ published' = [published EXCEPT ![t][Depth(t)] = {}]
  /\ walker' = [walker EXCEPT ![t][Depth(t)] = 0]
  /\ overlay' = [overlay EXCEPT ![t][Depth(t)] = 0]

\* The clean-up of execute(); the outermost one gives up the gate.
LeaveExecute(t) ==
  /\ Runs(t, Dispatches)
  /\ stack' \in LeftBy(t)
  /\ ClearRoots(t) /\ displaced' = Restored(t)
  /\ holder' = IF Height(t) = 1 THEN Nobody ELSE t
  /\ UNCHANGED <<static, alive>>

-----------------------------------------------------------------------------
(***************************************************************************)
(* What Java code does.                                                    *)
(***************************************************************************)
Allocate(t) ==
  /\ Runs(t, Java)
  /\ \E r \in Things : Fresh(r) /\ stack' = Holding(t, r)
  /\ UNCHANGED <<holder, rootVars, static>>

Load(t) ==
  /\ Runs(t, Java) /\ stack' = Holding(t, static)
  /\ UNCHANGED <<holder, rootVars, static, alive>>

Store(t) ==
  /\ Runs(t, Java) /\ static' = Current(t).holds
  /\ UNCHANGED <<holder, stack, rootVars, alive>>

\* The arguments of a call leave the interpreter's operand stack; they stay in
\* a compiled frame.
Passed(t) ==
  IF Current(t).kind = "interpreter" THEN Holding(t, Nothing)[t] ELSE stack[t]

Inner(t, kind, depth) ==
  /\ MayCall(t)
  /\ stack' = [stack EXCEPT ![t] =
                 Append(Passed(t), [kind |-> kind, depth |-> depth,
                                    holds |-> Current(t).holds])]

\* A native is reported through its caller.
Inherits(t) ==
  displaced' = [displaced EXCEPT ![t] =
                  @ \cup (IF Height(t) \in @ THEN {Height(t) + 1} ELSE {})]

\* A native, or a call that blocks on its synchronized method's monitor; the
\* interpreter exposes the arguments of some natives only (Machine.cpp:19149).
CallNative(t) ==
  /\ \/ Runs(t, Java) /\ Inner(t, "native", Depth(t))
     \/ Runs(t, {"interpreter"}) /\ Inner(t, "unexposed", Depth(t))
  /\ Inherits(t)
  /\ UNCHANGED <<holder, published, walker, overlay, static, alive>>

\* The interpreter calls a compiled method, or goes on in compiled code.
CallCompiled(t) ==
  /\ Runs(t, {"interpreter"}) /\ Inner(t, "compiled", Depth(t))
  /\ overlay' = [overlay EXCEPT ![t][Depth(t)] = Height(t) + 1]
  /\ UNCHANGED <<holder, published, walker, displaced, static, alive>>

\* Compiled code calls compiled code, outside conservative_device_mode.  When
\* the callee deoptimizes it calls execute(), and then returns.
CallDirect(t) ==
  /\ Runs(t, {"compiled root", "compiled", "direct"}) /\ Inner(t, "direct", Depth(t) + 1)
  /\ overlay' = [overlay EXCEPT ![t][Depth(t) + 1] = Height(t) + 1]
  /\ published' = [published EXCEPT ![t][Depth(t) + 1] = {}]
  /\ Displaces(t, Depth(t) + 1)
  /\ UNCHANGED <<holder, walker, static, alive>>

ReturnInner(t) ==
  /\ \/ /\ Runs(t, {"compiled"} \cup Natives)
        /\ overlay' = Uninstalled(t) /\ UNCHANGED <<published, walker>>
     \/ Runs(t, {"direct"}) /\ ClearRoots(t)
  /\ stack' \in LeftBy(t) /\ displaced' = Restored(t)
  /\ UNCHANGED <<holder, static, alive>>

-----------------------------------------------------------------------------
(***************************************************************************)
(* The gate: a monitor that is taken, the end of a quantum, a native that  *)
(* blocks.  A wait with a timeout pumps first, unless a pump is under way  *)
(* somewhere.                                                              *)
(***************************************************************************)
Releases(t) ==
  /\ Runs(t, {"entering", "interpreter"} \cup Natives)
  /\ holder' = Nobody
  /\ UNCHANGED <<stack, rootVars, static, alive>>

Readmitted(t) ==
  /\ holder = Nobody /\ stack[t] # <<>>
  /\ holder' = t
  /\ UNCHANGED <<stack, rootVars, static, alive>>

Pumping == \E t \in JavaThreads, i \in Depths : i < Height(t) /\ i \in Pumps(t)

TimedWait(t) ==
  /\ Runs(t, {"native"}) /\ Pumps(t) = {}
  /\ stack' = SetTop(t, [Current(t) EXCEPT !.kind = "pumping"])
  /\ holder' = Nobody
  /\ UNCHANGED <<rootVars, static, alive>>

\* A callback that is due, in pump's hold of the gate.
Callback(t) ==
  /\ Runs(t, {"pumping"}) /\ ~Pumping
  /\ Old(static) /\ Enter(t, static)
  /\ UNCHANGED holder

\* pump() returns, and the wait proper begins.
PumpEnds(t) ==
  /\ Runs(t, {"pumping"})
  /\ stack' = SetTop(t, [Current(t) EXCEPT !.kind = "native"])
  /\ holder' = Nobody
  /\ UNCHANGED <<rootVars, static, alive>>

-----------------------------------------------------------------------------
ExecutionStep(t) ==
  \/ Dispatch(t) \/ CallBack(t) \/ StartInterpreter(t) \/ StartCompiled(t)
  \/ Deoptimize(t) \/ LeaveExecute(t)
  \/ Allocate(t) \/ Load(t) \/ Store(t) \/ Collect(t)
  \/ CallNative(t) \/ CallCompiled(t) \/ CallDirect(t) \/ ReturnInner(t)
  \/ Releases(t) \/ Readmitted(t) \/ TimedWait(t) \/ Callback(t) \/ PumpEnds(t)

ExecutionNext == \E t \in JavaThreads : ExecutionStep(t)

ExecutionSpec == RootsInit /\ [][ExecutionNext]_executionVars

ExecutionTypeOK ==
  /\ holder \in JavaThreads \cup {Nobody}
  /\ stack \in [JavaThreads -> Seq([kind : Kinds, depth : Depths,
                                    holds : Things \cup {Nothing}])]
  /\ published \in [JavaThreads -> [Depths -> SUBSET Things]]
  /\ walker \in [JavaThreads -> [Depths -> 0..MaxCalls]]
  /\ overlay \in [JavaThreads -> [Depths -> 0..MaxCalls]]
  /\ displaced \in [JavaThreads -> SUBSET (1..MaxCalls)]
  /\ static \in Things \cup {Nothing}
  /\ alive \subseteq Things

(***************************************************************************)
(* A collection takes nothing that an activation of any thread, running,   *)
(* blocked or below a callback, holds a reference to, with two exceptions: *)
(* the arguments of unexposed natives, and activations that a timed wait   *)
(* or a direct call below another execute() let a later one displace.  The *)
(* code that no other execute() is below is never displaced.               *)
(***************************************************************************)
Safeguarded(t, i) ==
  /\ stack[t][i].kind # "unexposed"
  /\ i \in displaced[t] => stack[t][i].depth = 1

HeldSurvives ==
  [][\A t \in JavaThreads : \A i \in DOMAIN stack[t] :
       Safeguarded(t, i) => HeldAt(t, i) \cap alive \subseteq alive']_executionVars

(***************************************************************************)
(* "The interpreter call stack now remains rooted by a live precise walker *)
(* for the lifetime of this execute() invocation" (Machine.cpp:13137), but *)
(* for one that was displaced.                                             *)
(***************************************************************************)
StackRemainsRooted ==
  \A t \in JavaThreads : \A i \in DOMAIN stack[t] \ displaced[t] :
    stack[t][i].kind = "interpreter" => walker[t][stack[t][i].depth] = i
=============================================================================
