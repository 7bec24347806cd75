------------------------------- MODULE JitCache -------------------------------
(***************************************************************************)
(* The code cache of BaselineJit: its entries, the background compilers    *)
(* with their queue and results, and the switch that turns it off.  The    *)
(* calls of the VM hold the execution gate, so they come one at a time;    *)
(* the compilers only share the queue and the results, under               *)
(* background_mutex_, and wait for the WorkCoordinator.                    *)
(*                                                                         *)
(* What makes a method hot, which was used least recently, and what native *)
(* code runs, is left open.  A source is the class file an entry is for.   *)
(***************************************************************************)
EXTENDS WorkCoordinator, Sequences, FiniteSets

CONSTANTS
  Methods, \* MethodId
  Sources, \* class files
  NoSource,
  Sizes,   \* of compiled methods
  Unavailable, Rejected, \* CompileDisposition, when no code comes of it
  Limit,   \* code_cache_limit_bytes_
  MaxTasks \* kMaximumBackgroundCompileQueue

ASSUME JitAssumption ==
  /\ IsFiniteSet(Methods) /\ NoSource \notin Sources
  /\ Sizes \subseteq Nat \ {0} /\ {Unavailable, Rejected} \cap Sizes = {} /\ Unavailable # Rejected
  /\ Limit \in Nat /\ MaxTasks \in Nat \ {0}

VARIABLES
  enabled,    \* enabled_
  background, \* background_compile_enabled_
  entries,    \* entries_; an entry never made has no source
  cacheBytes, \* code_cache_bytes_
  tasks,      \* background_tasks_
  results,    \* background_results_
  stop,       \* background_stop_
  compiler,   \* where a background compiler is
  at,         \* the task it has
  joining     \* the VM waits for the compilers to end

entryVars == <<entries, cacheBytes>>
queueVars == <<tasks, results, stop>>
compilerVars == <<compiler, at>>
jitVars == <<enabled, background, entryVars, queueVars, compilerVars, joining>>

NoEntry == [source |-> NoSource, pending |-> FALSE, rejected |-> FALSE, code |-> 0]
NoTask == [method |-> NoSource, source |-> NoSource]

\* machine.compilers are the background compilers, machine.code the methods in
\* the class files they are met in.
JitInit ==
  /\ enabled = TRUE /\ background = (machine.compilers # {})
  /\ entries = [m \in Methods |-> NoEntry] /\ cacheBytes = 0
  /\ tasks = <<>> /\ results = <<>> /\ stop = FALSE
  /\ compiler = [w \in Compilers |-> "none"] /\ at = [w \in Compilers |-> NoTask]
  /\ joining = FALSE

Outcomes == Sizes \cup {Unavailable, Rejected}

\* background_mutex_ is held from the permission to the task.
MutexFree == \A w \in Compilers : admission[w] \notin {"permitted", "taken"}

\* A call of the VM, which publishes the results first.
Calls == enabled /\ ~joining /\ results = <<>>
-----------------------------------------------------------------------------
(* The entries.                                                            *)

\* release_compiled_entry: how many bytes are left.
Less(bytes, size) == IF size > bytes THEN 0 ELSE bytes - size

\* The entry of m when it is met in s: one for another source is begun anew.
Stale(m, s) == entries[m].source \notin {NoSource, s}
Met(m, s) == [(IF Stale(m, s) THEN NoEntry ELSE entries[m]) EXCEPT !.source = s]
BytesMet(m, s) == IF Stale(m, s) THEN Less(cacheBytes, entries[m].code) ELSE cacheBytes

\* The bytes of the code of ms, each with its place in the code.
Bytes(ms) == UNION {{m} \X (1..entries[m].code) : m \in ms}
Used(ms) == Cardinality(Bytes(ms))
CompiledBut(m) == {o \in Methods \ {m} : entries[o].code # 0}
Fits(bytes, size) == bytes + size <= Limit

\* evict_for: of the others, the least recently used go one by one until the new
\* code fits or none is left.
Evicted(m, bytes, size) ==
  IF size > Limit THEN {{}} ELSE
    {out \in SUBSET CompiledBut(m) :
       /\ Fits(bytes - Used(out), size) \/ out = CompiledBut(m)
       /\ out # {} => \E last \in out : ~Fits(bytes - Used(out \ {last}), size)}

\* The code for m comes in, or does not fit and m is rejected.
Install(m, e, bytes, size) ==
  \E out \in Evicted(m, bytes, size) :
    LET left == bytes - Used(out)
    IN  /\ entries' = [o \in Methods |->
             IF o \in out THEN [entries[o] EXCEPT !.code = 0]
             ELSE IF o # m THEN entries[o]
             ELSE IF Fits(left, size) THEN [e EXCEPT !.code = size]
             ELSE [e EXCEPT !.rejected = TRUE]]
        /\ cacheBytes' = IF Fits(left, size) THEN left + size ELSE left

Settles(m, e, bytes, outcome) ==
  IF outcome \in Sizes THEN Install(m, e, bytes, outcome)
  ELSE /\ entries' = [entries EXCEPT ![m] = [e EXCEPT !.rejected = @ \/ outcome = Rejected]]
       /\ cacheBytes' = bytes
-----------------------------------------------------------------------------
(* try_execute, try_execute_osr and try_execute_cached.                    *)

\* The method is not hot enough, its time has not come, or it is rejected.
Meet(m, s) ==
  /\ Calls
  /\ entries' = [entries EXCEPT ![m] = Met(m, s)] /\ cacheBytes' = BytesMet(m, s)
  /\ UNCHANGED <<enabled, background, queueVars, compilerVars, joining>>

Interprets(e) == ~e.rejected /\ e.code = 0

Enqueue(m, s) ==
  LET e == Met(m, s)
  IN  /\ Calls /\ MutexFree /\ background /\ Interprets(e) /\ ~e.pending
      /\ Len(tasks) < MaxTasks /\ tasks' = Append(tasks, [method |-> m, source |-> s])
      /\ entries' = [entries EXCEPT ![m] = [e EXCEPT !.pending = TRUE]]
      /\ cacheBytes' = BytesMet(m, s)
      /\ compiler' = [w \in Compilers |-> 
           IF w \in machine.compilers /\ compiler[w] = "none" THEN "waiting" ELSE compiler[w]]
      /\ UNCHANGED <<enabled, background, results, stop, at, joining>>

\* On this thread.  A loop that has waited too long for its task no longer does,
\* and what comes of the task will be discarded.
Attached(e) == e \* wrong: it goes on waiting
Detached(e) == [e EXCEPT !.pending = FALSE]

CompileNow(m, s) ==
  /\ Calls /\ Interprets(Met(m, s))
  /\ \E o \in Outcomes : Settles(m, Detached(Met(m, s)), BytesMet(m, s), o)
  /\ UNCHANGED <<enabled, background, queueVars, compilerVars, joining>>

\* Native code of m returns that has met what it cannot do once too often: m is
\* retired.  What it ran may be gone by now, evicted by the calls it has made, or
\* another's.
Retire(m) ==
  /\ ~joining /\ entries[m].source # NoSource
  /\ entries' = [entries EXCEPT ![m].code = 0, ![m].rejected = TRUE]
  /\ cacheBytes' = Less(cacheBytes, entries[m].code)
  /\ UNCHANGED <<enabled, background, queueVars, compilerVars, joining>>

\* publish_background_results, for one of them.
Expected(r) == entries[r.method].source = r.source /\ entries[r.method].pending

PublishResult ==
  /\ enabled /\ ~joining /\ results # <<>> /\ results' = Tail(results)
  /\ LET r == Head(results)
     IN  IF Expected(r)
         THEN /\ Settles(r.method, [entries[r.method] EXCEPT !.pending = FALSE], cacheBytes, r.outcome)
              /\ background' = (background /\ r.outcome # Unavailable)
         ELSE UNCHANGED <<entries, cacheBytes, background>>
  /\ UNCHANGED <<enabled, tasks, stop, compilerVars, joining>>
-----------------------------------------------------------------------------
(* set_enabled.  Switched off, the VM holds the gate until the compilers,  *)
(* one of which may be at work, have ended.                                *)

Enable ==
  /\ ~enabled /\ ~joining /\ enabled' = TRUE
  /\ UNCHANGED <<background, entryVars, queueVars, compilerVars, joining>>

Disable ==
  /\ enabled /\ ~joining /\ MutexFree
  /\ enabled' = FALSE /\ stop' = TRUE /\ tasks' = <<>> /\ joining' = TRUE
  /\ UNCHANGED <<background, entryVars, results, compilerVars>>

Cleared ==
  /\ joining /\ \A w \in Compilers : compiler[w] \in {"none", "ended"}
  /\ compiler' = [w \in Compilers |-> "none"] /\ stop' = FALSE /\ joining' = FALSE
  /\ tasks' = <<>> /\ results' = <<>>
  /\ entries' = [m \in Methods |-> NoEntry] /\ cacheBytes' = 0
  /\ UNCHANGED <<enabled, background, at>>

VmStep ==
  \/ \E m \in Methods, s \in Sources :
       /\ <<m, s>> \in machine.code
       /\ Meet(m, s) \/ Enqueue(m, s) \/ CompileNow(m, s)
  \/ (\E m \in Methods : Retire(m)) \/ PublishResult \/ Enable \/ Disable \/ Cleared
-----------------------------------------------------------------------------
(* background_compile_loop.  A worker that may not begin looks again in    *)
(* 32 ms, or later when a frame has just been drawn.                       *)

Stays == UNCHANGED <<enabled, background, entryVars, queueVars, compilerVars, joining>>

Asks(w) ==
  /\ compiler[w] = "waiting" /\ ~stop /\ tasks # <<>> /\ MutexFree
  /\ AskPermission(w) /\ Stays

Tries(w) == (TakeToken(w) \/ TokenTaken(w) \/ GiveBack(w)) /\ Stays

Claims(w) ==
  /\ KeepToken(w)
  /\ at' = [at EXCEPT ![w] = Head(tasks)] /\ tasks' = Tail(tasks)
  /\ compiler' = [compiler EXCEPT ![w] = "compiling"]
  /\ UNCHANGED <<enabled, background, entryVars, results, stop, joining>>

Compiles(w) ==
  /\ compiler[w] = "compiling" /\ EndBackgroundWork(w)
  /\ compiler' = [compiler EXCEPT ![w] = "reporting"]
  /\ UNCHANGED <<enabled, background, entryVars, queueVars, at, joining>>

Reports(w) ==
  /\ compiler[w] = "reporting" /\ MutexFree
  /\ compiler' = [compiler EXCEPT ![w] = "waiting"] /\ at' = [at EXCEPT ![w] = NoTask]
  /\ IF stop THEN UNCHANGED results ELSE \E o \in Outcomes :
       results' = Append(results, [method |-> at[w].method, source |-> at[w].source, outcome |-> o])
  /\ UNCHANGED <<enabled, background, entryVars, tasks, stop, joining, workVars>>

Ends(w) ==
  /\ compiler[w] = "waiting" /\ stop /\ tasks = <<>>
  /\ compiler' = [compiler EXCEPT ![w] = "ended"]
  /\ UNCHANGED <<enabled, background, entryVars, queueVars, at, joining, workVars>>

CompilerStep(w) == Asks(w) \/ Tries(w) \/ Claims(w) \/ Compiles(w) \/ Reports(w) \/ Ends(w)

\* The compilers run, the VM goes on calling methods, and a join that can end
\* does.
JitFairness ==
  /\ \A w \in Compilers : WF_<<jitVars, workVars>>(CompilerStep(w))
  /\ WF_<<jitVars, workVars>>((PublishResult \/ Cleared) /\ UNCHANGED workVars)
-----------------------------------------------------------------------------
JitTypeOK ==
  /\ enabled \in BOOLEAN /\ background \in BOOLEAN /\ stop \in BOOLEAN /\ joining \in BOOLEAN
  /\ entries \in [Methods -> [source : Sources \cup {NoSource}, pending : BOOLEAN,
                              rejected : BOOLEAN, code : Sizes \cup {0}]]
  /\ cacheBytes \in Nat
  /\ tasks \in Seq([method : Methods, source : Sources]) /\ Len(tasks) <= MaxTasks
  /\ results \in Seq([method : Methods, source : Sources, outcome : Outcomes])
  /\ compiler \in [Compilers -> {"none", "waiting", "compiling", "reporting", "ended"}]
  /\ at \in [Compilers -> [method : Methods \cup {NoSource}, source : Sources \cup {NoSource}]]

\* The bytes that are counted are those of the compiled methods, within the
\* limit: no code is put in the place of other code, which only a task that is
\* still expected could do, whatever was evicted, retired, detached or met in
\* another class file while a compiler was at it.
CacheAccounted ==
  /\ cacheBytes = Used(Methods) /\ cacheBytes <= Limit
  /\ \A m \in Methods : entries[m].pending => entries[m].code = 0

Awaited(m, s) == entries[m].source = s /\ entries[m].pending

\* A method that waits for a compiler does not wait for ever, once the frames
\* leave time for it: no task, no result and no token is lost, not even when the
\* cache is switched off and on.
CompilesArrive ==
  <>[]BackgroundWorkAllowed =>
    \A m \in Methods, s \in Sources : Awaited(m, s) ~> ~Awaited(m, s)
=============================================================================
