---------------------------- MODULE PushRegistry ----------------------------
(***************************************************************************)
(* PushRegistry: the connections and alarms of each suite, and the         *)
(* requests to launch one of its MIDlets, in one file per suite.           *)
(*                                                                         *)
(* Every call holds the persistence mutex: it reads the file, changes the  *)
(* state, and replaces the file.  So calls follow one another, and what    *)
(* can go wrong is between them: two hosts that launch the same request, a *)
(* request that comes back when its lease is over, a failing write, and    *)
(* the death of the process, which leaves a temporary file behind.         *)
(* (A power failure is left out: write_atomic does not synchronize the     *)
(* directory, so the last calls may be undone by one.)                     *)
(***************************************************************************)
EXTENDS Integers, FiniteSets

CONSTANTS
  Suites,
  Served,       \* those a host polls; the others only register connections
  NoSuite,      \* no suite
  Connections,  \* what may be registered, by one suite only
  Midlets,      \* the MIDlets of a suite, each with at most one alarm
  Absent,       \* a file that is not there
  Torn,         \* a file that was not written to its end
  MaxEntries,   \* kMaximumEntries
  MaxAttempts,  \* kMaximumLaunchAttempts
  Lifetime,     \* kLaunchLifetimeMillis
  RetryDelay,   \* retry_delay
  Lease,        \* lease_millis
  MaxTime,      \* the last instant of the clock
  AlarmTimes,   \* the times alarms are set to
  MaxHosts,     \* a bound on the launches under way
  MaxId,        \* the last number of a request
  MaxFaults,    \* a bound on the writes that fail
  MaxCrashes    \* a bound on the deaths of the process

ASSUME NamesAssumption ==
  /\ NoSuite \notin Suites /\ Served \subseteq Suites /\ Absent # Torn
  /\ Connections \cap Midlets = {} /\ IsFiniteSet(Midlets)
ASSUME NumbersAssumption ==
  /\ {MaxEntries, MaxAttempts, Lifetime, MaxId, MaxHosts, MaxTime} \subseteq Nat \ {0}
  /\ AlarmTimes \subseteq 0..MaxTime
  /\ {RetryDelay, Lease, MaxFaults, MaxCrashes} \subseteq Nat

VARIABLES
  files,      \* <suite>.push: a State, Absent or Torn
  tmp,        \* <suite>.push.tmp
  op,         \* the call that holds the persistence mutex
  now,        \* the wall clock of the host
  launchers,  \* launches the host has begun and not completed
  revived,    \* history: suites whose state was found in a temporary file
  disturbed,  \* history: requests that a host without a lease has failed
  faults, crashes

disk == <<files, tmp>>
history == <<revived, disturbed>>
bounds == <<faults, crashes>>
vars == <<disk, op, now, launchers, history, bounds>>

Fresh == [connections |-> {}, alarms |-> [m \in Midlets |-> 0],
          requests |-> {}, next |-> 1]
Written(x) == x \notin {Absent, Torn}

NoCall == [call |-> "none", at |-> "idle", suite |-> NoSuite,
           state |-> Fresh, id |-> 0]
Goto(place) == op' = [op EXCEPT !.at = place]
At(place) == op.at = place

Init ==
  /\ files = [s \in Suites |-> Absent] /\ tmp = [s \in Suites |-> Absent]
  /\ op = NoCall /\ now = 0
  /\ launchers = {} /\ revived = {} /\ disturbed = {}
  /\ faults = 0 /\ crashes = 0

\* Times end where the clock does, as those of the code at the largest i64.
After(t, delay) == IF t + delay > MaxTime THEN MaxTime ELSE t + delay

-----------------------------------------------------------------------------
(***************************************************************************)
(* The file of a suite.                                                    *)
(***************************************************************************)
\* reload_unlocked: what a call finds.  A temporary file alone is the state.
Found(s) == IF files[s] = Absent THEN tmp[s] ELSE files[s]
State(s) == IF Found(s) = Absent THEN Fresh ELSE Found(s)
Readable(s) == Found(s) # Torn

Reloaded(s) ==
  /\ files' = [files EXCEPT ![s] = Found(s)]
  /\ tmp' = [tmp EXCEPT ![s] = Absent]

\* A call on the suite s that has nothing to write, or that fails.
Read(s) ==
  /\ At("idle") /\ Reloaded(s)
  /\ UNCHANGED <<op, now, launchers, history, bounds>>

\* A call that changes the state to st, up to the opening of the temporary file.
Update(call, s, st, id) ==
  /\ At("idle") /\ Readable(s)
  /\ files' = [files EXCEPT ![s] = Found(s)]
  /\ tmp' = [tmp EXCEPT ![s] = Torn]
  /\ op' = [call |-> call, at |-> "sync", suite |-> s, state |-> st, id |-> id]
  /\ UNCHANGED <<now, bounds>>

\* write_atomic
Sync ==
  /\ At("sync") /\ tmp' = [tmp EXCEPT ![op.suite] = op.state]
  /\ Goto("replace")
  /\ UNCHANGED <<files, now, launchers, history, bounds>>
\* The host has the request now: mark_launching has returned.
Begun ==
  IF op.call # "mark_launching" THEN {}
  ELSE {[suite |-> op.suite, id |-> r.id, attempt |-> r.attempts, until |-> r.lease] :
          r \in {q \in op.state.requests : q.id = op.id}}
Replace ==
  /\ At("replace")
  /\ files' = [files EXCEPT ![op.suite] = op.state]
  /\ tmp' = [tmp EXCEPT ![op.suite] = Absent]
  /\ launchers' = launchers \cup Begun /\ op' = NoCall
  /\ UNCHANGED <<now, history, bounds>>
\* state_ becomes what it was, and the call fails.
WriteFails ==
  /\ op.at \in {"sync", "replace"} /\ faults < MaxFaults
  /\ faults' = faults + 1
  /\ tmp' = [tmp EXCEPT ![op.suite] = Absent] /\ op' = NoCall
  /\ UNCHANGED <<files, now, launchers, history, crashes>>

-----------------------------------------------------------------------------
(***************************************************************************)
(* Connections and alarms.                                                 *)
(***************************************************************************)
\* wrong: a suite only looks at its own connections
OwnOnly(s) == {s}
\* connection_owner_unlocked looks at every file *.push.
Scanned(s) == {t \in Suites : t = s \/ files[t] # Absent}
StateIn(t, s) == IF t = s THEN State(s) ELSE files[t]
RegisterConnection(s, c) ==
  /\ \A t \in Scanned(s) : StateIn(t, s) # Torn /\ c \notin StateIn(t, s).connections
  /\ Update("register_connection", s,
            [State(s) EXCEPT !.connections = @ \cup {c}], 0)
  /\ UNCHANGED <<launchers, history>>

Without(requests, c) == {r \in requests : r.target # c}
UnregisterConnection(s, c) ==
  /\ Readable(s) /\ c \in State(s).connections
  /\ Update("unregister_connection", s,
            [State(s) EXCEPT !.connections = @ \ {c},
                             !.requests = Without(@, c)], 0)
  /\ UNCHANGED <<launchers, history>>

\* Time 0 removes the alarm.
RegisterAlarm(s, m, t) ==
  /\ Readable(s)
  /\ Update("register_alarm", s, [State(s) EXCEPT !.alarms[m] = t], 0)
  /\ UNCHANGED <<launchers, history>>

-----------------------------------------------------------------------------
(***************************************************************************)
(* Requests.                                                               *)
(***************************************************************************)
Request(id, target) ==
  [id |-> id, target |-> target, launching |-> FALSE, attempts |-> 0,
   due |-> now, lease |-> 0, expires |-> After(now, Lifetime)]
Asked(st, target) == \E r \in st.requests : r.target = target
CanQueue(st) == Cardinality(st.requests) < MaxEntries /\ st.next <= MaxId
Queued(st, target) ==
  [st EXCEPT !.requests = @ \cup {Request(st.next, target)}, !.next = @ + 1]

NotifyConnectionAvailable(s, c) ==
  /\ Readable(s) /\ c \in State(s).connections
  /\ ~Asked(State(s), c) /\ CanQueue(State(s))
  /\ Update("notify_connection_available", s, Queued(State(s), c), 0)
  /\ UNCHANGED <<launchers, history>>

\* queue_due_alarms_unlocked.  An alarm stays while the queue is full.
\* wrong: what is due leaves the alarms in any case
Dropped(st, m) ==
  [(IF Asked(st, m) \/ ~CanQueue(st) THEN st ELSE Queued(st, m))
     EXCEPT !.alarms[m] = 0]
AlarmQueued(st, m) ==
  IF Asked(st, m) \/ CanQueue(st)
  THEN [(IF Asked(st, m) THEN st ELSE Queued(st, m)) EXCEPT !.alarms[m] = 0]
  ELSE st
Due(st) == {m \in Midlets : st.alarms[m] \in 1..now}
AlarmsQueued(st) ==
  LET after[M \in SUBSET Midlets] ==
        IF M = {} THEN st
        ELSE LET m == CHOOSE m \in M : TRUE IN AlarmQueued(after[M \ {m}], m)
  IN  after[Due(st)]

CollectDueAlarms(s) ==
  /\ Readable(s) /\ AlarmsQueued(State(s)) # State(s)
  /\ Update("collect_due_alarms", s, AlarmsQueued(State(s)), 0)
  /\ UNCHANGED <<launchers, history>>

\* recover_launch_requests_unlocked
\* wrong: a request is only dropped when it has been tried often enough
TriedOut(r) == r.attempts >= MaxAttempts
Over(r) == now >= r.expires \/ r.attempts >= MaxAttempts
\* wrong: what is being launched is tried again at the next poll
AnyLease(r) == r.launching
LeaseOver(r) == r.launching /\ r.lease > 0 /\ now >= r.lease
Retried(r) ==
  [r EXCEPT !.launching = FALSE, !.lease = 0, !.due = After(now, RetryDelay)]
Recovered(st) ==
  [st EXCEPT !.requests =
    {IF LeaseOver(r) THEN Retried(r) ELSE r : r \in {q \in @ : ~Over(q)}}]

\* poll: a host that may launch learns the requests that are pending and due.
EligibleLaunchRequests(s) ==
  LET st == Recovered(AlarmsQueued(State(s))) IN
    /\ Readable(s) /\ st # State(s)
    /\ Update("eligible_launch_requests", s, st, 0)
    /\ UNCHANGED <<launchers, history>>

\* begin_launch.  What was recovered is written even if the call then fails.
Eligible(r) == ~r.launching /\ r.due <= now
MarkLaunching(s, id) ==
  LET st == Recovered(State(s)) IN
    /\ Readable(s) /\ Cardinality(launchers) < MaxHosts
    /\ \E r \in st.requests :
         /\ r.id = id /\ Eligible(r)
         /\ Update("mark_launching", s,
              [st EXCEPT !.requests = (@ \ {r}) \cup
                 {[r EXCEPT !.launching = TRUE, !.attempts = @ + 1,
                            !.lease = After(now, Lease)]}], id)
    /\ UNCHANGED <<launchers, history>>
MarkLaunchingFails(s, id) ==
  LET st == Recovered(State(s)) IN
    /\ Readable(s) /\ st # State(s)
    /\ ~\E r \in st.requests : r.id = id /\ Eligible(r)
    /\ Update("recover", s, st, 0)
    /\ UNCHANGED <<launchers, history>>

\* complete_launch of a launch, which may come after its lease; a host may also
\* acknowledge what it has only polled.
InLease(l) == now < l.until
Launches(s, id) == {l \in launchers : l.suite = s /\ l.id = id}
AcknowledgeLaunchRequest(s, id) ==
  /\ Readable(s) /\ \E r \in State(s).requests : r.id = id
  /\ Update("acknowledge_launch_request", s,
       [State(s) EXCEPT !.requests = {r \in @ : r.id # id}], 0)
  /\ \E done \in {{}} \cup {{l} : l \in Launches(s, id)} :
       launchers' = launchers \ done
  /\ UNCHANGED history

FailLaunchRequest(l) ==
  LET s == l.suite IN
    /\ Readable(s)
    /\ \E r \in State(s).requests :
         /\ r.id = l.id
         /\ Update("fail_launch_request", s,
              [State(s) EXCEPT !.requests = (@ \ {r}) \cup
                 (IF Over(r) THEN {} ELSE {Retried(r)})], 0)
    /\ launchers' = launchers \ {l}
    /\ disturbed' = IF InLease(l) THEN disturbed
                    ELSE disturbed \cup {<<s, l.id>>}
    /\ UNCHANGED revived

\* The request is gone: the call fails, and so ends the launch.
CompleteInVain(l) ==
  /\ At("idle") /\ Readable(l.suite)
  /\ ~\E r \in State(l.suite).requests : r.id = l.id
  /\ Reloaded(l.suite) /\ launchers' = launchers \ {l}
  /\ UNCHANGED <<op, now, history, bounds>>

-----------------------------------------------------------------------------
(***************************************************************************)
(* remove_suite_state: the file, then the temporary file.  Requests of the *)
(* suite are numbered anew, so a launch of before may report on a new one. *)
(***************************************************************************)
RemoveSuiteState(s) ==
  /\ At("idle")
  /\ files' = [files EXCEPT ![s] = Absent]
  /\ op' = [NoCall EXCEPT !.call = "remove_suite_state", !.at = "unlink", !.suite = s]
  /\ disturbed' = disturbed \cup {<<s, l.id>> : l \in {k \in launchers : k.suite = s}}
  /\ UNCHANGED <<tmp, now, launchers, revived, bounds>>
RemoveTemporary ==
  /\ At("unlink")
  /\ tmp' = [tmp EXCEPT ![op.suite] = Absent] /\ op' = NoCall
  /\ revived' = revived \ {op.suite}
  /\ UNCHANGED <<files, now, launchers, disturbed, bounds>>

\* A call is given the time it starts at.
Tick ==
  /\ At("idle") /\ now < MaxTime /\ now' = now + 1
  /\ UNCHANGED <<disk, op, launchers, history, bounds>>

\* The process dies, and with it what it was launching.
Crash ==
  /\ crashes < MaxCrashes /\ crashes' = crashes + 1
  /\ op' = NoCall /\ launchers' = {}
  /\ revived' = revived \cup {s \in Suites : files[s] = Absent /\ tmp[s] # Absent}
  /\ UNCHANGED <<disk, now, disturbed, faults>>

Registration(s) ==
  Read(s) \/ \E c \in Connections : RegisterConnection(s, c)
Service(s) ==
  \/ RemoveSuiteState(s)
  \/ \E c \in Connections :
       UnregisterConnection(s, c) \/ NotifyConnectionAvailable(s, c)
  \/ \E m \in Midlets, t \in AlarmTimes : RegisterAlarm(s, m, t)
  \/ CollectDueAlarms(s) \/ EligibleLaunchRequests(s)
  \/ \E id \in 1..MaxId :
       \/ MarkLaunching(s, id) \/ MarkLaunchingFails(s, id)
       \/ AcknowledgeLaunchRequest(s, id)
Completion ==
  \E l \in launchers : FailLaunchRequest(l) \/ CompleteInVain(l)
Return == Sync \/ Replace \/ WriteFails \/ RemoveTemporary

Next ==
  \/ \E s \in Suites : Registration(s)
  \/ \E s \in Served : Service(s)
  \/ Completion \/ Return \/ Tick \/ Crash

Spec == Init /\ [][Next]_vars

-----------------------------------------------------------------------------
Times == 0..MaxTime
Requests ==
  [id : 1..MaxId, target : Connections \cup Midlets, launching : BOOLEAN,
   attempts : 0..MaxAttempts, due : Times, lease : Times, expires : Times]
States ==
  [connections : SUBSET Connections, alarms : [Midlets -> Times],
   requests : SUBSET Requests, next : 1..(MaxId + 1)]
IsFile(x) == x \in {Absent, Torn} \/ x \in States
ASSUME FilesAssumption == Absent \notin States /\ Torn \notin States
TypeOK ==
  /\ DOMAIN files = Suites /\ \A s \in Suites : IsFile(files[s])
  /\ DOMAIN tmp = Suites /\ \A s \in Suites : IsFile(tmp[s])
  /\ op.suite \in Suites \cup {NoSuite} /\ op.state \in States
  /\ now \in Times
  /\ launchers \subseteq 
         [suite : Suites, id : 1..MaxId, attempt : 1..MaxAttempts, until : Times]
  /\ revived \subseteq Suites /\ disturbed \subseteq Suites \X (1..MaxId)
  /\ faults \in 0..MaxFaults /\ crashes \in 0..MaxCrashes

\* A connection has one owner, across suites and restarts, and a request that
\* waits for one is of a suite that has registered it: no MIDlet is launched for
\* a connection it has given up.  Two suites may share one when the first file
\* of either was cut off by the death of the process: until its next call it has
\* a temporary file, which connection_owner_unlocked passes over.
ConnectionsOwned ==
  \A s \in Suites : Readable(s) =>
    /\ \A r \in State(s).requests :
         r.target \in Connections => r.target \in State(s).connections
    /\ \A t \in Suites \ {s} :
         Readable(t) /\ ~At("unlink")
           /\ State(s).connections \cap State(t).connections # {}
         => {s, t} \cap revived # {}

\* Two launches of a request are only under way within their leases when a
\* host has reported a failure after its own lease (fail_launch_request does
\* not ask whose launch has failed), or when the suite was removed meanwhile.
LeaseExclusive ==
  \A l, k \in launchers :
    /\ l # k /\ l.suite = k.suite /\ l.id = k.id
    /\ InLease(l) /\ InLease(k)
    => <<l.suite, l.id>> \in disturbed

\* No alarm is lost: it leaves the file when a request for its MIDlet is or was
\* in it, whichever call that is, full queues and crashes included, or when the
\* MIDlet sets it anew; and no crash and no failing write leaves a file cut short
\* in its place.  ("Was": a poll counts an alarm as asked for before it drops
\* the request that is over.  At the end of the clock all requests are.)
AlarmsBecomeRequests ==
  [][\A s \in Suites, m \in Midlets :
       /\ Readable(s) /\ files[s] # Absent /\ State(s).alarms[m] # 0
       /\ "remove_suite_state" \notin {op.call, op'.call}
       => /\ Readable(s)'
          /\ now < MaxTime /\ State(s)'.alarms[m] = 0
             => \/ op.call = "register_alarm"
                \/ Asked(State(s), m) \/ Asked(State(s), m)']_vars

\* Every request is launched or dropped in the end, whatever hosts do with it.
RequestsLeave ==
  \A s \in Served, id \in 1..MaxId :
    (Readable(s) /\ \E r \in State(s).requests : r.id = id)
    ~> ~(Readable(s) /\ \E r \in State(s).requests : r.id = id)
=============================================================================
