----------------------------- MODULE MediaEvents -----------------------------
(***************************************************************************)
(* MediaEventService, and what it needs of the players of MediaService:    *)
(* a player that plays must be polled to learn that its media are over;    *)
(* players that do not play cost nothing.  The event worker polls and      *)
(* tells the listeners; EmulationEvents composes it with these operations. *)
(*                                                                         *)
(* An event is the player it is about: synchronize reports the end of the  *)
(* media or an error, and both stop the player.                            *)
(***************************************************************************)
EXTENDS Integers, Sequences

CONSTANTS
  Players,
  NoPlayer  \* no player

ASSUME PlayersAssumption == NoPlayer \notin Players

VARIABLES
  registered,    \* players_
  pollRequested, \* poll_requested_
  continuous,    \* continuous_poll_
  pollDue,       \* next_poll_deadline_ has come
  pending,       \* pending_
  mediaDown,     \* MediaEventService::shutting_down_
  todo,          \* the players poll_players has still to visit
  needed,        \* its needs_continuous_poll
  telling,       \* the player whose listeners are called
  state,         \* of a player: stopped, started or closed
  over,          \* the started players whose media are over
  suspended,     \* MediaService::suspended_
  missed         \* the players whose end need not be heard of, see EndsAreHeard

eventVars == <<registered, pollRequested, continuous, pollDue, pending, mediaDown>>
pollVars == <<todo, needed, telling>>
playerVars == <<state, over, suspended>>
mediaVars == <<eventVars, pollVars, playerVars, missed>>

MediaInit(ps) ==
  /\ registered = ps /\ pollRequested = (ps # {}) /\ continuous = FALSE /\ pollDue = FALSE
  /\ pending = <<>> /\ mediaDown = FALSE
  /\ todo = {} /\ needed = FALSE /\ telling = NoPlayer
  /\ state = [p \in Players |-> "stopped"] /\ over = {} /\ suspended = FALSE
  /\ missed = {}
-----------------------------------------------------------------------------
(* The calls of Java threads, of the runtime, and what the media do.       *)

Register(p) ==
  /\ p \notin registered /\ state[p] # "closed" /\ ~mediaDown
  /\ registered' = registered \cup {p} /\ pollRequested' = TRUE
  /\ UNCHANGED <<continuous, pollDue, pending, mediaDown, pollVars, playerVars, missed>>

\* The worker could not be started: the player is taken out and closed.
Unregister(p) ==
  /\ registered' = registered \ {p}
  /\ state' = [state EXCEPT ![p] = "closed"] /\ over' = over \ {p}
  /\ UNCHANGED <<pollRequested, continuous, pollDue, pending, mediaDown, pollVars, suspended, missed>>

\* Player.start and Player.stop.  The listeners are told, and the request for a
\* poll follows; when they cannot be told (told = FALSE) nobody asks for one.  A
\* start of what is started tells nobody, and the request follows.
Play(p, told) ==
  /\ p \in registered /\ state[p] # "closed" /\ (told \/ state[p] = "stopped")
  /\ state' = [state EXCEPT ![p] = "started"]
  /\ missed' = IF told THEN missed \ {p} ELSE missed \cup {p}
  /\ UNCHANGED <<eventVars, pollVars, over, suspended>>

Stop(p) ==
  /\ p \in registered /\ state[p] = "started"
  /\ state' = [state EXCEPT ![p] = "stopped"]
  /\ over' = over \ {p} /\ missed' = missed \cup {p}
  /\ UNCHANGED <<eventVars, pollVars, suspended>>

\* Player.getState, getMediaTime and getDuration synchronize the player, too,
\* and drop the event.
Look(p) ==
  /\ p \in registered /\ state[p] = "started" /\ p \in over /\ ~suspended
  /\ state' = [state EXCEPT ![p] = "stopped"]
  /\ over' = over \ {p} /\ missed' = missed \cup {p}
  /\ UNCHANGED <<eventVars, pollVars, suspended>>

\* MediaEventService::wake
RequestPoll ==
  /\ pollRequested' = (pollRequested \/ ~mediaDown)
  /\ UNCHANGED <<registered, continuous, pollDue, pending, mediaDown, pollVars, playerVars, missed>>

\* Player.close, and unregister_player
Close(p) ==
  /\ p \in registered /\ state[p] # "closed"
  /\ state' = [state EXCEPT ![p] = "closed"] /\ over' = over \ {p}
  /\ registered' = registered \ {p} /\ pollRequested' = TRUE
  /\ missed' = missed \cup {p}
  /\ UNCHANGED <<continuous, pollDue, pending, mediaDown, pollVars, suspended>>

\* The runtime pauses and resumes the media of an application.  Nobody asks for
\* a poll afterwards: the end of what plays on may not be heard of.
Suspend ==
  /\ ~suspended /\ suspended' = TRUE
  /\ missed' = missed \cup {p \in Players : state[p] = "started"}
  /\ UNCHANGED <<eventVars, pollVars, state, over>>

Resume ==
  /\ suspended /\ suspended' = FALSE
  /\ missed' = missed \cup {p \in Players : state[p] = "started"}
  /\ UNCHANGED <<eventVars, pollVars, state, over>>

MediaEnd(p) ==
  /\ state[p] = "started" /\ ~suspended /\ p \notin over
  /\ over' = over \cup {p}
  /\ UNCHANGED <<eventVars, pollVars, state, suspended, missed>>

\* kPollInterval has passed since the last poll.
PollDeadline ==
  /\ continuous /\ ~pollDue /\ pollDue' = TRUE
  /\ UNCHANGED <<registered, pollRequested, continuous, pending, mediaDown, pollVars, playerVars, missed>>

MediaShutdown ==
  /\ registered' = {} /\ pending' = <<>> /\ pollRequested' = TRUE
  /\ continuous' = FALSE /\ mediaDown' = TRUE
  /\ UNCHANGED <<pollDue, pollVars, playerVars, missed>>
-----------------------------------------------------------------------------
(* The calls of the event worker: pump_due.                                *)

ShouldPoll == ~mediaDown /\ (pollRequested \/ (continuous /\ pollDue))

BeginPoll ==
  /\ ShouldPoll /\ pollRequested' = FALSE
  /\ UNCHANGED <<registered, continuous, pollDue, pending, mediaDown, pollVars, playerVars, missed>>

CopyPlayers ==
  /\ todo' = registered /\ needed' = FALSE
  /\ UNCHANGED <<eventVars, telling, playerVars, missed>>

\* One player of the copy: its event, if any, is queued; then it is asked
\* whether it needs to be polled.  (Each is a short section of the mutex of
\* MediaService; what starts in between asks for a poll itself.)  The event is
\* dropped when its player cannot be pinned (pinned = FALSE).
PollPlayer(p, pinned) ==
  LET ends == state[p] = "started" /\ p \in over /\ ~suspended
  IN /\ p \in todo /\ todo' = todo \ {p} /\ (pinned \/ ends)
     /\ pending' = IF ends /\ ~mediaDown /\ pinned THEN Append(pending, p) ELSE pending
     /\ missed' = missed \cup (IF pinned THEN {} ELSE {p})
     /\ state' = IF ends THEN [state EXCEPT ![p] = "stopped"] ELSE state
     /\ over' = over \ (IF ends THEN {p} ELSE {})
     /\ needed' = (needed \/ (state'[p] = "started" /\ ~suspended))
     /\ UNCHANGED <<registered, pollRequested, continuous, pollDue, mediaDown, telling, suspended>>

\* The object of the player was collected: the player is closed.
PollCollected(p) ==
  /\ p \in todo /\ todo' = todo \ {p}
  /\ state' = [state EXCEPT ![p] = "closed"] /\ over' = over \ {p}
  /\ registered' = registered \ {p} /\ pollRequested' = TRUE
  /\ missed' = missed \cup {p}
  /\ UNCHANGED <<continuous, pollDue, pending, mediaDown, needed, telling, suspended>>

\* wrong: a request made meanwhile is taken for the one just served
EndPollServed ==
  /\ todo = {} /\ pollRequested' = FALSE
  /\ continuous' = needed /\ pollDue' = FALSE
  /\ needed' = FALSE
  /\ UNCHANGED <<registered, pending, mediaDown, todo, telling, playerVars, missed>>

EndPoll ==
  /\ todo = {}
  /\ continuous' = needed /\ pollDue' = FALSE
  /\ needed' = FALSE
  /\ UNCHANGED <<registered, pollRequested, pending, mediaDown, todo, telling, playerVars, missed>>

Deliver ==
  /\ ~mediaDown /\ pending # <<>>
  /\ telling' = Head(pending) /\ pending' = Tail(pending)
  /\ UNCHANGED <<registered, pollRequested, continuous, pollDue, mediaDown, todo, needed, playerVars, missed>>

\* The listeners cannot be told: the event is dropped.
Drop ==
  /\ ~mediaDown /\ pending # <<>> /\ pending' = Tail(pending)
  /\ missed' = missed \cup {Head(pending)}
  /\ UNCHANGED <<registered, pollRequested, continuous, pollDue, mediaDown, pollVars, playerVars>>

Delivered ==
  /\ telling' = NoPlayer /\ UNCHANGED <<eventVars, todo, needed, playerVars, missed>>

\* MediaEventService::time_until_next_event: nothing, what is long due, or the
\* deadline of the next poll.
Deadline == -1
NextMedia ==
  IF mediaDown THEN {}
  ELSE IF pending # <<>> \/ pollRequested THEN {0}
  ELSE IF continuous THEN {Deadline} ELSE {}
-----------------------------------------------------------------------------
MediaTypeOK ==
  /\ registered \subseteq Players /\ todo \subseteq Players /\ over \subseteq Players
  /\ {pollRequested, continuous, mediaDown, needed, suspended} \subseteq BOOLEAN
  /\ pollDue \in BOOLEAN /\ pending \in Seq(Players) /\ telling \in Players \cup {NoPlayer}
  /\ state \in [Players -> {"stopped", "started", "closed"}] /\ missed \subseteq Players
=============================================================================
