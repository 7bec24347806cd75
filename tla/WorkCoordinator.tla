--------------------------- MODULE WorkCoordinator ---------------------------
(***************************************************************************)
(* The budget of the process for native work: frame work counts itself,    *)
(* and background work is only begun when there is none and nothing else   *)
(* presses, by one worker at a time.  Every variable is an atomic, so      *)
(* try_begin_background_work is three steps.                               *)
(***************************************************************************)
EXTENDS Naturals

CONSTANTS
  Compilers, \* the workers that ask for background work
  Machines   \* what the process may run on, and what it runs

VARIABLES
  machine,        \* the one it is: it stays the same
  frameJobs,      \* active_frame_jobs_
  backgroundJobs, \* active_background_jobs_
  pressed,        \* thermal pressure is serious, or frame pressure is high
  admission       \* where a worker is in try_begin_background_work

workVars == <<machine, frameJobs, backgroundJobs, pressed, admission>>

WorkInit ==
  /\ machine \in Machines
  /\ frameJobs = 0 /\ backgroundJobs = 0 /\ pressed = FALSE
  /\ admission = [w \in Compilers |-> "none"]

BeginFrameWork == frameJobs' = frameJobs + 1
EndFrameWork == frameJobs' = IF frameJobs = 0 THEN 0 ELSE frameJobs - 1

\* The atomics are read one after another; the model reads them at once.
BackgroundWorkAllowed == frameJobs = 0 /\ ~pressed

Admit(w, where) == admission' = [admission EXCEPT ![w] = where]

\* try_begin_background_work: the permission, the token, the permission again.
AskPermission(w) ==
  /\ admission[w] = "none" /\ BackgroundWorkAllowed
  /\ Admit(w, "permitted") /\ UNCHANGED <<machine, frameJobs, backgroundJobs, pressed>>

TakeToken(w) ==
  /\ admission[w] = "permitted" /\ backgroundJobs = 0
  /\ backgroundJobs' = 1 /\ Admit(w, "taken") /\ UNCHANGED <<machine, frameJobs, pressed>>

TokenTaken(w) ==
  /\ admission[w] = "permitted" /\ backgroundJobs # 0
  /\ Admit(w, "none") /\ UNCHANGED <<machine, frameJobs, backgroundJobs, pressed>>

KeepToken(w) ==
  /\ admission[w] = "taken" /\ BackgroundWorkAllowed
  /\ Admit(w, "admitted") /\ UNCHANGED <<machine, frameJobs, backgroundJobs, pressed>>

\* A frame began, or the pressure rose, between the permission and the token.
NotReleased == backgroundJobs \* wrong: the token is kept
Released == 0
GiveBack(w) ==
  /\ admission[w] = "taken" /\ ~BackgroundWorkAllowed
  /\ backgroundJobs' = Released /\ Admit(w, "none") /\ UNCHANGED <<machine, frameJobs, pressed>>

EndBackgroundWork(w) ==
  /\ admission[w] = "admitted"
  /\ backgroundJobs' = 0 /\ Admit(w, "none") /\ UNCHANGED <<machine, frameJobs, pressed>>

\* note_frame_interval, set_thermal_pressure
Pressure == pressed' = ~pressed /\ UNCHANGED <<machine, frameJobs, backgroundJobs, admission>>
-----------------------------------------------------------------------------
WorkTypeOK ==
  /\ machine \in Machines /\ frameJobs \in Nat /\ backgroundJobs \in {0, 1} /\ pressed \in BOOLEAN
  /\ admission \in [Compilers -> {"none", "permitted", "taken", "admitted"}]

\* The worker that is at background work, or about to be, has the token, and no
\* other one has: it is not lost when a frame gets in between.
TokenHeld ==
  \A w \in Compilers :
    admission[w] \in {"taken", "admitted"} =>
      /\ backgroundJobs = 1
      /\ \A u \in Compilers \ {w} : admission[u] \notin {"taken", "admitted"}
=============================================================================
