SPECIFICATION FairSpec
CONSTANTS
  g = g
  h = h
  tm = tm
  t = t
  p = p
  r = r
  NoOne = NoOne
  Threads = {g, h}
  Makes <- MCMakes
  Timers = {tm}
  NoTimer = NoOne
  Tasks = {t}
  Periods = {"once", "rate", "delay"}
  Period = 1
  Offsets = {0, 1}
  MaxTime = 1
  Players = {p}
  NoPlayer = NoOne
  Callbacks = {r}
  MaxQueue = 2
  MaxCalls = 2
  MaxFaults = 1
INVARIANTS CancelledStaysCancelled OneWorker
CHECK_DEADLOCK FALSE
PROPERTIES EventsAreServed EndsAreHeard ShutdownEnds
