SPECIFICATION FairSpec
CONSTANTS
  t1 = t1
  t2 = t2
  o1 = o1
  NoThread = NoThread
  Threads = {t1, t2}
  Fibers = {}
  Objects = {o1}
  MaxRecursion = 2
  CanvasBridge = TRUE
CHECK_DEADLOCK FALSE
INVARIANT FramesMatchTable
PROPERTIES ImplementsObjectMonitor FreedMonitorIsTaken ShutdownUnblocks
