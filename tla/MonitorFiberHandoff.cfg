SPECIFICATION FairSpec
CONSTANTS
  t1 = t1
  t2 = t2
  o1 = o1
  NoThread = NoThread
  Threads = {t1, t2}
  Fibers = {t1, t2}
  Objects = {o1}
  MaxRecursion = 1
  CanvasBridge = FALSE
CHECK_DEADLOCK FALSE
PROPERTY FreedMonitorIsTaken
