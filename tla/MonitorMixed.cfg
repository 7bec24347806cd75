SPECIFICATION Spec
CONSTANTS
  t1 = t1
  t2 = t2
  t3 = t3
  o1 = o1
  NoThread = NoThread
  Threads = {t1, t2, t3}
  Fibers = {t2, t3}
  Objects = {o1}
  MaxRecursion = 1
  CanvasBridge = TRUE
SYMMETRY FiberSymmetry
CHECK_DEADLOCK FALSE
INVARIANTS QueuesMatchThreads NoSleepThroughWake
PROPERTY HandedToHead
