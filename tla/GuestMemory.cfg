SPECIFICATION GuestSpec
CONSTANTS
  main = main
  t1 = t1
  t2 = t2
  u1 = u1
  u2 = u2
  a = a
  b = b
  Threads = {main, t1, t2}
  Main = main
  Objects = {t1, t2}
  Program = {"start", "join", "join_timed", "shutdown"}
  Fibers = {t1}
  NativeTasks = {t2}
  NoThread = NoThread
  NoFiber = NoFiber
  Host = Host
  Wakers = {main, t1, t2, Host}
  Reasons = {"sleeping", "joining"}
  MaxQueue = 3
  MaximumObjects = 2
  MaxGeneration = 2
  CacheSize = 1
  Null = Null
  JavaThreads = {u1, u2}
  Nobody = Nobody
  Things = {a, b}
  Nothing = Nothing
  MaxCalls = 4
  MaxActive = 4
  Parts = {"threads", "heap", "roots"}
SYMMETRY GuestSymmetry
CHECK_DEADLOCK FALSE
INVARIANTS JoinsAreTrue EveryoneTold
PROPERTIES HeldSurvives ImplementsJavaHeap
