SPECIFICATION GuestFairSpec
CONSTANTS
  main = main
  t1 = t1
  t2 = t2
  u1 = u1
  u2 = u2
  a = a
  b = b
  Threads = {main, t1}
  Main = main
  Objects = {t1}
  Program = {"start", "sleep", "join", "join_timed", "interrupt", "shutdown"}
  Fibers = {}
  NativeTasks = {}
  NoThread = NoThread
  NoFiber = NoFiber
  Host = Host
  Wakers = {main, t1, t2, Host}
  Reasons = {"sleeping", "joining"}
  MaxQueue = 3
  MaximumObjects = 1
  MaxGeneration = 1
  CacheSize = 1
  Null = Null
  JavaThreads = {u1}
  Nobody = Nobody
  Things = {a}
  Nothing = Nothing
  MaxCalls = 1
  MaxActive = 1
  Parts = {"threads"}
CHECK_DEADLOCK FALSE
INVARIANTS SleepsLast
PROPERTIES JoinersReturn ShutdownEnds
