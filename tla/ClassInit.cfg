SPECIFICATION CFairSpec
CONSTANTS
  main = main
  t1 = t1
  A = A
  B = B
  Threads = {main, t1}
  Main = main
  Host = Host
  NoThread = NoThread
  Classes = {A, B}
  Supers <- BExtendsA
  NoClass = NoClass
  Fibers = {t1}
  NoFiber = NoFiber
  Wakers = {main, t1, Host}
  Reasons = {"waiting"}
  MaxQueue = 3
CHECK_DEADLOCK FALSE
INVARIANTS OwnersInitialize
PROPERTIES InitializedOnce WaitersLeave
