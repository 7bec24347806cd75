SPECIFICATION FairSpec
CONSTANTS
  f1 = f1
  f2 = f2
  f3 = f3
  Fibers = {f1, f2}
  NoFiber = NoFiber
  Wakers = {w1}
  Reasons = {"joining", "sleeping"}
  MaxQueue = 4
CHECK_DEADLOCK FALSE
INVARIANTS RunnableInQueue CarrierAwake
PROPERTY ImplementsCooperativeFibers
