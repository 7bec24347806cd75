SPECIFICATION FairSpec
CONSTANTS
  w1 = w1
  w2 = w2
  m1 = m1
  m2 = m2
  s1 = s1
  s2 = s2
  Compilers = {w1, w2}
  Machines <- MCMachines
  MaxHelpers = 2
  MaxItems = 3
  Chunks = {1, 2}
  Methods = {m1, m2}
  Sources = {s1, s2}
  NoSource = NoSource
  Sizes = {1, 2}
  Unavailable = Unavailable
  Rejected = Rejected
  Limit = 1
  MaxTasks = 1
INVARIANT CacheAccounted
PROPERTIES
  ImplementsParallelLoop
  CompilesArrive
