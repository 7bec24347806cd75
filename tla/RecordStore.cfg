SPECIFICATION FairSpec
CONSTANTS
  a = a
  b = b
  NoStore = NoStore
  Absent = Absent
  Torn = Torn
  Stores = {a, b}
  MaxGeneration = 2
  MaxOpens = 1
  MaxFaults = 2
  MaxCrashes = 1
CHECK_DEADLOCK FALSE
INVARIANTS Durable MemoryOnDisk
PROPERTY PendingIsFlushed
