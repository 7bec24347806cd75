SPECIFICATION Spec
CONSTANTS
  a = a
  b = b
  v1 = v1
  v2 = v2
  NoSuite = NoSuite
  Absent = Absent
  Torn = Torn
  Suites = {a, b}
  Versions = {v1, v2}
  MaxCalls = 3
  MaxFaults = 2
  MaxCrashes = 1
SYMMETRY SuiteSymmetry
CHECK_DEADLOCK FALSE
INVARIANTS Durable MemoryOnDisk
