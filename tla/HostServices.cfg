SPECIFICATION HostFairSpec
CONSTANTS
  a = a
  b = b
  c = c
  push = push
  NoSuite = NoSuite
  Absent = Absent
  Torn = Torn
  Suites = {a, b}
  Served = {a}
  Connections = {c}
  Midlets = {push}
  MaxEntries = 1
  MaxAttempts = 3
  Lifetime = 2
  RetryDelay = 0
  Lease = 1
  MaxTime = 2
  AlarmTimes = {0, 1}
  MaxHosts = 2
  MaxId = 1
  MaxFaults = 1
  MaxCrashes = 1
  Texts = {a, b}
  MaxPrefetches = 1
  Configurations <- MCConfigurations
CHECK_DEADLOCK FALSE
INVARIANTS ConnectionsOwned LeaseExclusive RequestsAccounted
PROPERTIES AlarmsBecomeRequests RequestsLeave ImplementsTextTranslations
