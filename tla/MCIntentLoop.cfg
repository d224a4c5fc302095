SPECIFICATION Spec
CONSTANTS
  cli = cli
  m1 = m1
  m2 = m2
  Cli = cli
  Threads = {cli, m1, m2}
  ProcOf <- OneProcessEach
  Sources = {s1, s2, bad}
  Bad = {bad}
  MaxCaching = 1
  MaxCalls <- Calls
  MaxFaults = 1
  MaxClears = 1
  Retries = 2
  MaxRestarts = 1
  Workloads <- Alternatives
INVARIANTS OwnModule CacheHonest GoodSourceCompiles
PROPERTIES PushesLatestCode ReportIsOwn WorkEnds
CHECK_DEADLOCK FALSE
