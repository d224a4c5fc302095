SPECIFICATION CompilerSpec
CONSTANTS
  Threads = {run, mcp}
  ProcOf <- OwnProcess
  Sources = {s1, s2}
  Bad = {}
  MaxCaching = 2
  MaxCalls <- Calls
  MaxFaults = 0
  MaxClears = 0
INVARIANT OwnModule
CHECK_DEADLOCK FALSE
