SPECIFICATION Spec
CONSTANTS
    MaxJobs = 2
    MaxFuel = 0
    Workloads <- TwoSwaps
INVARIANTS
    FailureStaysLocal
