SPECIFICATION FairSpec
CONSTANTS
    MaxJobs = 3
    MaxFuel = 0
    Workloads <- MCWorkloads
INVARIANTS
    StatusReplyCoherent
    WireOrder
    OnlyTrustedModulesRun
PROPERTIES
    StopOnlyOnRequest
    EveryLoadAnswered
    FramesServed
