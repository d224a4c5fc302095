SPECIFICATION ExecSpec
CONSTANTS
    MaxJobs = 3
    MaxFuel = 3
INVARIANTS
    HardwareConserved
    ResultsInSubmissionOrder
    AtMostOneLateSleep
PROPERTIES
    StopStays
    ImplementsContract
