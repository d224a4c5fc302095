SPECIFICATION FairSpec
CONSTANTS
    Settings <- AllSettings
    MaxCalls = 4
INVARIANTS
    ResultsKept
    StatusRepliesMatch
    SyncLoadReturnsOwn
    ResultsNotReordered
PROPERTIES
    CallsReturn
CHECK_DEADLOCK FALSE
