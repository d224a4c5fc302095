SPECIFICATION FirmSpec
CONSTANTS
    MaxJobs = 2
    PtrSpace = 8
    UsizeWraps = TRUE
    Ptrs = {0, 7}
    Lens = {0, 2, 5}
    MemSizes = {0, 5}
    Board <- MCBoard
    Ids = {0, 1}
    Duties = {3, 7}
    FullDuty = 5
    MaxDuty = 3
    MaxFuel = 2
    MaxRuns = 2
    More = 4
    MaxGroups = 3
    U32 = 32
    Alphabet <- MCAlphabet
    Uploads <- MCUploads
    Runnable <- MCRunnable
INVARIANTS
    AnsweredBeforeNextFrame
    AccessesInBounds
    LogsAreOwn
    VerdictIsRight
    HardwareInOnePlace
PROPERTIES
    LoadEnds
CHECK_DEADLOCK FALSE
