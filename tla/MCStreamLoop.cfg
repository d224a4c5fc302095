SPECIFICATION FairSpec
CONSTANTS
    Readers = {"pico", "stdio", "embedded"}
    MaxFrameLen = 3
    ChunkLen = 7
    Frames <- SomeFrames
    MaxSent = 3
INVARIANTS
    DispatchesAsSent
PROPERTIES
    EveryFrameAnswered
CHECK_DEADLOCK FALSE
