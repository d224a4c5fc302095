SPECIFICATION FairSpec
CONSTANTS
    MaxFrameLen = 2
    ChunkLen = 7
    FrameLens = {0, 2, 3, 12}
    MaxFrames = 2
    MaxConns = 2
INVARIANTS
    FramesIntact
    BufferBounded
PROPERTIES
    FramesDelivered
CHECK_DEADLOCK FALSE
