SPECIFICATION Spec
CONSTANTS
    MaxFrameLen = 2
    ChunkLen = 7
    FrameLens = {0, 2, 3}
    MaxFrames = 2
    MaxConns = 2
INVARIANTS
    ClientChecked
CHECK_DEADLOCK FALSE
