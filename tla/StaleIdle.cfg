SPECIFICATION Spec
CONSTANTS
    None = None
    Buffers = 2
    FramesInFlight = 2
    LateAfterIdle = TRUE
INVARIANT
    CopyTargetsAlive
