SPECIFICATION Spec
CONSTANTS
    None = None
    Buffers = 2
    FramesInFlight = 2
    LateAfterIdle = FALSE
INVARIANTS
    CopyTargetsAlive
    ImagesFresh
PROPERTIES
    CapturesEnd
