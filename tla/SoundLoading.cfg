SPECIFICATION FairSoundSpec
CONSTANTS
    None = None
    Paths = {sample, stream}
    Streamed = {stream}
    TrackCount = 1
    EffectLimit = 1
    MaxSamples = 0
    MaxLoads = 2
CHECK_DEADLOCK FALSE
INVARIANTS
    ReservationsServed
    VoicesAccounted
    OwnersHold
PROPERTIES
    LoadsEnd
