SPECIFICATION RemoteSpec
CONSTANTS
    None = None
    Clock = 34
    Early = 1
    Late = 2
    Prime = 1
    SampleMax = 4
    Samples = 2
    Movements <- MCMovements
    Lags <- MCLags
    Start = 33
    MaxLag = 3
    MaxFrame = 1
    MaxQuiet = 2
    MaxEvents = 3
    MaxLives = 2
INVARIANTS
    Ordered
PROPERTIES
    TimelineForward
    NothingOverdue
