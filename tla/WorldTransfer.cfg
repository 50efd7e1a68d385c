SPECIFICATION FairTransferSpec
CONSTANTS
    tiled = tiled
    global = global
    t1 = t1
    Maps = {tiled, global}
    GlobalMaps = {global}
    Tiles = {t1}
    None = None
    MaxTransfers = 2
    MaxEntries = 1
    MaxFaults = 1
    EarlyTransfers = FALSE
INVARIANTS
    CallbacksAccounted
    CardHidesTransfer
PROPERTIES
    AckMeansDestination
    LoadingEnds
CHECK_DEADLOCK FALSE
