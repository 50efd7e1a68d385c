SPECIFICATION FairGpuSpec
CONSTANTS
    tiled = tiled
    global = global
    t1 = t1
    t2 = t2
    Maps = {tiled, global}
    GlobalMaps = {global}
    Tiles = {t1, t2}
    None = None
    MaxOwners = 1
    MaxBatches = 2
INVARIANTS
    NoRetiredGeneration
    GpuFollowsCpu
    StorageOutlivesUse
PROPERTIES
    TerrainFollows
CHECK_DEADLOCK FALSE
