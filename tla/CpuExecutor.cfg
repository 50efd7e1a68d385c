SPECIFICATION FairSpec
CONSTANTS
    t1 = t1
    t2 = t2
    t3 = t3
    t4 = t4
    Tasks <- MCTasks
    Speculative <- MCSpeculative
    Panics <- MCPanics
    MaxInFlight = 2
    WorkerCount = 2
    None = None
INVARIANTS
    SpeculativeLane
PROPERTIES
    ImplementsAdmission
    WaitsEnd
\* After shutdown every handle is joined or dropped and the program stops.
CHECK_DEADLOCK FALSE
