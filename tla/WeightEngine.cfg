SPECIFICATION Spec
CONSTANTS
    TileCases <- MCTileCases
    PoolWorkers = {3, 4}
    Callers = {1, 2}
    PoolLoops <- MCLoops
    Setups <- MCSetups
    Conns = {1, 2}
    MaxBatch = 2
    PushPlans <- MCPlans
    LayerCount = 2
    PushJobs <- MCJobs
    MaxIov = 3
INVARIANTS
    TilingExact
    FramesAlive
    WeightsOnDevice
    PushesExact
PROPERTIES
    EngineEnds
CHECK_DEADLOCK FALSE
